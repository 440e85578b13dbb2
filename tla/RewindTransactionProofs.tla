----------------------- MODULE RewindTransactionProofs -----------------------
(***************************************************************************)
(* Proofs about RewindTransaction: for any files, contents and bounds on   *)
(* transactions, turns, reopenings, crashes, failures and edits, what the  *)
(* manifests say can be relied upon.                                       *)
(*                                                                         *)
(* Sound, the invariant, ties the manifest on disk to the one in memory at *)
(* each step of an operation (Stages), orders an undo after what it undoes *)
(* (Ledger) and says what may be remembered for undo in between (Offers).  *)
(*                                                                         *)
(* A manifest is written as a whole.  The Views say which of its fields    *)
(* each such write changes, and the proofs about the steps use the Views.  *)
(*                                                                         *)
(* Whole, the second invariant, follows one transaction through its steps: *)
(* where its files and the conversation are at each of them (FilesPhase    *)
(* and ChatPhase) and what tells, after a failure or a crash, where they   *)
(* were (Pendings).  It holds while transactions and turns come one after  *)
(* the other (Orderly).                                                    *)
(*                                                                         *)
(* Traced, the third, follows the conversation alone, without that proviso *)
(* and until the first crash or reopening.                                 *)
(*                                                                         *)
(* Mending, the fourth, says that a recovery nothing disturbs finds in     *)
(* every file something it can put back, so that it leaves nothing behind. *)
(*                                                                         *)
(* Lined, the fifth, follows the session as a recovered process would see  *)
(* it.  It holds while operations follow one another and nobody edits from *)
(* outside (InSequence), and every step then is one of AtomicRewind's or   *)
(* does not show.                                                          *)
(***************************************************************************)
EXTENDS RewindTransaction, WellFoundedInduction, TLAPS

(* Least and greatest numbers. *)

Less == {ss \in Nat \X Nat : ss[1] < ss[2]}

\* The order of the numbers, as the library's theorem on least elements wants it.
LEMMA LessIsWellFounded == IsWellFoundedOn(Less, Nat)
<1>1. OpToRel(<, Nat) = Less
  BY Zenon DEF OpToRel, Less
<1> QED
  BY <1>1, Zenon, NatLessThanWellFounded

\* A set of numbers has a least one, and Least returns it.
LEMMA LeastIsLeast ==
  ASSUME NEW S \in SUBSET Nat, S # {}
  PROVE  Least(S) \in S /\ \A y \in S : Least(S) <= y
<1>1. PICK m \in S : \A y \in S : ~(<<y, m>> \in Less)
  BY LessIsWellFounded, WFMin
<1>2. ASSUME NEW y \in S PROVE m <= y
  <2>1. y \in Nat /\ m \in Nat /\ ~(<<y, m>> \in Less)
    BY <1>1
  <2>2. ~(y < m)
    BY <2>1 DEF Less
  <2> QED
    BY <2>1, <2>2
<1> QED
  BY <1>2 DEF Least

\* A set of numbers up to n has a greatest one, and Greatest returns it.
LEMMA GreatestIsGreatest ==
  ASSUME NEW n \in Nat, NEW S \in SUBSET (0 .. n), S # {}
  PROVE  Greatest(S) \in S /\ \A y \in S : y <= Greatest(S)
<1> DEFINE T == {n - x : x \in S}
<1>1. T \in SUBSET Nat /\ T # {}
  <2>1. ASSUME NEW x \in S PROVE n - x \in Nat
    <3>1. x \in 0 .. n
      OBVIOUS
    <3> QED
      BY <3>1
  <2> QED
    BY <2>1
<1>2. PICK m \in T : \A y \in T : m <= y
  <2> HIDE DEF T
  <2> QED
    BY <1>1, LeastIsLeast
<1>3. PICK x \in S : m = n - x
  BY <1>2
<1>4. \A y \in S : y <= x
  BY <1>2, <1>3
<1> QED
  BY <1>4 DEF Greatest

\* The next file of a loop is one that it has left.
LEMMA NextFile ==
  ASSUME NEW S \in SUBSET Files, S # {}
  PROVE  Least(S) \in S /\ Greatest(S) \in S
<1>1. S \in SUBSET Nat /\ S \in SUBSET (0 .. NFiles) /\ NFiles \in Nat
  BY RewindAssumption DEF Files
<1> QED
  BY <1>1, LeastIsLeast, GreatestIsGreatest

--------
(* Types.  After n turns a conversation has at most n messages, whose serial *)
(* numbers are at most n, and checkpoints are numbered below n.              *)

ImageMaps == UNION {[D -> Images] : D \in SUBSET Files}

Chats(n) == {c \in Seq(1..n) : Len(c) <= n}

Points(n) ==
    {p \in [serial : 1..n, msgIndex : 0..n, pre : ImageMaps, after : ImageMaps] :
        DOMAIN p.after = DOMAIN p.pre}
Turns(n) == {t \in Nat : t < n}
PointMaps(n) == UNION {[D -> Points(n)] : D \in SUBSET Turns(n)}

ManifestFields ==
    { "state", "kind", "scope", "from", "boundary", "targets", "restore", "forward", "published",
      "hasConv", "fwdConv", "backup", "parent" }

States == {"none", "prepared", "committing", "committed", "aborted", "undone"}

IsManifest(m, n) ==
    /\ DOMAIN m = ManifestFields
    /\ m.state \in States
    /\ m.kind \in {"rewind", "undo", "file_revert"} /\ m.scope \subseteq {"files", "conv"}
    /\ m.from \in 0..n /\ m.boundary \in 0..n
    /\ m.targets \subseteq Files /\ m.published \subseteq m.targets
    /\ m.restore \in [m.targets -> Images] /\ m.forward \in [m.targets -> Images]
    /\ m.hasConv \in {"yes", "no"} /\ m.fwdConv \in Chats(n)
    /\ m.backup \in PointMaps(n) /\ m.parent \in TxIds \cup {NoTx}

Types ==
    /\ disk \in [Files -> Images]
    /\ tmp \subseteq TxIds \X Files
    /\ bak \in [TxIds -> [Files -> Images]]
    /\ serial \in 0..MaxTurns
    /\ DOMAIN manifest = TxIds /\ \A t \in TxIds : IsManifest(manifest[t], serial)
    /\ conv \in Chats(serial) /\ ckpts \in PointMaps(serial) /\ turn \in 0..serial
    /\ lastUndo \in TxIds \cup {NoTx} /\ cur \in TxIds \cup {NoTx}
    /\ pc \in Steps /\ IsManifest(tx, serial) /\ todo \subseteq tx.targets
    /\ failed \subseteq {"state", "files"}
    /\ pass \in 0..2 /\ queue \subseteq TxIds
    /\ edited \subseteq Files
    /\ nextTx \in 1..(MaxTx + 1)

\* The step and what the operation knows.
Preparing == {"stage", "prepare", "prepareAgain", "attach", "begin"}
Publishing == {"intent", "backup", "install", "progress"}
Switching == {"cutConv", "cutCkpts", "restoreConv", "restoreCkpts", "finish"}
Returning == {"backConv", "backCkpts", "backDone", "compensate", "reinstate", "settle"}

\* The manifest of the transaction is not on disk yet.
Unsaved == pc = "prepare" \/ (pc = "stage" /\ tx.kind # "undo")

Stages ==
    /\ cur = NoTx <=> pc \in {"idle", "scan", "down"}
    /\ cur = NoTx => tx = EmptyManifest /\ todo = {} /\ failed = {}
    /\ pc \notin Returning \cup {"scan"} => pass = 0
    /\ pc = "scan" => pass # 0
    /\ cur # NoTx /\ pass = 0 => nextTx = cur + 1
    /\ Unsaved => manifest[cur] = EmptyManifest
    /\ cur # NoTx /\ ~Unsaved => manifest[cur] = tx
    /\ pc \in Preparing => tx.state = "prepared" /\ tx.published = {} /\ failed = {}
    /\ pc \in Publishing \cup Switching => tx.state = "committing"
    /\ pc \in Returning => tx.state \in {"prepared", "committing"}
    /\ pc = "markUndone" => tx.state = "committed" /\ tx.kind = "undo"
    /\ pc = "prepareAgain" => tx.kind = "undo"
    /\ pc \in {"backup", "install", "progress"} => todo # {} /\ Least(todo) \in tx.published
    /\ pc = "reinstate" => todo # {}

\* Transactions are numbered as they begin, and an undo comes after what it undoes.
Ledger ==
    /\ \A t \in TxIds :
        /\ manifest[t].state = "none" => manifest[t] = EmptyManifest
        /\ manifest[t].state # "none" => t < nextTx
        /\ manifest[t].kind = "undo" => manifest[t].parent \in TxIds /\ manifest[t].parent < t
    /\ cur # NoTx /\ tx.kind = "undo" =>
        /\ tx.parent \in TxIds /\ tx.parent < cur
        /\ pass = 0 => lastUndo = tx.parent

\* What is remembered for undo can be undone, but for the moment between the
\* commit of its undo and the mark.
Offers ==
    lastUndo # NoTx =>
        /\ manifest[lastUndo].state = "committed" /\ manifest[lastUndo].kind # "undo"
        /\ Reverted(lastUndo) => pc = "markUndone"

Sound == Types /\ Stages /\ Ledger /\ Offers /\ IntentIsDurable

--------
(* Views. *)

\* One message, and cutting, keep a conversation one.
LEMMA ChatFacts ==
  ASSUME NEW n \in Nat
  PROVE  /\ << >> \in Chats(n)
         /\ \A c \in Chats(n) : c \in Seq(1..n) /\ Len(c) \in 0..n
         /\ \A c \in Chats(n) : c \in Chats(n + 1) /\ Append(c, n + 1) \in Chats(n + 1)
         /\ \A c \in Chats(n), b \in Nat : b <= Len(c) => Cut(c, b) \in Chats(n)
<1>1. << >> \in Chats(n)
  BY DEF Chats
<1>2. ASSUME NEW c \in Chats(n) PROVE c \in Seq(1..n) /\ Len(c) \in 0..n
  BY DEF Chats
<1>3. ASSUME NEW c \in Chats(n) PROVE c \in Chats(n + 1) /\ Append(c, n + 1) \in Chats(n + 1)
  <2>1. c \in Seq(1..n) /\ Len(c) \in Nat /\ Len(c) <= n
    BY <1>2
  <2>2. \A i \in 1..Len(c) : c[i] \in 1..(n + 1)
    BY <2>1
  <2>3. c \in Seq(1..(n + 1))
    BY <2>1, <2>2
  <2>4. Append(c, n + 1) \in Seq(1..(n + 1)) /\ Len(Append(c, n + 1)) = Len(c) + 1
    BY <2>3
  <2> QED
    BY <2>1, <2>3, <2>4 DEF Chats
<1>4. ASSUME NEW c \in Chats(n), NEW b \in Nat, b <= Len(c) PROVE Cut(c, b) \in Chats(n)
  <2>1. c \in Seq(1..n) /\ Len(c) \in Nat /\ Len(c) <= n
    BY <1>2
  <2>2. Cut(c, b) \in Seq(1..n) /\ Len(Cut(c, b)) = b
    BY <1>4, <2>1 DEF Cut
  <2> QED
    BY <1>4, <2>1, <2>2 DEF Chats
<1> QED
  BY <1>1, <1>2, <1>3, <1>4

\* Checkpoints, cut or merged, are checkpoints, and the next turn's number follows them.
LEMMA PointFacts ==
  ASSUME NEW n \in Nat
  PROVE  /\ << >> \in PointMaps(n)
         /\ \A c \in PointMaps(n) : c \in PointMaps(n + 1)
         /\ \A c \in PointMaps(n) : \A t \in DOMAIN c : t \in Nat /\ t < n /\ c[t] \in Points(n)
         /\ \A c \in PointMaps(n), k \in Nat : From(c, k) \in PointMaps(n) /\ Before(c, k) \in PointMaps(n)
         /\ \A c, d \in PointMaps(n) : Merge(c, d) \in PointMaps(n)
         /\ \A c \in PointMaps(n) : NextTurn(c) \in 0..n
<1>1. << >> \in PointMaps(n)
  <2>1. << >> \in [{} -> Points(n)]
    OBVIOUS
  <2> QED
    BY <2>1 DEF PointMaps
<1>2. ASSUME NEW c \in PointMaps(n)
      PROVE  DOMAIN c \subseteq Turns(n) /\ c \in [DOMAIN c -> Points(n)]
  BY DEF PointMaps
<1>3. Points(n) \subseteq Points(n + 1) /\ Turns(n) \subseteq Turns(n + 1)
  <2>1. ASSUME NEW p \in Points(n) PROVE p \in Points(n + 1)
    <3>1. /\ p \in [serial : 1..n, msgIndex : 0..n, pre : ImageMaps, after : ImageMaps]
          /\ DOMAIN p.after = DOMAIN p.pre
      BY DEF Points
    <3>2. 1..n \subseteq 1..(n + 1) /\ 0..n \subseteq 0..(n + 1)
      OBVIOUS
    <3>3. p \in [serial : 1..(n + 1), msgIndex : 0..(n + 1), pre : ImageMaps, after : ImageMaps]
      BY <3>1, <3>2
    <3> QED
      BY <3>1, <3>3 DEF Points
  <2> QED
    BY <2>1 DEF Turns
<1>4. ASSUME NEW c \in PointMaps(n) PROVE c \in PointMaps(n + 1)
  <2>1. c \in [DOMAIN c -> Points(n + 1)] /\ DOMAIN c \in SUBSET Turns(n + 1)
    BY <1>2, <1>3
  <2> QED
    BY <2>1 DEF PointMaps
<1>5. ASSUME NEW c \in PointMaps(n), NEW k \in Nat
      PROVE  From(c, k) \in PointMaps(n) /\ Before(c, k) \in PointMaps(n)
  <2>1. DOMAIN c \subseteq Turns(n) /\ \A t \in DOMAIN c : c[t] \in Points(n)
    BY <1>2
  <2>2. From(c, k) \in [{u \in DOMAIN c : u >= k} -> Points(n)]
    BY <2>1 DEF From
  <2>3. Before(c, k) \in [{u \in DOMAIN c : u < k} -> Points(n)]
    BY <2>1 DEF Before
  <2>4. {u \in DOMAIN c : u >= k} \in SUBSET Turns(n) /\ {u \in DOMAIN c : u < k} \in SUBSET Turns(n)
    BY <2>1
  <2> QED
    BY <2>2, <2>3, <2>4 DEF PointMaps
<1>6. ASSUME NEW c \in PointMaps(n), NEW d \in PointMaps(n) PROVE Merge(c, d) \in PointMaps(n)
  <2>1. /\ DOMAIN c \subseteq Turns(n) /\ \A t \in DOMAIN c : c[t] \in Points(n)
        /\ DOMAIN d \subseteq Turns(n) /\ \A t \in DOMAIN d : d[t] \in Points(n)
    BY <1>2
  <2>2. Merge(c, d) \in [DOMAIN c \cup DOMAIN d -> Points(n)]
    BY <2>1 DEF Merge
  <2>3. DOMAIN c \cup DOMAIN d \in SUBSET Turns(n)
    BY <2>1
  <2> QED
    BY <2>2, <2>3 DEF PointMaps
<1>7. ASSUME NEW c \in PointMaps(n) PROVE NextTurn(c) \in 0..n
  <2>1. DOMAIN c \in SUBSET (0..n) /\ \A t \in DOMAIN c : t \in Nat /\ t < n
    BY <1>2 DEF Turns
  <2>2. DOMAIN c # {} => Greatest(DOMAIN c) \in DOMAIN c
    BY <2>1, GreatestIsGreatest
  <2> QED
    BY <2>1, <2>2 DEF NextTurn
<1> QED
  BY <1>1, <1>2, <1>4, <1>5, <1>6, <1>7 DEF Turns

\* A manifest stays one with the turns.
LEMMA ManifestLater ==
  ASSUME NEW n \in Nat, NEW m, IsManifest(m, n)
  PROVE  IsManifest(m, n + 1)
<1>1. m.from \in 0..(n + 1) /\ m.boundary \in 0..(n + 1)
  BY DEF IsManifest
<1>2. m.fwdConv \in Chats(n + 1) /\ m.backup \in PointMaps(n + 1)
  BY ChatFacts, PointFacts DEF IsManifest
<1> QED
  BY <1>1, <1>2 DEF IsManifest

\* The manifest m with another state, other intents.
SetState(m, s) == [m EXCEPT !.state = s]
SetPublished(m, S) == [m EXCEPT !.published = S]

\* The fields that never change once the operation has begun.
SamePlan(m, p) ==
    /\ p.kind = m.kind /\ p.scope = m.scope /\ p.from = m.from /\ p.boundary = m.boundary
    /\ p.targets = m.targets /\ p.restore = m.restore /\ p.forward = m.forward
    /\ p.backup = m.backup /\ p.parent = m.parent
SameForward(m, p) == p.hasConv = m.hasConv /\ p.fwdConv = m.fwdConv

LEMMA StateView ==
  ASSUME NEW n, NEW m, IsManifest(m, n), NEW s, s \in States
  PROVE  /\ IsManifest(SetState(m, s), n) /\ SetState(m, s).state = s
         /\ SetState(m, s).published = m.published
         /\ SamePlan(m, SetState(m, s)) /\ SameForward(m, SetState(m, s))
<1> PICK p : p = [m EXCEPT !.state = s]
  OBVIOUS
<1>1. DOMAIN p = ManifestFields /\ p.state = s
  BY DEF IsManifest, ManifestFields
<1>2. SamePlan(m, p) /\ SameForward(m, p) /\ p.published = m.published
  BY DEF IsManifest, ManifestFields, SamePlan, SameForward
<1>3. IsManifest(p, n)
  BY <1>1, <1>2 DEF IsManifest, SamePlan, SameForward
<1> QED
  BY <1>1, <1>2, <1>3 DEF SetState

LEMMA PublishedView ==
  ASSUME NEW n, NEW m, IsManifest(m, n), NEW S, S \subseteq m.targets
  PROVE  /\ IsManifest(SetPublished(m, S), n) /\ SetPublished(m, S).published = S
         /\ SetPublished(m, S).state = m.state
         /\ SamePlan(m, SetPublished(m, S)) /\ SameForward(m, SetPublished(m, S))
<1> PICK p : p = [m EXCEPT !.published = S]
  OBVIOUS
<1>1. DOMAIN p = ManifestFields /\ p.published = S
  BY DEF IsManifest, ManifestFields
<1>2. SamePlan(m, p) /\ SameForward(m, p) /\ p.state = m.state
  BY DEF IsManifest, ManifestFields, SamePlan, SameForward
<1>3. IsManifest(p, n)
  BY <1>1, <1>2 DEF IsManifest, SamePlan, SameForward
<1> QED
  BY <1>1, <1>2, <1>3 DEF SetPublished

LEMMA ForwardView ==
  ASSUME NEW n, NEW m, IsManifest(m, n), NEW c, c \in Chats(n)
  PROVE  /\ IsManifest(WithForward(m, c), n)
         /\ WithForward(m, c).hasConv = "yes" /\ WithForward(m, c).fwdConv = c
         /\ WithForward(m, c).state = m.state /\ WithForward(m, c).published = m.published
         /\ SamePlan(m, WithForward(m, c))
<1> PICK q : q = [m EXCEPT !.hasConv = "yes"]
  OBVIOUS
<1>1. DOMAIN q = ManifestFields /\ q.hasConv = "yes"
  BY DEF IsManifest, ManifestFields
<1>2. SamePlan(m, q) /\ q.state = m.state /\ q.published = m.published
  BY DEF IsManifest, ManifestFields, SamePlan
<1> PICK p : p = [q EXCEPT !.fwdConv = c]
  OBVIOUS
<1>3. DOMAIN p = ManifestFields /\ p.hasConv = "yes" /\ p.fwdConv = c
  BY <1>1 DEF ManifestFields
<1>4. SamePlan(m, p) /\ p.state = m.state /\ p.published = m.published
  BY <1>1, <1>2 DEF ManifestFields, SamePlan
<1>5. IsManifest(p, n)
  BY <1>3, <1>4 DEF IsManifest, SamePlan
<1> QED
  BY <1>3, <1>4, <1>5 DEF WithForward

LEMMA EmptyView ==
  ASSUME NEW n \in Nat
  PROVE  /\ IsManifest(EmptyManifest, n)
         /\ EmptyManifest.state = "none" /\ EmptyManifest.kind = "rewind"
         /\ EmptyManifest.published = {} /\ EmptyManifest.targets = {}
<1>1. << >> \in Chats(n) /\ << >> \in PointMaps(n)
  BY ChatFacts, PointFacts
<1>2. << >> \in [{} -> Images]
  OBVIOUS
<1> PICK e : e = EmptyManifest
  OBVIOUS
<1>3. DOMAIN e = ManifestFields
  BY DEF EmptyManifest, ManifestFields
<1>4. /\ e.state = "none" /\ e.kind = "rewind" /\ e.scope = {} /\ e.from = 0 /\ e.boundary = 0
      /\ e.targets = {} /\ e.restore = << >> /\ e.forward = << >> /\ e.published = {}
      /\ e.hasConv = "no" /\ e.fwdConv = << >> /\ e.backup = << >> /\ e.parent = NoTx
  BY DEF EmptyManifest, NoConv, NoBackup
<1>5. 0 \in 0..n
  OBVIOUS
<1> QED
  BY <1>1, <1>2, <1>3, <1>4, <1>5 DEF IsManifest, States

\* A new manifest takes its files from their images on disk.
IsNew(p, n) ==
    /\ DOMAIN p = ManifestFields
    /\ p.state = "prepared" /\ p.kind \in {"rewind", "file_revert"}
    /\ p.scope \subseteq {"files", "conv"} /\ p.from \in 0..n /\ p.boundary \in 0..n
    /\ p.restore \in ImageMaps /\ p.targets = DOMAIN p.restore
    /\ p.forward = [f \in p.targets |-> disk[f]] /\ p.published = {}
    /\ p.hasConv = "no" /\ p.fwdConv = << >> /\ p.backup \in PointMaps(n) /\ p.parent = NoTx

LEMMA NewView ==
  ASSUME NEW n \in Nat, disk \in [Files -> Images], NEW p, IsNew(p, n)
  PROVE  IsManifest(p, n)
<1>1. p.restore \in [p.targets -> Images] /\ p.targets \subseteq Files
  BY DEF ImageMaps, IsNew
<1>2. p.forward \in [p.targets -> Images]
  BY <1>1 DEF IsNew
<1>3. p.fwdConv \in Chats(n)
  BY ChatFacts DEF IsNew
<1> QED
  BY <1>1, <1>2, <1>3 DEF IsManifest, States, IsNew

LEMMA SwappedView ==
  ASSUME NEW n \in Nat, NEW t \in TxIds, IsManifest(manifest[t], n)
  PROVE  LET p == Swapped(t)
         IN  /\ IsManifest(p, n)
             /\ p.state = "prepared" /\ p.kind = "undo" /\ p.published = {} /\ p.parent = t
<1> PICK p, m : p = Swapped(t) /\ m = manifest[t]
  OBVIOUS
<1>1. DOMAIN p = ManifestFields
  BY DEF Swapped, ManifestFields
<1>2. /\ p.state = "prepared" /\ p.kind = "undo" /\ p.scope = m.scope /\ p.from = m.from
      /\ p.boundary = m.boundary /\ p.targets = m.targets /\ p.restore = m.forward
      /\ p.forward = m.restore /\ p.published = {} /\ p.hasConv = m.hasConv
      /\ p.fwdConv = m.fwdConv /\ p.backup = m.backup /\ p.parent = t
  BY DEF Swapped
<1> QED
  BY <1>1, <1>2 DEF IsManifest, States

--------
(* What steps leave alone. *)

\* Writing the manifest m of transaction u.
LEMMA Stored ==
  ASSUME Types, NEW u \in TxIds, NEW m, IsManifest(m, serial),
         manifest' = [manifest EXCEPT ![u] = m], serial' = serial
  PROVE  /\ DOMAIN manifest' = TxIds /\ \A t \in TxIds : IsManifest(manifest'[t], serial')
         /\ manifest'[u] = m /\ \A t \in TxIds : t # u => manifest'[t] = manifest[t]
<1>1. DOMAIN manifest' = TxIds /\ manifest'[u] = m
  BY DEF Types
<1>2. \A t \in TxIds : t # u => manifest'[t] = manifest[t]
  BY DEF Types
<1> QED
  BY <1>1, <1>2 DEF Types

\* An operation or a recovery under way has a transaction of its own.
LEMMA HasTransaction ==
  ASSUME Sound, pc \notin {"idle", "scan", "down"}
  PROVE  cur \in TxIds /\ cur # NoTx /\ cur < nextTx
<1>1. cur \in TxIds /\ cur # NoTx
  BY DEF Sound, Types, Stages
<1>2. cur \in Nat
  BY <1>1, RewindAssumption DEF TxIds
<1>3. CASE pass = 0
  BY <1>1, <1>2, <1>3 DEF Sound, Stages
<1>4. CASE pass # 0
  <2>1. pc \in Returning
    BY <1>4 DEF Sound, Stages
  <2>2. manifest[cur] = tx /\ tx.state # "none"
    BY <2>1, <1>1 DEF Sound, Stages, Unsaved, Returning
  <2> QED
    BY <1>1, <2>2 DEF Sound, Ledger
<1> QED
  BY <1>1, <1>3, <1>4

\* The same operation goes on, or none.
GoesOn ==
    \/ cur' = cur /\ tx'.kind = tx.kind /\ tx'.parent = tx.parent /\ pass' = pass /\ lastUndo' = lastUndo
    \/ cur' = NoTx

LEMMA LedgerSame ==
  ASSUME Ledger, manifest' = manifest, nextTx' = nextTx, GoesOn
  PROVE  Ledger'
<1>1. \A t \in TxIds :
        /\ manifest'[t].state = "none" => manifest'[t] = EmptyManifest
        /\ manifest'[t].state # "none" => t < nextTx'
        /\ manifest'[t].kind = "undo" => manifest'[t].parent \in TxIds /\ manifest'[t].parent < t
  BY DEF Ledger
<1>2. cur' # NoTx /\ tx'.kind = "undo" =>
        /\ tx'.parent \in TxIds /\ tx'.parent < cur'
        /\ pass' = 0 => lastUndo' = tx'.parent
  BY DEF Ledger, GoesOn
<1> QED
  BY <1>1, <1>2 DEF Ledger

LEMMA LedgerStored ==
  ASSUME Ledger, cur \in TxIds, cur # NoTx, cur < nextTx, NEW m, m.state # "none",
         m.kind = tx.kind, m.parent = tx.parent, manifest'[cur] = m,
         \A t \in TxIds : t # cur => manifest'[t] = manifest[t], nextTx' = nextTx, GoesOn
  PROVE  Ledger'
<1>1. \A t \in TxIds :
        /\ manifest'[t].state = "none" => manifest'[t] = EmptyManifest
        /\ manifest'[t].state # "none" => t < nextTx'
        /\ manifest'[t].kind = "undo" => manifest'[t].parent \in TxIds /\ manifest'[t].parent < t
  BY DEF Ledger
<1>2. cur' # NoTx /\ tx'.kind = "undo" =>
        /\ tx'.parent \in TxIds /\ tx'.parent < cur'
        /\ pass' = 0 => lastUndo' = tx'.parent
  BY DEF Ledger, GoesOn
<1> QED
  BY <1>1, <1>2 DEF Ledger

LEMMA OffersSame ==
  ASSUME Offers, manifest' = manifest, lastUndo' = lastUndo \/ lastUndo' = NoTx,
         pc = "markUndone" => pc' = "markUndone" \/ lastUndo' = NoTx
  PROVE  Offers'
<1>1. \A t : Reverted(t)' <=> Reverted(t)
  BY DEF Reverted
<1> QED
  BY <1>1 DEF Offers

\* Writing a manifest that is not committed, over one that is not, takes no offer away.
LEMMA OffersStored ==
  ASSUME Offers, cur \in TxIds, NEW m, m.state # "committed", manifest[cur].state # "committed",
         lastUndo \in TxIds \cup {NoTx},
         manifest'[cur] = m, \A t \in TxIds : t # cur => manifest'[t] = manifest[t],
         lastUndo' = lastUndo, pc # "markUndone"
  PROVE  Offers'
<1> SUFFICES ASSUME lastUndo # NoTx
             PROVE  /\ manifest'[lastUndo].state = "committed" /\ manifest'[lastUndo].kind # "undo"
                    /\ ~ Reverted(lastUndo)'
  BY DEF Offers
<1>1. lastUndo # cur /\ manifest'[lastUndo] = manifest[lastUndo] /\ ~ Reverted(lastUndo)
  BY DEF Offers
<1>2. ASSUME Reverted(lastUndo)' PROVE FALSE
  <2>1. PICK u \in TxIds : manifest'[u].state = "committed" /\ manifest'[u].kind = "undo"
                           /\ manifest'[u].parent = lastUndo'
    BY <1>2 DEF Reverted
  <2>2. u # cur
    BY <2>1
  <2> QED
    BY <1>1, <2>1, <2>2 DEF Reverted
<1> QED
  BY <1>1, <1>2 DEF Offers

LEMMA IntentStored ==
  ASSUME IntentIsDurable, cur \in TxIds, bak' = bak, NEW m, manifest[cur].published \subseteq m.published,
         manifest'[cur] = m, \A t \in TxIds : t # cur => manifest'[t] = manifest[t]
  PROVE  IntentIsDurable'
BY DEF IntentIsDurable

--------
(* Turns and edits. *)

LEMMA SessionTypes ==
  ASSUME Types
  PROVE  /\ serial \in Nat /\ Absent \in Images /\ NoTx \notin TxIds
         /\ \A t \in DOMAIN ckpts : t \in Nat /\ t \in 0..serial /\ ckpts[t] \in Points(serial)
         /\ \A t \in DOMAIN ckpts : ckpts[t].msgIndex \in 0..serial /\ ckpts[t].pre \in ImageMaps
<1>1. serial \in Nat
  BY RewindAssumption DEF Types
<1>2. \A t \in DOMAIN ckpts : t \in Nat /\ t < serial /\ ckpts[t] \in Points(serial)
  BY <1>1, PointFacts DEF Types
<1> QED
  BY <1>1, <1>2 DEF Points, Images, NoTx, TxIds

LEMMA TurnSound == ASSUME Sound, Turn PROVE Sound'
<1>0. PICK touched \in SUBSET Files : \E new \in [touched -> Images] :
        /\ disk' = [ f \in Files |-> IF f \in touched THEN new[f] ELSE disk[f] ]
        /\ ckpts' = Merge(ckpts, [ t \in {turn} |->
                        [ serial |-> serial', msgIndex |-> Len(conv),
                          pre |-> [ f \in touched |-> disk[f] ], after |-> new ] ])
  BY DEF Turn
<1>1. PICK new \in [touched -> Images] :
        /\ disk' = [ f \in Files |-> IF f \in touched THEN new[f] ELSE disk[f] ]
        /\ ckpts' = Merge(ckpts, [ t \in {turn} |->
                        [ serial |-> serial', msgIndex |-> Len(conv),
                          pre |-> [ f \in touched |-> disk[f] ], after |-> new ] ])
  BY <1>0
<1>2. /\ pc = "idle" /\ serial < MaxTurns /\ serial' = serial + 1 /\ conv' = Append(conv, serial')
      /\ turn' = turn + 1 /\ lastUndo' = NoTx
      /\ tmp' = tmp /\ bak' = bak /\ manifest' = manifest /\ pc' = pc /\ cur' = cur /\ tx' = tx
      /\ todo' = todo /\ failed' = failed /\ pass' = pass /\ queue' = queue /\ nextTx' = nextTx
      /\ edited' = edited
  BY DEF Turn, InvalidateUndo, opVars, recoveryVars
<1>3. serial \in Nat /\ serial' = serial + 1 /\ serial' \in 0..MaxTurns
  BY <1>2, SessionTypes, RewindAssumption DEF Sound, Types
<1>4. conv' \in Chats(serial')
  BY <1>2, <1>3, ChatFacts DEF Sound, Types
<1>5. ckpts' \in PointMaps(serial')
  <2> PICK n, point, one : /\ n = serial' /\ one = [t \in {turn} |-> point]
                           /\ point = [ serial |-> serial', msgIndex |-> Len(conv),
                                        pre |-> [ f \in touched |-> disk[f] ], after |-> new ]
    OBVIOUS
  <2>1. n \in Nat /\ ckpts \in PointMaps(n)
    BY <1>3, PointFacts DEF Sound, Types
  <2>2. Len(conv) \in 0..n /\ serial' \in 1..n
    <3>1. Len(conv) \in 0..serial
      BY <1>3, ChatFacts DEF Sound, Types
    <3> QED
      BY <1>3, <3>1
  <2>3. [ f \in touched |-> disk[f] ] \in ImageMaps /\ new \in ImageMaps
    BY DEF ImageMaps, Sound, Types
  <2>4. point \in [serial : 1..n, msgIndex : 0..n, pre : ImageMaps, after : ImageMaps]
    BY <2>2, <2>3
  <2>5. DOMAIN point.after = touched /\ DOMAIN point.pre = touched
    OBVIOUS
  <2>6. point \in Points(n)
    BY <2>4, <2>5 DEF Points
  <2>7. turn \in Turns(n)
    BY <1>3 DEF Sound, Types, Turns
  <2>8. one \in PointMaps(n)
    <3>1. one \in [{turn} -> Points(n)] /\ {turn} \in SUBSET Turns(n)
      BY <2>6, <2>7
    <3> QED
      BY <3>1 DEF PointMaps
  <2>9. Merge(ckpts, one) \in PointMaps(n)
    BY <2>1, <2>8, PointFacts
  <2> QED
    BY <1>1, <2>9
<1>6. /\ \A t \in TxIds : IsManifest(manifest'[t], serial')
      /\ IsManifest(tx', serial')
  <2>1. \A t \in TxIds : IsManifest(manifest[t], serial + 1)
    BY <1>3, ManifestLater DEF Sound, Types
  <2>2. IsManifest(tx, serial + 1)
    BY <1>3, ManifestLater DEF Sound, Types
  <2> QED
    BY <1>2, <2>1, <2>2
<1>7. disk' \in [Files -> Images]
  BY <1>1 DEF Sound, Types
<1>8. turn' \in 0..serial'
  BY <1>2, <1>3 DEF Sound, Types
<1>9. Types'
  BY <1>2, <1>3, <1>4, <1>5, <1>6, <1>7, <1>8 DEF Sound, Types
<1>10. Stages'
  BY <1>2 DEF Sound, Stages, Unsaved
<1>11. Ledger'
  BY <1>2, LedgerSame DEF Sound, GoesOn, Stages
<1>12. Offers'
  BY <1>2 DEF Offers
<1>13. IntentIsDurable'
  BY <1>2 DEF Sound, IntentIsDurable
<1> QED
  BY <1>9, <1>10, <1>11, <1>12, <1>13 DEF Sound

LEMMA EditSound == ASSUME Sound, ExternalEdit PROVE Sound'
<1>1. PICK f \in Files, i \in Images :
        disk' = [disk EXCEPT ![f] = i] /\ edited' = edited \cup {f}
  BY DEF ExternalEdit, Put
<1>2. /\ tmp' = tmp /\ bak' = bak /\ manifest' = manifest /\ conv' = conv /\ ckpts' = ckpts
      /\ turn' = turn /\ lastUndo' = lastUndo /\ pc' = pc /\ cur' = cur /\ tx' = tx
      /\ todo' = todo /\ failed' = failed /\ pass' = pass /\ queue' = queue /\ nextTx' = nextTx
      /\ serial' = serial
  BY DEF ExternalEdit, sessionVars, opVars, recoveryVars
<1>3. Types'
  BY <1>1, <1>2 DEF Sound, Types
<1>4. Stages'
  BY <1>2 DEF Sound, Stages, Unsaved
<1>5. Ledger'
  BY <1>2, LedgerSame DEF Sound, GoesOn
<1>6. Offers'
  BY <1>2, OffersSame DEF Sound
<1>7. IntentIsDurable'
  BY <1>2 DEF Sound, IntentIsDurable
<1> QED
  BY <1>3, <1>4, <1>5, <1>6, <1>7 DEF Sound

--------
(* Beginning an operation. *)

\* The images of a checkpointed file.
LEMMA PreimageType ==
  ASSUME Types, NEW k, NEW f \in Touched(k)
  PROVE  Preimage(k, f) \in Images
<1>1. Owners(k, f) \subseteq DOMAIN ckpts /\ Owners(k, f) # {}
  BY DEF Owners, Touched
<1>2. Owners(k, f) \in SUBSET Nat
  BY <1>1, SessionTypes
<1> PICK u : u = Least(Owners(k, f))
  OBVIOUS
<1>3. u \in Owners(k, f)
  BY <1>1, <1>2, LeastIsLeast
<1>4. u \in DOMAIN ckpts /\ f \in DOMAIN ckpts[u].pre
  BY <1>3 DEF Owners
<1>5. ckpts[u].pre \in ImageMaps
  BY <1>4, SessionTypes
<1>6. ckpts[u].pre[f] \in Images
  BY <1>4, <1>5 DEF ImageMaps
<1> QED
  BY <1>6 DEF Preimage

\* An operation begins with the manifest m.
LEMMA BeginSound ==
  ASSUME Sound, NEW m, Begin(m), IsManifest(m, serial), m.state = "prepared", m.published = {},
         \/ m.kind # "undo" /\ pc' = "stage"
         \/ m.kind = "undo" /\ pc' = "prepare" /\ m.parent = lastUndo /\ lastUndo # NoTx
  PROVE  Sound'
<1>1. /\ pc = "idle" /\ nextTx <= MaxTx /\ cur' = nextTx /\ nextTx' = nextTx + 1 /\ tx' = m
      /\ disk' = disk /\ tmp' = tmp /\ bak' = bak /\ manifest' = manifest /\ conv' = conv
      /\ ckpts' = ckpts /\ turn' = turn /\ lastUndo' = lastUndo /\ todo' = todo /\ failed' = failed
      /\ pass' = pass /\ queue' = queue /\ serial' = serial /\ edited' = edited
  BY DEF Begin, diskVars, sessionVars, recoveryVars
<1>2. cur = NoTx /\ todo = {} /\ failed = {} /\ pass = 0
  BY <1>1 DEF Sound, Stages, Returning
<1>3. nextTx \in TxIds /\ nextTx # NoTx /\ nextTx + 1 \in 1..(MaxTx + 1) /\ nextTx \in Nat
  BY <1>1, RewindAssumption DEF Sound, Types, TxIds, NoTx
<1>4. Types'
  <2>1. pc' \in Steps
    BY DEF Steps
  <2> QED
    BY <1>1, <1>2, <1>3, <2>1 DEF Sound, Types
<1>5. manifest[nextTx] = EmptyManifest
  <2>1. ~ (nextTx < nextTx)
    BY <1>3
  <2> QED
    BY <1>3, <2>1 DEF Sound, Ledger
<1>6. Stages'
  BY <1>1, <1>2, <1>3, <1>5 DEF Sound, Stages, Unsaved, Preparing, Publishing, Switching, Returning
<1>7. Ledger'
  <2>1. \A t \in TxIds : t < nextTx => t < nextTx + 1
    BY <1>3 DEF TxIds
  <2>2. ASSUME m.kind = "undo" PROVE m.parent \in TxIds /\ m.parent < nextTx /\ lastUndo = m.parent
    <3>1. m.parent = lastUndo /\ lastUndo \in TxIds /\ manifest[lastUndo].state = "committed"
      BY <2>2 DEF Sound, Types, Offers
    <3> QED
      BY <3>1 DEF Sound, Ledger
  <2>3. \A t \in TxIds :
        /\ manifest'[t].state = "none" => manifest'[t] = EmptyManifest
        /\ manifest'[t].state # "none" => t < nextTx'
        /\ manifest'[t].kind = "undo" => manifest'[t].parent \in TxIds /\ manifest'[t].parent < t
    BY <1>1, <2>1 DEF Sound, Ledger
  <2>4. tx'.kind = "undo" => /\ tx'.parent \in TxIds /\ tx'.parent < cur'
                             /\ pass' = 0 => lastUndo' = tx'.parent
    BY <1>1, <2>2
  <2> QED
    BY <2>3, <2>4 DEF Ledger
<1>8. Offers'
  BY <1>1, OffersSame DEF Sound
<1>9. IntentIsDurable'
  BY <1>1 DEF Sound, IntentIsDurable
<1> QED
  BY <1>4, <1>6, <1>7, <1>8, <1>9 DEF Sound

LEMMA StartRewindSound ==
  ASSUME Sound, NEW k \in DOMAIN ckpts, NEW scope, scope \subseteq {"files", "conv"}, StartRewind(k, scope)
  PROVE  Sound'
<1>1. PICK targets, restore, backup :
      /\ targets = IF "files" \in scope THEN Touched(k) ELSE {}
      /\ restore = [ f \in targets |-> Preimage(k, f) ]
      /\ backup = IF "conv" \in scope THEN From(ckpts, k) ELSE NoBackup
  OBVIOUS
<1>2. PICK m : m = Prepared("rewind", scope, k, ckpts[k].msgIndex, restore, backup)
  OBVIOUS
<1>3. Types /\ serial \in Nat /\ disk \in [Files -> Images]
  BY SessionTypes DEF Sound, Types
<1>4. restore \in ImageMaps
  <2>1. targets \subseteq Files /\ \A f \in targets : Preimage(k, f) \in Images
    BY <1>1, <1>3, PreimageType DEF Touched
  <2> QED
    BY <1>1, <2>1 DEF ImageMaps
<1>5. backup \in PointMaps(serial)
  <2>1. k \in Nat /\ ckpts \in PointMaps(serial)
    BY <1>3, SessionTypes DEF Types
  <2> QED
    BY <1>1, <1>3, <2>1, PointFacts DEF NoBackup
<1>6. k \in 0..serial /\ ckpts[k].msgIndex \in 0..serial
  BY <1>3, SessionTypes
<1>7. /\ DOMAIN m = ManifestFields /\ m.state = "prepared" /\ m.kind = "rewind" /\ m.scope = scope
      /\ m.from = k /\ m.boundary = ckpts[k].msgIndex /\ m.restore = restore
      /\ m.targets = DOMAIN restore /\ m.forward = [ f \in DOMAIN restore |-> disk[f] ]
      /\ m.published = {} /\ m.hasConv = "no" /\ m.fwdConv = << >> /\ m.backup = backup
      /\ m.parent = NoTx
  BY <1>2 DEF Prepared, ManifestFields, NoConv
<1>8. IsNew(m, serial)
  BY <1>4, <1>5, <1>6, <1>7 DEF IsNew
<1>9. Begin(m) /\ pc' = "stage"
  BY <1>1, <1>2 DEF StartRewind
<1>10. IsManifest(m, serial)
  BY <1>3, <1>8, NewView
<1> QED
  BY <1>7, <1>9, <1>10, BeginSound

LEMMA StartFileRevertSound == ASSUME Sound, NEW f \in Files, StartFileRevert(f) PROVE Sound'
<1>1. PICK restore : restore = [ g \in {f} |-> Preimage(0, f) ]
  OBVIOUS
<1>2. PICK m : m = Prepared("file_revert", {"files"}, 0, 0, restore, NoBackup)
  OBVIOUS
<1>3. Types /\ serial \in Nat /\ disk \in [Files -> Images]
  BY SessionTypes DEF Sound, Types
<1>4. Begin(m) /\ pc' = "stage" /\ f \in Touched(0)
  BY <1>1, <1>2 DEF StartFileRevert
<1>5. restore \in ImageMaps
  <2>1. Preimage(0, f) \in Images
    BY <1>3, <1>4, PreimageType
  <2> QED
    BY <1>1, <2>1 DEF ImageMaps
<1>6. NoBackup \in PointMaps(serial) /\ 0 \in 0..serial
  BY <1>3, PointFacts DEF NoBackup
<1>7. /\ DOMAIN m = ManifestFields /\ m.state = "prepared" /\ m.kind = "file_revert"
      /\ m.scope = {"files"} /\ m.from = 0 /\ m.boundary = 0 /\ m.restore = restore
      /\ m.targets = DOMAIN restore /\ m.forward = [ g \in DOMAIN restore |-> disk[g] ]
      /\ m.published = {} /\ m.hasConv = "no" /\ m.fwdConv = << >> /\ m.backup = NoBackup
      /\ m.parent = NoTx
  BY <1>2 DEF Prepared, ManifestFields, NoConv
<1>8. IsNew(m, serial)
  BY <1>5, <1>6, <1>7 DEF IsNew
<1>9. IsManifest(m, serial)
  BY <1>3, <1>8, NewView
<1> QED
  BY <1>4, <1>7, <1>9, BeginSound

LEMMA StartUndoSound == ASSUME Sound, StartUndo PROVE Sound'
<1> PICK m : m = Swapped(lastUndo)
  OBVIOUS
<1>1. Begin(m) /\ pc' = "prepare" /\ lastUndo # NoTx
  BY DEF StartUndo
<1>2. serial \in Nat /\ lastUndo \in TxIds /\ IsManifest(manifest[lastUndo], serial)
  BY <1>1, SessionTypes DEF Sound, Types
<1>3. /\ IsManifest(m, serial) /\ m.state = "prepared" /\ m.kind = "undo" /\ m.published = {}
      /\ m.parent = lastUndo
  BY <1>2, SwappedView
<1> QED
  BY <1>1, <1>3, BeginSound

--------
(* Preparing. *)

\* An operation that returns leaves nothing behind in memory.
LEMMA ReturnView ==
  ASSUME Types, Return, pass' = pass, pass \in 0..2
  PROVE  /\ Stages' /\ GoesOn /\ pc' \in Steps /\ cur' = NoTx
         /\ todo' \subseteq tx'.targets /\ failed' \subseteq {"state", "files"}
         /\ IsManifest(tx', serial)
<1>1. /\ pc' = IF pass = 0 THEN "idle" ELSE "scan"
      /\ cur' = NoTx /\ tx' = EmptyManifest /\ todo' = {} /\ failed' = {}
  BY DEF Return
<1>2. IsManifest(tx', serial)
  BY <1>1, SessionTypes, EmptyView
<1>3. Stages'
  BY <1>1 DEF Stages, Unsaved, Preparing, Publishing, Switching, Returning
<1> QED
  BY <1>1, <1>2, <1>3 DEF GoesOn, Steps

\* The images on disk, the temporaries and the marks of files may change freely.
LEMMA QuietStep ==
  ASSUME Sound, manifest' = manifest, bak' = bak, nextTx' = nextTx, GoesOn, Types', Stages',
         lastUndo' = lastUndo \/ lastUndo' = NoTx,
         pc = "markUndone" => pc' = "markUndone" \/ lastUndo' = NoTx
  PROVE  Sound'
<1>1. Ledger'
  BY LedgerSame DEF Sound
<1>2. Offers'
  BY OffersSame DEF Sound
<1>3. IntentIsDurable'
  BY DEF Sound, IntentIsDurable
<1> QED
  BY <1>1, <1>2, <1>3 DEF Sound

\* A manifest that is not committed is stored over one that is not.
LEMMA StoreStep ==
  ASSUME Sound, cur \in TxIds, cur # NoTx, cur < nextTx, NEW m, IsManifest(m, serial),
         manifest' = [manifest EXCEPT ![cur] = m], serial' = serial,
         m.state \notin {"none", "committed"}, manifest[cur].state # "committed",
         m.kind = tx.kind, m.parent = tx.parent, manifest[cur].published \subseteq m.published,
         bak' = bak, nextTx' = nextTx, lastUndo' = lastUndo, GoesOn, Types', Stages', pc # "markUndone"
  PROVE  Sound'
<1>1. manifest'[cur] = m /\ \A t \in TxIds : t # cur => manifest'[t] = manifest[t]
  BY Stored DEF Sound
<1>2. Ledger'
  BY <1>1, LedgerStored DEF Sound
<1>3. Offers'
  BY <1>1, OffersStored DEF Sound, Types
<1>4. IntentIsDurable'
  BY <1>1, IntentStored DEF Sound
<1> QED
  BY <1>2, <1>3, <1>4 DEF Sound

LEMMA StageTempsSound == ASSUME Sound, StageTemps PROVE Sound'
<1>1. /\ pc = "stage"
      /\ disk' = disk /\ bak' = bak /\ manifest' = manifest /\ conv' = conv /\ ckpts' = ckpts
      /\ turn' = turn /\ lastUndo' = lastUndo /\ pass' = pass /\ queue' = queue
      /\ nextTx' = nextTx /\ serial' = serial /\ edited' = edited
  BY DEF StageTemps, sessionVars, recoveryVars, boundVars
<1>2. cur \in TxIds /\ cur # NoTx /\ Types /\ serial \in Nat /\ pass = 0 /\ Stages
  BY <1>1, HasTransaction, SessionTypes DEF Sound, Stages, Returning
<1>3. tmp' \subseteq TxIds \X Files
  <2>1. Temps \subseteq TxIds \X Files
    BY <1>2 DEF Temps, Types, IsManifest
  <2> QED
    BY <2>1 DEF StageTemps, Sound, Types
<1>4. CASE opVars' = opVars /\ pc' = IF tx.kind = "undo" THEN "prepareAgain" ELSE "prepare"
  <2>1. cur' = cur /\ tx' = tx /\ todo' = todo /\ failed' = failed
    BY <1>4 DEF opVars
  <2>2. Types'
    BY <1>1, <1>2, <1>3, <1>4, <2>1 DEF Types, Steps
  <2>3. Stages'
    BY <1>1, <1>2, <1>4, <2>1 DEF Stages, Unsaved, Preparing, Publishing, Switching, Returning
  <2> QED
    BY <1>1, <2>1, <2>2, <2>3, QuietStep DEF GoesOn
<1>5. CASE opVars' = opVars /\ pc' = "settle" /\ tx.kind = "undo"
  <2>1. cur' = cur /\ tx' = tx /\ todo' = todo /\ failed' = failed
    BY <1>5 DEF opVars
  <2>2. Types'
    BY <1>1, <1>2, <1>3, <1>5, <2>1 DEF Types, Steps
  <2>3. Stages'
    BY <1>1, <1>2, <1>5, <2>1 DEF Stages, Unsaved, Preparing, Publishing, Switching, Returning
  <2> QED
    BY <1>1, <2>1, <2>2, <2>3, QuietStep DEF GoesOn
<1>6. CASE Return
  <2>1. /\ Stages' /\ GoesOn /\ pc' \in Steps /\ cur' = NoTx
        /\ todo' \subseteq tx'.targets /\ failed' \subseteq {"state", "files"}
        /\ IsManifest(tx', serial)
    BY <1>1, <1>2, <1>6, ReturnView
  <2>2. Types'
    BY <1>1, <1>2, <1>3, <2>1 DEF Types
  <2> QED
    BY <1>1, <2>1, <2>2, QuietStep
<1> QED
  BY <1>4, <1>5, <1>6 DEF StageTemps

LEMMA PersistPreparedSound == ASSUME Sound, PersistPrepared PROVE Sound'
<1>1. /\ pc = "prepare"
      /\ disk' = disk /\ bak' = bak /\ conv' = conv /\ ckpts' = ckpts /\ turn' = turn
      /\ lastUndo' = lastUndo /\ pass' = pass /\ queue' = queue /\ nextTx' = nextTx
      /\ serial' = serial /\ edited' = edited
  BY DEF PersistPrepared, sessionVars, recoveryVars, boundVars
<1>2. cur \in TxIds /\ cur # NoTx /\ cur < nextTx /\ Types /\ serial \in Nat /\ pass = 0 /\ Stages
  BY <1>1, HasTransaction, SessionTypes DEF Sound, Stages, Returning
<1>3. tmp' \subseteq TxIds \X Files
  BY DEF PersistPrepared, Sound, Types
<1>4. manifest[cur] = EmptyManifest /\ tx.state = "prepared" /\ IsManifest(tx, serial)
  BY <1>1, <1>2 DEF Stages, Unsaved, Preparing, Types
<1>5. manifest[cur].state = "none" /\ manifest[cur].published = {}
  BY <1>2, <1>4, EmptyView
<1>6. CASE Persist(tx) /\ tmp' = tmp /\ cur' = cur /\ todo' = todo /\ failed' = failed
           /\ pc' = CASE tx.kind = "rewind" -> "attach"
                      [] tx.kind = "undo" -> "stage"
                      [] tx.kind = "file_revert" -> "begin"
  <2>1. manifest' = [manifest EXCEPT ![cur] = tx] /\ tx' = tx
    BY <1>6 DEF Persist, Store
  <2>2. DOMAIN manifest' = TxIds /\ manifest'[cur] = tx /\ \A t \in TxIds : IsManifest(manifest'[t], serial')
    BY <1>1, <1>2, <1>4, <2>1, Stored
  <2>3. \/ tx.kind = "rewind" /\ pc' = "attach"
        \/ tx.kind = "undo" /\ pc' = "stage"
        \/ tx.kind = "file_revert" /\ pc' = "begin"
    BY <1>4, <1>6 DEF IsManifest
  <2>4. Types'
    BY <1>1, <1>2, <1>6, <2>1, <2>2, <2>3 DEF Types, Steps
  <2>5. Stages'
    BY <1>1, <1>2, <1>6, <2>1, <2>2, <2>3 DEF Stages, Unsaved, Preparing, Publishing, Switching, Returning
  <2>6. GoesOn
    BY <1>1, <1>6, <2>1 DEF GoesOn
  <2> QED
    BY <1>1, <1>2, <1>4, <1>5, <2>1, <2>4, <2>5, <2>6, StoreStep
<1>7. CASE Return /\ manifest' = manifest
  <2>1. /\ Stages' /\ GoesOn /\ pc' \in Steps /\ cur' = NoTx
        /\ todo' \subseteq tx'.targets /\ failed' \subseteq {"state", "files"}
        /\ IsManifest(tx', serial)
    BY <1>1, <1>2, <1>7, ReturnView
  <2>2. Types'
    BY <1>1, <1>2, <1>3, <1>7, <2>1 DEF Types
  <2> QED
    BY <1>1, <1>7, <2>1, <2>2, QuietStep
<1> QED
  BY <1>6, <1>7 DEF PersistPrepared

LEMMA AttachForwardSound == ASSUME Sound, AttachForward PROVE Sound'
<1>1. /\ pc = "attach"
      /\ disk' = disk /\ tmp' = tmp /\ bak' = bak /\ conv' = conv /\ ckpts' = ckpts
      /\ turn' = turn /\ lastUndo' = lastUndo /\ pass' = pass /\ queue' = queue
      /\ nextTx' = nextTx /\ serial' = serial /\ edited' = edited
  BY DEF AttachForward, diskVars, sessionVars, recoveryVars, boundVars
<1>2. cur \in TxIds /\ cur # NoTx /\ cur < nextTx /\ Types /\ serial \in Nat /\ pass = 0 /\ Stages
  BY <1>1, HasTransaction, SessionTypes DEF Sound, Stages, Returning
<1>3. manifest[cur] = tx /\ tx.state = "prepared" /\ tx.published = {} /\ IsManifest(tx, serial)
  BY <1>1, <1>2 DEF Stages, Unsaved, Preparing, Types
<1>4. CASE Persist(WithForward(tx, conv)) /\ pc' = "begin" /\ cur' = cur /\ todo' = todo /\ failed' = failed
  <2>1. PICK m : m = WithForward(tx, conv)
    OBVIOUS
  <2>2. /\ IsManifest(m, serial) /\ m.state = "prepared" /\ m.published = {}
        /\ m.kind = tx.kind /\ m.parent = tx.parent /\ m.targets = tx.targets
    BY <1>2, <1>3, <2>1, ForwardView DEF Types, SamePlan
  <2>3. manifest' = [manifest EXCEPT ![cur] = m] /\ tx' = m
    BY <1>4, <2>1 DEF Persist, Store
  <2>4. DOMAIN manifest' = TxIds /\ manifest'[cur] = m /\ \A t \in TxIds : IsManifest(manifest'[t], serial')
    BY <1>1, <1>2, <2>2, <2>3, Stored
  <2>5. Types'
    BY <1>1, <1>2, <1>4, <2>2, <2>3, <2>4 DEF Types, Steps
  <2>6. Stages'
    BY <1>1, <1>2, <1>4, <2>2, <2>3, <2>4 DEF Stages, Unsaved, Preparing, Publishing, Switching, Returning
  <2>7. GoesOn
    BY <1>1, <1>4, <2>2, <2>3 DEF GoesOn
  <2> QED
    BY <1>1, <1>2, <1>3, <2>2, <2>3, <2>5, <2>6, <2>7, StoreStep
<1>5. CASE Return /\ manifest' = manifest
  <2>1. /\ Stages' /\ GoesOn /\ pc' \in Steps /\ cur' = NoTx
        /\ todo' \subseteq tx'.targets /\ failed' \subseteq {"state", "files"}
        /\ IsManifest(tx', serial)
    BY <1>1, <1>2, <1>5, ReturnView
  <2>2. Types'
    BY <1>1, <1>2, <1>5, <2>1 DEF Types
  <2> QED
    BY <1>1, <1>5, <2>1, <2>2, QuietStep
<1> QED
  BY <1>4, <1>5 DEF AttachForward

--------
(* Publishing. *)

\* From wherever it fails, a transaction whose manifest is stored can be compensated.
LEMMA CompensateView ==
  ASSUME Stages, cur # NoTx, manifest[cur] = tx, tx.state \in {"prepared", "committing"},
         Compensate, cur' = cur, tx' = tx, manifest' = manifest, pass' = pass, nextTx' = nextTx
  PROVE  Stages' /\ pc' \in Steps /\ todo' \subseteq tx'.targets
<1>1. pc' = "compensate" /\ todo' = tx.targets
  BY DEF Compensate
<1>2. Stages'
  BY <1>1 DEF Stages, Unsaved, Preparing, Publishing, Switching, Returning
<1> QED
  BY <1>1, <1>2 DEF Steps

LEMMA PersistUndoAgainSound == ASSUME Sound, PersistUndoAgain PROVE Sound'
<1>1. /\ pc = "prepareAgain"
      /\ disk' = disk /\ tmp' = tmp /\ bak' = bak /\ conv' = conv /\ ckpts' = ckpts
      /\ turn' = turn /\ lastUndo' = lastUndo /\ cur' = cur /\ failed' = failed /\ pass' = pass
      /\ queue' = queue /\ nextTx' = nextTx /\ serial' = serial /\ edited' = edited
  BY DEF PersistUndoAgain, diskVars, sessionVars, recoveryVars, boundVars
<1>2. cur \in TxIds /\ cur # NoTx /\ cur < nextTx /\ Types /\ serial \in Nat /\ pass = 0 /\ Stages
  BY <1>1, HasTransaction, SessionTypes DEF Sound, Stages, Returning
<1>3. manifest[cur] = tx /\ tx.state = "prepared" /\ tx.published = {} /\ IsManifest(tx, serial)
  BY <1>1, <1>2 DEF Stages, Unsaved, Preparing, Types
<1>4. CASE Persist(tx) /\ pc' = "begin" /\ todo' = todo
  <2>1. manifest' = [manifest EXCEPT ![cur] = tx] /\ tx' = tx
    BY <1>4 DEF Persist, Store
  <2>2. DOMAIN manifest' = TxIds /\ manifest'[cur] = tx /\ \A t \in TxIds : IsManifest(manifest'[t], serial')
    BY <1>1, <1>2, <1>3, <2>1, Stored
  <2>3. Types'
    BY <1>1, <1>2, <1>4, <2>1, <2>2 DEF Types, Steps
  <2>4. Stages'
    BY <1>1, <1>2, <1>4, <2>1, <2>2 DEF Stages, Unsaved, Preparing, Publishing, Switching, Returning
  <2>5. GoesOn
    BY <1>1, <2>1 DEF GoesOn
  <2> QED
    BY <1>1, <1>2, <1>3, <2>1, <2>3, <2>4, <2>5, StoreStep
<1>5. CASE Compensate /\ tx' = tx /\ manifest' = manifest
  <2>1. Stages' /\ pc' \in Steps /\ todo' \subseteq tx'.targets
    BY <1>1, <1>2, <1>3, <1>5, CompensateView
  <2>2. Types'
    BY <1>1, <1>2, <1>5, <2>1 DEF Types
  <2> QED
    BY <1>1, <1>5, <2>1, <2>2, QuietStep DEF GoesOn
<1> QED
  BY <1>4, <1>5 DEF PersistUndoAgain

LEMMA BeginCommitSound == ASSUME Sound, BeginCommit PROVE Sound'
<1>1. /\ pc = "begin"
      /\ disk' = disk /\ tmp' = tmp /\ bak' = bak /\ conv' = conv /\ ckpts' = ckpts
      /\ turn' = turn /\ lastUndo' = lastUndo /\ cur' = cur /\ failed' = failed /\ pass' = pass
      /\ queue' = queue /\ nextTx' = nextTx /\ serial' = serial /\ edited' = edited
  BY DEF BeginCommit, diskVars, sessionVars, recoveryVars, boundVars
<1>2. cur \in TxIds /\ cur # NoTx /\ cur < nextTx /\ Types /\ serial \in Nat /\ pass = 0 /\ Stages
  BY <1>1, HasTransaction, SessionTypes DEF Sound, Stages, Returning
<1>3. manifest[cur] = tx /\ tx.state = "prepared" /\ tx.published = {} /\ IsManifest(tx, serial)
  BY <1>1, <1>2 DEF Stages, Unsaved, Preparing, Types
<1>4. CASE Persist(InState("committing")) /\ pc' = "intent" /\ todo' = tx.targets
  <2>1. PICK m : m = SetState(tx, "committing")
    OBVIOUS
  <2>2. /\ IsManifest(m, serial) /\ m.state = "committing" /\ m.published = {}
        /\ m.kind = tx.kind /\ m.parent = tx.parent /\ m.targets = tx.targets
    BY <1>2, <1>3, <2>1, StateView DEF States, SamePlan
  <2>3. manifest' = [manifest EXCEPT ![cur] = m] /\ tx' = m
    BY <1>4, <2>1 DEF Persist, Store, InState, SetState
  <2>4. DOMAIN manifest' = TxIds /\ manifest'[cur] = m /\ \A t \in TxIds : IsManifest(manifest'[t], serial')
    BY <1>1, <1>2, <2>2, <2>3, Stored
  <2>5. Types'
    BY <1>1, <1>2, <1>4, <2>2, <2>3, <2>4 DEF Types, Steps
  <2>6. Stages'
    BY <1>1, <1>2, <1>4, <2>2, <2>3, <2>4 DEF Stages, Unsaved, Preparing, Publishing, Switching, Returning
  <2>7. GoesOn
    BY <1>1, <1>4, <2>2, <2>3 DEF GoesOn
  <2> QED
    BY <1>1, <1>2, <1>3, <2>2, <2>3, <2>5, <2>6, <2>7, StoreStep
<1>5. CASE Compensate /\ tx' = tx /\ manifest' = manifest
  <2>1. Stages' /\ pc' \in Steps /\ todo' \subseteq tx'.targets
    BY <1>1, <1>2, <1>3, <1>5, CompensateView
  <2>2. Types'
    BY <1>1, <1>2, <1>5, <2>1 DEF Types
  <2> QED
    BY <1>1, <1>5, <2>1, <2>2, QuietStep DEF GoesOn
<1> QED
  BY <1>4, <1>5 DEF BeginCommit

\* While it publishes, the manifest on disk is the one in memory.
LEMMA PublishingFacts ==
  ASSUME Sound, pc \in Publishing \cup Switching
  PROVE  /\ cur \in TxIds /\ cur # NoTx /\ cur < nextTx /\ Types /\ serial \in Nat /\ pass = 0 /\ Stages
         /\ manifest[cur] = tx /\ tx.state = "committing" /\ IsManifest(tx, serial)
         /\ todo \subseteq Files /\ todo \subseteq tx.targets
         /\ todo # {} => Least(todo) \in todo /\ Least(todo) \in Files
<1>1. cur \in TxIds /\ cur # NoTx /\ cur < nextTx /\ Types /\ serial \in Nat /\ pass = 0 /\ Stages
  BY HasTransaction, SessionTypes DEF Sound, Stages, Returning, Publishing, Switching
<1>2. manifest[cur] = tx /\ tx.state = "committing" /\ IsManifest(tx, serial)
  BY <1>1 DEF Stages, Unsaved, Publishing, Switching, Types
<1>3. todo \subseteq Files /\ todo \subseteq tx.targets
  BY <1>1, <1>2 DEF Types, IsManifest
<1> QED
  BY <1>1, <1>2, <1>3, NextFile

LEMMA PublishIntentSound == ASSUME Sound, PublishIntent PROVE Sound'
<1>1. /\ pc = "intent" /\ todo # {}
      /\ disk' = disk /\ tmp' = tmp /\ bak' = bak /\ conv' = conv /\ ckpts' = ckpts
      /\ turn' = turn /\ lastUndo' = lastUndo /\ cur' = cur /\ failed' = failed /\ pass' = pass
      /\ queue' = queue /\ nextTx' = nextTx /\ serial' = serial /\ edited' = edited
  BY DEF PublishIntent, diskVars, sessionVars, recoveryVars, boundVars
<1>2. /\ cur \in TxIds /\ cur # NoTx /\ cur < nextTx /\ Types /\ serial \in Nat /\ pass = 0 /\ Stages
      /\ manifest[cur] = tx /\ tx.state = "committing" /\ IsManifest(tx, serial)
      /\ todo \subseteq tx.targets /\ Least(todo) \in todo
  BY <1>1, PublishingFacts DEF Publishing
<1>3. CASE Persist([tx EXCEPT !.published = @ \cup {Least(todo)}]) /\ pc' = "backup" /\ todo' = todo
  <2>1. PICK m : m = SetPublished(tx, tx.published \cup {Least(todo)})
    OBVIOUS
  <2>2. tx.published \cup {Least(todo)} \subseteq tx.targets
    BY <1>2 DEF IsManifest
  <2>3. /\ IsManifest(m, serial) /\ m.state = "committing" /\ m.published = tx.published \cup {Least(todo)}
        /\ m.kind = tx.kind /\ m.parent = tx.parent /\ m.targets = tx.targets
    BY <1>2, <2>1, <2>2, PublishedView DEF SamePlan
  <2>4. manifest' = [manifest EXCEPT ![cur] = m] /\ tx' = m
    BY <1>3, <2>1 DEF Persist, Store, SetPublished
  <2>5. DOMAIN manifest' = TxIds /\ manifest'[cur] = m /\ \A t \in TxIds : IsManifest(manifest'[t], serial')
    BY <1>1, <1>2, <2>3, <2>4, Stored
  <2>6. Types'
    BY <1>1, <1>2, <1>3, <2>3, <2>4, <2>5 DEF Types, Steps
  <2>7. Stages'
    BY <1>1, <1>2, <1>3, <2>3, <2>4, <2>5 DEF Stages, Unsaved, Preparing, Publishing, Switching, Returning
  <2>8. GoesOn
    BY <1>1, <2>3, <2>4 DEF GoesOn
  <2> QED
    BY <1>1, <1>2, <2>3, <2>4, <2>6, <2>7, <2>8, StoreStep
<1>4. CASE Compensate /\ tx' = tx /\ manifest' = manifest
  <2>1. Stages' /\ pc' \in Steps /\ todo' \subseteq tx'.targets
    BY <1>1, <1>2, <1>4, CompensateView
  <2>2. Types'
    BY <1>1, <1>2, <1>4, <2>1 DEF Types
  <2> QED
    BY <1>1, <1>4, <2>1, <2>2, QuietStep DEF GoesOn
<1> QED
  BY <1>3, <1>4 DEF PublishIntent

\* Backups come and go; a file that is moved away has its intent on disk.
LEMMA MoveStep ==
  ASSUME Sound, manifest' = manifest, nextTx' = nextTx, GoesOn, Types', Stages', lastUndo' = lastUndo,
         pc # "markUndone", cur \in TxIds,
         \/ bak' = bak
         \/ \E f \in Files, i \in Images :
               bak' = [bak EXCEPT ![cur][f] = i] /\ (i = Absent \/ f \in manifest[cur].published)
  PROVE  Sound'
<1>1. Ledger'
  BY LedgerSame DEF Sound
<1>2. Offers'
  BY OffersSame DEF Sound
<1>3. IntentIsDurable'
  <2>1. CASE bak' = bak
    BY <2>1 DEF Sound, IntentIsDurable
  <2>2. ASSUME NEW f \in Files, NEW i \in Images, bak' = [bak EXCEPT ![cur][f] = i],
               i = Absent \/ f \in manifest[cur].published
        PROVE  IntentIsDurable'
    <3>1. bak'[cur][f] = i
      BY <2>2 DEF Sound, Types
    <3>2. \A t \in TxIds, g \in Files : t # cur \/ g # f => bak'[t][g] = bak[t][g]
      BY <2>2 DEF Sound, Types
    <3> QED
      BY <2>2, <3>1, <3>2 DEF Sound, IntentIsDurable
  <2> QED
    BY <2>1, <2>2
<1> QED
  BY <1>1, <1>2, <1>3 DEF Sound

LEMMA BackUpTargetSound == ASSUME Sound, BackUpTarget PROVE Sound'
<1>1. /\ pc = "backup"
      /\ tmp' = tmp /\ manifest' = manifest /\ conv' = conv /\ ckpts' = ckpts /\ turn' = turn
      /\ lastUndo' = lastUndo /\ cur' = cur /\ tx' = tx /\ failed' = failed /\ pass' = pass
      /\ queue' = queue /\ nextTx' = nextTx /\ serial' = serial /\ edited' = edited
  BY DEF BackUpTarget, sessionVars, recoveryVars, boundVars
<1>2. /\ cur \in TxIds /\ cur # NoTx /\ cur < nextTx /\ Types /\ serial \in Nat /\ pass = 0 /\ Stages
      /\ manifest[cur] = tx /\ tx.state = "committing" /\ IsManifest(tx, serial)
  BY <1>1, PublishingFacts DEF Publishing
<1>3. todo # {} /\ Least(todo) \in tx.published /\ Least(todo) \in Files
  BY <1>1, <1>2, PublishingFacts DEF Publishing, Stages
<1>4. PICK f \in Files : f = Least(todo)
  BY <1>3
<1>5. CASE /\ SetBackup(f, disk[f]) /\ Put(f, Absent)
           /\ pc' = IF Writes(tx, f) THEN "install" ELSE "progress"
           /\ todo' = todo
  <2>1. bak' = [bak EXCEPT ![cur][f] = disk[f]] /\ disk' = [disk EXCEPT ![f] = Absent] /\ disk[f] \in Images
    BY <1>2, <1>5 DEF SetBackup, Put, Types
  <2>2. Types'
    BY <1>1, <1>2, <1>5, <2>1 DEF Types, Steps, Images
  <2>3. Stages'
    BY <1>1, <1>2, <1>3, <1>5 DEF Stages, Unsaved, Preparing, Publishing, Switching, Returning
  <2>4. f \in manifest[cur].published
    BY <1>2, <1>3, <1>4
  <2> QED
    BY <1>1, <1>2, <2>1, <2>2, <2>3, <2>4, MoveStep DEF GoesOn
<1>6. CASE Compensate /\ disk' = disk /\ bak' = bak
  <2>1. Stages' /\ pc' \in Steps /\ todo' \subseteq tx'.targets
    BY <1>1, <1>2, <1>6, CompensateView
  <2>2. Types'
    BY <1>1, <1>2, <1>6, <2>1 DEF Types
  <2> QED
    BY <1>1, <1>6, <2>1, <2>2, QuietStep DEF GoesOn
<1> QED
  BY <1>4, <1>5, <1>6 DEF BackUpTarget

LEMMA InstallTargetSound == ASSUME Sound, InstallTarget PROVE Sound'
<1>1. /\ pc = "install"
      /\ manifest' = manifest /\ conv' = conv /\ ckpts' = ckpts /\ turn' = turn
      /\ lastUndo' = lastUndo /\ cur' = cur /\ tx' = tx /\ failed' = failed /\ pass' = pass
      /\ queue' = queue /\ nextTx' = nextTx /\ serial' = serial /\ edited' = edited
  BY DEF InstallTarget, sessionVars, recoveryVars, boundVars
<1>2. /\ cur \in TxIds /\ cur # NoTx /\ cur < nextTx /\ Types /\ serial \in Nat /\ pass = 0 /\ Stages
      /\ manifest[cur] = tx /\ tx.state = "committing" /\ IsManifest(tx, serial)
  BY <1>1, PublishingFacts DEF Publishing
<1>3. todo # {} /\ Least(todo) \in tx.published /\ Least(todo) \in Files /\ Least(todo) \in tx.targets
  BY <1>1, <1>2, PublishingFacts DEF Publishing, Stages
<1>4. PICK f \in Files : f = Least(todo)
  BY <1>3
<1>5. CASE /\ Put(f, tx.restore[f]) /\ tmp' = tmp \ {<< cur, f >>}
           /\ pc' = "progress" /\ bak' = bak /\ todo' = todo
  <2>1. disk' = [disk EXCEPT ![f] = tx.restore[f]] /\ tx.restore[f] \in Images
    BY <1>2, <1>3, <1>4, <1>5 DEF Put, IsManifest
  <2>2. Types'
    BY <1>1, <1>2, <1>5, <2>1 DEF Types, Steps
  <2>3. Stages'
    BY <1>1, <1>2, <1>3, <1>5 DEF Stages, Unsaved, Preparing, Publishing, Switching, Returning
  <2> QED
    BY <1>1, <1>5, <2>2, <2>3, QuietStep DEF GoesOn
<1>6. CASE /\ IF bak[cur][f] = Absent
              THEN UNCHANGED << disk, bak >>
              ELSE Put(f, bak[cur][f]) /\ SetBackup(f, Absent)
           /\ Compensate /\ tmp' = tmp
  <2>1. Stages' /\ pc' \in Steps /\ todo' \subseteq tx'.targets
    BY <1>1, <1>2, <1>6, CompensateView
  <2>2. bak[cur][f] \in Images /\ Absent \in Images
    BY <1>2, <1>4 DEF Types, Images
  <2>3. /\ disk' = disk \/ disk' = [disk EXCEPT ![f] = bak[cur][f]]
        /\ bak' = bak \/ bak' = [bak EXCEPT ![cur][f] = Absent]
    BY <1>6 DEF Put, SetBackup
  <2>4. disk' \in [Files -> Images]
    BY <1>2, <2>2, <2>3 DEF Types
  <2>5. bak' \in [TxIds -> [Files -> Images]]
    BY <1>2, <2>2, <2>3 DEF Types
  <2>6. Types'
    BY <1>1, <1>2, <1>6, <2>1, <2>4, <2>5 DEF Types
  <2> QED
    BY <1>1, <1>2, <2>1, <2>2, <2>3, <2>6, MoveStep DEF GoesOn
<1> QED
  BY <1>4, <1>5, <1>6 DEF InstallTarget

LEMMA PersistProgressSound == ASSUME Sound, PersistProgress PROVE Sound'
<1>1. /\ pc = "progress"
      /\ disk' = disk /\ tmp' = tmp /\ bak' = bak /\ conv' = conv /\ ckpts' = ckpts
      /\ turn' = turn /\ lastUndo' = lastUndo /\ cur' = cur /\ failed' = failed /\ pass' = pass
      /\ queue' = queue /\ nextTx' = nextTx /\ serial' = serial /\ edited' = edited
  BY DEF PersistProgress, diskVars, sessionVars, recoveryVars, boundVars
<1>2. /\ cur \in TxIds /\ cur # NoTx /\ cur < nextTx /\ Types /\ serial \in Nat /\ pass = 0 /\ Stages
      /\ manifest[cur] = tx /\ tx.state = "committing" /\ IsManifest(tx, serial)
  BY <1>1, PublishingFacts DEF Publishing
<1>3. CASE Persist(tx) /\ todo' = todo \ {Least(todo)} /\ pc' = "intent"
  <2>1. manifest' = [manifest EXCEPT ![cur] = tx] /\ tx' = tx
    BY <1>3 DEF Persist, Store
  <2>2. DOMAIN manifest' = TxIds /\ manifest'[cur] = tx /\ \A t \in TxIds : IsManifest(manifest'[t], serial')
    BY <1>1, <1>2, <2>1, Stored
  <2>3. Types'
    BY <1>1, <1>2, <1>3, <2>1, <2>2 DEF Types, Steps
  <2>4. Stages'
    BY <1>1, <1>2, <1>3, <2>1, <2>2 DEF Stages, Unsaved, Preparing, Publishing, Switching, Returning
  <2>5. GoesOn
    BY <1>1, <2>1 DEF GoesOn
  <2> QED
    BY <1>1, <1>2, <2>1, <2>3, <2>4, <2>5, StoreStep
<1>4. CASE Compensate /\ tx' = tx /\ manifest' = manifest
  <2>1. Stages' /\ pc' \in Steps /\ todo' \subseteq tx'.targets
    BY <1>1, <1>2, <1>4, CompensateView
  <2>2. Types'
    BY <1>1, <1>2, <1>4, <2>1 DEF Types
  <2> QED
    BY <1>1, <1>4, <2>1, <2>2, QuietStep DEF GoesOn
<1> QED
  BY <1>3, <1>4 DEF PersistProgress

LEMMA FilesDoneSound == ASSUME Sound, FilesDone PROVE Sound'
<1>1. /\ pc = "intent"
      /\ disk' = disk /\ tmp' = tmp /\ bak' = bak /\ conv' = conv /\ ckpts' = ckpts
      /\ turn' = turn /\ lastUndo' = lastUndo /\ cur' = cur /\ failed' = failed /\ pass' = pass
      /\ queue' = queue /\ nextTx' = nextTx /\ serial' = serial /\ edited' = edited
  BY DEF FilesDone, diskVars, sessionVars, recoveryVars, boundVars
<1>2. /\ cur \in TxIds /\ cur # NoTx /\ cur < nextTx /\ Types /\ serial \in Nat /\ pass = 0 /\ Stages
      /\ manifest[cur] = tx /\ tx.state = "committing" /\ IsManifest(tx, serial)
  BY <1>1, PublishingFacts DEF Publishing
<1>3. CASE /\ Persist(tx) /\ todo' = todo
           /\ pc' = CASE tx.kind = "undo" -> "restoreConv"
                      [] tx.kind # "undo" /\ NeedsConversation(tx) -> "cutConv"
                      [] OTHER -> "finish"
  <2>1. manifest' = [manifest EXCEPT ![cur] = tx] /\ tx' = tx /\ pc' \in {"restoreConv", "cutConv", "finish"}
    BY <1>3 DEF Persist, Store
  <2>2. DOMAIN manifest' = TxIds /\ manifest'[cur] = tx /\ \A t \in TxIds : IsManifest(manifest'[t], serial')
    BY <1>1, <1>2, <2>1, Stored
  <2>3. Types'
    BY <1>1, <1>2, <1>3, <2>1, <2>2 DEF Types, Steps
  <2>4. Stages'
    BY <1>1, <1>2, <1>3, <2>1, <2>2 DEF Stages, Unsaved, Preparing, Publishing, Switching, Returning
  <2>5. GoesOn
    BY <1>1, <2>1 DEF GoesOn
  <2> QED
    BY <1>1, <1>2, <2>1, <2>3, <2>4, <2>5, StoreStep
<1>4. CASE Compensate /\ tx' = tx /\ manifest' = manifest
  <2>1. Stages' /\ pc' \in Steps /\ todo' \subseteq tx'.targets
    BY <1>1, <1>2, <1>4, CompensateView
  <2>2. Types'
    BY <1>1, <1>2, <1>4, <2>1 DEF Types
  <2> QED
    BY <1>1, <1>4, <2>1, <2>2, QuietStep DEF GoesOn
<1> QED
  BY <1>3, <1>4 DEF FilesDone

--------
(* The conversation and the checkpoints. *)

\* The conversation and the checkpoints may move while nothing else does.
LEMMA SessionStep ==
  ASSUME Sound,
         \/ pc \in Switching /\ pc' \in Switching \cup {"backConv"}
         \/ pc \in {"backConv", "backCkpts"} /\ pc' \in {"backCkpts", "backDone"},
         disk' = disk /\ tmp' = tmp /\ bak' = bak /\ manifest' = manifest /\ lastUndo' = lastUndo
      /\ cur' = cur /\ tx' = tx /\ todo' = todo /\ pass' = pass /\ queue' = queue
      /\ nextTx' = nextTx /\ serial' = serial /\ edited' = edited,
         conv' \in Chats(serial), ckpts' \in PointMaps(serial), turn' \in 0..serial,
         failed' \subseteq {"state", "files"}
  PROVE  Sound'
<1>1. cur # NoTx /\ Types /\ Stages
  BY HasTransaction DEF Sound, Switching
<1>2. Types'
  BY <1>1 DEF Types, Steps, Switching
<1>3. Stages'
  BY <1>1 DEF Stages, Unsaved, Preparing, Publishing, Switching, Returning
<1> QED
  BY <1>2, <1>3, QuietStep DEF GoesOn, Switching

\* What the session may become.
LEMMA SessionFacts ==
  ASSUME Sound
  PROVE  /\ conv \in Chats(serial) /\ ckpts \in PointMaps(serial) /\ turn \in 0..serial
         /\ failed \subseteq {"state", "files"} /\ failed \cup {"state"} \subseteq {"state", "files"}
         /\ tx.fwdConv \in Chats(serial) /\ tx.from \in 0..serial
         /\ tx.boundary <= Len(conv) => Cut(conv, tx.boundary) \in Chats(serial)
         /\ Before(ckpts, tx.from) \in PointMaps(serial)
         /\ Merge(ckpts, tx.backup) \in PointMaps(serial)
         /\ NextTurn(Merge(ckpts, tx.backup)) \in 0..serial
<1>1. serial \in Nat /\ IsManifest(tx, serial)
  BY SessionTypes DEF Sound, Types
<1>2. conv \in Chats(serial) /\ ckpts \in PointMaps(serial) /\ turn \in 0..serial
  BY DEF Sound, Types
<1>3. failed \subseteq {"state", "files"}
  BY DEF Sound, Types
<1>4. /\ tx.fwdConv \in Chats(serial) /\ tx.from \in 0..serial /\ tx.from \in Nat
      /\ tx.boundary \in Nat /\ tx.backup \in PointMaps(serial)
  BY <1>1 DEF IsManifest
<1>5. tx.boundary <= Len(conv) => Cut(conv, tx.boundary) \in Chats(serial)
  BY <1>1, <1>2, <1>4, ChatFacts
<1>6. Before(ckpts, tx.from) \in PointMaps(serial) /\ Merge(ckpts, tx.backup) \in PointMaps(serial)
  BY <1>1, <1>2, <1>4, PointFacts
<1>7. NextTurn(Merge(ckpts, tx.backup)) \in 0..serial
  BY <1>1, <1>6, PointFacts
<1> QED
  BY <1>2, <1>3, <1>4, <1>5, <1>6, <1>7

LEMMA CutConversationSound == ASSUME Sound, CutConversation PROVE Sound'
<1>1. /\ pc = "cutConv" /\ pc' \in {"cutCkpts", "backConv"}
      /\ disk' = disk /\ tmp' = tmp /\ bak' = bak /\ manifest' = manifest /\ ckpts' = ckpts
      /\ turn' = turn /\ lastUndo' = lastUndo /\ cur' = cur /\ tx' = tx /\ todo' = todo
      /\ failed' = failed /\ pass' = pass /\ queue' = queue /\ nextTx' = nextTx
      /\ serial' = serial /\ edited' = edited
  BY DEF CutConversation, diskVars, opVars, recoveryVars, boundVars
<1>2. conv' = conv \/ (tx.boundary <= Len(conv) /\ conv' = Cut(conv, tx.boundary))
  BY DEF CutConversation
<1>3. conv' \in Chats(serial)
  BY <1>2, SessionFacts
<1> QED
  BY <1>1, <1>3, SessionFacts, SessionStep DEF Switching

LEMMA CutCheckpointsSound == ASSUME Sound, CutCheckpoints PROVE Sound'
<1>1. /\ pc = "cutCkpts" /\ pc' \in {"finish", "backConv"}
      /\ disk' = disk /\ tmp' = tmp /\ bak' = bak /\ manifest' = manifest /\ conv' = conv
      /\ lastUndo' = lastUndo /\ cur' = cur /\ tx' = tx /\ todo' = todo /\ failed' = failed
      /\ pass' = pass /\ queue' = queue /\ nextTx' = nextTx /\ serial' = serial
      /\ edited' = edited
  BY DEF CutCheckpoints, diskVars, opVars, recoveryVars, boundVars
<1>2. \/ ckpts' = ckpts /\ turn' = turn
      \/ ckpts' = Before(ckpts, tx.from) /\ turn' = tx.from
  BY DEF CutCheckpoints
<1>3. ckpts' \in PointMaps(serial) /\ turn' \in 0..serial
  BY <1>2, SessionFacts
<1> QED
  BY <1>1, <1>3, SessionFacts, SessionStep DEF Switching

LEMMA RestoreConversationSound == ASSUME Sound, RestoreConversation PROVE Sound'
<1>1. /\ pc = "restoreConv" /\ pc' \in {"restoreCkpts", "backConv"}
      /\ disk' = disk /\ tmp' = tmp /\ bak' = bak /\ manifest' = manifest /\ ckpts' = ckpts
      /\ turn' = turn /\ lastUndo' = lastUndo /\ cur' = cur /\ tx' = tx /\ todo' = todo
      /\ failed' = failed /\ pass' = pass /\ queue' = queue /\ nextTx' = nextTx
      /\ serial' = serial /\ edited' = edited
  BY DEF RestoreConversation, diskVars, opVars, recoveryVars, boundVars
<1>2. conv' = conv \/ conv' = tx.fwdConv
  BY DEF RestoreConversation
<1>3. conv' \in Chats(serial)
  BY <1>2, SessionFacts
<1> QED
  BY <1>1, <1>3, SessionFacts, SessionStep DEF Switching

LEMMA RestoreCheckpointsSound == ASSUME Sound, RestoreCheckpoints PROVE Sound'
<1>1. /\ pc = "restoreCkpts" /\ pc' \in {"finish", "backConv"}
      /\ disk' = disk /\ tmp' = tmp /\ bak' = bak /\ manifest' = manifest /\ conv' = conv
      /\ lastUndo' = lastUndo /\ cur' = cur /\ tx' = tx /\ todo' = todo /\ failed' = failed
      /\ pass' = pass /\ queue' = queue /\ nextTx' = nextTx /\ serial' = serial
      /\ edited' = edited
  BY DEF RestoreCheckpoints, diskVars, opVars, recoveryVars, boundVars
<1>2. \/ ckpts' = ckpts /\ turn' = turn
      \/ ckpts' = Merge(ckpts, tx.backup) /\ turn' = NextTurn(Merge(ckpts, tx.backup))
  BY DEF RestoreCheckpoints, ReinstateCheckpoints
<1>3. ckpts' \in PointMaps(serial) /\ turn' \in 0..serial
  BY <1>2, SessionFacts
<1> QED
  BY <1>1, <1>3, SessionFacts, SessionStep DEF Switching

LEMMA BackConversationSound == ASSUME Sound, BackConversation PROVE Sound'
<1>1. /\ pc = "backConv" /\ pc' = "backCkpts"
      /\ disk' = disk /\ tmp' = tmp /\ bak' = bak /\ manifest' = manifest /\ ckpts' = ckpts
      /\ turn' = turn /\ lastUndo' = lastUndo /\ cur' = cur /\ tx' = tx /\ todo' = todo
      /\ pass' = pass /\ queue' = queue /\ nextTx' = nextTx /\ serial' = serial
      /\ edited' = edited
  BY DEF BackConversation, diskVars, recoveryVars, boundVars
<1>2. /\ \/ conv' = conv \/ conv' = tx.fwdConv
         \/ (tx.boundary <= Len(conv) /\ conv' = Cut(conv, tx.boundary))
      /\ failed' = failed \/ failed' = failed \cup {"state"}
  BY DEF BackConversation, Failed
<1>3. conv' \in Chats(serial) /\ failed' \subseteq {"state", "files"}
  BY <1>2, SessionFacts
<1> QED
  BY <1>1, <1>3, SessionFacts, SessionStep

LEMMA BackCheckpointsSound == ASSUME Sound, BackCheckpoints PROVE Sound'
<1>1. /\ pc = "backCkpts" /\ pc' = "backDone"
      /\ disk' = disk /\ tmp' = tmp /\ bak' = bak /\ manifest' = manifest /\ conv' = conv
      /\ lastUndo' = lastUndo /\ cur' = cur /\ tx' = tx /\ todo' = todo /\ pass' = pass
      /\ queue' = queue /\ nextTx' = nextTx /\ serial' = serial /\ edited' = edited
  BY DEF BackCheckpoints, diskVars, recoveryVars, boundVars
<1>2. /\ \/ ckpts' = ckpts /\ turn' = turn
         \/ ckpts' = Merge(ckpts, tx.backup) /\ turn' = NextTurn(Merge(ckpts, tx.backup))
         \/ ckpts' = Before(ckpts, tx.from) /\ turn' = tx.from
      /\ failed' = failed \/ failed' = failed \cup {"state"}
  BY DEF BackCheckpoints, ReinstateCheckpoints, Failed
<1>3. ckpts' \in PointMaps(serial) /\ turn' \in 0..serial /\ failed' \subseteq {"state", "files"}
  BY <1>2, SessionFacts
<1> QED
  BY <1>1, <1>3, SessionFacts, SessionStep

--------
(* Compensation of the files. *)

\* On its way back a transaction's manifest is the stored one.
LEMMA ReturningFacts ==
  ASSUME Sound, pc \in Returning
  PROVE  /\ cur \in TxIds /\ cur # NoTx /\ cur < nextTx /\ Types /\ serial \in Nat /\ Stages
         /\ manifest[cur] = tx /\ tx.state \in {"prepared", "committing"} /\ IsManifest(tx, serial)
         /\ pass \in 0..2 /\ todo \subseteq Files /\ todo \subseteq tx.targets
         /\ todo # {} => Greatest(todo) \in todo /\ Greatest(todo) \in Files
<1>1. cur \in TxIds /\ cur # NoTx /\ cur < nextTx /\ Types /\ serial \in Nat /\ Stages
  BY HasTransaction, SessionTypes DEF Sound, Returning
<1>2. manifest[cur] = tx /\ tx.state \in {"prepared", "committing"} /\ IsManifest(tx, serial)
  BY <1>1 DEF Stages, Unsaved, Returning, Types
<1>3. todo \subseteq Files /\ todo \subseteq tx.targets /\ pass \in 0..2
  BY <1>1, <1>2 DEF Types, IsManifest
<1> QED
  BY <1>1, <1>2, <1>3, NextFile

LEMMA BackDoneSound == ASSUME Sound, BackDone PROVE Sound'
<1>1. /\ pc = "backDone"
      /\ disk' = disk /\ tmp' = tmp /\ bak' = bak /\ manifest' = manifest /\ conv' = conv
      /\ ckpts' = ckpts /\ turn' = turn /\ lastUndo' = lastUndo /\ pass' = pass /\ queue' = queue
      /\ nextTx' = nextTx /\ serial' = serial /\ edited' = edited
  BY DEF BackDone, diskVars, sessionVars, recoveryVars, boundVars
<1>2. /\ cur \in TxIds /\ cur # NoTx /\ Types /\ serial \in Nat /\ Stages /\ pass \in 0..2
      /\ manifest[cur] = tx /\ tx.state \in {"prepared", "committing"}
  BY <1>1, ReturningFacts DEF Returning
<1>3. CASE Return
  <2>1. /\ Stages' /\ GoesOn /\ pc' \in Steps /\ cur' = NoTx
        /\ todo' \subseteq tx'.targets /\ failed' \subseteq {"state", "files"}
        /\ IsManifest(tx', serial)
    BY <1>1, <1>2, <1>3, ReturnView
  <2>2. Types'
    BY <1>1, <1>2, <2>1 DEF Types
  <2> QED
    BY <1>1, <2>1, <2>2, QuietStep
<1>4. CASE Compensate /\ cur' = cur /\ tx' = tx /\ failed' = failed
  <2>1. Stages' /\ pc' \in Steps /\ todo' \subseteq tx'.targets
    BY <1>1, <1>2, <1>4, CompensateView
  <2>2. Types'
    BY <1>1, <1>2, <1>4, <2>1 DEF Types
  <2> QED
    BY <1>1, <1>4, <2>1, <2>2, QuietStep DEF GoesOn
<1> QED
  BY <1>3, <1>4 DEF BackDone

\* A step of the compensation loop: the file f is put back, left or lost for now.
LEMMA LoopStep ==
  ASSUME Sound, pc \in {"compensate", "reinstate"}, NEW f \in Files,
         \/ pc' = "compensate" /\ todo' \subseteq todo
         \/ pc' = "reinstate" /\ todo' = todo /\ todo # {},
         \/ disk' = disk
         \/ \E i \in Images : disk' = [disk EXCEPT ![f] = i],
         bak' = bak \/ bak' = [bak EXCEPT ![cur][f] = Absent],
         tmp' \subseteq tmp, failed' \subseteq failed \cup {"state", "files"},
         manifest' = manifest /\ conv' = conv /\ ckpts' = ckpts /\ turn' = turn
      /\ lastUndo' = lastUndo /\ cur' = cur /\ tx' = tx /\ pass' = pass /\ queue' = queue
      /\ nextTx' = nextTx /\ serial' = serial /\ edited' = edited
  PROVE  Sound'
<1>1. /\ cur \in TxIds /\ cur # NoTx /\ Types /\ Stages /\ Absent \in Images
  BY ReturningFacts, SessionTypes DEF Returning
<1>2. disk' \in [Files -> Images]
  BY <1>1 DEF Types
<1>3. bak' \in [TxIds -> [Files -> Images]]
  BY <1>1 DEF Types
<1>4. /\ todo' \subseteq tx'.targets /\ pc' \in Steps /\ tmp' \subseteq TxIds \X Files
      /\ failed' \subseteq {"state", "files"}
  BY <1>1 DEF Types, Steps
<1>5. Types'
  BY <1>1, <1>2, <1>3, <1>4 DEF Types
<1>6. Stages'
  BY <1>1 DEF Stages, Unsaved, Preparing, Publishing, Switching, Returning
<1> QED
  BY <1>1, <1>5, <1>6, MoveStep DEF GoesOn

LEMMA CompensateFileSound == ASSUME Sound, CompensateFile PROVE Sound'
<1>1. /\ pc = "compensate" /\ todo # {}
      /\ manifest' = manifest /\ conv' = conv /\ ckpts' = ckpts /\ turn' = turn
      /\ lastUndo' = lastUndo /\ cur' = cur /\ tx' = tx /\ pass' = pass /\ queue' = queue
      /\ nextTx' = nextTx /\ serial' = serial /\ edited' = edited
  BY DEF CompensateFile, sessionVars, recoveryVars, boundVars
<1>2. /\ Types /\ Greatest(todo) \in Files /\ cur \in TxIds /\ IsManifest(tx, serial)
      /\ Greatest(todo) \in tx.targets /\ Absent \in Images
  BY <1>1, ReturningFacts, SessionTypes DEF Returning
<1>3. PICK f \in Files : f = Greatest(todo)
  BY <1>2
<1>4. CASE CompensateNothing(f)
  BY <1>1, <1>4, LoopStep DEF CompensateNothing, DropTemp, NextTarget
<1>5. CASE CompensateRename(f)
  <2>1. bak[cur][f] \in Images
    BY <1>2 DEF Types
  <2> QED
    BY <1>1, <1>5, <2>1, LoopStep DEF CompensateRename, Put, SetBackup, DropTemp, NextTarget
<1>6. CASE CompensateForeign(f)
  BY <1>1, <1>6, LoopStep DEF CompensateForeign, Failed, NextTarget
<1>7. CASE CompensateRemove(f)
  BY <1>1, <1>2, <1>7, LoopStep DEF CompensateRemove, Put, NextTarget
<1>8. CASE Failed("files") /\ NextTarget(f) /\ UNCHANGED << disk, bak, tmp >>
  BY <1>1, <1>8, LoopStep DEF Failed, NextTarget
<1> QED
  BY <1>3, <1>4, <1>5, <1>6, <1>7, <1>8 DEF CompensateFile

LEMMA ReinstateFileSound == ASSUME Sound, ReinstateFile PROVE Sound'
<1>1. /\ pc = "reinstate"
      /\ tmp' = tmp /\ manifest' = manifest /\ conv' = conv /\ ckpts' = ckpts /\ turn' = turn
      /\ lastUndo' = lastUndo /\ cur' = cur /\ tx' = tx /\ pass' = pass /\ queue' = queue
      /\ nextTx' = nextTx /\ serial' = serial /\ edited' = edited
  BY DEF ReinstateFile, sessionVars, recoveryVars, boundVars, NextTarget
<1>2. /\ todo # {} /\ Types /\ cur \in TxIds /\ IsManifest(tx, serial)
      /\ Greatest(todo) \in Files /\ Greatest(todo) \in tx.targets
  <2>1. todo # {}
    BY <1>1 DEF Sound, Stages
  <2> QED
    BY <1>1, <2>1, ReturningFacts DEF Returning
<1>3. PICK f \in Files : f = Greatest(todo)
  BY <1>2
<1>4. bak[cur][f] \in Images /\ tx.forward[f] \in Images
  BY <1>2, <1>3 DEF Types, IsManifest
<1>5. pc' = "compensate" /\ todo' = todo \ {f}
  BY <1>3 DEF ReinstateFile, NextTarget
<1>6. /\ disk' = disk \/ disk' = [disk EXCEPT ![f] = bak[cur][f]] \/ disk' = [disk EXCEPT ![f] = tx.forward[f]]
      /\ bak' = bak \/ bak' = [bak EXCEPT ![cur][f] = Absent]
      /\ failed' = failed \/ failed' = failed \cup {"files"}
  BY <1>3 DEF ReinstateFile, Put, SetBackup, Failed
<1>7. disk' = disk \/ \E i \in Images : disk' = [disk EXCEPT ![f] = i]
  BY <1>4, <1>6
<1> QED
  BY <1>1, <1>5, <1>6, <1>7, LoopStep

LEMMA SettleSound == ASSUME Sound, Settle PROVE Sound'
<1>1. /\ pc \in {"compensate", "settle"}
      /\ disk' = disk /\ tmp' = tmp /\ bak' = bak /\ conv' = conv /\ ckpts' = ckpts
      /\ turn' = turn /\ lastUndo' = lastUndo /\ pass' = pass /\ queue' = queue
      /\ nextTx' = nextTx /\ serial' = serial /\ edited' = edited /\ Return
  BY DEF Settle, diskVars, sessionVars, recoveryVars, boundVars
<1>2. /\ cur \in TxIds /\ cur # NoTx /\ cur < nextTx /\ Types /\ serial \in Nat /\ Stages /\ pass \in 0..2
      /\ manifest[cur] = tx /\ tx.state \in {"prepared", "committing"} /\ IsManifest(tx, serial)
  BY <1>1, ReturningFacts DEF Returning
<1>3. /\ Stages' /\ GoesOn /\ pc' \in Steps /\ cur' = NoTx
      /\ todo' \subseteq tx'.targets /\ failed' \subseteq {"state", "files"}
      /\ IsManifest(tx', serial)
  BY <1>1, <1>2, ReturnView
<1>4. CASE manifest' = manifest
  <2>1. Types'
    BY <1>1, <1>2, <1>3, <1>4 DEF Types
  <2> QED
    BY <1>1, <1>3, <1>4, <2>1, QuietStep
<1>5. ASSUME NEW s \in {"aborted", "committing"}, Store(InState(s)) PROVE Sound'
  <2>1. PICK m : m = SetState(tx, s)
    OBVIOUS
  <2>2. /\ IsManifest(m, serial) /\ m.state = s /\ m.published = tx.published
        /\ m.kind = tx.kind /\ m.parent = tx.parent
    BY <1>2, <2>1, StateView DEF States, SamePlan
  <2>3. manifest' = [manifest EXCEPT ![cur] = m]
    BY <1>5, <2>1 DEF Store, InState, SetState
  <2>4. DOMAIN manifest' = TxIds /\ \A t \in TxIds : IsManifest(manifest'[t], serial')
    BY <1>1, <1>2, <2>2, <2>3, Stored
  <2>5. Types'
    BY <1>1, <1>2, <1>3, <2>4 DEF Types
  <2> QED
    BY <1>1, <1>2, <1>3, <2>2, <2>3, <2>5, StoreStep
<1> QED
  BY <1>4, <1>5 DEF Settle


--------
(* The commit. *)

\* Another state, neither none nor committed, is written over a stored manifest.
LEMMA Restate ==
  ASSUME Sound, NEW u \in TxIds, manifest[u].state # "none", NEW s \in {"aborted", "undone"},
         manifest' = [manifest EXCEPT ![u].state = s],
         serial' = serial, nextTx' = nextTx, bak' = bak
  PROVE  /\ DOMAIN manifest' = TxIds /\ \A t \in TxIds : IsManifest(manifest'[t], serial')
         /\ \A t \in TxIds :
              /\ manifest'[t].state = "none" => manifest'[t] = EmptyManifest
              /\ manifest'[t].state # "none" => t < nextTx'
              /\ manifest'[t].kind = "undo" => manifest'[t].parent \in TxIds /\ manifest'[t].parent < t
         /\ \A t \in TxIds : t # u => manifest'[t] = manifest[t]
         /\ \A t : Reverted(t)' => Reverted(t)
         /\ IntentIsDurable'
<1>1. PICK m : m = SetState(manifest[u], s)
  OBVIOUS
<1>2. IsManifest(manifest[u], serial) /\ s \in States /\ Types
  BY DEF Sound, Types, States
<1>3. /\ IsManifest(m, serial) /\ m.state = s /\ m.published = manifest[u].published
      /\ m.kind = manifest[u].kind /\ m.parent = manifest[u].parent
  BY <1>1, <1>2, StateView DEF SamePlan
<1>4. manifest' = [manifest EXCEPT ![u] = m]
  BY <1>1 DEF SetState
<1>5. /\ DOMAIN manifest' = TxIds /\ \A t \in TxIds : IsManifest(manifest'[t], serial')
      /\ manifest'[u] = m /\ \A t \in TxIds : t # u => manifest'[t] = manifest[t]
  BY <1>2, <1>3, <1>4, Stored
<1>6. \A t \in TxIds :
        /\ manifest'[t].state = "none" => manifest'[t] = EmptyManifest
        /\ manifest'[t].state # "none" => t < nextTx'
        /\ manifest'[t].kind = "undo" => manifest'[t].parent \in TxIds /\ manifest'[t].parent < t
  BY <1>3, <1>5 DEF Sound, Ledger
<1>7. \A t : Reverted(t)' => Reverted(t)
  BY <1>3, <1>5 DEF Reverted
<1>8. IntentIsDurable'
  BY <1>3, <1>5 DEF Sound, IntentIsDurable
<1> QED
  BY <1>5, <1>6, <1>7, <1>8

LEMMA FinishSound == ASSUME Sound, Finish PROVE Sound'
<1>1. /\ pc = "finish"
      /\ disk' = disk /\ tmp' = tmp /\ bak' = bak /\ conv' = conv /\ ckpts' = ckpts
      /\ turn' = turn /\ pass' = pass /\ queue' = queue
      /\ nextTx' = nextTx /\ serial' = serial /\ edited' = edited
  BY DEF Finish, diskVars, sessionVars, recoveryVars, boundVars
<1>2. /\ cur \in TxIds /\ cur # NoTx /\ cur < nextTx /\ Types /\ serial \in Nat /\ pass = 0 /\ Stages
      /\ manifest[cur] = tx /\ tx.state = "committing" /\ IsManifest(tx, serial)
  BY <1>1, PublishingFacts DEF Switching
<1>3. PICK m : m = SetState(tx, "committed")
  OBVIOUS
<1>4. /\ IsManifest(m, serial) /\ m.state = "committed" /\ m.published = tx.published
      /\ m.kind = tx.kind /\ m.parent = tx.parent /\ m.targets = tx.targets
  BY <1>2, <1>3, StateView DEF States, SamePlan
<1>5. ASSUME manifest' = [manifest EXCEPT ![cur] = m]
      PROVE  /\ DOMAIN manifest' = TxIds /\ \A t \in TxIds : IsManifest(manifest'[t], serial')
             /\ manifest'[cur] = m /\ \A t \in TxIds : t # cur => manifest'[t] = manifest[t]
             /\ IntentIsDurable'
  <2>1. /\ DOMAIN manifest' = TxIds /\ \A t \in TxIds : IsManifest(manifest'[t], serial')
        /\ manifest'[cur] = m /\ \A t \in TxIds : t # cur => manifest'[t] = manifest[t]
    BY <1>1, <1>2, <1>4, <1>5, Stored
  <2>2. IntentIsDurable'
    BY <1>1, <1>2, <1>4, <2>1, IntentStored DEF Sound
  <2> QED
    BY <2>1, <2>2
<1>6. CASE tx.kind # "undo" /\ Store(InState("committed")) /\ lastUndo' = cur /\ Return
  <2>1. manifest' = [manifest EXCEPT ![cur] = m]
    BY <1>3, <1>6 DEF Store, InState, SetState
  <2>2. /\ Stages' /\ pc' = "idle" /\ pc' \in Steps /\ cur' = NoTx
        /\ todo' \subseteq tx'.targets /\ failed' \subseteq {"state", "files"}
        /\ IsManifest(tx', serial)
    BY <1>1, <1>2, <1>6, ReturnView DEF Return
  <2>3. Types'
    BY <1>1, <1>2, <1>5, <1>6, <2>1, <2>2 DEF Types
  <2>4. Ledger'
    BY <1>1, <1>2, <1>4, <1>5, <2>1, <2>2, LedgerStored DEF Sound, GoesOn
  <2>5. ASSUME Reverted(lastUndo)' PROVE FALSE
    <3>1. PICK u \in TxIds : /\ manifest'[u].state = "committed" /\ manifest'[u].kind = "undo"
                             /\ manifest'[u].parent = lastUndo'
      BY <2>5 DEF Reverted
    <3>2. u # cur /\ manifest[u] = manifest'[u]
      BY <1>4, <1>5, <1>6, <2>1, <3>1
    <3>3. u < nextTx /\ cur < u
      BY <1>6, <3>1, <3>2 DEF Sound, Ledger
    <3>4. nextTx = cur + 1 /\ cur \in Nat /\ u \in Nat
      BY <1>2, RewindAssumption DEF Stages, TxIds
    <3> QED
      BY <3>3, <3>4
  <2>6. Offers'
    BY <1>4, <1>5, <1>6, <2>1, <2>5 DEF Offers
  <2> QED
    BY <1>5, <2>1, <2>2, <2>3, <2>4, <2>6 DEF Sound
<1>7. CASE /\ tx.kind = "undo" /\ Persist(InState("committed")) /\ pc' = "markUndone"
           /\ lastUndo' = lastUndo /\ cur' = cur /\ todo' = todo /\ failed' = failed
  <2>1. manifest' = [manifest EXCEPT ![cur] = m] /\ tx' = m
    BY <1>3, <1>7 DEF Persist, Store, InState, SetState
  <2>2. Types'
    BY <1>1, <1>2, <1>4, <1>5, <1>7, <2>1 DEF Types, Steps
  <2>3. Stages'
    BY <1>1, <1>2, <1>4, <1>5, <1>7, <2>1 DEF Stages, Unsaved, Preparing, Publishing, Switching, Returning
  <2>4. Ledger'
    BY <1>1, <1>2, <1>4, <1>5, <1>7, <2>1, LedgerStored DEF Sound, GoesOn
  <2>5. lastUndo = tx.parent /\ tx.parent < cur /\ tx.parent \in TxIds
    BY <1>2, <1>7 DEF Sound, Ledger
  <2>6. lastUndo # cur
    BY <1>2, <2>5, RewindAssumption DEF TxIds
  <2>7. Offers'
    BY <1>5, <1>7, <2>1, <2>5, <2>6 DEF Sound, Offers
  <2> QED
    BY <1>5, <2>1, <2>2, <2>3, <2>4, <2>7 DEF Sound
<1>8. CASE pc' = "backConv" /\ manifest' = manifest /\ lastUndo' = lastUndo /\ opVars' = opVars
  <2>1. cur' = cur /\ tx' = tx /\ todo' = todo /\ failed' = failed
    BY <1>8 DEF opVars
  <2> QED
    BY <1>1, <1>8, <2>1, SessionFacts, SessionStep DEF Switching
<1> QED
  BY <1>6, <1>7, <1>8 DEF Finish

LEMMA MarkUndoneSound == ASSUME Sound, MarkUndone PROVE Sound'
<1>1. /\ pc = "markUndone" /\ lastUndo' = NoTx /\ Return
      /\ disk' = disk /\ tmp' = tmp /\ bak' = bak /\ conv' = conv /\ ckpts' = ckpts
      /\ turn' = turn /\ pass' = pass /\ queue' = queue
      /\ nextTx' = nextTx /\ serial' = serial /\ edited' = edited
  BY DEF MarkUndone, diskVars, sessionVars, recoveryVars, boundVars
<1>2. cur \in TxIds /\ cur # NoTx /\ cur < nextTx /\ Types /\ Stages /\ pass \in 0..2
  BY <1>1, HasTransaction DEF Sound, Types
<1>3. manifest[cur] = tx /\ tx.kind = "undo" /\ pass = 0
  BY <1>1, <1>2 DEF Stages, Unsaved, Returning
<1>4. tx.parent \in TxIds /\ lastUndo = tx.parent /\ tx.parent # NoTx
  BY <1>2, <1>3, SessionTypes DEF Sound, Ledger
<1>5. manifest[tx.parent].state # "none"
  BY <1>4 DEF Sound, Offers
<1>6. /\ Stages' /\ GoesOn /\ pc' \in Steps /\ cur' = NoTx
      /\ todo' \subseteq tx'.targets /\ failed' \subseteq {"state", "files"}
      /\ IsManifest(tx', serial)
  BY <1>1, <1>2, ReturnView
<1>7. CASE manifest' = manifest
  <2>1. Types'
    BY <1>1, <1>2, <1>6, <1>7 DEF Types
  <2> QED
    BY <1>1, <1>6, <1>7, <2>1, QuietStep
<1>8. CASE manifest' = [manifest EXCEPT ![tx.parent].state = "undone"]
  <2>1. /\ DOMAIN manifest' = TxIds /\ \A t \in TxIds : IsManifest(manifest'[t], serial')
        /\ \A t \in TxIds :
              /\ manifest'[t].state = "none" => manifest'[t] = EmptyManifest
              /\ manifest'[t].state # "none" => t < nextTx'
              /\ manifest'[t].kind = "undo" => manifest'[t].parent \in TxIds /\ manifest'[t].parent < t
        /\ IntentIsDurable'
    BY <1>1, <1>4, <1>5, <1>8, Restate
  <2>2. Types'
    BY <1>1, <1>2, <1>6, <2>1 DEF Types
  <2>3. Ledger'
    BY <1>6, <2>1 DEF Ledger
  <2>4. Offers'
    BY <1>1 DEF Offers
  <2> QED
    BY <1>6, <2>1, <2>2, <2>3, <2>4 DEF Sound
<1> QED
  BY <1>7, <1>8 DEF MarkUndone

--------
(* Crashes and recovery. *)

LEMMA CrashSound == ASSUME Sound, Crash PROVE Sound'
<1>1. /\ pc' = "down" /\ pass' = 0 /\ queue' = {} /\ lastUndo' = NoTx /\ cur' = NoTx
      /\ tx' = EmptyManifest /\ todo' = {} /\ failed' = {}
      /\ disk' = disk /\ tmp' = tmp /\ bak' = bak /\ manifest' = manifest /\ conv' = conv
      /\ ckpts' = ckpts /\ turn' = turn /\ nextTx' = nextTx /\ serial' = serial
      /\ edited' = edited
  BY DEF Crash, Forget, diskVars, sessionVars
<1>2. Types /\ IsManifest(EmptyManifest, serial)
  BY SessionTypes, EmptyView DEF Sound
<1>3. Types'
  BY <1>1, <1>2 DEF Types, Steps
<1>4. Stages'
  BY <1>1 DEF Stages, Unsaved, Preparing, Publishing, Switching, Returning
<1> QED
  BY <1>1, <1>3, <1>4, QuietStep DEF GoesOn

LEMMA OpenSound == ASSUME Sound, Open PROVE Sound'
<1>1. /\ pc' = "scan" /\ pass' = 1 /\ queue' = Manifests /\ turn' = NextTurn(ckpts)
      /\ lastUndo' = NoTx /\ cur' = NoTx /\ tx' = EmptyManifest /\ todo' = {} /\ failed' = {}
      /\ disk' = disk /\ tmp' = tmp /\ bak' = bak /\ manifest' = manifest /\ conv' = conv
      /\ ckpts' = ckpts /\ nextTx' = nextTx /\ serial' = serial /\ edited' = edited
  BY DEF Open, Forget, diskVars
<1>2. Types /\ IsManifest(EmptyManifest, serial) /\ serial \in Nat
  BY SessionTypes, EmptyView DEF Sound
<1>3. queue' \subseteq TxIds /\ turn' \in 0..serial
  BY <1>1, <1>2, PointFacts DEF Manifests, Types
<1>4. Types'
  BY <1>1, <1>2, <1>3 DEF Types, Steps
<1>5. Stages'
  BY <1>1 DEF Stages, Unsaved, Preparing, Publishing, Switching, Returning
<1> QED
  BY <1>1, <1>4, <1>5, QuietStep DEF GoesOn

LEMMA ScanSound == ASSUME Sound, ScanManifest PROVE Sound'
<1>1. /\ pc = "scan"
      /\ disk' = disk /\ bak' = bak /\ conv' = conv /\ ckpts' = ckpts
      /\ turn' = turn /\ failed' = failed /\ pass' = pass
      /\ nextTx' = nextTx /\ serial' = serial /\ edited' = edited
  BY DEF ScanManifest, sessionVars, boundVars
<1>2. PICK t \in queue : ScanNext(t) /\ (RecoverPrepared(t) \/ RecoverCommitting(t) \/ RecoverCommitted(t))
  BY DEF ScanManifest
<1>3. Types /\ Stages /\ t \in TxIds /\ queue' \subseteq TxIds /\ NoTx \notin TxIds
  BY <1>2, SessionTypes DEF Sound, Types, ScanNext
<1>4. cur = NoTx /\ pass # 0 /\ todo = {} /\ failed = {} /\ tx = EmptyManifest
  BY <1>1, <1>3 DEF Stages
<1>5. CASE RecoverPrepared(t)
  <2>1. /\ lastUndo' = lastUndo /\ cur' = cur /\ tx' = tx /\ pc' = pc /\ todo' = todo
        /\ manifest[t].state = "prepared" /\ tmp' \subseteq tmp
    BY <1>5 DEF RecoverPrepared
  <2>2. Stages'
    BY <1>1, <1>4, <2>1 DEF Stages, Unsaved, Preparing, Publishing, Switching, Returning
  <2>3. CASE manifest' = manifest
    <3>1. Types'
      BY <1>1, <1>3, <2>1, <2>3 DEF Types
    <3> QED
      BY <1>1, <1>4, <2>1, <2>2, <2>3, <3>1, QuietStep DEF GoesOn
  <2>4. CASE manifest' = [manifest EXCEPT ![t].state = "aborted"]
    <3>1. /\ DOMAIN manifest' = TxIds /\ \A u \in TxIds : IsManifest(manifest'[u], serial')
          /\ \A u \in TxIds :
                /\ manifest'[u].state = "none" => manifest'[u] = EmptyManifest
                /\ manifest'[u].state # "none" => u < nextTx'
                /\ manifest'[u].kind = "undo" => manifest'[u].parent \in TxIds /\ manifest'[u].parent < u
          /\ \A u \in TxIds : u # t => manifest'[u] = manifest[u]
          /\ \A u : Reverted(u)' => Reverted(u)
          /\ IntentIsDurable'
      BY <1>1, <1>3, <2>1, <2>4, Restate
    <3>2. Types'
      BY <1>1, <1>3, <2>1, <3>1 DEF Types
    <3>3. Ledger'
      BY <1>4, <2>1, <3>1 DEF Ledger
    <3>4. lastUndo # NoTx => lastUndo # t /\ lastUndo \in TxIds
      BY <1>3, <2>1 DEF Sound, Offers, Types
    <3>5. Offers'
      BY <1>1, <2>1, <3>1, <3>4 DEF Sound, Offers
    <3> QED
      BY <2>2, <3>1, <3>2, <3>3, <3>5 DEF Sound
  <2> QED
    BY <1>5, <2>3, <2>4 DEF RecoverPrepared
<1>6. CASE RecoverCommitting(t)
  <2>1. /\ manifest[t].state = "committing" /\ tmp' = tmp /\ manifest' = manifest /\ lastUndo' = lastUndo
        /\ \/ cur' = cur /\ tx' = tx /\ pc' = pc /\ todo' = todo
           \/ cur' = t /\ tx' = manifest[t] /\ pc' = "backConv" /\ todo' = todo
           \/ cur' = t /\ tx' = manifest[t] /\ pc' = "compensate" /\ todo' = tx'.targets
    BY <1>6 DEF RecoverCommitting
  <2>2. IsManifest(tx', serial) /\ todo' \subseteq tx'.targets /\ cur' \in TxIds \cup {NoTx} /\ pc' \in Steps
    BY <1>1, <1>3, <1>4, <2>1 DEF Types, Steps
  <2>3. Types'
    BY <1>1, <1>3, <2>1, <2>2 DEF Types
  <2>4. Stages'
    BY <1>1, <1>3, <1>4, <2>1 DEF Stages, Unsaved, Preparing, Publishing, Switching, Returning
  <2>5. Ledger'
    BY <1>1, <1>3, <1>4, <2>1 DEF Sound, Ledger
  <2>6. Offers'
    BY <1>1, <2>1, OffersSame DEF Sound
  <2>7. IntentIsDurable'
    BY <1>1, <2>1 DEF Sound, IntentIsDurable
  <2> QED
    BY <2>3, <2>4, <2>5, <2>6, <2>7 DEF Sound
<1>7. CASE RecoverCommitted(t)
  <2>1. /\ tmp' = tmp /\ manifest' = manifest /\ cur' = cur /\ tx' = tx /\ pc' = pc /\ todo' = todo
        /\ \/ lastUndo' = lastUndo
           \/ /\ lastUndo' = t /\ manifest[t].state = "committed" /\ manifest[t].kind # "undo"
              /\ t \notin UndoneParents
    BY <1>7 DEF RecoverCommitted
  <2>2. Types'
    BY <1>1, <1>3, <2>1 DEF Types
  <2>3. Stages'
    BY <1>1, <1>4, <2>1 DEF Stages, Unsaved, Preparing, Publishing, Switching, Returning
  <2>4. Ledger'
    BY <1>1, <1>4, <2>1 DEF Sound, Ledger
  <2>5. \A u : Reverted(u)' <=> Reverted(u)
    BY <2>1 DEF Reverted
  <2>6. t \notin UndoneParents => ~ Reverted(t)
    BY <1>3 DEF UndoneParents, Reverted
  <2>7. Offers'
    BY <1>1, <2>1, <2>5, <2>6 DEF Sound, Offers
  <2>8. IntentIsDurable'
    BY <1>1, <2>1 DEF Sound, IntentIsDurable
  <2> QED
    BY <2>2, <2>3, <2>4, <2>7, <2>8 DEF Sound
<1> QED
  BY <1>2, <1>5, <1>6, <1>7

LEMMA PassDoneSound == ASSUME Sound, PassDone PROVE Sound'
<1>1. /\ pc = "scan" /\ pc' \in {"scan", "idle"} /\ pass' \in 0..2 /\ (pass' = 0 <=> pc' = "idle")
      /\ queue' \in {queue, Manifests}
      /\ disk' = disk /\ tmp' = tmp /\ bak' = bak /\ manifest' = manifest /\ conv' = conv
      /\ ckpts' = ckpts /\ turn' = turn /\ lastUndo' = lastUndo /\ cur' = cur /\ tx' = tx
      /\ todo' = todo /\ failed' = failed /\ nextTx' = nextTx /\ serial' = serial
      /\ edited' = edited
  BY DEF PassDone, diskVars, sessionVars, opVars, boundVars
<1>2. Types /\ Stages /\ cur = NoTx
  BY <1>1 DEF Sound, Stages
<1>3. Types'
  BY <1>1, <1>2 DEF Types, Steps, Manifests
<1>4. Stages'
  BY <1>1, <1>2 DEF Stages, Unsaved, Preparing, Publishing, Switching, Returning
<1> QED
  BY <1>1, <1>2, <1>3, <1>4, QuietStep DEF GoesOn

--------
LEMMA InitSound == Init => Sound
<1> SUFFICES ASSUME Init PROVE Sound
  OBVIOUS
<1>1. serial = 0 /\ serial \in Nat /\ MaxTurns \in Nat /\ MaxTx \in Nat
  BY RewindAssumption DEF Init
<1>2. /\ IsManifest(EmptyManifest, serial)
      /\ EmptyManifest.state = "none" /\ EmptyManifest.kind = "rewind"
  BY <1>1, EmptyView
<1>3. /\ manifest = [t \in TxIds |-> EmptyManifest] /\ tx = EmptyManifest
      /\ bak = [t \in TxIds |-> [f \in Files |-> Absent]] /\ Absent \in Images
      /\ pc = "idle" /\ cur = NoTx /\ pass = 0 /\ lastUndo = NoTx /\ nextTx = 1
      /\ tmp = {} /\ todo = {} /\ failed = {} /\ queue = {} /\ edited = {} /\ turn = 0
      /\ conv = << >> /\ ckpts = << >> /\ disk \in [Files -> Images]
  BY DEF Init, Images
<1>4. conv \in Chats(serial) /\ ckpts \in PointMaps(serial)
  BY <1>1, <1>3, ChatFacts, PointFacts
<1>5. Types
  BY <1>1, <1>2, <1>3, <1>4 DEF Types, Steps
<1>6. Stages
  BY <1>3 DEF Stages, Unsaved, Preparing, Publishing, Switching, Returning
<1>7. Ledger
  BY <1>2, <1>3 DEF Ledger
<1>8. Offers /\ IntentIsDurable
  BY <1>3 DEF Offers, IntentIsDurable
<1> QED
  BY <1>5, <1>6, <1>7, <1>8 DEF Sound

LEMMA NextSound == ASSUME Sound, [Next]_vars PROVE Sound'
<1>1. CASE Turn
  BY <1>1, TurnSound
<1>2. CASE ExternalEdit
  BY <1>2, EditSound
<1>3. CASE StartOperation
  <2>1. ASSUME NEW k \in DOMAIN ckpts, NEW scope \in { {"files"}, {"conv"}, {"files", "conv"} },
               StartRewind(k, scope)
        PROVE  Sound'
    BY <2>1, StartRewindSound
  <2> QED
    BY <1>3, <2>1, StartFileRevertSound, StartUndoSound DEF StartOperation
<1>4. CASE Commit
  BY <1>4, StageTempsSound, PersistPreparedSound, AttachForwardSound, PersistUndoAgainSound,
     BeginCommitSound, PublishIntentSound, BackUpTargetSound, InstallTargetSound,
     PersistProgressSound, FilesDoneSound, CutConversationSound, CutCheckpointsSound,
     RestoreConversationSound, RestoreCheckpointsSound, FinishSound, MarkUndoneSound DEF Commit
<1>5. CASE Compensation
  BY <1>5, BackConversationSound, BackCheckpointsSound, BackDoneSound, CompensateFileSound,
     ReinstateFileSound, SettleSound DEF Compensation
<1>6. CASE Crash
  BY <1>6, CrashSound
<1>7. CASE Reopen \/ Recovery
  BY <1>7, OpenSound, ScanSound, PassDoneSound DEF Reopen, Recovery, Restart
<1>8. CASE UNCHANGED vars
  <2>1. disk' = disk /\ tmp' = tmp /\ bak' = bak /\ manifest' = manifest /\ conv' = conv
      /\ ckpts' = ckpts /\ turn' = turn /\ lastUndo' = lastUndo /\ pc' = pc /\ cur' = cur
      /\ tx' = tx /\ todo' = todo /\ failed' = failed /\ pass' = pass /\ queue' = queue
      /\ nextTx' = nextTx /\ serial' = serial /\ edited' = edited
    BY <1>8 DEF vars, diskVars, sessionVars, opVars, recoveryVars, boundVars
  <2>2. Types'
    BY <2>1 DEF Sound, Types
  <2>3. Stages'
    BY <2>1 DEF Sound, Stages, Unsaved
  <2> QED
    BY <2>1, <2>2, <2>3, QuietStep DEF GoesOn
<1> QED
  BY <1>1, <1>2, <1>3, <1>4, <1>5, <1>6, <1>7, <1>8 DEF Next

LEMMA SpecSound == Spec => []Sound
<1>1. Init => Sound
  BY InitSound
<1>2. Sound /\ [Next]_vars => Sound'
  BY NextSound
<1> QED
  BY <1>1, <1>2, PTL DEF Spec

--------
(* Theorems. *)

LEMMA SoundTypes ==
  ASSUME Types
  PROVE  TypeOK
<1>1. serial \in Nat /\ serial \in 0..MaxTurns /\ MaxTurns \in Nat
  BY SessionTypes, RewindAssumption DEF Types
<1>2. \A c \in Chats(serial) : c \in Seq(1..MaxTurns)
  <2>1. ASSUME NEW c \in Chats(serial) PROVE c \in Seq(1..MaxTurns)
    <3>1. c \in Seq(1..serial) /\ Len(c) \in Nat
      BY DEF Chats
    <3>2. \A i \in 1..Len(c) : c[i] \in 1..MaxTurns
      BY <1>1, <3>1
    <3> QED
      BY <3>1, <3>2, <1>1
  <2> QED
    BY <2>1
<1>3. ASSUME NEW c \in PointMaps(serial) PROVE CheckpointsOK(c)
  <2>1. ASSUME NEW t \in DOMAIN c PROVE t \in 0..MaxTurns /\ CheckpointOK(c[t])
    <3> PICK p : p = c[t]
      OBVIOUS
    <3>1. t \in Nat /\ t < serial /\ p \in Points(serial)
      BY <1>1, PointFacts
    <3>2. /\ p.serial \in 1..serial /\ p.msgIndex \in 0..serial /\ p.pre \in ImageMaps
          /\ p.after \in ImageMaps /\ DOMAIN p.after = DOMAIN p.pre
      BY <3>1 DEF Points
    <3>3. p.serial \in 1..MaxTurns /\ p.msgIndex \in 0..MaxTurns /\ t \in 0..MaxTurns
      BY <1>1, <3>1, <3>2
    <3>4. /\ DOMAIN p.pre \subseteq Files
          /\ \A f \in DOMAIN p.pre : p.pre[f] \in Images /\ p.after[f] \in Images
      BY <3>2 DEF ImageMaps
    <3> QED
      BY <3>2, <3>3, <3>4 DEF CheckpointOK
  <2> QED
    BY <2>1 DEF CheckpointsOK
<1>4. ASSUME NEW m, IsManifest(m, serial) PROVE ManifestOK(m)
  <2>1. m.from \in 0..MaxTurns /\ m.boundary \in 0..MaxTurns
    BY <1>1, <1>4 DEF IsManifest
  <2>2. m.fwdConv \in Seq(1..MaxTurns) /\ CheckpointsOK(m.backup)
    BY <1>2, <1>3, <1>4 DEF IsManifest
  <2> QED
    BY <1>4, <2>1, <2>2 DEF IsManifest, ManifestOK, States
<1>5. conv \in Seq(1..MaxTurns) /\ CheckpointsOK(ckpts) /\ turn \in 0..MaxTurns
  BY <1>1, <1>2, <1>3 DEF Types
<1>6. (\A t \in TxIds : ManifestOK(manifest[t])) /\ ManifestOK(tx)
  BY <1>4 DEF Types
<1> QED
  BY <1>5, <1>6 DEF Types, TypeOK

\* While nothing runs, what is offered for undo is committed and was not undone.
LEMMA SoundOffers ==
  ASSUME Offers
  PROVE  UndoneNeverOffered
BY DEF Offers, UndoneNeverOffered, UndoIsOffered

\* What a crash leaves on disk can be relied upon, at every step of every
\* rewind, revert, undo, compensation and recovery, whichever of them fail.
THEOREM ManifestsAreAlwaysSound == Spec => []ManifestsAreSound
<1>1. Sound => ManifestsAreSound
  BY SoundTypes, SoundOffers DEF Sound, ManifestsAreSound
<1> QED
  BY <1>1, SpecSound, PTL

--------
(* All or nothing.                                                          *)

\* A transaction begins, and a turn runs, only while none is pending.
BeginsAlone == nextTx' # nextTx \/ serial' # serial => Committing = {}

\* An undo begins where its rewind left the conversation and the checkpoints.
UndoFits == nextTx' # nextTx /\ tx'.kind = "undo" /\ NeedsConversation(tx') => ConversationBack(tx')

Orderly == BeginsAlone /\ UndoFits

\* The conversation and the checkpoints where p begins, and where it ends.
Start(p) == IF p.kind = "undo" THEN ConversationBack(p) ELSE ConversationForward(p)
End(p) == IF p.kind = "undo" THEN ConversationForward(p) ELSE ConversationBack(p)

\* Once it may be committing, a manifest that moves the conversation has it.
Attached(p) ==
    /\ p.kind = "file_revert" => ~NeedsConversation(p)
    /\ NeedsConversation(p) /\ (p.kind = "undo" \/ p.state \in {"committing", "committed", "undone"}) =>
          p.hasConv = "yes"
    /\ NeedsConversation(p) /\ (p.kind = "undo" \/ p.state \in {"committed", "undone"}) =>
          p.boundary <= Len(p.fwdConv)

\* The pending transaction is the one that runs.
Alone ==
    /\ \A t, u \in Committing : t = u
    /\ cur # NoTx => Committing \subseteq {cur}
    /\ cur # NoTx /\ pass # 0 => tx.state = "committing"

\* What tells the transaction t, with the manifest p, how the files were: a target
\* that it has not announced is untouched, and what it has moved away is the image
\* it recorded.
FilesFit(t, p) ==
    \A f \in p.targets \ edited :
        /\ f \notin p.published => disk[f] = p.forward[f]
        /\ bak[t][f] # Absent => bak[t][f] = p.forward[f]

\* An undo finds the conversation at one end or the other.
ChatFits(p) ==
    p.kind = "undo" /\ NeedsConversation(p) => conv = p.fwdConv \/ conv = Cut(p.fwdConv, p.boundary)

Pending(t, p) == Attached(p) /\ FilesFit(t, p) /\ ChatFits(p)

Pendings ==
    /\ \A t \in TxIds : Attached(manifest[t])
    /\ \A t \in Committing : Pending(t, manifest[t])
    /\ cur # NoTx => Pending(cur, tx)

\* The files of S that nobody edited have the images of the restore or the forward map.
Installed(S) == \A f \in S \ edited : disk[f] = tx.restore[f]
PutBack(S) == \A f \in S \ edited : disk[f] = tx.forward[f]

FilesPhase ==
    /\ pc \in {"intent", "backup"} => Installed(tx.targets \ todo) /\ PutBack(todo)
    /\ pc = "install" => Installed(tx.targets \ todo) /\ PutBack(todo \ {Least(todo)})
    /\ pc = "progress" => Installed(tx.targets \ (todo \ {Least(todo)})) /\ PutBack(todo \ {Least(todo)})
    /\ pc \in Switching => Installed(tx.targets)
    /\ pc \in {"compensate", "reinstate"} /\ "files" \notin failed => PutBack(tx.targets \ todo)
    /\ pc = "settle" => tx.state = "prepared" /\ tx.published = {}

Early == {"stage", "prepare", "attach"}

ChatPhase ==
    /\ pc = "attach" => tx.kind = "rewind"
    /\ cur # NoTx /\ pc \notin Early /\ NeedsConversation(tx) => tx.hasConv = "yes"
    /\ pc \in {"cutConv", "cutCkpts"} => tx.kind # "undo" /\ NeedsConversation(tx)
    /\ pc \in {"restoreConv", "restoreCkpts"} => tx.kind = "undo"
    /\ NeedsConversation(tx) =>
        /\ pc \in Early /\ tx.kind # "undo" => \A t \in DOMAIN tx.backup : ckpts[t] = tx.backup[t]
        /\ pc \in Early /\ tx.kind = "undo" => Start(tx)
        /\ pc \in {"prepareAgain", "begin", "settle", "cutConv", "restoreConv"} \cup Publishing => Start(tx)
        /\ pc = "cutCkpts" => conv = Cut(tx.fwdConv, tx.boundary) /\ tx.boundary <= Len(tx.fwdConv)
        /\ pc = "restoreCkpts" => conv = tx.fwdConv
        /\ pc = "finish" => End(tx) /\ tx.boundary <= Len(tx.fwdConv)
        /\ pc = "backCkpts" /\ "state" \notin failed =>
              conv = IF tx.kind = "undo" THEN Cut(tx.fwdConv, tx.boundary) ELSE tx.fwdConv
        /\ pc \in {"backDone", "compensate", "reinstate"} /\ "state" \notin failed => Start(tx)

Whole == Alone /\ Pendings /\ FilesPhase /\ ChatPhase

\* No transaction that is committing becomes committed or aborted in this step.
Steady ==
    \A t \in TxIds : manifest[t].state = "committing" => manifest'[t].state \notin {"committed", "aborted"}
--------
(* Frames. *)

\* A manifest that is not there yet moves nothing.
LEMMA EmptyAttached == Attached(EmptyManifest)
BY DEF Attached, EmptyManifest, NeedsConversation

LEMMA CutTwice ==
  ASSUME NEW n \in Nat, NEW c \in Chats(n), NEW b \in Nat, b <= Len(c)
  PROVE  Len(Cut(c, b)) = b /\ Cut(Cut(c, b), b) = Cut(c, b)
<1>1. c \in Seq(1..n) /\ Len(c) \in Nat
  BY ChatFacts
<1>2. PICK d : d = Cut(c, b)
  OBVIOUS
<1>3. d \in Seq(1..n) /\ Len(d) = b /\ \A i \in 1..b : d[i] = c[i]
  BY <1>1, <1>2 DEF Cut
<1>4. SubSeq(d, 1, b) \in Seq(1..n) /\ Len(SubSeq(d, 1, b)) = b /\ \A i \in 1..b : SubSeq(d, 1, b)[i] = d[i]
  BY <1>3
<1>5. SubSeq(d, 1, b) = d
  BY <1>3, <1>4
<1> QED
  BY <1>2, <1>3, <1>5 DEF Cut

\* The running operation goes on.
LEMMA WorkStep ==
  ASSUME Sound', Whole, cur \in TxIds, cur # NoTx, cur' = cur, pass' = pass,
         \A t \in TxIds : t # cur => manifest'[t] = manifest[t],
         pass # 0 => tx'.state = "committing",
         Pending(cur, tx)', FilesPhase', ChatPhase'
  PROVE  Whole'
<1>1. manifest'[cur] = tx' \/ manifest'[cur] = EmptyManifest
  BY DEF Sound, Stages
<1>2. EmptyManifest.state = "none" /\ Attached(EmptyManifest)
  BY EmptyAttached DEF EmptyManifest
<1>3. Committing' \subseteq {cur}
  BY DEF Whole, Alone, Committing
<1>4. Alone'
  BY <1>3 DEF Alone
<1>5. \A t \in TxIds : Attached(manifest[t])'
  <2>1. ASSUME NEW t \in TxIds, t # cur PROVE Attached(manifest[t])'
    BY <2>1 DEF Whole, Pendings, Attached, NeedsConversation
  <2>2. Attached(manifest[cur])'
    BY <1>1, <1>2 DEF Pending, Attached, NeedsConversation
  <2> QED
    BY <2>1, <2>2
<1>6. ASSUME NEW t \in Committing' PROVE Pending(t, manifest[t])'
  <2>1. t = cur /\ manifest'[t].state = "committing"
    BY <1>3 DEF Committing
  <2>2. manifest'[t] = tx'
    BY <1>1, <1>2, <2>1
  <2> QED
    BY <2>1, <2>2 DEF Pending, Attached, FilesFit, ChatFits, NeedsConversation
<1>7. Pendings'
  BY <1>5, <1>6 DEF Pendings
<1> QED
  BY <1>4, <1>7 DEF Whole

\* The files and the conversation stay as they are, and so does the plan.
LEMMA PendingKept ==
  ASSUME Pending(cur, tx), cur' = cur, SamePlan(tx, tx'), SameForward(tx, tx'), Attached(tx)',
         tx.published \subseteq tx'.published,
         disk' = disk, bak' = bak, edited' = edited, conv' = conv
  PROVE  Pending(cur, tx)'
<1>1. FilesFit(cur, tx)'
  BY DEF Pending, FilesFit, SamePlan
<1>2. ChatFits(tx)'
  BY DEF Pending, ChatFits, SamePlan, SameForward, NeedsConversation
<1> QED
  BY <1>1, <1>2 DEF Pending

\* Only the step of the operation changes.
LEMMA QuietWork ==
  ASSUME Sound', Whole, cur \in TxIds, cur # NoTx, cur' = cur, pass' = pass, tx' = tx,
         \A t \in TxIds : t # cur => manifest'[t] = manifest[t],
         disk' = disk, bak' = bak, edited' = edited, conv' = conv,
         FilesPhase', ChatPhase'
  PROVE  Whole'
<1>1. Attached(tx)'
  BY DEF Whole, Pendings, Pending, Attached, NeedsConversation
<1>2. SamePlan(tx, tx') /\ SameForward(tx, tx')
  BY DEF SamePlan, SameForward
<1>3. Pending(cur, tx)'
  BY <1>1, <1>2, PendingKept DEF Whole, Pendings
<1>4. pass # 0 => tx'.state = "committing"
  BY DEF Whole, Alone
<1> QED
  BY <1>3, <1>4, WorkStep

\* The operation returns, or there was none.
LEMMA LeaveStep ==
  ASSUME Whole, cur' = NoTx, pc' \in {"idle", "scan", "down"},
         \A t \in TxIds : t # cur => manifest'[t] = manifest[t],
         cur \in TxIds => Attached(manifest'[cur]),
         cur \in TxIds /\ manifest'[cur].state = "committing" => Pending(cur, manifest'[cur]),
         disk' = disk, bak' = bak, edited' = edited, conv' = conv
  PROVE  Whole'
<1>1. \A t \in Committing' : t = cur \/ t \in Committing
  BY DEF Committing
<1>2. cur # NoTx => Committing' \subseteq {cur}
  BY <1>1 DEF Whole, Alone
<1>3. Alone'
  <2>1. cur = NoTx => \A t \in Committing' : t \in Committing
    BY DEF Committing, TxIds, NoTx
  <2>2. \A t, u \in Committing' : t = u
    BY <1>2, <2>1 DEF Whole, Alone
  <2> QED
    BY <2>2 DEF Alone
<1>4. \A t \in TxIds : Attached(manifest[t])'
  <2>1. \A t \in TxIds : Attached(manifest'[t])
    BY DEF Whole, Pendings
  <2> QED
    BY <2>1 DEF Attached, NeedsConversation
<1>5. ASSUME NEW t \in Committing' PROVE Pending(t, manifest[t])'
  <2>1. t \in TxIds /\ manifest'[t].state = "committing"
    BY DEF Committing
  <2>2. Pending(t, manifest'[t])
    <3>1. CASE t = cur
      BY <2>1, <3>1
    <3>2. CASE t # cur
      BY <1>1, <2>1, <3>2 DEF Whole, Pendings
    <3> QED
      BY <3>1, <3>2
  <2> QED
    BY <2>2 DEF Pending, Attached, FilesFit, ChatFits, NeedsConversation
<1>6. Pendings'
  BY <1>4, <1>5 DEF Pendings
<1>7. FilesPhase' /\ ChatPhase'
  BY DEF FilesPhase, ChatPhase, Publishing, Switching, Early
<1> QED
  BY <1>3, <1>6, <1>7 DEF Whole

\* An operation that returns with its manifest as it is.
LEMMA ReturnStep ==
  ASSUME Sound, Whole, Return, manifest' = manifest,
         disk' = disk, bak' = bak, edited' = edited, conv' = conv
  PROVE  Whole'
<1>1. cur' = NoTx /\ pc' \in {"idle", "scan"}
  BY DEF Return
<1>2. cur \in TxIds => Attached(manifest'[cur])
  BY DEF Whole, Pendings
<1>3. cur \in TxIds /\ manifest'[cur].state = "committing" => Pending(cur, manifest'[cur])
  BY DEF Whole, Pendings, Committing
<1> QED
  BY <1>1, <1>2, <1>3, LeaveStep

\* The operation turns back before it has touched the conversation.
LEMMA CompensateStep ==
  ASSUME Sound', Whole, cur \in TxIds, cur # NoTx, cur' = cur, pass' = pass, tx' = tx, manifest' = manifest,
         Pending(cur, tx)', edited' = edited, conv' = conv, ckpts' = ckpts, failed' = failed,
         Compensate, pc \in {"prepareAgain", "begin", "backDone"} \cup Publishing
  PROVE  Whole'
<1>1. pc' = "compensate" /\ todo' = tx.targets
  BY DEF Compensate
<1>2. FilesPhase'
  BY <1>1 DEF FilesPhase, PutBack, Switching
<1>3. ChatPhase'
  <2>1. NeedsConversation(tx) => tx.hasConv = "yes"
    BY DEF Whole, ChatPhase, Early, Publishing
  <2>2. NeedsConversation(tx) /\ "state" \notin failed => Start(tx)
    BY DEF Whole, ChatPhase
  <2> QED
    BY <1>1, <2>1, <2>2 DEF ChatPhase, Early, Publishing, NeedsConversation, Start,
       ConversationForward, ConversationBack
<1>4. pass # 0 => tx'.state = "committing"
  BY DEF Whole, Alone
<1> QED
  BY <1>2, <1>3, <1>4, WorkStep

LEMMA SteadySame == ASSUME manifest' = manifest PROVE Steady
BY DEF Steady


LEMMA SteadyStored ==
  ASSUME Types, NEW u \in TxIds, NEW m, manifest' = [manifest EXCEPT ![u] = m],
         m.state \notin {"committed", "aborted"} \/ manifest[u].state # "committing"
  PROVE  Steady
<1>1. manifest'[u] = m /\ \A t \in TxIds : t # u => manifest'[t] = manifest[t]
  BY DEF Types
<1> QED
  BY <1>1 DEF Steady

\* Nothing is pending.
LEMMA ClearStep ==
  ASSUME cur' = NoTx, pc' \in {"idle", "scan", "down"}, Committing' = {},
         \A t \in TxIds : Attached(manifest'[t])
  PROVE  Whole'
<1>1. \A t \in TxIds : Attached(manifest[t])'
  BY DEF Attached, NeedsConversation
<1>2. Alone' /\ Pendings'
  BY <1>1 DEF Alone, Pendings
<1>3. FilesPhase' /\ ChatPhase'
  BY DEF FilesPhase, ChatPhase, Publishing, Switching, Early
<1> QED
  BY <1>2, <1>3 DEF Whole

\* What the conversation and the checkpoints have to be, and what must be attached,
\* depends on the plan and the stored conversation only.
LEMMA StartSame ==
  ASSUME NEW m, NEW p, SamePlan(m, p), SameForward(m, p)
  PROVE  /\ Start(m) <=> Start(p)
         /\ End(m) <=> End(p)
         /\ NeedsConversation(m) <=> NeedsConversation(p)
         /\ m.state = p.state => (Attached(m) <=> Attached(p))
<1>1. NeedsConversation(m) <=> NeedsConversation(p)
  BY DEF SamePlan, NeedsConversation
<1>2. ConversationForward(m) <=> ConversationForward(p)
  BY DEF SamePlan, SameForward, ConversationForward
<1>3. ConversationBack(m) <=> ConversationBack(p)
  BY DEF SamePlan, SameForward, ConversationBack
<1>4. m.state = p.state => (Attached(m) <=> Attached(p))
  BY <1>1 DEF Attached, SamePlan, SameForward
<1> QED
  BY <1>1, <1>2, <1>3, <1>4 DEF Start, End, SamePlan

\* The plan and the session stay as they are.
LEMMA StartMoved ==
  ASSUME SamePlan(tx, tx'), SameForward(tx, tx'), conv' = conv, ckpts' = ckpts
  PROVE  /\ Start(tx)' <=> Start(tx)
         /\ End(tx)' <=> End(tx)
         /\ NeedsConversation(tx)' <=> NeedsConversation(tx)
         /\ tx'.state = tx.state => (Attached(tx)' <=> Attached(tx))
<1> PICK p : p = tx'
  OBVIOUS
<1>1. Start(tx)' <=> Start(p)
  BY DEF Start, ConversationBack, ConversationForward
<1>2. End(tx)' <=> End(p)
  BY DEF End, ConversationBack, ConversationForward
<1>3. NeedsConversation(tx)' <=> NeedsConversation(p)
  BY DEF NeedsConversation
<1>4. Attached(tx)' <=> Attached(p)
  BY DEF Attached, NeedsConversation
<1>5. SamePlan(tx, p) /\ SameForward(tx, p)
  OBVIOUS
<1> QED
  BY <1>1, <1>2, <1>3, <1>4, <1>5, StartSame

LEMMA StartStays ==
  ASSUME tx' = tx, conv' = conv, ckpts' = ckpts
  PROVE  /\ Start(tx)' <=> Start(tx)
         /\ End(tx)' <=> End(tx)
         /\ NeedsConversation(tx)' <=> NeedsConversation(tx)
         /\ Attached(tx)' <=> Attached(tx)
<1>1. SamePlan(tx, tx') /\ SameForward(tx, tx') /\ tx'.state = tx.state
  BY DEF SamePlan, SameForward
<1> QED
  BY <1>1, StartMoved

--------
(* Turns, edits and the beginning of an operation. *)

LEMMA TurnWhole ==
  ASSUME Sound, Whole, Turn, BeginsAlone
  PROVE  Whole' /\ Steady
<1>1. serial' # serial
  BY DEF Turn, Sound, Types
<1>2. Committing = {}
  BY <1>1 DEF BeginsAlone
<1>3. cur' = NoTx /\ pc' = "idle" /\ manifest' = manifest
  BY DEF Turn, opVars, Sound, Stages
<1>4. Committing' = {}
  BY <1>2, <1>3 DEF Committing
<1>5. \A t \in TxIds : Attached(manifest'[t])
  BY <1>3 DEF Whole, Pendings
<1> QED
  BY <1>3, <1>4, <1>5, ClearStep, SteadySame

\* An edited file is not spoken of any more.
LEMMA EditWhole ==
  ASSUME Sound, Whole, ExternalEdit
  PROVE  Whole' /\ Steady
<1>1. PICK f \in Files, i \in Images : Put(f, i) /\ edited' = edited \cup {f}
  BY DEF ExternalEdit
<1>2. \A g \in Files : g \notin edited' => g \notin edited /\ disk'[g] = disk[g]
  BY <1>1 DEF Put, Sound, Types
<1>3. /\ bak' = bak /\ manifest' = manifest /\ conv' = conv /\ ckpts' = ckpts /\ pc' = pc
      /\ cur' = cur /\ tx' = tx /\ todo' = todo /\ failed' = failed /\ pass' = pass
  BY DEF ExternalEdit, sessionVars, opVars, recoveryVars
<1>4. tx.targets \subseteq Files /\ \A t \in TxIds : manifest[t].targets \subseteq Files
  BY DEF Sound, Types, IsManifest
<1>5. Alone'
  BY <1>3 DEF Whole, Alone, Committing
<1>6. ASSUME NEW t, NEW p, p.targets \subseteq Files, Pending(t, p)
      PROVE  /\ FilesFit(t, p)'
             /\ Attached(p) /\ ChatFits(p)'
  <2>1. FilesFit(t, p)'
    BY <1>2, <1>3, <1>6 DEF Pending, FilesFit
  <2> QED
    BY <1>3, <1>6, <2>1 DEF Pending, ChatFits
<1>7. Pendings'
  <2>1. \A t \in TxIds : Attached(manifest'[t])
    BY <1>3 DEF Whole, Pendings
  <2>2. ASSUME NEW t \in Committing' PROVE Pending(t, manifest[t])'
    <3>1. t \in Committing /\ manifest'[t] = manifest[t] /\ t \in TxIds
      BY <1>3 DEF Committing
    <3>2. Pending(t, manifest[t])
      BY <3>1 DEF Whole, Pendings
    <3> PICK p : p = manifest[t]
      OBVIOUS
    <3>3. Attached(p) /\ FilesFit(t, p)' /\ ChatFits(p)'
      BY <1>4, <1>6, <3>1, <3>2
    <3> QED
      BY <3>1, <3>3 DEF Pending, Attached, FilesFit, ChatFits, NeedsConversation
  <2>3. ASSUME cur' # NoTx PROVE Pending(cur, tx)'
    <3> PICK p, t : p = tx /\ t = cur
      OBVIOUS
    <3>1. Pending(t, p)
      BY <1>3, <2>3 DEF Whole, Pendings
    <3>2. Attached(p) /\ FilesFit(t, p)' /\ ChatFits(p)'
      BY <1>4, <1>6, <3>1
    <3> QED
      BY <1>3, <3>2 DEF Pending, Attached, FilesFit, ChatFits, NeedsConversation
  <2> QED
    BY <2>1, <2>2, <2>3 DEF Pendings, Attached, NeedsConversation
<1>8. FilesPhase'
  <2>1. ASSUME NEW S, S \subseteq tx.targets
        PROVE  (Installed(S) => Installed(S)') /\ (PutBack(S) => PutBack(S)')
    BY <1>2, <1>3, <1>4, <2>1 DEF Installed, PutBack
  <2>2. todo \subseteq tx.targets
    BY DEF Sound, Types
  <2> QED
    BY <1>3, <2>1, <2>2 DEF Whole, FilesPhase, Installed, PutBack
<1>9. ChatPhase'
  BY <1>3, StartStays DEF Whole, ChatPhase
<1> QED
  BY <1>3, <1>5, <1>7, <1>8, <1>9, SteadySame DEF Whole

\* An operation begins with the manifest m.
LEMMA BeginWhole ==
  ASSUME Sound, Whole, BeginsAlone, NEW m, Begin(m), pc' \in {"stage", "prepare"},
         m.targets \subseteq Files, m.state = "prepared", m.published = {}, Attached(m),
         \A f \in m.targets : disk[f] = m.forward[f],
         NeedsConversation(m) =>
            /\ m.kind # "undo" => \A t \in DOMAIN m.backup : ckpts[t] = m.backup[t]
            /\ m.kind = "undo" => ConversationBack(m)
  PROVE  Whole' /\ Steady
<1>1. /\ pc = "idle" /\ nextTx <= MaxTx /\ cur' = nextTx /\ nextTx' = nextTx + 1 /\ tx' = m
      /\ disk' = disk /\ bak' = bak /\ manifest' = manifest /\ conv' = conv
      /\ ckpts' = ckpts /\ pass' = pass /\ edited' = edited
  BY DEF Begin, diskVars, sessionVars, recoveryVars
<1>2. nextTx \in TxIds /\ nextTx \in Nat /\ pass = 0
  BY <1>1, RewindAssumption DEF Sound, Types, Stages, Returning, TxIds
<1>3. Committing = {}
  BY <1>1, <1>2 DEF BeginsAlone
<1>4. manifest[nextTx] = EmptyManifest
  <2>1. ~ (nextTx < nextTx)
    BY <1>2
  <2> QED
    BY <1>2, <2>1 DEF Sound, Ledger
<1>5. Committing' = {}
  BY <1>1, <1>3 DEF Committing
<1>6. Alone'
  BY <1>1, <1>2, <1>5 DEF Alone
<1>7. \A f \in Files : bak[nextTx][f] = Absent
  <2>1. manifest[nextTx].published = {}
    BY <1>4 DEF EmptyManifest
  <2> QED
    BY <1>2, <2>1 DEF Sound, IntentIsDurable
<1>8. FilesFit(nextTx, m)
  BY <1>7 DEF FilesFit
<1>9. ChatFits(m)
  BY DEF ChatFits, ConversationBack
<1>10. Pending(nextTx, m)
  BY <1>8, <1>9 DEF Pending
<1>11. Pendings'
  <2>1. \A t \in TxIds : Attached(manifest'[t])
    BY <1>1 DEF Whole, Pendings
  <2>2. Pending(cur, tx)'
    BY <1>1, <1>10 DEF Pending, Attached, FilesFit, ChatFits, NeedsConversation
  <2> QED
    BY <1>5, <2>1, <2>2 DEF Pendings, Attached, NeedsConversation
<1>12. FilesPhase'
  BY DEF FilesPhase, Switching
<1>13. ChatPhase'
  <2>1. NeedsConversation(tx)' /\ tx'.kind # "undo" => \A t \in DOMAIN tx'.backup : ckpts'[t] = tx'.backup[t]
    BY <1>1 DEF NeedsConversation
  <2>2. NeedsConversation(tx)' /\ tx'.kind = "undo" => Start(tx)'
    BY <1>1 DEF NeedsConversation, Start, ConversationBack
  <2> QED
    BY <2>1, <2>2 DEF ChatPhase, Early, Publishing
<1> QED
  BY <1>1, <1>6, <1>11, <1>12, <1>13, SteadySame DEF Whole

LEMMA StartRewindWhole ==
  ASSUME Sound, Whole, BeginsAlone,
         NEW k \in DOMAIN ckpts, NEW scope, scope \subseteq {"files", "conv"}, StartRewind(k, scope)
  PROVE  Whole' /\ Steady
<1>1. PICK targets, restore, backup :
      /\ targets = IF "files" \in scope THEN Touched(k) ELSE {}
      /\ restore = [ f \in targets |-> Preimage(k, f) ]
      /\ backup = IF "conv" \in scope THEN From(ckpts, k) ELSE NoBackup
  OBVIOUS
<1>2. PICK m : m = Prepared("rewind", scope, k, ckpts[k].msgIndex, restore, backup)
  OBVIOUS
<1>3. /\ m.state = "prepared" /\ m.kind = "rewind" /\ m.scope = scope
      /\ m.targets = targets /\ m.forward = [ f \in targets |-> disk[f] ]
      /\ m.published = {} /\ m.backup = backup
  BY <1>1, <1>2 DEF Prepared
<1>4. Begin(m) /\ pc' = "stage"
  BY <1>1, <1>2 DEF StartRewind
<1>5. m.targets \subseteq Files
  BY <1>1, <1>3 DEF Touched
<1>6. Attached(m)
  BY <1>3 DEF Attached
<1>7. "conv" \in scope => \A t \in DOMAIN backup : ckpts[t] = backup[t]
  BY <1>1 DEF From
<1> QED
  BY <1>3, <1>4, <1>5, <1>6, <1>7, BeginWhole DEF NeedsConversation

LEMMA StartFileRevertWhole ==
  ASSUME Sound, Whole, BeginsAlone, NEW f \in Files, StartFileRevert(f)
  PROVE  Whole' /\ Steady
<1>1. PICK restore : restore = [ g \in {f} |-> Preimage(0, f) ]
  OBVIOUS
<1>2. PICK m : m = Prepared("file_revert", {"files"}, 0, 0, restore, NoBackup)
  OBVIOUS
<1>3. Begin(m) /\ pc' = "stage"
  BY <1>1, <1>2 DEF StartFileRevert
<1>4. /\ m.state = "prepared" /\ m.kind = "file_revert" /\ m.scope = {"files"}
      /\ m.targets = {f} /\ m.forward = [ g \in {f} |-> disk[g] ] /\ m.published = {}
  BY <1>1, <1>2 DEF Prepared
<1>5. ~ NeedsConversation(m)
  BY <1>4 DEF NeedsConversation
<1>6. Attached(m)
  BY <1>5 DEF Attached
<1> QED
  BY <1>3, <1>4, <1>5, <1>6, BeginWhole

LEMMA StartUndoWhole ==
  ASSUME Sound, Whole, Orderly, StartUndo
  PROVE  Whole' /\ Steady
<1> PICK m, p : m = Swapped(lastUndo) /\ p = manifest[lastUndo]
  OBVIOUS
<1>1. /\ Begin(m) /\ pc' = "prepare" /\ lastUndo # NoTx /\ p.state = "committed"
      /\ \A f \in p.targets : disk[f] = p.restore[f]
  BY DEF StartUndo
<1>2. lastUndo \in TxIds /\ p.targets \subseteq Files /\ Attached(p) /\ nextTx \in Nat
  BY <1>1, RewindAssumption DEF Sound, Types, IsManifest, Whole, Pendings
<1>3. /\ m.state = "prepared" /\ m.kind = "undo" /\ m.scope = p.scope /\ m.from = p.from
      /\ m.boundary = p.boundary /\ m.targets = p.targets /\ m.forward = p.restore /\ m.published = {}
      /\ m.hasConv = p.hasConv /\ m.fwdConv = p.fwdConv
  BY DEF Swapped
<1>4. Attached(m)
  BY <1>1, <1>2, <1>3 DEF Attached, NeedsConversation
<1>5. NeedsConversation(m) => ConversationBack(m)
  <2>1. tx' = m /\ nextTx' = nextTx + 1 /\ conv' = conv /\ ckpts' = ckpts
    BY <1>1 DEF Begin, sessionVars
  <2> QED
    BY <1>2, <1>3, <2>1 DEF Orderly, UndoFits, NeedsConversation, ConversationBack
<1> QED
  BY <1>1, <1>2, <1>3, <1>4, <1>5, BeginWhole DEF Orderly

--------
(* Preparing. *)

LEMMA StageTempsWhole ==
  ASSUME Sound, Sound', Whole, StageTemps
  PROVE  Whole' /\ Steady
<1>1. /\ pc = "stage" /\ disk' = disk /\ bak' = bak /\ manifest' = manifest /\ conv' = conv
      /\ ckpts' = ckpts /\ pass' = pass /\ edited' = edited
  BY DEF StageTemps, sessionVars, recoveryVars, boundVars
<1>2. cur \in TxIds /\ cur # NoTx /\ tx.state = "prepared" /\ tx.published = {}
  BY <1>1, HasTransaction DEF Sound, Stages, Preparing
<1>3. Pending(cur, tx) /\ ChatPhase
  BY <1>2 DEF Whole, Pendings
<1>4. ASSUME opVars' = opVars,
             \/ tx.kind = "undo" /\ pc' \in {"prepareAgain", "settle"}
             \/ tx.kind # "undo" /\ pc' = "prepare"
      PROVE  Whole'
  <2>1. cur' = cur /\ tx' = tx /\ todo' = todo /\ failed' = failed
    BY <1>4 DEF opVars
  <2>2. FilesPhase'
    BY <1>2, <1>4, <2>1 DEF FilesPhase, Switching
  <2>3. ChatPhase'
    <3>1. CASE tx.kind = "undo" /\ pc' \in {"prepareAgain", "settle"}
      <4>1. NeedsConversation(tx) => Start(tx) /\ tx.hasConv = "yes"
        BY <1>1, <1>3, <3>1 DEF ChatPhase, Early, Pending, Attached
      <4> QED
        BY <1>1, <2>1, <3>1, <4>1, StartStays DEF ChatPhase, Early, Publishing
    <3>2. CASE tx.kind # "undo" /\ pc' = "prepare"
      <4>1. NeedsConversation(tx) => \A t \in DOMAIN tx.backup : ckpts[t] = tx.backup[t]
        BY <1>1, <1>3, <3>2 DEF ChatPhase, Early
      <4> QED
        BY <1>1, <2>1, <3>2, <4>1, StartStays DEF ChatPhase, Early, Publishing
    <3> QED
      BY <1>4, <3>1, <3>2
  <2> QED
    BY <1>1, <1>2, <2>1, <2>2, <2>3, QuietWork
<1>5. CASE Return
  BY <1>1, <1>5, ReturnStep, SteadySame
<1>6. Whole'
  BY <1>4, <1>5 DEF StageTemps
<1> QED
  BY <1>1, <1>6, SteadySame

LEMMA PersistPreparedWhole ==
  ASSUME Sound, Sound', Whole, PersistPrepared
  PROVE  Whole' /\ Steady
<1>1. /\ pc = "prepare" /\ disk' = disk /\ bak' = bak /\ conv' = conv
      /\ ckpts' = ckpts /\ pass' = pass /\ edited' = edited
  BY DEF PersistPrepared, sessionVars, recoveryVars, boundVars
<1>2. cur \in TxIds /\ cur # NoTx /\ tx.state = "prepared" /\ tx.published = {} /\ Types
      /\ tx.kind \in {"rewind", "undo", "file_revert"}
  BY <1>1, HasTransaction DEF Sound, Stages, Preparing, Types, IsManifest
<1>3. Pending(cur, tx) /\ ChatPhase
  BY <1>2 DEF Whole, Pendings
<1>4. CASE Persist(tx) /\ cur' = cur
           /\ pc' = CASE tx.kind = "rewind" -> "attach"
                      [] tx.kind = "undo" -> "stage"
                      [] tx.kind = "file_revert" -> "begin"
  <2>1. manifest' = [manifest EXCEPT ![cur] = tx] /\ tx' = tx
    BY <1>4 DEF Persist, Store
  <2>2. \A t \in TxIds : t # cur => manifest'[t] = manifest[t]
    BY <1>2, <2>1 DEF Types
  <2>3. \/ tx.kind = "rewind" /\ pc' = "attach"
        \/ tx.kind = "undo" /\ pc' = "stage"
        \/ tx.kind = "file_revert" /\ pc' = "begin"
    BY <1>2, <1>4
  <2>4. FilesPhase'
    BY <2>3 DEF FilesPhase, Switching
  <2>5. ChatPhase'
    <3>1. CASE tx.kind = "rewind" /\ pc' = "attach"
      <4>1. NeedsConversation(tx) => \A t \in DOMAIN tx.backup : ckpts[t] = tx.backup[t]
        BY <1>1, <1>3, <3>1 DEF ChatPhase, Early
      <4> QED
        BY <1>1, <2>1, <3>1, <4>1, StartStays DEF ChatPhase, Early, Publishing
    <3>2. CASE tx.kind = "undo" /\ pc' = "stage"
      <4>1. NeedsConversation(tx) => Start(tx)
        BY <1>1, <1>3, <3>2 DEF ChatPhase, Early
      <4> QED
        BY <1>1, <2>1, <3>2, <4>1, StartStays DEF ChatPhase, Early, Publishing
    <3>3. CASE tx.kind = "file_revert" /\ pc' = "begin"
      <4>1. ~ NeedsConversation(tx)
        BY <1>3, <3>3 DEF Pending, Attached
      <4> QED
        BY <1>1, <2>1, <3>3, <4>1, StartStays DEF ChatPhase, Early, Publishing
    <3> QED
      BY <2>3, <3>1, <3>2, <3>3
  <2>6. Whole'
    BY <1>1, <1>2, <1>4, <2>1, <2>2, <2>4, <2>5, QuietWork
  <2>7. Steady
    BY <1>2, <2>1, SteadyStored
  <2> QED
    BY <2>6, <2>7
<1>5. CASE Return /\ manifest' = manifest
  BY <1>1, <1>5, ReturnStep, SteadySame
<1> QED
  BY <1>4, <1>5 DEF PersistPrepared

LEMMA AttachForwardWhole ==
  ASSUME Sound, Sound', Whole, AttachForward
  PROVE  Whole' /\ Steady
<1>1. /\ pc = "attach" /\ disk' = disk /\ bak' = bak /\ conv' = conv
      /\ ckpts' = ckpts /\ pass' = pass /\ edited' = edited
  BY DEF AttachForward, diskVars, sessionVars, recoveryVars, boundVars
<1>2. /\ cur \in TxIds /\ cur # NoTx /\ tx.state = "prepared" /\ tx.published = {} /\ Types
      /\ pass = 0 /\ IsManifest(tx, serial) /\ conv \in Chats(serial)
  BY <1>1, HasTransaction DEF Sound, Stages, Preparing, Returning, Types
<1>3. Pending(cur, tx) /\ ChatPhase /\ tx.kind = "rewind"
  BY <1>1, <1>2 DEF Whole, Pendings, ChatPhase
<1>4. CASE Persist(WithForward(tx, conv)) /\ pc' = "begin" /\ cur' = cur
  <2>1. PICK m : m = WithForward(tx, conv)
    OBVIOUS
  <2>2. /\ m.state = "prepared" /\ m.published = {} /\ m.hasConv = "yes" /\ m.fwdConv = conv
        /\ SamePlan(tx, m)
    BY <1>2, <2>1, ForwardView
  <2>3. manifest' = [manifest EXCEPT ![cur] = m] /\ tx' = m
    BY <1>4, <2>1 DEF Persist, Store
  <2>4. \A t \in TxIds : t # cur => manifest'[t] = manifest[t]
    BY <1>2, <2>3 DEF Types
  <2>5. m.kind = "rewind"
    BY <1>3, <2>2 DEF SamePlan
  <2>6. FilesPhase'
    BY <1>4 DEF FilesPhase, Switching
  <2>7. ChatPhase'
    <3>1. NeedsConversation(m) => \A t \in DOMAIN m.backup : ckpts[t] = m.backup[t]
      BY <1>1, <1>3, <2>2 DEF ChatPhase, Early, SamePlan, NeedsConversation
    <3>2. NeedsConversation(tx)' => Start(tx)' /\ tx'.hasConv = "yes"
      BY <1>1, <2>2, <2>3, <2>5, <3>1 DEF Start, ConversationForward, NeedsConversation
    <3> QED
      BY <1>4, <3>2 DEF ChatPhase, Early, Publishing, NeedsConversation
  <2>8. Pending(cur, tx)'
    <3>1. Attached(tx)'
      BY <2>2, <2>3, <2>5 DEF Attached, NeedsConversation
    <3>2. FilesFit(cur, tx)'
      BY <1>1, <1>3, <1>4, <2>2, <2>3, <1>2 DEF Pending, FilesFit, SamePlan
    <3>3. ChatFits(tx)'
      BY <2>3, <2>5 DEF ChatFits
    <3> QED
      BY <3>1, <3>2, <3>3 DEF Pending
  <2>9. Whole'
    BY <1>1, <1>2, <1>4, <2>4, <2>6, <2>7, <2>8, WorkStep
  <2>10. Steady
    BY <1>2, <2>2, <2>3, SteadyStored
  <2> QED
    BY <2>9, <2>10
<1>5. CASE Return /\ manifest' = manifest
  BY <1>1, <1>5, ReturnStep, SteadySame
<1> QED
  BY <1>4, <1>5 DEF AttachForward

--------
(* Publishing. *)

LEMMA PersistUndoAgainWhole ==
  ASSUME Sound, Sound', Whole, PersistUndoAgain
  PROVE  Whole' /\ Steady
<1>1. /\ pc = "prepareAgain" /\ disk' = disk /\ bak' = bak /\ conv' = conv
      /\ ckpts' = ckpts /\ pass' = pass /\ edited' = edited /\ cur' = cur /\ failed' = failed
  BY DEF PersistUndoAgain, diskVars, sessionVars, recoveryVars, boundVars
<1>2. cur \in TxIds /\ cur # NoTx /\ tx.state = "prepared" /\ tx.published = {} /\ Types
  BY <1>1, HasTransaction DEF Sound, Stages, Preparing
<1>3. Pending(cur, tx) /\ ChatPhase
  BY <1>2 DEF Whole, Pendings
<1>4. CASE Persist(tx) /\ pc' = "begin"
  <2>1. manifest' = [manifest EXCEPT ![cur] = tx] /\ tx' = tx
    BY <1>4 DEF Persist, Store
  <2>2. \A t \in TxIds : t # cur => manifest'[t] = manifest[t]
    BY <1>2, <2>1 DEF Types
  <2>3. FilesPhase'
    BY <1>4 DEF FilesPhase, Switching
  <2>4. ChatPhase'
    <3>1. NeedsConversation(tx) => Start(tx) /\ tx.hasConv = "yes"
      BY <1>1, <1>2, <1>3 DEF ChatPhase, Early
    <3> QED
      BY <1>1, <1>4, <2>1, <3>1, StartStays DEF ChatPhase, Early, Publishing
  <2>5. Whole'
    BY <1>1, <1>2, <2>1, <2>2, <2>3, <2>4, QuietWork
  <2>6. Steady
    BY <1>2, <2>1, SteadyStored
  <2> QED
    BY <2>5, <2>6
<1>5. CASE Compensate /\ tx' = tx /\ manifest' = manifest
  <2>1. Pending(cur, tx)'
    BY <1>1, <1>3, <1>5 DEF Pending, Attached, FilesFit, ChatFits, NeedsConversation
  <2> QED
    BY <1>1, <1>2, <1>5, <2>1, CompensateStep, SteadySame
<1> QED
  BY <1>4, <1>5 DEF PersistUndoAgain

LEMMA BeginCommitWhole ==
  ASSUME Sound, Sound', Whole, BeginCommit
  PROVE  Whole' /\ Steady
<1>1. /\ pc = "begin" /\ disk' = disk /\ bak' = bak /\ conv' = conv
      /\ ckpts' = ckpts /\ pass' = pass /\ edited' = edited /\ cur' = cur /\ failed' = failed
  BY DEF BeginCommit, diskVars, sessionVars, recoveryVars, boundVars
<1>2. /\ cur \in TxIds /\ cur # NoTx /\ tx.state = "prepared" /\ tx.published = {} /\ Types
      /\ IsManifest(tx, serial)
  BY <1>1, HasTransaction DEF Sound, Stages, Preparing, Types
<1>3. Pending(cur, tx) /\ ChatPhase
  BY <1>2 DEF Whole, Pendings
<1>4. CASE Persist(InState("committing")) /\ pc' = "intent" /\ todo' = tx.targets
  <2>1. PICK m : m = SetState(tx, "committing")
    OBVIOUS
  <2>2. /\ m.state = "committing" /\ m.published = {} /\ SamePlan(tx, m) /\ SameForward(tx, m)
    BY <1>2, <2>1, StateView DEF States
  <2>3. manifest' = [manifest EXCEPT ![cur] = m] /\ tx' = m
    BY <1>4, <2>1 DEF Persist, Store, InState, SetState
  <2>4. \A t \in TxIds : t # cur => manifest'[t] = manifest[t]
    BY <1>2, <2>3 DEF Types
  <2>5. FilesPhase'
    <3>1. PutBack(tx.targets)'
      BY <1>1, <1>2, <1>3, <2>2, <2>3 DEF Pending, FilesFit, PutBack, SamePlan
    <3>2. Installed(tx.targets \ todo)' /\ todo' = tx'.targets
      BY <1>4, <2>2, <2>3 DEF Installed, SamePlan
    <3> QED
      BY <1>4, <3>1, <3>2 DEF FilesPhase, PutBack, Switching
  <2>6. NeedsConversation(tx) => Start(tx) /\ tx.hasConv = "yes"
    BY <1>1, <1>2, <1>3 DEF ChatPhase, Early
  <2>7. ChatPhase'
    <3>1. NeedsConversation(tx)' => Start(tx)' /\ tx'.hasConv = "yes"
      BY <1>1, <2>2, <2>3, <2>6, StartMoved DEF SameForward
    <3> QED
      BY <1>4, <3>1 DEF ChatPhase, Early, Publishing
  <2>8. Attached(tx)'
    BY <1>3, <2>2, <2>3, <2>6 DEF Pending, Attached, NeedsConversation, SamePlan, SameForward
  <2>9. Pending(cur, tx)'
    BY <1>1, <1>2, <1>3, <2>2, <2>3, <2>8, PendingKept
  <2>10. Whole'
    BY <1>1, <1>2, <2>2, <2>3, <2>4, <2>5, <2>7, <2>9, WorkStep
  <2>11. Steady
    BY <1>2, <2>2, <2>3, SteadyStored
  <2> QED
    BY <2>10, <2>11
<1>5. CASE Compensate /\ tx' = tx /\ manifest' = manifest
  <2>1. Pending(cur, tx)'
    BY <1>1, <1>3, <1>5 DEF Pending, Attached, FilesFit, ChatFits, NeedsConversation
  <2> QED
    BY <1>1, <1>2, <1>5, <2>1, CompensateStep, SteadySame
<1> QED
  BY <1>4, <1>5 DEF BeginCommit

LEMMA PublishIntentWhole ==
  ASSUME Sound, Sound', Whole, PublishIntent
  PROVE  Whole' /\ Steady
<1>1. /\ pc = "intent" /\ todo # {} /\ disk' = disk /\ bak' = bak /\ conv' = conv
      /\ ckpts' = ckpts /\ pass' = pass /\ edited' = edited /\ cur' = cur /\ failed' = failed
  BY DEF PublishIntent, diskVars, sessionVars, recoveryVars, boundVars
<1>2. /\ cur \in TxIds /\ cur # NoTx /\ tx.state = "committing" /\ Types
      /\ IsManifest(tx, serial) /\ pass = 0 /\ todo \subseteq tx.targets
  BY <1>1, PublishingFacts DEF Types, Publishing
<1>3. Pending(cur, tx) /\ ChatPhase /\ FilesPhase
  BY <1>2 DEF Whole, Pendings
<1>4. CASE Persist([tx EXCEPT !.published = @ \cup {Least(todo)}]) /\ pc' = "backup" /\ todo' = todo
  <2>1. PICK S : S = tx.published \cup {Least(todo)}
    OBVIOUS
  <2>2. PICK m : m = SetPublished(tx, S)
    OBVIOUS
  <2>3. S \subseteq tx.targets
    <3>1. todo \in SUBSET Files
      BY <1>2 DEF IsManifest
    <3>2. Least(todo) \in todo
      BY <1>1, <3>1, NextFile
    <3> QED
      BY <1>2, <2>1, <3>2 DEF IsManifest
  <2>4. /\ m.state = "committing" /\ m.published = S /\ SamePlan(tx, m) /\ SameForward(tx, m)
    BY <1>2, <2>2, <2>3, PublishedView
  <2>5. manifest' = [manifest EXCEPT ![cur] = m] /\ tx' = m
    BY <1>4, <2>1, <2>2 DEF Persist, Store, SetPublished
  <2>6. \A t \in TxIds : t # cur => manifest'[t] = manifest[t]
    BY <1>2, <2>5 DEF Types
  <2>7. FilesPhase'
    <3>1. Installed(tx.targets \ todo)' /\ PutBack(todo)'
      BY <1>1, <1>3, <1>4, <2>4, <2>5 DEF FilesPhase, Installed, PutBack, SamePlan
    <3> QED
      BY <1>4, <3>1 DEF FilesPhase, Switching
  <2>8. NeedsConversation(tx) => Start(tx) /\ tx.hasConv = "yes"
    BY <1>1, <1>2, <1>3 DEF ChatPhase, Early, Publishing
  <2>9. ChatPhase'
    <3>1. NeedsConversation(tx)' => Start(tx)' /\ tx'.hasConv = "yes"
      BY <1>1, <2>4, <2>5, <2>8, StartMoved DEF SameForward
    <3> QED
      BY <1>4, <3>1 DEF ChatPhase, Early, Publishing
  <2>10. Attached(tx)'
    BY <1>1, <1>2, <1>3, <2>4, <2>5, StartMoved DEF Pending
  <2>11. Pending(cur, tx)'
    BY <1>1, <1>3, <2>1, <2>4, <2>5, <2>10, PendingKept
  <2>12. Whole'
    BY <1>1, <1>2, <2>4, <2>5, <2>6, <2>7, <2>9, <2>11, WorkStep
  <2>13. Steady
    BY <1>2, <2>4, <2>5, SteadyStored
  <2> QED
    BY <2>12, <2>13
<1>5. CASE Compensate /\ tx' = tx /\ manifest' = manifest
  <2>1. Pending(cur, tx)'
    BY <1>1, <1>3, <1>5 DEF Pending, Attached, FilesFit, ChatFits, NeedsConversation
  <2> QED
    BY <1>1, <1>2, <1>5, <2>1, CompensateStep, SteadySame DEF Publishing
<1> QED
  BY <1>4, <1>5 DEF PublishIntent

\* One target and its backup change.
LEMMA FileMoved ==
  ASSUME Pending(cur, tx), NEW f, cur' = cur, tx' = tx, edited' = edited, conv' = conv,
         \A g \in tx.targets : g # f => disk'[g] = disk[g] /\ bak'[cur][g] = bak[cur][g],
         f \in tx.targets \ edited =>
            /\ f \in tx.published \/ disk'[f] = tx.forward[f]
            /\ bak'[cur][f] # Absent => bak'[cur][f] = tx.forward[f]
  PROVE  Pending(cur, tx)'
<1>1. FilesFit(cur, tx)'
  <2> SUFFICES ASSUME NEW g \in tx.targets, g \notin edited
               PROVE  /\ g \notin tx.published => disk'[g] = tx.forward[g]
                      /\ bak'[cur][g] # Absent => bak'[cur][g] = tx.forward[g]
    BY DEF FilesFit
  <2>1. CASE g = f
    BY <2>1
  <2>2. CASE g # f
    BY <2>2 DEF Pending, FilesFit
  <2> QED
    BY <2>1, <2>2
<1>2. Attached(tx)' /\ ChatFits(tx)'
  BY DEF Pending, Attached, ChatFits, NeedsConversation
<1> QED
  BY <1>1, <1>2 DEF Pending

\* A target and its backup, after a move.
LEMMA PutView ==
  ASSUME Types, cur \in TxIds, NEW f \in Files
  PROVE  /\ \A i : Put(f, i) => disk'[f] = i /\ \A g \in Files : g # f => disk'[g] = disk[g]
         /\ \A i : SetBackup(f, i) =>
                /\ bak'[cur][f] = i /\ \A g \in Files : g # f => bak'[cur][g] = bak[cur][g]
         /\ disk' = disk => \A g \in Files : g # f => disk'[g] = disk[g]
         /\ bak' = bak => \A g \in Files : g # f => bak'[cur][g] = bak[cur][g]
BY DEF Types, Put, SetBackup

LEMMA BackUpTargetWhole ==
  ASSUME Sound, Sound', Whole, BackUpTarget
  PROVE  Whole' /\ Steady
<1>1. /\ pc = "backup" /\ manifest' = manifest /\ conv' = conv
      /\ ckpts' = ckpts /\ pass' = pass /\ edited' = edited /\ cur' = cur /\ failed' = failed /\ tx' = tx
  BY DEF BackUpTarget, sessionVars, recoveryVars, boundVars
<1>2. /\ cur \in TxIds /\ cur # NoTx /\ tx.state = "committing" /\ Types /\ pass = 0
      /\ tx.targets \subseteq Files /\ todo # {} /\ Least(todo) \in todo /\ Least(todo) \in Files
      /\ todo \subseteq tx.targets /\ Least(todo) \in tx.published
  BY <1>1, PublishingFacts DEF Publishing, Stages, IsManifest
<1>3. Pending(cur, tx) /\ ChatPhase /\ FilesPhase
  BY <1>2 DEF Whole, Pendings
<1> PICK f \in Files : f = Least(todo)
  BY <1>2
<1>4. CASE /\ SetBackup(f, disk[f]) /\ Put(f, Absent)
           /\ pc' = IF Writes(tx, f) THEN "install" ELSE "progress"
           /\ todo' = todo
  <2>1. disk'[f] = Absent /\ \A g \in Files : g # f => disk'[g] = disk[g]
    BY <1>2, <1>4, PutView
  <2>2. bak'[cur][f] = disk[f] /\ \A g \in Files : g # f => bak'[cur][g] = bak[cur][g]
    BY <1>2, <1>4, PutView
  <2>3. Installed(tx.targets \ todo) /\ PutBack(todo)
    BY <1>1, <1>3 DEF FilesPhase
  <2>4. f \notin edited => disk[f] = tx.forward[f]
    BY <1>2, <2>3 DEF PutBack
  <2>5. Pending(cur, tx)'
    BY <1>1, <1>2, <1>3, <2>1, <2>2, <2>4, FileMoved
  <2>6. FilesPhase'
    <3>1. Installed(tx.targets \ todo)' /\ PutBack(todo \ {f})'
      BY <1>1, <1>2, <1>4, <2>1, <2>3 DEF Installed, PutBack
    <3>2. pc' = "progress" => Installed(tx.targets \ (todo \ {f}))'
      BY <1>1, <1>4, <2>1, <3>1 DEF Writes, Installed
    <3>3. PutBack(todo \ {Least(todo)})'
      BY <1>4, <3>1 DEF PutBack
    <3>4. pc' = "progress" => Installed(tx.targets \ (todo \ {Least(todo)}))'
      BY <1>4, <3>2 DEF Installed
    <3>5. pc' \in {"install", "progress"}
      BY <1>4
    <3> QED
      BY <3>1, <3>3, <3>4, <3>5 DEF FilesPhase, Switching
  <2>7. ChatPhase'
    <3>1. NeedsConversation(tx) => Start(tx) /\ tx.hasConv = "yes"
      BY <1>1, <1>2, <1>3 DEF ChatPhase, Early, Publishing
    <3> QED
      BY <1>1, <1>4, <3>1, StartStays DEF ChatPhase, Early, Publishing
  <2> QED
    BY <1>1, <1>2, <2>5, <2>6, <2>7, WorkStep, SteadySame
<1>5. CASE Compensate /\ disk' = disk /\ bak' = bak
  <2>1. Pending(cur, tx)'
    BY <1>1, <1>3, <1>5 DEF Pending, Attached, FilesFit, ChatFits, NeedsConversation
  <2> QED
    BY <1>1, <1>2, <1>5, <2>1, CompensateStep, SteadySame DEF Publishing
<1> QED
  BY <1>4, <1>5 DEF BackUpTarget

LEMMA InstallTargetWhole ==
  ASSUME Sound, Sound', Whole, InstallTarget
  PROVE  Whole' /\ Steady
<1>1. /\ pc = "install" /\ manifest' = manifest /\ conv' = conv
      /\ ckpts' = ckpts /\ pass' = pass /\ edited' = edited /\ cur' = cur /\ failed' = failed /\ tx' = tx
  BY DEF InstallTarget, sessionVars, recoveryVars, boundVars
<1>2. /\ cur \in TxIds /\ cur # NoTx /\ tx.state = "committing" /\ Types /\ pass = 0
      /\ tx.targets \subseteq Files /\ todo # {} /\ Least(todo) \in todo /\ Least(todo) \in Files
      /\ todo \subseteq tx.targets /\ Least(todo) \in tx.published
  BY <1>1, PublishingFacts DEF Publishing, Stages, IsManifest
<1>3. Pending(cur, tx) /\ ChatPhase /\ FilesPhase
  BY <1>2 DEF Whole, Pendings
<1> PICK f \in Files : f = Least(todo)
  BY <1>2
<1>4. CASE Put(f, tx.restore[f]) /\ pc' = "progress" /\ bak' = bak /\ todo' = todo
  <2>1. disk'[f] = tx.restore[f] /\ \A g \in Files : g # f => disk'[g] = disk[g]
    BY <1>2, <1>4, PutView
  <2>2. Installed(tx.targets \ todo) /\ PutBack(todo \ {f})
    BY <1>1, <1>3 DEF FilesPhase
  <2>3. f \in tx.targets \ edited => (bak'[cur][f] # Absent => bak'[cur][f] = tx.forward[f])
    BY <1>3, <1>4 DEF Pending, FilesFit
  <2>4. Pending(cur, tx)'
    BY <1>1, <1>2, <1>3, <1>4, <2>1, <2>3, FileMoved
  <2>5. FilesPhase'
    <3>1. Installed(tx.targets \ (todo \ {f}))' /\ PutBack(todo \ {f})'
      BY <1>1, <1>2, <1>4, <2>1, <2>2 DEF Installed, PutBack
    <3>2. PutBack(todo \ {Least(todo)})' /\ Installed(tx.targets \ (todo \ {Least(todo)}))'
      BY <1>4, <3>1 DEF PutBack, Installed
    <3> QED
      BY <1>4, <3>2 DEF FilesPhase, Switching
  <2>6. ChatPhase'
    <3>1. NeedsConversation(tx) => Start(tx) /\ tx.hasConv = "yes"
      BY <1>1, <1>2, <1>3 DEF ChatPhase, Early, Publishing
    <3> QED
      BY <1>1, <1>4, <3>1, StartStays DEF ChatPhase, Early, Publishing
  <2> QED
    BY <1>1, <1>2, <2>4, <2>5, <2>6, WorkStep, SteadySame
<1>5. CASE /\ IF bak[cur][f] = Absent
              THEN UNCHANGED << disk, bak >>
              ELSE Put(f, bak[cur][f]) /\ SetBackup(f, Absent)
           /\ Compensate
  <2>1. \A g \in Files : g # f => disk'[g] = disk[g] /\ bak'[cur][g] = bak[cur][g]
    BY <1>2, <1>5, PutView
  <2>2. bak'[cur][f] = Absent
    BY <1>2, <1>5, PutView
  <2>3. Pending(cur, tx)'
    BY <1>1, <1>2, <1>3, <2>1, <2>2, FileMoved
  <2> QED
    BY <1>1, <1>2, <1>5, <2>3, CompensateStep, SteadySame DEF Publishing
<1> QED
  BY <1>4, <1>5 DEF InstallTarget

LEMMA PersistProgressWhole ==
  ASSUME Sound, Sound', Whole, PersistProgress
  PROVE  Whole' /\ Steady
<1>1. /\ pc = "progress" /\ disk' = disk /\ bak' = bak /\ conv' = conv
      /\ ckpts' = ckpts /\ pass' = pass /\ edited' = edited /\ cur' = cur /\ failed' = failed
  BY DEF PersistProgress, diskVars, sessionVars, recoveryVars, boundVars
<1>2. cur \in TxIds /\ cur # NoTx /\ tx.state = "committing" /\ Types
  BY <1>1, PublishingFacts DEF Publishing
<1>3. Pending(cur, tx) /\ ChatPhase /\ FilesPhase
  BY <1>2 DEF Whole, Pendings
<1>4. CASE Persist(tx) /\ todo' = todo \ {Least(todo)} /\ pc' = "intent"
  <2>1. manifest' = [manifest EXCEPT ![cur] = tx] /\ tx' = tx
    BY <1>4 DEF Persist, Store
  <2>2. \A t \in TxIds : t # cur => manifest'[t] = manifest[t]
    BY <1>2, <2>1 DEF Types
  <2>3. FilesPhase'
    <3>1. Installed(tx.targets \ (todo \ {Least(todo)})) /\ PutBack(todo \ {Least(todo)})
      BY <1>1, <1>3 DEF FilesPhase
    <3>2. Installed(tx.targets \ todo)' /\ PutBack(todo)'
      BY <1>1, <1>4, <2>1, <3>1 DEF Installed, PutBack
    <3> QED
      BY <1>4, <3>2 DEF FilesPhase, Switching
  <2>4. ChatPhase'
    <3>1. NeedsConversation(tx) => Start(tx) /\ tx.hasConv = "yes"
      BY <1>1, <1>2, <1>3 DEF ChatPhase, Early, Publishing
    <3> QED
      BY <1>1, <1>4, <2>1, <3>1, StartStays DEF ChatPhase, Early, Publishing
  <2>5. Whole'
    BY <1>1, <1>2, <2>1, <2>2, <2>3, <2>4, QuietWork
  <2>6. Steady
    BY <1>2, <2>1, SteadyStored
  <2> QED
    BY <2>5, <2>6
<1>5. CASE Compensate /\ tx' = tx /\ manifest' = manifest
  <2>1. Pending(cur, tx)'
    BY <1>1, <1>3, <1>5 DEF Pending, Attached, FilesFit, ChatFits, NeedsConversation
  <2> QED
    BY <1>1, <1>2, <1>5, <2>1, CompensateStep, SteadySame DEF Publishing
<1> QED
  BY <1>4, <1>5 DEF PersistProgress

LEMMA FilesDoneWhole ==
  ASSUME Sound, Sound', Whole, FilesDone
  PROVE  Whole' /\ Steady
<1>1. /\ pc = "intent" /\ todo = {} /\ disk' = disk /\ bak' = bak /\ conv' = conv
      /\ ckpts' = ckpts /\ pass' = pass /\ edited' = edited /\ cur' = cur /\ failed' = failed
  BY DEF FilesDone, diskVars, sessionVars, recoveryVars, boundVars
<1>2. cur \in TxIds /\ cur # NoTx /\ tx.state = "committing" /\ Types
  BY <1>1, PublishingFacts DEF Publishing
<1>3. Pending(cur, tx) /\ ChatPhase /\ FilesPhase
  BY <1>2 DEF Whole, Pendings
<1>4. CASE /\ Persist(tx)
           /\ pc' = CASE tx.kind = "undo" -> "restoreConv"
                      [] tx.kind # "undo" /\ NeedsConversation(tx) -> "cutConv"
                      [] OTHER -> "finish"
  <2>1. manifest' = [manifest EXCEPT ![cur] = tx] /\ tx' = tx
    BY <1>4 DEF Persist, Store
  <2>2. \A t \in TxIds : t # cur => manifest'[t] = manifest[t]
    BY <1>2, <2>1 DEF Types
  <2>3. \/ pc' = "restoreConv" /\ tx.kind = "undo"
        \/ pc' = "cutConv" /\ tx.kind # "undo" /\ NeedsConversation(tx)
        \/ pc' = "finish" /\ ~ NeedsConversation(tx)
    BY <1>4
  <2>4. FilesPhase'
    <3>1. Installed(tx.targets)
      BY <1>1, <1>3 DEF FilesPhase, Installed
    <3>2. Installed(tx.targets)'
      BY <1>1, <2>1, <3>1 DEF Installed
    <3> QED
      BY <2>3, <3>2 DEF FilesPhase
  <2>5. ChatPhase'
    <3>1. NeedsConversation(tx) => Start(tx) /\ tx.hasConv = "yes"
      BY <1>1, <1>2, <1>3 DEF ChatPhase, Early, Publishing
    <3> QED
      BY <1>1, <2>1, <2>3, <3>1, StartStays DEF ChatPhase, Early, Publishing
  <2>6. Whole'
    BY <1>1, <1>2, <2>1, <2>2, <2>4, <2>5, QuietWork
  <2>7. Steady
    BY <1>2, <2>1, SteadyStored
  <2> QED
    BY <2>6, <2>7
<1>5. CASE Compensate /\ tx' = tx /\ manifest' = manifest
  <2>1. Pending(cur, tx)'
    BY <1>1, <1>3, <1>5 DEF Pending, Attached, FilesFit, ChatFits, NeedsConversation
  <2> QED
    BY <1>1, <1>2, <1>5, <2>1, CompensateStep, SteadySame DEF Publishing
<1> QED
  BY <1>4, <1>5 DEF FilesDone

--------
(* The conversation and the checkpoints. *)

\* Only the conversation and the checkpoints move, and no side has failed yet or more.
LEMMA ChatStep ==
  ASSUME Sound', Whole, pc \in Switching \cup Returning, cur \in TxIds, cur # NoTx, cur' = cur, pass' = pass,
         tx' = tx, manifest' = manifest, disk' = disk, bak' = bak, edited' = edited,
         ChatFits(tx)', FilesPhase', ChatPhase'
  PROVE  Whole' /\ Steady
<1>1. Attached(tx)' /\ FilesFit(cur, tx)'
  BY DEF Whole, Pendings, Pending, Attached, FilesFit, NeedsConversation
<1>2. Pending(cur, tx)'
  BY <1>1 DEF Pending
<1>3. pass # 0 => tx'.state = "committing"
  BY DEF Whole, Alone
<1> QED
  BY <1>2, <1>3, WorkStep, SteadySame

\* What a step of the switch finds.
LEMMA SwitchFacts ==
  ASSUME Sound, Whole, pc \in Switching
  PROVE  /\ cur \in TxIds /\ cur # NoTx /\ Types /\ IsManifest(tx, serial) /\ serial \in Nat /\ pass = 0
         /\ manifest[cur] = tx /\ tx.state = "committing"
         /\ Pending(cur, tx) /\ Attached(tx) /\ ChatFits(tx) /\ Installed(tx.targets)
         /\ NeedsConversation(tx) => tx.hasConv = "yes"
<1>1. /\ cur \in TxIds /\ cur # NoTx /\ Types /\ IsManifest(tx, serial) /\ serial \in Nat /\ pass = 0
      /\ manifest[cur] = tx /\ tx.state = "committing"
  BY PublishingFacts
<1>2. Pending(cur, tx)
  BY <1>1 DEF Whole, Pendings
<1> QED
  BY <1>1, <1>2 DEF Whole, Pending, FilesPhase, ChatPhase, Switching, Early

\* The files are installed until something fails.
LEMMA StillInstalled ==
  ASSUME Installed(tx.targets), tx' = tx, disk' = disk, edited' = edited, pc' \in Switching \cup {"backConv"}
  PROVE  FilesPhase'
<1>1. Installed(tx.targets)'
  BY DEF Installed
<1> QED
  BY <1>1 DEF FilesPhase, Switching

LEMMA CutConversationWhole ==
  ASSUME Sound, Sound', Whole, CutConversation
  PROVE  Whole' /\ Steady
<1>1. /\ pc = "cutConv" /\ disk' = disk /\ bak' = bak /\ manifest' = manifest /\ ckpts' = ckpts
      /\ pass' = pass /\ edited' = edited /\ cur' = cur /\ tx' = tx
  BY DEF CutConversation, diskVars, opVars, recoveryVars, boundVars
<1>2. /\ cur \in TxIds /\ cur # NoTx /\ Installed(tx.targets)
      /\ NeedsConversation(tx) /\ tx.hasConv = "yes" /\ tx.kind # "undo" /\ Start(tx)
  BY <1>1, SwitchFacts DEF Whole, ChatPhase, Switching
<1>3. pc' \in {"cutCkpts", "backConv"}
  BY DEF CutConversation
<1>4. FilesPhase'
  BY <1>1, <1>2, <1>3, StillInstalled DEF Switching
<1>5. ChatFits(tx)'
  BY <1>1, <1>2 DEF ChatFits
<1>6. ChatPhase'
  <2>1. pc' = "cutCkpts" => conv' = Cut(tx.fwdConv, tx.boundary) /\ tx.boundary <= Len(tx.fwdConv)
    BY <1>2 DEF CutConversation, Start, ConversationForward
  <2> QED
    BY <1>1, <1>2, <1>3, <2>1 DEF ChatPhase, Early, Publishing, NeedsConversation
<1> QED
  BY <1>1, <1>2, <1>4, <1>5, <1>6, ChatStep DEF Switching

LEMMA CutCheckpointsWhole ==
  ASSUME Sound, Sound', Whole, CutCheckpoints
  PROVE  Whole' /\ Steady
<1>1. /\ pc = "cutCkpts" /\ disk' = disk /\ bak' = bak /\ manifest' = manifest /\ conv' = conv
      /\ pass' = pass /\ edited' = edited /\ cur' = cur /\ tx' = tx
  BY DEF CutCheckpoints, diskVars, opVars, recoveryVars, boundVars
<1>2. /\ cur \in TxIds /\ cur # NoTx /\ Installed(tx.targets)
      /\ NeedsConversation(tx) /\ tx.hasConv = "yes" /\ tx.kind # "undo"
      /\ conv = Cut(tx.fwdConv, tx.boundary) /\ tx.boundary <= Len(tx.fwdConv)
  BY <1>1, SwitchFacts DEF Whole, ChatPhase, Switching
<1>3. pc' \in {"finish", "backConv"}
  BY DEF CutCheckpoints
<1>4. FilesPhase'
  BY <1>1, <1>2, <1>3, StillInstalled DEF Switching
<1>5. ChatFits(tx)'
  BY <1>1, <1>2 DEF ChatFits
<1>6. ChatPhase'
  <2>1. pc' = "finish" => \A t \in DOMAIN ckpts' : t < tx.from
    BY DEF CutCheckpoints, Before
  <2>2. pc' = "finish" => End(tx)'
    BY <1>1, <1>2, <2>1 DEF End, ConversationBack
  <2> QED
    BY <1>1, <1>2, <1>3, <2>2 DEF ChatPhase, Early, Publishing, NeedsConversation
<1> QED
  BY <1>1, <1>2, <1>4, <1>5, <1>6, ChatStep DEF Switching

LEMMA RestoreConversationWhole ==
  ASSUME Sound, Sound', Whole, RestoreConversation
  PROVE  Whole' /\ Steady
<1>1. /\ pc = "restoreConv" /\ disk' = disk /\ bak' = bak /\ manifest' = manifest /\ ckpts' = ckpts
      /\ pass' = pass /\ edited' = edited /\ cur' = cur /\ tx' = tx
  BY DEF RestoreConversation, diskVars, opVars, recoveryVars, boundVars
<1>2. /\ cur \in TxIds /\ cur # NoTx /\ Installed(tx.targets) /\ tx.kind = "undo" /\ ChatFits(tx)
      /\ NeedsConversation(tx) => tx.hasConv = "yes"
  BY <1>1, SwitchFacts DEF Whole, ChatPhase, Switching
<1>3. pc' \in {"restoreCkpts", "backConv"}
  BY DEF RestoreConversation
<1>4. FilesPhase'
  BY <1>1, <1>2, <1>3, StillInstalled DEF Switching
<1>5. conv' = conv \/ (tx.hasConv = "yes" /\ conv' = tx.fwdConv)
  BY DEF RestoreConversation
<1>6. ChatFits(tx)'
  BY <1>1, <1>2, <1>5 DEF ChatFits, NeedsConversation
<1>7. ChatPhase'
  <2>1. pc' = "restoreCkpts" /\ tx.hasConv = "yes" => conv' = tx.fwdConv
    BY DEF RestoreConversation
  <2> QED
    BY <1>1, <1>2, <1>3, <2>1 DEF ChatPhase, Early, Publishing, NeedsConversation
<1> QED
  BY <1>1, <1>2, <1>4, <1>6, <1>7, ChatStep DEF Switching

\* Merged checkpoints agree with what was merged over them.
LEMMA MergeView ==
  ASSUME NEW c, NEW b, NEW t \in DOMAIN b
  PROVE  Merge(c, b)[t] = b[t]
BY DEF Merge

LEMMA RestoreCheckpointsWhole ==
  ASSUME Sound, Sound', Whole, RestoreCheckpoints
  PROVE  Whole' /\ Steady
<1>1. /\ pc = "restoreCkpts" /\ disk' = disk /\ bak' = bak /\ manifest' = manifest /\ conv' = conv
      /\ pass' = pass /\ edited' = edited /\ cur' = cur /\ tx' = tx
  BY DEF RestoreCheckpoints, diskVars, opVars, recoveryVars, boundVars
<1>2. /\ cur \in TxIds /\ cur # NoTx /\ Installed(tx.targets) /\ tx.kind = "undo"
      /\ NeedsConversation(tx) =>
            tx.hasConv = "yes" /\ conv = tx.fwdConv /\ tx.boundary <= Len(tx.fwdConv)
  BY <1>1, SwitchFacts DEF Whole, ChatPhase, Switching, Attached
<1>3. pc' \in {"finish", "backConv"}
  BY DEF RestoreCheckpoints
<1>4. FilesPhase'
  BY <1>1, <1>2, <1>3, StillInstalled DEF Switching
<1>5. ChatFits(tx)'
  BY <1>1, <1>2 DEF ChatFits, NeedsConversation
<1>6. ChatPhase'
  <2>1. NeedsConversation(tx) /\ pc' = "finish" => \A t \in DOMAIN tx.backup : ckpts'[t] = tx.backup[t]
    BY MergeView DEF RestoreCheckpoints, ReinstateCheckpoints
  <2>2. NeedsConversation(tx) /\ pc' = "finish" => End(tx)'
    BY <1>1, <1>2, <2>1 DEF End, ConversationForward
  <2> QED
    BY <1>1, <1>2, <1>3, <2>2 DEF ChatPhase, Early, Publishing, NeedsConversation
<1> QED
  BY <1>1, <1>2, <1>4, <1>5, <1>6, ChatStep DEF Switching

--------
(* Compensation. *)

\* What a step of the compensation finds.
LEMMA BackFacts ==
  ASSUME Sound, Whole, pc \in Returning
  PROVE  /\ cur \in TxIds /\ cur # NoTx /\ Types /\ IsManifest(tx, serial) /\ serial \in Nat
         /\ manifest[cur] = tx /\ tx.targets \subseteq Files /\ todo \subseteq tx.targets
         /\ todo # {} => Greatest(todo) \in todo /\ Greatest(todo) \in Files
         /\ Pending(cur, tx) /\ Attached(tx) /\ ChatFits(tx) /\ FilesFit(cur, tx)
         /\ NeedsConversation(tx) => tx.hasConv = "yes"
         /\ pass # 0 => tx.state = "committing"
<1>1. /\ cur \in TxIds /\ cur # NoTx /\ Types /\ IsManifest(tx, serial) /\ serial \in Nat
      /\ manifest[cur] = tx /\ todo \subseteq tx.targets
      /\ todo # {} => Greatest(todo) \in todo /\ Greatest(todo) \in Files
  BY ReturningFacts
<1>2. Pending(cur, tx) /\ (pass # 0 => tx.state = "committing")
  BY <1>1 DEF Whole, Pendings, Alone
<1> QED
  BY <1>1, <1>2 DEF Whole, Pending, ChatPhase, Returning, Early, IsManifest

LEMMA BackConversationWhole ==
  ASSUME Sound, Sound', Whole, BackConversation
  PROVE  Whole' /\ Steady
<1>1. /\ pc = "backConv" /\ pc' = "backCkpts" /\ disk' = disk /\ bak' = bak /\ manifest' = manifest
      /\ ckpts' = ckpts /\ pass' = pass /\ edited' = edited /\ cur' = cur /\ tx' = tx
  BY DEF BackConversation, diskVars, recoveryVars, boundVars
<1>2. /\ cur \in TxIds /\ cur # NoTx /\ ChatFits(tx) /\ Attached(tx) /\ serial \in Nat
      /\ tx.fwdConv \in Chats(serial) /\ tx.boundary \in Nat
      /\ NeedsConversation(tx) => tx.hasConv = "yes"
  BY <1>1, BackFacts DEF Returning, IsManifest
<1>3. tx.kind # "undo" /\ NeedsConversation(tx) => conv' = tx.fwdConv \/ "state" \in failed'
  BY <1>2 DEF BackConversation, Failed
<1>4. tx.kind = "undo" /\ NeedsConversation(tx) =>
         \/ conv' = Cut(tx.fwdConv, tx.boundary)
         \/ conv' = conv /\ "state" \in failed'
  <2> SUFFICES ASSUME tx.kind = "undo", NeedsConversation(tx),
                      ~ (conv' = conv /\ "state" \in failed')
               PROVE  conv' = Cut(tx.fwdConv, tx.boundary)
    OBVIOUS
  <2>1. conv' = Cut(conv, tx.boundary)
    BY DEF BackConversation, Failed
  <2>2. conv = tx.fwdConv \/ conv = Cut(tx.fwdConv, tx.boundary)
    BY <1>2 DEF ChatFits
  <2>3. tx.boundary <= Len(tx.fwdConv)
    BY <1>2 DEF Attached
  <2>4. Cut(Cut(tx.fwdConv, tx.boundary), tx.boundary) = Cut(tx.fwdConv, tx.boundary)
    BY <1>2, <2>3, CutTwice
  <2> QED
    BY <2>1, <2>2, <2>4
<1>5. ChatFits(tx)'
  BY <1>1, <1>2, <1>4 DEF ChatFits, NeedsConversation
<1>6. FilesPhase'
  BY <1>1 DEF FilesPhase, Switching
<1>7. ChatPhase'
  BY <1>1, <1>2, <1>3, <1>4 DEF ChatPhase, Early, Publishing, NeedsConversation
<1> QED
  BY <1>1, <1>2, <1>5, <1>6, <1>7, ChatStep DEF Returning

LEMMA BackCheckpointsWhole ==
  ASSUME Sound, Sound', Whole, BackCheckpoints
  PROVE  Whole' /\ Steady
<1>1. /\ pc = "backCkpts" /\ pc' = "backDone" /\ disk' = disk /\ bak' = bak /\ manifest' = manifest
      /\ conv' = conv /\ pass' = pass /\ edited' = edited /\ cur' = cur /\ tx' = tx
  BY DEF BackCheckpoints, diskVars, recoveryVars, boundVars
<1>2. /\ cur \in TxIds /\ cur # NoTx /\ ChatFits(tx)
      /\ NeedsConversation(tx) => tx.hasConv = "yes"
      /\ NeedsConversation(tx) /\ "state" \notin failed =>
            conv = IF tx.kind = "undo" THEN Cut(tx.fwdConv, tx.boundary) ELSE tx.fwdConv
  BY <1>1, BackFacts DEF Returning, Whole, ChatPhase
<1>3. ChatFits(tx)'
  BY <1>1, <1>2 DEF ChatFits, NeedsConversation
<1>4. FilesPhase'
  BY <1>1 DEF FilesPhase, Switching
<1>5. NeedsConversation(tx) /\ "state" \notin failed' => Start(tx)'
  <2> SUFFICES ASSUME NeedsConversation(tx), "state" \notin failed' PROVE Start(tx)'
    OBVIOUS
  <2>1. "state" \notin failed
    BY DEF BackCheckpoints, Failed
  <2>2. CASE tx.kind = "undo"
    <3>1. ckpts' = Before(ckpts, tx.from)
      BY <2>2 DEF BackCheckpoints, Failed
    <3>2. \A t \in DOMAIN ckpts' : t < tx.from
      BY <3>1 DEF Before
    <3> QED
      BY <1>1, <1>2, <2>1, <2>2, <3>2 DEF Start, ConversationBack
  <2>3. CASE tx.kind # "undo"
    <3>1. ckpts' = Merge(ckpts, tx.backup)
      BY <2>3 DEF BackCheckpoints, Failed, ReinstateCheckpoints
    <3>2. \A t \in DOMAIN tx.backup : ckpts'[t] = tx.backup[t]
      BY <3>1, MergeView
    <3> QED
      BY <1>1, <1>2, <2>1, <2>3, <3>2 DEF Start, ConversationForward
  <2> QED
    BY <2>2, <2>3
<1>6. ChatPhase'
  BY <1>1, <1>2, <1>5 DEF ChatPhase, Early, Publishing, NeedsConversation
<1> QED
  BY <1>1, <1>2, <1>3, <1>4, <1>6, ChatStep DEF Returning

LEMMA BackDoneWhole ==
  ASSUME Sound, Sound', Whole, BackDone
  PROVE  Whole' /\ Steady
<1>1. /\ pc = "backDone" /\ disk' = disk /\ bak' = bak /\ manifest' = manifest /\ conv' = conv
      /\ ckpts' = ckpts /\ pass' = pass /\ edited' = edited
  BY DEF BackDone, diskVars, sessionVars, recoveryVars, boundVars
<1>2. cur \in TxIds /\ cur # NoTx /\ Pending(cur, tx)
  BY <1>1, BackFacts DEF Returning
<1>3. CASE Return
  BY <1>1, <1>3, ReturnStep, SteadySame
<1>4. CASE Compensate /\ cur' = cur /\ tx' = tx /\ failed' = failed
  <2>1. Pending(cur, tx)'
    BY <1>1, <1>2, <1>4 DEF Pending, Attached, FilesFit, ChatFits, NeedsConversation
  <2> QED
    BY <1>1, <1>2, <1>4, <2>1, CompensateStep, SteadySame
<1> QED
  BY <1>3, <1>4 DEF BackDone

\* A step of the loop over the targets: f is as it was before the transaction, it is to be
\* reinstated, or the compensation has failed.
LEMMA PutBackStep ==
  ASSUME Sound, Sound', Whole, pc \in {"compensate", "reinstate"}, NEW f \in Files,
         cur' = cur, tx' = tx, pass' = pass, edited' = edited, manifest' = manifest,
         conv' = conv, ckpts' = ckpts, failed \subseteq failed', "state" \in failed' => "state" \in failed,
         Pending(cur, tx)', \A g \in Files : g # f => disk'[g] = disk[g],
         \/ pc' = "reinstate" /\ todo' = todo /\ f \in todo
         \/ pc' = "compensate" /\ todo' = todo \ {f} /\
               (f \notin edited /\ "files" \notin failed' => disk'[f] = tx.forward[f])
  PROVE  Whole' /\ Steady
<1>1. /\ cur \in TxIds /\ cur # NoTx /\ tx.targets \subseteq Files /\ (pass # 0 => tx.state = "committing")
      /\ NeedsConversation(tx) => tx.hasConv = "yes"
  BY BackFacts DEF Returning
<1>2. FilesPhase'
  <2>1. ASSUME "files" \notin failed' PROVE PutBack(tx.targets \ todo)'
    <3>1. PutBack(tx.targets \ todo)
      BY <2>1 DEF Whole, FilesPhase
    <3> SUFFICES ASSUME NEW g \in (tx.targets \ todo') \ edited PROVE disk'[g] = tx.forward[g]
      BY DEF PutBack
    <3>2. CASE g = f
      BY <2>1, <3>2
    <3>3. CASE g # f
      <4>1. g \in (tx.targets \ todo) \ edited /\ g \in Files
        BY <1>1, <3>3
      <4> QED
        BY <3>1, <3>3, <4>1 DEF PutBack
    <3> QED
      BY <3>2, <3>3
  <2> QED
    BY <2>1 DEF FilesPhase, Switching
<1>3. ChatPhase'
  <2>1. NeedsConversation(tx) /\ "state" \notin failed' => Start(tx)
    BY DEF Whole, ChatPhase
  <2> QED
    BY <1>1, <2>1, StartStays DEF ChatPhase, Early, Publishing
<1> QED
  BY <1>1, <1>2, <1>3, WorkStep, SteadySame

LEMMA CompensateFileWhole ==
  ASSUME Sound, Sound', Whole, CompensateFile
  PROVE  Whole' /\ Steady
<1>1. /\ pc = "compensate" /\ todo # {} /\ manifest' = manifest /\ conv' = conv /\ ckpts' = ckpts
      /\ cur' = cur /\ tx' = tx /\ pass' = pass /\ edited' = edited
  BY DEF CompensateFile, sessionVars, recoveryVars, boundVars
<1> PICK f : f = Greatest(todo)
  OBVIOUS
<1>2. /\ Types /\ f \in Files /\ cur \in TxIds /\ f \in todo /\ f \in tx.targets
      /\ tx.targets \subseteq Files /\ Pending(cur, tx) /\ FilesFit(cur, tx)
  BY <1>1, BackFacts DEF Returning
<1>3. CASE CompensateNothing(f)
  <2>1. /\ Untouched(f) /\ disk' = disk /\ bak' = bak /\ failed' = failed
        /\ todo' = todo \ {f} /\ pc' = "compensate"
    BY <1>3 DEF CompensateNothing, NextTarget
  <2>2. Pending(cur, tx)'
    BY <1>1, <1>2, <2>1 DEF Pending, Attached, FilesFit, ChatFits, NeedsConversation
  <2>3. f \notin edited => disk[f] = tx.forward[f]
    BY <1>2, <2>1 DEF Untouched, FilesFit
  <2> QED
    BY <1>1, <1>2, <2>1, <2>2, <2>3, PutBackStep
<1>4. CASE CompensateRename(f)
  <2>1. /\ f \in tx.published /\ bak[cur][f] = tx.forward[f] /\ failed' = failed
        /\ todo' = todo \ {f} /\ pc' = "compensate" /\ Put(f, bak[cur][f]) /\ SetBackup(f, Absent)
    BY <1>4 DEF CompensateRename, Untouched, BetweenRenames, NextTarget
  <2>2. /\ disk'[f] = tx.forward[f] /\ bak'[cur][f] = Absent
        /\ \A g \in Files : g # f => disk'[g] = disk[g] /\ bak'[cur][g] = bak[cur][g]
    BY <1>2, <2>1, PutView
  <2>3. Pending(cur, tx)'
    BY <1>1, <1>2, <2>1, <2>2, FileMoved
  <2> QED
    BY <1>1, <1>2, <2>1, <2>2, <2>3, PutBackStep
<1>5. CASE Failed("files") /\ NextTarget(f) /\ disk' = disk /\ bak' = bak
  <2>1. failed' = failed \cup {"files"} /\ todo' = todo \ {f} /\ pc' = "compensate"
    BY <1>5 DEF Failed, NextTarget
  <2>2. Pending(cur, tx)'
    BY <1>1, <1>2, <1>5 DEF Pending, Attached, FilesFit, ChatFits, NeedsConversation
  <2> QED
    BY <1>1, <1>2, <1>5, <2>1, <2>2, PutBackStep
<1>6. CASE CompensateRemove(f)
  <2>1. f \in tx.published /\ failed' = failed /\ bak' = bak /\ Put(f, Absent)
    BY <1>6 DEF CompensateRemove, Untouched
  <2>2. \/ tx.forward[f] = Absent /\ todo' = todo \ {f} /\ pc' = "compensate"
        \/ pc' = "reinstate" /\ todo' = todo
    BY <1>6 DEF CompensateRemove, NextTarget
  <2>3. /\ disk'[f] = Absent
        /\ \A g \in Files : g # f => disk'[g] = disk[g] /\ bak'[cur][g] = bak[cur][g]
    BY <1>2, <2>1, PutView
  <2>4. f \in tx.targets \ edited => (bak'[cur][f] # Absent => bak'[cur][f] = tx.forward[f])
    BY <1>2, <2>1 DEF FilesFit
  <2>5. Pending(cur, tx)'
    BY <1>1, <1>2, <2>1, <2>3, <2>4, FileMoved
  <2> QED
    BY <1>1, <1>2, <2>1, <2>2, <2>3, <2>5, PutBackStep
<1>7. CASE CompensateForeign(f)
  BY <1>5, <1>7 DEF CompensateForeign
<1> QED
  BY <1>3, <1>4, <1>5, <1>6, <1>7 DEF CompensateFile

LEMMA ReinstateFileWhole ==
  ASSUME Sound, Sound', Whole, ReinstateFile
  PROVE  Whole' /\ Steady
<1>1. /\ pc = "reinstate" /\ todo # {} /\ manifest' = manifest /\ conv' = conv /\ ckpts' = ckpts
      /\ cur' = cur /\ tx' = tx /\ pass' = pass /\ edited' = edited
  BY DEF ReinstateFile, NextTarget, sessionVars, recoveryVars, boundVars, Sound, Stages
<1> PICK f : f = Greatest(todo)
  OBVIOUS
<1>2. /\ Types /\ f \in Files /\ cur \in TxIds /\ f \in todo /\ f \in tx.targets
      /\ tx.targets \subseteq Files /\ Pending(cur, tx) /\ FilesFit(cur, tx)
  BY <1>1, BackFacts DEF Returning
<1>3. todo' = todo \ {f} /\ pc' = "compensate"
  BY DEF ReinstateFile, NextTarget
<1>4. CASE failed' = failed /\ bak[cur][f] # Absent /\ Put(f, bak[cur][f]) /\ SetBackup(f, Absent)
  <2>1. /\ disk'[f] = bak[cur][f] /\ bak'[cur][f] = Absent
        /\ \A g \in Files : g # f => disk'[g] = disk[g] /\ bak'[cur][g] = bak[cur][g]
    BY <1>2, <1>4, PutView
  <2>2. f \notin edited => bak[cur][f] = tx.forward[f]
    BY <1>2, <1>4 DEF FilesFit
  <2>3. Pending(cur, tx)'
    BY <1>1, <1>2, <2>1, <2>2, FileMoved
  <2> QED
    BY <1>1, <1>2, <1>3, <1>4, <2>1, <2>2, <2>3, PutBackStep
<1>5. CASE failed' = failed /\ bak[cur][f] = Absent /\ Put(f, tx.forward[f]) /\ bak' = bak
  <2>1. /\ disk'[f] = tx.forward[f]
        /\ \A g \in Files : g # f => disk'[g] = disk[g] /\ bak'[cur][g] = bak[cur][g]
    BY <1>2, <1>5, PutView
  <2>2. Pending(cur, tx)'
    BY <1>1, <1>2, <1>5, <2>1, FileMoved
  <2> QED
    BY <1>1, <1>2, <1>3, <1>5, <2>1, <2>2, PutBackStep
<1>6. CASE Failed("files") /\ disk' = disk /\ bak' = bak
  <2>1. failed' = failed \cup {"files"}
    BY <1>6 DEF Failed
  <2>2. Pending(cur, tx)'
    BY <1>1, <1>2, <1>6 DEF Pending, Attached, FilesFit, ChatFits, NeedsConversation
  <2> QED
    BY <1>1, <1>2, <1>3, <1>6, <2>1, <2>2, PutBackStep
<1> QED
  BY <1>4, <1>5, <1>6 DEF ReinstateFile

--------
(* The end of a transaction. *)

\* What AllOrNothing says of one step.
Decides ==
    \A t \in TxIds :
        /\ manifest[t].state = "committing" /\ manifest'[t].state = "committed"
              => AtEnd(manifest[t])'
        /\ manifest[t].state = "committing" /\ manifest'[t].state = "aborted"
              => AtStart(manifest[t])'

LEMMA SteadyDecides == ASSUME Steady PROVE Decides
BY DEF Steady, Decides

\* The manifest of the running transaction is written while the session stays as it is.
LEMMA OneDecides ==
  ASSUME NEW c \in TxIds, \A t \in TxIds : t # c => manifest'[t] = manifest[t],
         manifest'[c].state = "committed" => AtEnd(manifest[c])',
         manifest[c].state = "committing" /\ manifest'[c].state = "aborted" => AtStart(manifest[c])'
  PROVE  Decides
<1> SUFFICES ASSUME NEW t \in TxIds
             PROVE  /\ manifest[t].state = "committing" /\ manifest'[t].state = "committed"
                          => AtEnd(manifest[t])'
                    /\ manifest[t].state = "committing" /\ manifest'[t].state = "aborted"
                          => AtStart(manifest[t])'
  BY DEF Decides
<1>1. CASE t = c
  BY <1>1
<1>2. CASE t # c
  BY <1>2
<1> QED
  BY <1>1, <1>2

LEMMA SettleWhole ==
  ASSUME Sound, Whole, Settle
  PROVE  Whole' /\ Decides
<1> PICK c : c = cur
  OBVIOUS
<1>1. /\ pc \in {"compensate", "settle"} /\ (pc = "compensate" => todo = {})
      /\ disk' = disk /\ bak' = bak /\ conv' = conv /\ ckpts' = ckpts /\ edited' = edited /\ Return
  BY DEF Settle, diskVars, sessionVars, recoveryVars, boundVars
<1>2. /\ cur \in TxIds /\ cur # NoTx /\ Types /\ IsManifest(tx, serial) /\ manifest[cur] = tx
      /\ Pending(cur, tx) /\ Attached(tx) /\ (NeedsConversation(tx) => tx.hasConv = "yes")
  BY <1>1, BackFacts DEF Returning
<1>3. CASE manifest' = manifest
  BY <1>1, <1>3, ReturnStep, SteadySame, SteadyDecides
<1>4. ASSUME NEW s \in {"aborted", "committing"}, Store(InState(s)), s = "aborted" => failed = {}
      PROVE  Whole' /\ Decides
  <2>1. PICK m : m = SetState(tx, s)
    OBVIOUS
  <2>2. m.state = s /\ m.published = tx.published /\ SamePlan(tx, m) /\ SameForward(tx, m)
    BY <1>2, <2>1, StateView DEF States
  <2>3. manifest' = [manifest EXCEPT ![cur] = m]
    BY <1>4, <2>1 DEF Store, InState, SetState
  <2>4. manifest'[cur] = m /\ \A t \in TxIds : t # cur => manifest'[t] = manifest[t]
    BY <1>2, <2>3 DEF Types
  <2>5. Attached(m)
    BY <1>2, <2>2 DEF Attached, NeedsConversation, SamePlan, SameForward
  <2>6. FilesFit(cur, m) /\ ChatFits(m)
    BY <1>2, <2>2 DEF Pending, FilesFit, ChatFits, NeedsConversation, SamePlan, SameForward
  <2>7. cur' = NoTx /\ pc' \in {"idle", "scan"}
    BY <1>1 DEF Return
  <2>8. Whole'
    BY <1>1, <1>2, <2>4, <2>5, <2>6, <2>7, LeaveStep DEF Pending
  <2>9. ASSUME tx.state = "committing", s = "aborted" PROVE AtStart(manifest[c])'
    <3>1. pc = "compensate" /\ todo = {} /\ failed = {}
      BY <1>1, <1>4, <2>9 DEF Whole, FilesPhase
    <3>2. PutBack(tx.targets)
      BY <3>1 DEF Whole, FilesPhase, PutBack
    <3>3. NeedsConversation(tx) => Start(tx)
      BY <3>1 DEF Whole, ChatPhase
    <3>4. DOMAIN tx.forward = tx.targets
      BY <1>2 DEF IsManifest
    <3>5. FilesAt(m.forward)
      BY <2>2, <3>2, <3>4 DEF PutBack, FilesAt, SamePlan
    <3>6. NeedsConversation(m) => Start(m)
      BY <2>2, <3>3, StartSame
    <3> QED
      BY <1>1, <1>2, <2>3, <3>5, <3>6 DEF AtStart, FilesAt, Start, NeedsConversation, ConversationBack,
         ConversationForward, Types
  <2>10. Decides
    BY <1>2, <2>2, <2>4, <2>9, OneDecides
  <2> QED
    BY <2>8, <2>10
<1> QED
  BY <1>3, <1>4 DEF Settle

LEMMA FinishWhole ==
  ASSUME Sound, Sound', Whole, Finish
  PROVE  Whole' /\ Decides
<1> PICK c : c = cur
  OBVIOUS
<1>1. /\ pc = "finish" /\ disk' = disk /\ bak' = bak /\ conv' = conv /\ ckpts' = ckpts
      /\ pass' = pass /\ edited' = edited
  BY DEF Finish, diskVars, sessionVars, recoveryVars, boundVars
<1>2. /\ cur \in TxIds /\ cur # NoTx /\ Types /\ IsManifest(tx, serial) /\ manifest[cur] = tx /\ pass = 0
      /\ Pending(cur, tx) /\ Attached(tx) /\ ChatFits(tx) /\ Installed(tx.targets)
      /\ NeedsConversation(tx) => tx.hasConv = "yes" /\ End(tx) /\ tx.boundary <= Len(tx.fwdConv)
  BY <1>1, SwitchFacts DEF Switching, Whole, ChatPhase
<1>3. PICK m : m = SetState(tx, "committed")
  OBVIOUS
<1>4. m.state = "committed" /\ m.published = tx.published /\ SamePlan(tx, m) /\ SameForward(tx, m)
  BY <1>2, <1>3, StateView DEF States
<1>5. Attached(m)
  BY <1>2, <1>4 DEF Attached, NeedsConversation, SamePlan, SameForward
<1>6. ASSUME manifest' = [manifest EXCEPT ![cur] = m]
      PROVE  /\ manifest'[cur] = m /\ \A t \in TxIds : t # cur => manifest'[t] = manifest[t]
             /\ Decides
  <2>1. manifest'[cur] = m /\ \A t \in TxIds : t # cur => manifest'[t] = manifest[t]
    BY <1>2, <1>6 DEF Types
  <2>2. DOMAIN tx.restore = tx.targets
    BY <1>2 DEF IsManifest
  <2>3. FilesAt(m.restore)
    BY <1>2, <1>4, <2>2 DEF Installed, FilesAt, SamePlan
  <2>4. NeedsConversation(m) => End(m)
    BY <1>2, <1>4, StartSame
  <2>5. AtEnd(manifest[c])'
    BY <1>1, <1>2, <1>6, <2>3, <2>4 DEF AtEnd, FilesAt, End, NeedsConversation, ConversationBack,
       ConversationForward, Types
  <2>6. Decides
    BY <1>2, <1>4, <2>1, <2>5, OneDecides
  <2> QED
    BY <2>1, <2>6
<1>7. CASE tx.kind # "undo" /\ Store(InState("committed")) /\ Return
  <2>1. manifest' = [manifest EXCEPT ![cur] = m]
    BY <1>3, <1>7 DEF Store, InState, SetState
  <2>2. cur' = NoTx /\ pc' \in {"idle", "scan"}
    BY <1>7 DEF Return
  <2>3. Whole'
    BY <1>1, <1>4, <1>5, <1>6, <2>1, <2>2, LeaveStep
  <2> QED
    BY <1>6, <2>1, <2>3
<1>8. CASE tx.kind = "undo" /\ Persist(InState("committed")) /\ pc' = "markUndone" /\ cur' = cur
  <2>1. manifest' = [manifest EXCEPT ![cur] = m] /\ tx' = m
    BY <1>3, <1>8 DEF Persist, Store, InState, SetState
  <2>2. Attached(tx)'
    BY <1>5, <2>1 DEF Attached, NeedsConversation
  <2>3. Pending(cur, tx)'
    BY <1>1, <1>2, <1>4, <1>8, <2>1, <2>2, PendingKept
  <2>4. FilesPhase'
    BY <1>8 DEF FilesPhase, Switching
  <2>5. ChatPhase'
    <3>1. NeedsConversation(tx)' => tx'.hasConv = "yes"
      BY <1>2, <1>4, <2>1 DEF NeedsConversation, SamePlan, SameForward
    <3> QED
      BY <1>8, <3>1 DEF ChatPhase, Early, Publishing, NeedsConversation
  <2>6. Whole'
    BY <1>1, <1>2, <1>6, <1>8, <2>1, <2>3, <2>4, <2>5, WorkStep
  <2> QED
    BY <1>6, <2>1, <2>6
<1>9. CASE pc' = "backConv" /\ manifest' = manifest /\ opVars' = opVars
  <2>1. cur' = cur /\ tx' = tx
    BY <1>9 DEF opVars
  <2>2. FilesPhase'
    BY <1>9 DEF FilesPhase, Switching
  <2>3. ChatPhase'
    BY <1>2, <1>9, <2>1 DEF ChatPhase, Early, Publishing, NeedsConversation
  <2> QED
    BY <1>1, <1>2, <1>9, <2>1, <2>2, <2>3, QuietWork, SteadySame, SteadyDecides
<1> QED
  BY <1>7, <1>8, <1>9 DEF Finish

\* Another state is written over the manifest of u, which is not committing.
LEMMA RestateWhole ==
  ASSUME Sound, Whole, NEW u \in TxIds, manifest[u].state # "committing",
         NEW s \in {"aborted", "undone"}, manifest' = [manifest EXCEPT ![u].state = s],
         s = "undone" => manifest[u].state = "committed"
  PROVE  /\ \A t \in TxIds : Attached(manifest'[t])
         /\ Committing' = Committing /\ \A t \in Committing : manifest'[t] = manifest[t]
         /\ Steady
<1>1. PICK m : m = SetState(manifest[u], s)
  OBVIOUS
<1>2. IsManifest(manifest[u], serial) /\ s \in States /\ Types
  BY DEF Sound, Types, States
<1>3. m.state = s /\ SamePlan(manifest[u], m) /\ SameForward(manifest[u], m)
  BY <1>1, <1>2, StateView
<1>4. manifest' = [manifest EXCEPT ![u] = m]
  BY <1>1 DEF SetState
<1>5. manifest'[u] = m /\ \A t \in TxIds : t # u => manifest'[t] = manifest[t]
  BY <1>2, <1>4 DEF Types
<1>6. Attached(manifest[u])
  BY DEF Whole, Pendings
<1>7. Attached(m)
  BY <1>3, <1>6 DEF Attached, NeedsConversation, SamePlan, SameForward
<1>8. \A t \in TxIds : Attached(manifest'[t])
  BY <1>5, <1>7 DEF Whole, Pendings
<1>9. Committing' = Committing /\ \A t \in Committing : manifest'[t] = manifest[t]
  BY <1>3, <1>5 DEF Committing
<1>10. Steady
  BY <1>5 DEF Steady
<1> QED
  BY <1>8, <1>9, <1>10

LEMMA MarkUndoneWhole ==
  ASSUME Sound, Whole, MarkUndone
  PROVE  Whole' /\ Steady
<1>1. /\ pc = "markUndone" /\ Return /\ disk' = disk /\ bak' = bak /\ conv' = conv /\ edited' = edited
  BY DEF MarkUndone, diskVars, sessionVars, recoveryVars, boundVars
<1>2. /\ cur \in TxIds /\ cur # NoTx /\ manifest[cur] = tx /\ tx.state = "committed" /\ tx.kind = "undo"
      /\ pass = 0
  BY <1>1, HasTransaction DEF Sound, Stages, Unsaved, Returning
<1>3. tx.parent \in TxIds /\ lastUndo = tx.parent /\ tx.parent # NoTx
  BY <1>2, SessionTypes DEF Sound, Ledger
<1>4. manifest[tx.parent].state = "committed"
  BY <1>3 DEF Sound, Offers
<1>5. CASE manifest' = manifest
  BY <1>1, <1>5, ReturnStep, SteadySame
<1>6. CASE manifest' = [manifest EXCEPT ![tx.parent].state = "undone"]
  <2>1. /\ \A t \in TxIds : Attached(manifest'[t])
        /\ Committing' = Committing /\ Steady
    BY <1>3, <1>4, <1>6, RestateWhole
  <2>2. Committing = {}
    BY <1>2 DEF Whole, Alone, Committing
  <2>3. cur' = NoTx /\ pc' \in {"idle", "scan", "down"}
    BY <1>1 DEF Return
  <2> QED
    BY <2>1, <2>2, <2>3, ClearStep
<1> QED
  BY <1>5, <1>6 DEF MarkUndone

--------
(* Crashes and recovery. *)

\* The process dies, opens the session, or goes on to the next pass.
LEMMA RestartStep ==
  ASSUME Whole, cur' = NoTx, pc' \in {"idle", "scan", "down"}, manifest' = manifest,
         disk' = disk, bak' = bak, edited' = edited, conv' = conv
  PROVE  Whole' /\ Steady
<1>1. cur \in TxIds => Attached(manifest'[cur])
  BY DEF Whole, Pendings
<1>2. cur \in TxIds /\ manifest'[cur].state = "committing" => Pending(cur, manifest'[cur])
  BY DEF Whole, Pendings, Committing
<1> QED
  BY <1>1, <1>2, LeaveStep, SteadySame

LEMMA CrashWhole == ASSUME Whole, Crash PROVE Whole' /\ Steady
<1>1. /\ pc' = "down" /\ cur' = NoTx /\ disk' = disk /\ bak' = bak /\ manifest' = manifest
      /\ conv' = conv /\ edited' = edited
  BY DEF Crash, Forget, diskVars, sessionVars
<1> QED
  BY <1>1, RestartStep

LEMMA OpenWhole == ASSUME Whole, Open PROVE Whole' /\ Steady
<1>1. /\ pc' = "scan" /\ cur' = NoTx /\ disk' = disk /\ bak' = bak /\ manifest' = manifest
      /\ conv' = conv /\ edited' = edited
  BY DEF Open, Forget, diskVars
<1> QED
  BY <1>1, RestartStep

LEMMA PassDoneWhole == ASSUME Sound, Whole, PassDone PROVE Whole' /\ Steady
<1>1. /\ pc = "scan" /\ pc' \in {"scan", "idle"} /\ cur' = cur /\ disk' = disk /\ bak' = bak
      /\ manifest' = manifest /\ conv' = conv /\ edited' = edited
  BY DEF PassDone, diskVars, sessionVars, opVars, boundVars
<1>2. cur' = NoTx
  BY <1>1 DEF Sound, Stages
<1> QED
  BY <1>1, <1>2, RestartStep

\* A pending transaction is taken up: nothing is known of its files but what it recorded.
LEMMA TakeUpStep ==
  ASSUME Sound, Sound', Whole, cur = NoTx, NEW t \in Committing, cur' = t, tx' = manifest[t],
         \/ pc' = "backConv" /\ NeedsConversation(manifest[t])
         \/ pc' = "compensate" /\ ~ NeedsConversation(manifest[t]) /\ todo' = tx'.targets,
         manifest' = manifest, disk' = disk, bak' = bak, edited' = edited, conv' = conv
  PROVE  Whole'
<1> PICK m : m = manifest[t]
  OBVIOUS
<1>1. m.state = "committing" /\ Pending(t, m) /\ Attached(m) /\ t \in TxIds
  BY DEF Whole, Pendings, Pending, Committing
<1>2. \A u \in Committing : u = t
  BY DEF Whole, Alone
<1>3. Committing' = Committing
  BY DEF Committing
<1>4. Alone'
  BY <1>1, <1>2, <1>3 DEF Alone
<1>5. Pending(cur, tx)'
  BY <1>1 DEF Pending, Attached, FilesFit, ChatFits, NeedsConversation
<1>6. \A u \in TxIds : Attached(manifest'[u])
  BY DEF Whole, Pendings
<1>7. ASSUME NEW u \in Committing' PROVE Pending(u, manifest[u])'
  BY <1>1, <1>2, <1>3 DEF Pending, Attached, FilesFit, ChatFits, NeedsConversation
<1>8. Pendings'
  BY <1>5, <1>6, <1>7 DEF Pendings, Attached, NeedsConversation
<1>9. FilesPhase'
  BY DEF FilesPhase, PutBack, Switching
<1>10. ChatPhase'
  BY <1>1 DEF Attached, ChatPhase, Early, Publishing, NeedsConversation
<1> QED
  BY <1>4, <1>8, <1>9, <1>10 DEF Whole

LEMMA ScanWhole ==
  ASSUME Sound, Sound', Whole, ScanManifest
  PROVE  Whole' /\ Steady
<1>1. /\ pc = "scan" /\ disk' = disk /\ bak' = bak /\ conv' = conv /\ edited' = edited
  BY DEF ScanManifest, sessionVars, boundVars
<1>2. PICK t \in queue : ScanNext(t) /\ (RecoverPrepared(t) \/ RecoverCommitting(t) \/ RecoverCommitted(t))
  BY DEF ScanManifest
<1>3. t \in TxIds /\ cur = NoTx
  BY <1>1, <1>2 DEF Sound, Types, Stages
<1>4. CASE manifest' = manifest /\ cur' = cur /\ pc' = pc
  BY <1>1, <1>3, <1>4, RestartStep
<1>5. CASE /\ manifest[t].state = "prepared" /\ manifest' = [manifest EXCEPT ![t].state = "aborted"]
           /\ cur' = cur /\ pc' = pc
  <2>1. /\ \A u \in TxIds : Attached(manifest'[u])
        /\ Committing' = Committing /\ \A u \in Committing : manifest'[u] = manifest[u]
        /\ Steady
    BY <1>3, <1>5, RestateWhole
  <2>2. Alone'
    BY <1>3, <1>5, <2>1 DEF Whole, Alone
  <2>3. ASSUME NEW u \in Committing' PROVE Pending(u, manifest[u])'
    <3>1. Pending(u, manifest[u]) /\ manifest'[u] = manifest[u]
      BY <2>1 DEF Whole, Pendings
    <3> QED
      BY <1>1, <3>1 DEF Pending, Attached, FilesFit, ChatFits, NeedsConversation
  <2>4. Pendings'
    BY <1>3, <1>5, <2>1, <2>3 DEF Pendings, Attached, NeedsConversation
  <2>5. FilesPhase' /\ ChatPhase'
    BY <1>1, <1>3, <1>5 DEF FilesPhase, ChatPhase, Publishing, Switching, Early
  <2> QED
    BY <2>1, <2>2, <2>4, <2>5 DEF Whole
<1>6. CASE /\ manifest[t].state = "committing" /\ manifest' = manifest
           /\ cur' = t /\ tx' = manifest[t]
           /\ \/ pc' = "backConv" /\ NeedsConversation(manifest[t])
              \/ pc' = "compensate" /\ ~ NeedsConversation(manifest[t]) /\ todo' = tx'.targets
  <2>1. t \in Committing
    BY <1>3, <1>6 DEF Committing
  <2> QED
    BY <1>1, <1>3, <1>6, <2>1, TakeUpStep, SteadySame
<1>7. CASE RecoverPrepared(t)
  BY <1>4, <1>5, <1>7 DEF RecoverPrepared
<1>8. CASE RecoverCommitting(t)
  BY <1>4, <1>6, <1>8 DEF RecoverCommitting
<1>9. CASE RecoverCommitted(t)
  BY <1>4, <1>9 DEF RecoverCommitted
<1> QED
  BY <1>2, <1>7, <1>8, <1>9

--------
LEMMA InitWhole == Init => Whole
<1> SUFFICES ASSUME Init PROVE Whole
  OBVIOUS
<1>1. /\ manifest = [t \in TxIds |-> EmptyManifest] /\ tx = EmptyManifest /\ pc = "idle" /\ cur = NoTx
  BY DEF Init
<1>2. EmptyManifest.state = "none" /\ Attached(EmptyManifest)
  BY EmptyAttached DEF EmptyManifest
<1>3. Committing = {}
  BY <1>1, <1>2 DEF Committing
<1>4. Alone /\ Pendings
  BY <1>1, <1>2, <1>3 DEF Alone, Pendings
<1>5. FilesPhase /\ ChatPhase
  BY <1>1 DEF FilesPhase, ChatPhase, Publishing, Switching, Early
<1> QED
  BY <1>4, <1>5 DEF Whole

LEMMA NextWhole ==
  ASSUME Sound, Whole, Next, Orderly
  PROVE  Whole' /\ Decides
<1>1. Sound'
  BY NextSound
<1>2. CASE Turn
  BY <1>2, TurnWhole, SteadyDecides DEF Orderly
<1>3. CASE ExternalEdit
  BY <1>3, EditWhole, SteadyDecides
<1>4. CASE StartOperation
  <2>1. ASSUME NEW k \in DOMAIN ckpts, NEW scope \in { {"files"}, {"conv"}, {"files", "conv"} },
               StartRewind(k, scope)
        PROVE  Whole' /\ Steady
    BY <2>1, StartRewindWhole DEF Orderly
  <2>2. ASSUME NEW f \in Files, StartFileRevert(f) PROVE Whole' /\ Steady
    BY <2>2, StartFileRevertWhole DEF Orderly
  <2> QED
    BY <1>4, <2>1, <2>2, StartUndoWhole, SteadyDecides DEF StartOperation
<1>5. CASE Commit
  <2>1. CASE StageTemps \/ PersistPrepared \/ AttachForward \/ PersistUndoAgain \/ BeginCommit
    BY <1>1, <2>1, StageTempsWhole, PersistPreparedWhole, AttachForwardWhole, PersistUndoAgainWhole,
       BeginCommitWhole, SteadyDecides
  <2>2. CASE PublishIntent \/ BackUpTarget \/ InstallTarget \/ PersistProgress \/ FilesDone
    BY <1>1, <2>2, PublishIntentWhole, BackUpTargetWhole, InstallTargetWhole, PersistProgressWhole,
       FilesDoneWhole, SteadyDecides
  <2>3. CASE CutConversation \/ CutCheckpoints \/ RestoreConversation \/ RestoreCheckpoints
    BY <1>1, <2>3, CutConversationWhole, CutCheckpointsWhole, RestoreConversationWhole,
       RestoreCheckpointsWhole, SteadyDecides
  <2>4. CASE Finish \/ MarkUndone
    BY <1>1, <2>4, FinishWhole, MarkUndoneWhole, SteadyDecides
  <2> QED
    BY <1>5, <2>1, <2>2, <2>3, <2>4 DEF Commit
<1>6. CASE Compensation
  BY <1>1, <1>6, BackConversationWhole, BackCheckpointsWhole, BackDoneWhole, CompensateFileWhole,
     ReinstateFileWhole, SettleWhole, SteadyDecides DEF Compensation
<1>7. CASE Crash
  BY <1>7, CrashWhole, SteadyDecides
<1>8. CASE Reopen \/ Recovery
  BY <1>1, <1>8, OpenWhole, ScanWhole, PassDoneWhole, SteadyDecides DEF Reopen, Recovery, Restart
<1> QED
  BY <1>2, <1>3, <1>4, <1>5, <1>6, <1>7, <1>8 DEF Next

LEMMA StillWhole ==
  ASSUME Whole, UNCHANGED vars
  PROVE  Whole'
<1>1. /\ disk' = disk /\ bak' = bak /\ manifest' = manifest /\ conv' = conv
      /\ ckpts' = ckpts /\ pc' = pc /\ cur' = cur /\ tx' = tx /\ todo' = todo /\ failed' = failed
      /\ pass' = pass /\ edited' = edited
  BY DEF vars, diskVars, sessionVars, opVars, recoveryVars, boundVars
<1>2. Alone'
  BY <1>1 DEF Whole, Alone, Committing
<1>3. \A t \in TxIds : Attached(manifest'[t])
  BY <1>1 DEF Whole, Pendings
<1>4. ASSUME NEW t \in Committing' PROVE Pending(t, manifest[t])'
  <2>1. Pending(t, manifest[t])
    BY <1>1 DEF Whole, Pendings, Committing
  <2> QED
    BY <1>1, <2>1 DEF Pending, Attached, FilesFit, ChatFits, NeedsConversation
<1>5. cur' # NoTx => Pending(cur, tx)'
  <2>1. cur # NoTx => Pending(cur, tx)
    BY DEF Whole, Pendings
  <2> QED
    BY <1>1, <2>1 DEF Pending, Attached, FilesFit, ChatFits, NeedsConversation
<1>6. Pendings'
  BY <1>3, <1>4, <1>5 DEF Pendings, Attached, NeedsConversation
<1>7. FilesPhase'
  BY <1>1 DEF Whole, FilesPhase, Installed, PutBack
<1>8. ChatPhase'
  BY <1>1, StartStays DEF Whole, ChatPhase
<1> QED
  BY <1>2, <1>6, <1>7, <1>8 DEF Whole

\* Rewinds, reverts and undos are all or nothing, whatever fails and wherever the
\* process dies, as long as nothing begins while one is pending and every undo
\* begins where its rewind left the conversation.
THEOREM RewindsAreAllOrNothing == Spec /\ [][Orderly]_vars => AllOrNothing
<1>1. Init => Whole
  BY InitWhole
<1>2. Sound /\ Whole /\ [Next]_vars /\ [Orderly]_vars => Whole' /\ [Decides]_vars
  BY NextWhole, StillWhole
<1>3. [Decides]_vars <=>
        [\A t \in TxIds :
            /\ manifest[t].state = "committing" /\ manifest'[t].state = "committed"
                  => AtEnd(manifest[t])'
            /\ manifest[t].state = "committing" /\ manifest'[t].state = "aborted"
                  => AtStart(manifest[t])']_vars
  BY DEF Decides
<1> QED
  BY <1>1, <1>2, <1>3, SpecSound, PTL DEF Spec, AllOrNothing

--------
(* Undo is current.                                                         *)

\* Neither a crash nor a reopening filled the undo slot again, and no
\* transaction but the running one keeps the conversation.
Quiet == crashes = 0 /\ reopens = 0 /\ CommittingConv \subseteq {cur}

\* Where a rewind leaves the conversation, and where p finds it.
LeftBy(m) == IF NeedsConversation(m) THEN Cut(m.fwdConv, m.boundary) ELSE m.fwdConv
FoundBy(p) == IF p.kind = "undo" THEN LeftBy(p) ELSE p.fwdConv

\* A manifest that cuts the conversation can also bring it back.
Reversible(m) == NeedsConversation(m) => m.hasConv = "yes" /\ m.boundary <= Len(m.fwdConv)

\* The operation that runs and its conversation at each step.
ChatKnown ==
    /\ tx.kind = "undo" => Reversible(tx)
    /\ tx.kind = "file_revert" => ~NeedsConversation(tx)
    /\ NeedsConversation(tx) /\ pc \notin Early => tx.hasConv = "yes"
    /\ pc = "attach" => tx.kind = "rewind"
    /\ pc \in {"cutConv", "cutCkpts"} => tx.kind # "undo" /\ NeedsConversation(tx)
    /\ pc \in {"restoreConv", "restoreCkpts"} => tx.kind = "undo"
    /\ pc \in {"backConv", "backCkpts", "backDone"} => tx.state = "committing"
    /\ tx.state = "prepared" => "state" \notin failed

ChatThere ==
    tx.hasConv = "yes" =>
        /\ ~NeedsConversation(tx) => conv = tx.fwdConv
        /\ pc \in Preparing \cup Publishing \cup {"cutConv", "restoreConv", "settle"} => conv = FoundBy(tx)
        /\ pc = "cutCkpts" => conv = LeftBy(tx) /\ Reversible(tx)
        /\ pc = "restoreCkpts" => conv = tx.fwdConv
        /\ pc = "finish" => Reversible(tx) /\ (tx.kind # "undo" => conv = LeftBy(tx))
        /\ pc \in {"finish", "backConv"} /\ tx.kind = "undo" => conv \in {tx.fwdConv, LeftBy(tx)}
        /\ pc \in {"backCkpts", "backDone", "compensate", "reinstate"} /\ "state" \notin failed =>
              conv = FoundBy(tx)

\* What is remembered for undo left the conversation where the operation that
\* runs found it, or where it is now.
Remembered ==
    lastUndo # NoTx =>
        /\ Reversible(manifest[lastUndo])
        /\ manifest[lastUndo].hasConv = "yes" =>
              LeftBy(manifest[lastUndo]) = IF tx.hasConv = "yes" THEN FoundBy(tx) ELSE conv

Offered == pass = 0 /\ ChatKnown /\ ChatThere /\ Remembered

Traced ==
    /\ crashes \in Nat /\ reopens \in Nat
    /\ crashes = 0 /\ reopens = 0 => pass = 0 /\ pc # "down"
    /\ Quiet => Offered
--------
\* No manifest but that of the running operation changes.
LEMMA WasQuiet ==
  ASSUME cur' \in {cur, NoTx}, \A t \in TxIds : t # cur => manifest'[t] = manifest[t],
         crashes' = crashes, reopens' = reopens, Quiet'
  PROVE  Quiet
<1> SUFFICES ASSUME NEW t \in CommittingConv, t # cur PROVE FALSE
  BY DEF Quiet
<1>1. t \in TxIds /\ manifest[t].state = "committing" /\ "conv" \in manifest[t].scope
  BY DEF CommittingConv, Committing, NeedsConversation
<1>2. t \in CommittingConv'
  BY <1>1 DEF CommittingConv, Committing, NeedsConversation
<1>3. t = cur'
  BY <1>2 DEF Quiet
<1> QED
  BY <1>1, <1>3 DEF TxIds, NoTx

\* What is remembered for undo is not what the running operation writes.
LEMMA RememberedKept ==
  ASSUME Sound, manifest[cur].state # "committed" \/ manifest' = manifest,
         \A t \in TxIds : t # cur => manifest'[t] = manifest[t]
  PROVE  lastUndo # NoTx => manifest'[lastUndo] = manifest[lastUndo]
<1>1. lastUndo # NoTx => lastUndo \in TxIds /\ manifest[lastUndo].state = "committed"
  BY DEF Sound, Types, Offers
<1> QED
  BY <1>1

\* Where p begins and ends depends on its plan and the stored conversation only.
LEMMA FoundSame ==
  ASSUME SamePlan(tx, tx'), SameForward(tx, tx')
  PROVE  /\ FoundBy(tx)' = FoundBy(tx) /\ LeftBy(tx)' = LeftBy(tx)
         /\ NeedsConversation(tx)' <=> NeedsConversation(tx)
         /\ Reversible(tx)' <=> Reversible(tx)
<1>1. NeedsConversation(tx)' <=> NeedsConversation(tx)
  BY DEF SamePlan, NeedsConversation
<1>2. LeftBy(tx)' = LeftBy(tx)
  BY <1>1 DEF LeftBy, SamePlan, SameForward, Cut
<1>3. FoundBy(tx)' = FoundBy(tx)
  BY <1>2 DEF FoundBy, SamePlan, SameForward
<1>4. Reversible(tx)' <=> Reversible(tx)
  BY <1>1 DEF Reversible, SamePlan, SameForward
<1> QED
  BY <1>1, <1>2, <1>3, <1>4

LEMMA RememberedView ==
  ASSUME lastUndo' = lastUndo, lastUndo # NoTx => manifest'[lastUndo] = manifest[lastUndo]
  PROVE  lastUndo # NoTx =>
           /\ Reversible(manifest[lastUndo])' <=> Reversible(manifest[lastUndo])
           /\ LeftBy(manifest[lastUndo])' = LeftBy(manifest[lastUndo])
<1> SUFFICES ASSUME lastUndo # NoTx
             PROVE  /\ Reversible(manifest[lastUndo])' <=> Reversible(manifest[lastUndo])
                    /\ LeftBy(manifest[lastUndo])' = LeftBy(manifest[lastUndo])
  OBVIOUS
<1>1. NeedsConversation(manifest[lastUndo])' <=> NeedsConversation(manifest[lastUndo])
  BY DEF NeedsConversation
<1>2. manifest'[lastUndo'].fwdConv = manifest[lastUndo].fwdConv
  OBVIOUS
<1>3. manifest'[lastUndo'].boundary = manifest[lastUndo].boundary
  OBVIOUS
<1>4. manifest'[lastUndo'].hasConv = manifest[lastUndo].hasConv
  OBVIOUS
<1>5. LeftBy(manifest[lastUndo])' = LeftBy(manifest[lastUndo])
  BY <1>1, <1>2, <1>3 DEF LeftBy, Cut
<1>6. Reversible(manifest[lastUndo])' <=> Reversible(manifest[lastUndo])
  BY <1>1, <1>2, <1>3, <1>4 DEF Reversible
<1> QED
  BY <1>5, <1>6

\* The operation goes on with the conversation it found.
LEMMA RememberedGoesOn ==
  ASSUME Remembered, lastUndo' = lastUndo, lastUndo # NoTx => manifest'[lastUndo] = manifest[lastUndo],
         SamePlan(tx, tx'), SameForward(tx, tx'), conv' = conv \/ tx.hasConv = "yes"
  PROVE  Remembered'
<1>1. FoundBy(tx)' = FoundBy(tx) /\ tx'.hasConv = tx.hasConv
  BY FoundSame DEF SameForward
<1>2. lastUndo # NoTx =>
           /\ Reversible(manifest[lastUndo])' <=> Reversible(manifest[lastUndo])
           /\ LeftBy(manifest[lastUndo])' = LeftBy(manifest[lastUndo])
  BY RememberedView
<1>3. lastUndo # NoTx => manifest'[lastUndo'].hasConv = manifest[lastUndo].hasConv
  OBVIOUS
<1> QED
  BY <1>1, <1>2, <1>3 DEF Remembered

\* Nothing runs and the conversation is where the operation found it.
LEMMA RememberedReturns ==
  ASSUME Remembered, lastUndo' = lastUndo, lastUndo # NoTx => manifest'[lastUndo] = manifest[lastUndo],
         tx' = EmptyManifest, conv' = conv, tx.hasConv = "yes" => conv = FoundBy(tx)
  PROVE  Remembered'
<1>1. tx'.hasConv = "no"
  BY DEF EmptyManifest
<1>2. lastUndo # NoTx =>
           /\ Reversible(manifest[lastUndo])' <=> Reversible(manifest[lastUndo])
           /\ LeftBy(manifest[lastUndo])' = LeftBy(manifest[lastUndo])
  BY RememberedView
<1>3. lastUndo # NoTx => manifest'[lastUndo'].hasConv = manifest[lastUndo].hasConv
  OBVIOUS
<1> QED
  BY <1>1, <1>2, <1>3 DEF Remembered

LEMMA NothingRuns ==
  ASSUME tx' = EmptyManifest, pc' \notin {"attach", "cutConv", "cutCkpts", "restoreConv", "restoreCkpts",
                                          "backConv", "backCkpts", "backDone"}
  PROVE  ChatKnown' /\ ChatThere'
BY DEF ChatKnown, ChatThere, EmptyManifest, NeedsConversation

\* The operation returns, its conversation where it found it.
LEMMA ReturnOffered ==
  ASSUME Sound, Offered, Return, pass' = pass, lastUndo' = lastUndo, conv' = conv,
         lastUndo # NoTx => manifest'[lastUndo] = manifest[lastUndo],
         tx.hasConv = "yes" => conv = FoundBy(tx)
  PROVE  Offered'
<1>1. tx' = EmptyManifest /\ pc' = "idle"
  BY DEF Return, Offered
<1> QED
  BY <1>1, RememberedReturns, NothingRuns DEF Offered

\* The operation goes on and has not reached the conversation, or compensates.
LEMMA GoOnOffered ==
  ASSUME Sound, Offered, pass' = pass, lastUndo' = lastUndo, conv' = conv, failed' = failed,
         lastUndo # NoTx => manifest'[lastUndo] = manifest[lastUndo],
         SamePlan(tx, tx'), SameForward(tx, tx'), tx'.state = "prepared" => tx.state = "prepared",
         pc \in Preparing \cup Publishing,
         pc' \in Preparing \cup Publishing \cup {"cutConv", "restoreConv", "settle", "compensate", "finish"},
         pc \in Early /\ pc' \notin Early /\ NeedsConversation(tx) => tx.hasConv = "yes",
         pc' = "attach" => tx.kind = "rewind",
         pc' = "cutConv" => tx.kind # "undo" /\ NeedsConversation(tx),
         pc' = "restoreConv" => tx.kind = "undo",
         pc' = "finish" => tx.kind # "undo" /\ ~NeedsConversation(tx)
  PROVE  Offered'
<1>1. /\ FoundBy(tx)' = FoundBy(tx) /\ LeftBy(tx)' = LeftBy(tx)
      /\ NeedsConversation(tx)' <=> NeedsConversation(tx)
      /\ Reversible(tx)' <=> Reversible(tx)
  BY FoundSame
<1>2. tx'.kind = tx.kind /\ tx'.hasConv = tx.hasConv /\ tx'.fwdConv = tx.fwdConv
  BY DEF SamePlan, SameForward
<1>3. ChatKnown'
  BY <1>1, <1>2 DEF Offered, ChatKnown, Preparing, Publishing
<1>4. ChatThere'
  <2>1. tx.hasConv = "yes" => conv = FoundBy(tx) /\ (~NeedsConversation(tx) => conv = tx.fwdConv)
    BY DEF Offered, ChatThere
  <2>2. ~NeedsConversation(tx) => LeftBy(tx) = tx.fwdConv /\ Reversible(tx)
    BY DEF LeftBy, Reversible
  <2> QED
    BY <1>1, <1>2, <2>1, <2>2 DEF ChatThere, Preparing, Publishing
<1> QED
  BY <1>3, <1>4, RememberedGoesOn DEF Offered

--------
\* Turns, edits and the beginning of an operation.
LEMMA TurnOffered == ASSUME Sound, Offered, Turn PROVE Offered'
<1>1. /\ lastUndo' = NoTx /\ pc' = "idle" /\ tx' = tx /\ cur = NoTx /\ pass' = pass
  BY DEF Turn, InvalidateUndo, opVars, recoveryVars, Sound, Stages
<1>2. tx' = EmptyManifest
  BY <1>1 DEF Sound, Stages
<1> QED
  BY <1>1, <1>2, NothingRuns DEF Offered, Remembered

LEMMA SameOffered ==
  ASSUME Offered, manifest' = manifest, conv' = conv, lastUndo' = lastUndo, pc' = pc, tx' = tx,
         failed' = failed, pass' = pass
  PROVE  Offered'
<1>1. /\ SamePlan(tx, tx') /\ SameForward(tx, tx')
      /\ lastUndo # NoTx => manifest'[lastUndo] = manifest[lastUndo]
  BY DEF SamePlan, SameForward
<1>2. /\ FoundBy(tx)' = FoundBy(tx) /\ LeftBy(tx)' = LeftBy(tx)
      /\ NeedsConversation(tx)' <=> NeedsConversation(tx)
      /\ Reversible(tx)' <=> Reversible(tx)
  BY <1>1, FoundSame
<1>3. ChatKnown' /\ ChatThere'
  BY <1>2 DEF Offered, ChatKnown, ChatThere
<1> QED
  BY <1>1, <1>3, RememberedGoesOn DEF Offered

LEMMA EditOffered == ASSUME Sound, Offered, ExternalEdit PROVE Offered'
BY SameOffered DEF ExternalEdit, sessionVars, opVars, recoveryVars

\* An operation begins with the manifest m.
LEMMA BeginOffered ==
  ASSUME Sound, Offered, NEW m, Begin(m), pc' \in {"stage", "prepare"}, m.state = "prepared",
         m.kind = "undo" => Reversible(m), m.kind = "file_revert" => ~NeedsConversation(m),
         m.hasConv = "yes" => conv = FoundBy(m) /\ (~NeedsConversation(m) => conv = m.fwdConv)
  PROVE  Offered'
<1>1. /\ pc = "idle" /\ tx' = m /\ manifest' = manifest /\ conv' = conv /\ lastUndo' = lastUndo
      /\ failed' = failed /\ pass' = pass
  BY DEF Begin, sessionVars, recoveryVars
<1>2. tx = EmptyManifest /\ failed = {} /\ tx.hasConv = "no"
  BY <1>1 DEF Sound, Stages, EmptyManifest
<1>3. /\ FoundBy(tx)' = FoundBy(m) /\ (NeedsConversation(tx)' <=> NeedsConversation(m))
      /\ (Reversible(tx)' <=> Reversible(m))
  BY <1>1 DEF FoundBy, LeftBy, NeedsConversation, Reversible, Cut
<1>4. ChatKnown'
  BY <1>1, <1>2, <1>3 DEF ChatKnown, Early
<1>5. ChatThere'
  BY <1>1, <1>3 DEF ChatThere, Preparing
<1>6. lastUndo # NoTx => manifest'[lastUndo] = manifest[lastUndo]
  BY <1>1
<1>7. lastUndo # NoTx =>
           /\ Reversible(manifest[lastUndo])' <=> Reversible(manifest[lastUndo])
           /\ LeftBy(manifest[lastUndo])' = LeftBy(manifest[lastUndo])
           /\ manifest'[lastUndo'].hasConv = manifest[lastUndo].hasConv
  BY <1>1, <1>6, RememberedView
<1>8. Remembered'
  BY <1>1, <1>2, <1>3, <1>7 DEF Offered, Remembered
<1> QED
  BY <1>1, <1>4, <1>5, <1>8 DEF Offered

LEMMA StartRewindOffered ==
  ASSUME Sound, Offered, NEW k \in DOMAIN ckpts, NEW scope, StartRewind(k, scope)
  PROVE  Offered'
<1>1. PICK targets, restore, backup :
      /\ targets = IF "files" \in scope THEN Touched(k) ELSE {}
      /\ restore = [ f \in targets |-> Preimage(k, f) ]
      /\ backup = IF "conv" \in scope THEN From(ckpts, k) ELSE NoBackup
  OBVIOUS
<1>2. PICK m : m = Prepared("rewind", scope, k, ckpts[k].msgIndex, restore, backup)
  OBVIOUS
<1>3. m.state = "prepared" /\ m.kind = "rewind" /\ m.hasConv = "no"
  BY <1>2 DEF Prepared
<1>4. Begin(m) /\ pc' = "stage"
  BY <1>1, <1>2 DEF StartRewind
<1> QED
  BY <1>3, <1>4, BeginOffered

LEMMA StartFileRevertOffered ==
  ASSUME Sound, Offered, NEW f \in Files, StartFileRevert(f)
  PROVE  Offered'
<1>1. PICK restore : restore = [ g \in {f} |-> Preimage(0, f) ]
  OBVIOUS
<1>2. PICK m : m = Prepared("file_revert", {"files"}, 0, 0, restore, NoBackup)
  OBVIOUS
<1>3. Begin(m) /\ pc' = "stage"
  BY <1>1, <1>2 DEF StartFileRevert
<1>4. m.state = "prepared" /\ m.kind = "file_revert" /\ m.scope = {"files"} /\ m.hasConv = "no"
  BY <1>2 DEF Prepared
<1>5. ~NeedsConversation(m)
  BY <1>4 DEF NeedsConversation
<1> QED
  BY <1>3, <1>4, <1>5, BeginOffered

\* The undo of a transaction finds the conversation where that left it.
LEMMA StartUndoOffered == ASSUME Sound, Offered, StartUndo PROVE Offered'
<1> PICK m, p : m = Swapped(lastUndo) /\ p = manifest[lastUndo]
  OBVIOUS
<1>1. Begin(m) /\ pc' = "prepare" /\ pc = "idle" /\ lastUndo # NoTx
  BY DEF StartUndo, Begin
<1>2. /\ m.state = "prepared" /\ m.kind = "undo" /\ m.scope = p.scope /\ m.boundary = p.boundary
      /\ m.hasConv = p.hasConv /\ m.fwdConv = p.fwdConv
  BY DEF Swapped
<1>3. tx.hasConv = "no"
  BY <1>1 DEF Sound, Stages, EmptyManifest
<1>4. Reversible(p) /\ (p.hasConv = "yes" => conv = LeftBy(p))
  BY <1>1, <1>3 DEF Offered, Remembered
<1>5. (NeedsConversation(m) <=> NeedsConversation(p)) /\ (Reversible(m) <=> Reversible(p)) /\ FoundBy(m) = LeftBy(p)
  BY <1>2 DEF NeedsConversation, Reversible, FoundBy, LeftBy
<1>6. ~NeedsConversation(p) => LeftBy(p) = p.fwdConv
  BY DEF LeftBy
<1> QED
  BY <1>1, <1>2, <1>4, <1>5, <1>6, BeginOffered

--------
\* Preparing and publishing.

\* Where these steps find the manifests.
LEMMA OperationFacts ==
  ASSUME Sound, pc \notin {"idle", "scan", "down", "markUndone"}
  PROVE  /\ cur \in TxIds /\ cur # NoTx /\ manifest[cur].state # "committed"
         /\ tx.state \in {"prepared", "committing"}
         /\ IsManifest(tx, serial)
<1>1. cur \in TxIds /\ cur # NoTx
  BY HasTransaction
<1>2. Unsaved => manifest[cur].state = "none"
  BY DEF Sound, Stages, EmptyManifest
<1>3. pc \in Preparing \cup Publishing \cup Switching \cup Returning
  BY DEF Sound, Types, Steps, Preparing, Publishing, Switching, Returning
<1>4. tx.state \in {"prepared", "committing"}
  BY <1>3 DEF Sound, Stages
<1>5. ~Unsaved => manifest[cur] = tx
  BY <1>1 DEF Sound, Stages
<1> QED
  BY <1>1, <1>2, <1>4, <1>5 DEF Sound, Types

\* The manifest of the running operation is written, or none is.
LEMMA StoredKept ==
  ASSUME Sound, pc \notin {"idle", "scan", "down", "markUndone"},
         manifest' = manifest \/ \E m : Store(m)
  PROVE  /\ lastUndo # NoTx => manifest'[lastUndo] = manifest[lastUndo]
         /\ \A t \in TxIds : t # cur => manifest'[t] = manifest[t]
<1>1. \A t \in TxIds : t # cur => manifest'[t] = manifest[t]
  BY DEF Store, Sound, Types
<1> QED
  BY <1>1, OperationFacts, RememberedKept

LEMMA TxSame == ASSUME tx' = tx PROVE SamePlan(tx, tx') /\ SameForward(tx, tx')
BY DEF SamePlan, SameForward

LEMMA StageTempsOffered == ASSUME Sound, Offered, StageTemps PROVE Offered'
<1>1. /\ pc = "stage" /\ manifest' = manifest /\ conv' = conv /\ lastUndo' = lastUndo /\ pass' = pass
      /\ lastUndo # NoTx => manifest'[lastUndo] = manifest[lastUndo]
  BY DEF StageTemps, sessionVars, recoveryVars
<1>2. CASE opVars' = opVars /\ pc' \in {"prepareAgain", "prepare", "settle"} /\ (pc' # "prepare" => tx.kind = "undo")
  <2>1. tx' = tx /\ failed' = failed
    BY <1>2 DEF opVars
  <2>2. tx.kind = "undo" /\ NeedsConversation(tx) => tx.hasConv = "yes"
    BY DEF Offered, ChatKnown, Reversible
  <2> QED
    BY <1>1, <1>2, <2>1, <2>2, TxSame, GoOnOffered DEF Preparing, Publishing, Early
<1>3. CASE Return
  <2>1. tx.hasConv = "yes" => conv = FoundBy(tx)
    BY <1>1 DEF Offered, ChatThere, Preparing
  <2> QED
    BY <1>1, <1>3, <2>1, ReturnOffered
<1> QED
  BY <1>2, <1>3 DEF StageTemps

LEMMA PersistPreparedOffered == ASSUME Sound, Offered, PersistPrepared PROVE Offered'
<1>1. /\ pc = "prepare" /\ conv' = conv /\ lastUndo' = lastUndo /\ pass' = pass
      /\ manifest' = manifest \/ \E m : Store(m)
  BY DEF PersistPrepared, sessionVars, recoveryVars, Persist
<1>2. lastUndo # NoTx => manifest'[lastUndo] = manifest[lastUndo]
  BY <1>1, StoredKept
<1>3. CASE /\ tx' = tx /\ failed' = failed
           /\ pc' = CASE tx.kind = "rewind" -> "attach"
                      [] tx.kind = "undo" -> "stage"
                      [] tx.kind = "file_revert" -> "begin"
  <2>1. tx.kind \in {"rewind", "undo", "file_revert"}
    BY DEF Sound, Types, IsManifest
  <2>2. \/ pc' = "attach" /\ tx.kind = "rewind"
        \/ pc' = "stage" /\ tx.kind = "undo"
        \/ pc' = "begin" /\ tx.kind = "file_revert"
    BY <1>3, <2>1
  <2>3. tx.kind = "file_revert" => ~NeedsConversation(tx)
    BY DEF Offered, ChatKnown
  <2> QED
    BY <1>1, <1>2, <1>3, <2>2, <2>3, TxSame, GoOnOffered DEF Preparing, Publishing, Early
<1>4. CASE Return
  <2>1. tx.hasConv = "yes" => conv = FoundBy(tx)
    BY <1>1 DEF Offered, ChatThere, Preparing
  <2> QED
    BY <1>1, <1>2, <1>4, <2>1, ReturnOffered
<1> QED
  BY <1>3, <1>4 DEF PersistPrepared, Persist

\* The rewind takes the conversation as it finds it.
LEMMA AttachForwardOffered == ASSUME Sound, Offered, AttachForward PROVE Offered'
<1>1. /\ pc = "attach" /\ conv' = conv /\ lastUndo' = lastUndo /\ pass' = pass
      /\ manifest' = manifest \/ \E m : Store(m)
  BY DEF AttachForward, sessionVars, recoveryVars, Persist
<1>2. lastUndo # NoTx => manifest'[lastUndo] = manifest[lastUndo]
  BY <1>1, StoredKept
<1>3. tx.hasConv = "yes" => conv = FoundBy(tx)
  BY <1>1 DEF Offered, ChatThere, Preparing
<1>4. CASE Return
  BY <1>1, <1>2, <1>3, <1>4, ReturnOffered
<1>5. CASE tx' = WithForward(tx, conv) /\ pc' = "begin" /\ failed' = failed
  <2> PICK p : p = WithForward(tx, conv)
    OBVIOUS
  <2>1. IsManifest(tx, serial) /\ conv \in Chats(serial)
    BY DEF Sound, Types
  <2>2. p.hasConv = "yes" /\ p.fwdConv = conv /\ SamePlan(tx, p) /\ tx.kind = "rewind" /\ p.state = tx.state
    BY <1>1, <2>1, ForwardView DEF Offered, ChatKnown
  <2>3. tx' = p /\ tx'.kind = "rewind" /\ tx'.hasConv = "yes" /\ tx'.fwdConv = conv
    BY <1>5, <2>2 DEF SamePlan
  <2>4. FoundBy(tx)' = conv
    BY <2>3 DEF FoundBy
  <2>5. ChatKnown'
    BY <1>1, <1>5, <2>2, <2>3 DEF Offered, ChatKnown
  <2>6. ChatThere'
    BY <1>1, <1>5, <2>3, <2>4 DEF ChatThere, Preparing
  <2>7. lastUndo # NoTx =>
           /\ Reversible(manifest[lastUndo])' <=> Reversible(manifest[lastUndo])
           /\ LeftBy(manifest[lastUndo])' = LeftBy(manifest[lastUndo])
           /\ manifest'[lastUndo'].hasConv = manifest[lastUndo].hasConv
    BY <1>1, <1>2, RememberedView
  <2>8. Remembered'
    BY <1>1, <1>3, <2>3, <2>4, <2>7 DEF Offered, Remembered
  <2> QED
    BY <1>1, <2>5, <2>6, <2>8 DEF Offered
<1> QED
  BY <1>4, <1>5 DEF AttachForward, Persist

\* A step of the preparation or of the publication that leaves the plan alone.
LEMMA PublishingOffered ==
  ASSUME Sound, Offered, pc \in (Preparing \cup Publishing) \ Early,
         manifest' = manifest \/ \E m : Store(m),
         conv' = conv, lastUndo' = lastUndo, pass' = pass, failed' = failed,
         SamePlan(tx, tx'), SameForward(tx, tx'), tx'.state \in {tx.state, "committing"},
         pc' \in ((Preparing \cup Publishing) \ Early) \cup {"compensate"}
  PROVE  Offered'
<1>1. lastUndo # NoTx => manifest'[lastUndo] = manifest[lastUndo]
  BY StoredKept DEF Preparing, Publishing
<1> QED
  BY <1>1, GoOnOffered DEF Early, Preparing, Publishing

LEMMA PublishOffered ==
  ASSUME Sound, Offered,
         PersistUndoAgain \/ BeginCommit \/ PublishIntent \/ BackUpTarget \/ InstallTarget \/ PersistProgress
  PROVE  Offered'
<1>1. /\ pc \in {"prepareAgain", "begin"} \cup Publishing
      /\ conv' = conv /\ lastUndo' = lastUndo /\ pass' = pass /\ failed' = failed
  BY DEF PersistUndoAgain, BeginCommit, PublishIntent, BackUpTarget, InstallTarget, PersistProgress,
     sessionVars, recoveryVars, Publishing
<1>2. IsManifest(tx, serial)
  BY DEF Sound, Types
<1>3. CASE tx' = tx
  <2>1. manifest' = manifest \/ \E m : Store(m)
    BY DEF PersistUndoAgain, BeginCommit, PublishIntent, BackUpTarget, InstallTarget, PersistProgress, Persist
  <2>2. pc' \in {"begin", "compensate"} \cup Publishing
    BY DEF PersistUndoAgain, BeginCommit, PublishIntent, BackUpTarget, InstallTarget, PersistProgress,
       Compensate, Publishing
  <2> QED
    BY <1>1, <1>3, <2>1, <2>2, TxSame, PublishingOffered DEF Preparing, Publishing, Early
<1>4. CASE pc' = "intent" /\ Persist(InState("committing"))
  <2> PICK p : p = InState("committing")
    OBVIOUS
  <2>1. SamePlan(tx, p) /\ SameForward(tx, p) /\ p.state = "committing"
    BY <1>2, StateView DEF InState, SetState, States
  <2>2. tx' = p /\ \E m : Store(m)
    BY <1>4 DEF Persist
  <2> QED
    BY <1>1, <1>4, <2>1, <2>2, PublishingOffered DEF Preparing, Publishing, Early
<1>5. CASE PublishIntent /\ tx' # tx
  <2>1. /\ Persist([tx EXCEPT !.published = @ \cup {Least(todo)}]) /\ pc' = "backup" /\ todo # {}
    BY <1>5 DEF PublishIntent
  <2> PICK p, S : p = [tx EXCEPT !.published = @ \cup {Least(todo)}] /\ S = tx.published \cup {Least(todo)}
    OBVIOUS
  <2>2. p = SetPublished(tx, S)
    BY DEF SetPublished
  <2>3. S \subseteq tx.targets
    BY <2>1, <1>2, NextFile DEF Sound, Types, IsManifest
  <2>4. SamePlan(tx, p) /\ SameForward(tx, p) /\ p.state = tx.state
    BY <1>2, <2>2, <2>3, PublishedView
  <2>5. tx' = p /\ \E m : Store(m)
    BY <2>1 DEF Persist
  <2> QED
    BY <1>1, <2>1, <2>4, <2>5, PublishingOffered DEF Preparing, Publishing, Early
<1>6. CASE BeginCommit
  BY <1>3, <1>4, <1>6 DEF BeginCommit
<1> QED
  BY <1>3, <1>5, <1>6 DEF PersistUndoAgain, BackUpTarget, InstallTarget, PersistProgress, Persist

LEMMA FilesDoneOffered == ASSUME Sound, Offered, FilesDone PROVE Offered'
<1>1. /\ pc = "intent" /\ tx' = tx /\ conv' = conv /\ lastUndo' = lastUndo /\ pass' = pass /\ failed' = failed
      /\ manifest' = manifest \/ \E m : Store(m)
  BY DEF FilesDone, sessionVars, recoveryVars, Persist
<1>2. lastUndo # NoTx => manifest'[lastUndo] = manifest[lastUndo]
  BY <1>1, StoredKept
<1>3. \/ pc' = "restoreConv" /\ tx.kind = "undo"
      \/ pc' = "cutConv" /\ tx.kind # "undo" /\ NeedsConversation(tx)
      \/ pc' = "finish" /\ tx.kind # "undo" /\ ~NeedsConversation(tx)
      \/ pc' = "compensate"
  BY DEF FilesDone, Compensate
<1> QED
  BY <1>1, <1>2, <1>3, TxSame, GoOnOffered DEF Publishing, Preparing, Early

--------
\* The conversation is cut or restored.

\* These steps leave the operation, its manifest and what is remembered alone.
LEMMA SwitchOffered ==
  ASSUME Sound, Offered, pc \notin {"idle", "scan", "down"}, manifest' = manifest, lastUndo' = lastUndo,
         pass' = pass, tx' = tx, conv' = conv \/ tx.hasConv = "yes", ChatKnown', ChatThere'
  PROVE  Offered'
<1>1. lastUndo # NoTx => manifest'[lastUndo] = manifest[lastUndo]
  OBVIOUS
<1> QED
  BY <1>1, TxSame, RememberedGoesOn DEF Offered

LEMMA TxViews ==
  ASSUME tx' = tx
  PROVE  /\ FoundBy(tx)' = FoundBy(tx) /\ LeftBy(tx)' = LeftBy(tx)
         /\ NeedsConversation(tx)' <=> NeedsConversation(tx)
         /\ Reversible(tx)' <=> Reversible(tx)
BY TxSame, FoundSame

LEMMA CutConversationOffered == ASSUME Sound, Offered, CutConversation PROVE Offered'
<1>1. /\ pc = "cutConv" /\ manifest' = manifest /\ lastUndo' = lastUndo /\ tx' = tx /\ failed' = failed
      /\ pass' = pass
  BY DEF CutConversation, opVars, recoveryVars
<1>2. /\ tx.kind # "undo" /\ NeedsConversation(tx) /\ tx.hasConv = "yes" /\ tx.state = "committing"
      /\ conv = FoundBy(tx) /\ FoundBy(tx) = tx.fwdConv /\ LeftBy(tx) = Cut(tx.fwdConv, tx.boundary)
  BY <1>1 DEF Offered, ChatKnown, ChatThere, FoundBy, LeftBy, Early, Sound, Stages, Switching
<1>3. IsManifest(tx, serial) /\ serial \in Nat
  BY SessionTypes DEF Sound, Types
<1>4. Len(tx.fwdConv) \in Nat /\ tx.boundary \in Nat
  BY <1>3, ChatFacts DEF IsManifest
<1>5. CASE tx.boundary <= Len(conv) /\ conv' = Cut(conv, tx.boundary) /\ pc' = "cutCkpts"
  <2>1. conv' = LeftBy(tx) /\ Reversible(tx)
    BY <1>2, <1>5 DEF Reversible
  <2>2. ChatKnown'
    BY <1>1, <1>2, <1>5, TxViews DEF Offered, ChatKnown
  <2>3. ChatThere'
    BY <1>1, <1>2, <1>5, <2>1, TxViews DEF ChatThere, Preparing, Publishing
  <2> QED
    BY <1>1, <1>2, <2>2, <2>3, SwitchOffered
<1>6. CASE pc' = "backConv" /\ conv' = conv
  <2>1. ChatKnown'
    BY <1>1, <1>2, <1>6, TxViews DEF Offered, ChatKnown
  <2>2. ChatThere'
    BY <1>1, <1>2, <1>6, TxViews DEF ChatThere, Preparing, Publishing
  <2> QED
    BY <1>1, <1>6, <2>1, <2>2, SwitchOffered
<1> QED
  BY <1>5, <1>6 DEF CutConversation

LEMMA CutCheckpointsOffered == ASSUME Sound, Offered, CutCheckpoints PROVE Offered'
<1>1. /\ pc = "cutCkpts" /\ pc' \in {"finish", "backConv"} /\ manifest' = manifest /\ lastUndo' = lastUndo
      /\ tx' = tx /\ failed' = failed /\ pass' = pass /\ conv' = conv
  BY DEF CutCheckpoints, opVars, recoveryVars
<1>2. /\ tx.kind # "undo" /\ NeedsConversation(tx) /\ tx.hasConv = "yes" /\ tx.state = "committing"
      /\ conv = LeftBy(tx) /\ Reversible(tx)
  BY <1>1 DEF Offered, ChatKnown, ChatThere, Early, Sound, Stages, Switching
<1>3. ChatKnown'
  BY <1>1, <1>2, TxViews DEF Offered, ChatKnown
<1>4. ChatThere'
  BY <1>1, <1>2, TxViews DEF ChatThere, Preparing, Publishing
<1> QED
  BY <1>1, <1>3, <1>4, SwitchOffered

LEMMA RestoreConversationOffered == ASSUME Sound, Offered, RestoreConversation PROVE Offered'
<1>1. /\ pc = "restoreConv" /\ pc' \in {"restoreCkpts", "backConv"} /\ manifest' = manifest
      /\ lastUndo' = lastUndo /\ tx' = tx /\ failed' = failed /\ pass' = pass
  BY DEF RestoreConversation, opVars, recoveryVars
<1>2. /\ tx.kind = "undo" /\ Reversible(tx) /\ tx.state = "committing"
      /\ FoundBy(tx) = LeftBy(tx)
      /\ tx.hasConv = "yes" => conv = FoundBy(tx)
  BY <1>1 DEF Offered, ChatKnown, ChatThere, FoundBy, Sound, Stages, Switching
<1>3. ~NeedsConversation(tx) => LeftBy(tx) = tx.fwdConv
  BY DEF LeftBy
<1>4. /\ tx.hasConv # "yes" => conv' = conv
      /\ tx.hasConv = "yes" /\ pc' = "restoreCkpts" => conv' = tx.fwdConv
      /\ tx.hasConv = "yes" /\ pc' = "backConv" => conv' = conv
  BY DEF RestoreConversation
<1>5. ChatKnown'
  BY <1>1, <1>2, TxViews DEF Offered, ChatKnown, Reversible
<1>6. ChatThere'
  BY <1>1, <1>2, <1>3, <1>4, TxViews DEF ChatThere, Preparing, Publishing
<1> QED
  BY <1>1, <1>4, <1>5, <1>6, SwitchOffered

LEMMA RestoreCheckpointsOffered == ASSUME Sound, Offered, RestoreCheckpoints PROVE Offered'
<1>1. /\ pc = "restoreCkpts" /\ pc' \in {"finish", "backConv"} /\ manifest' = manifest
      /\ lastUndo' = lastUndo /\ tx' = tx /\ failed' = failed /\ pass' = pass /\ conv' = conv
  BY DEF RestoreCheckpoints, opVars, recoveryVars
<1>2. /\ tx.kind = "undo" /\ Reversible(tx) /\ tx.state = "committing"
      /\ tx.hasConv = "yes" => conv = tx.fwdConv
  BY <1>1 DEF Offered, ChatKnown, ChatThere, Sound, Stages, Switching
<1>3. ChatKnown'
  BY <1>1, <1>2, TxViews DEF Offered, ChatKnown, Reversible
<1>4. ChatThere'
  BY <1>1, <1>2, TxViews DEF ChatThere, Preparing, Publishing
<1> QED
  BY <1>1, <1>3, <1>4, SwitchOffered

--------
\* The operation ends.

\* A rewind that has committed is remembered, and the conversation is where it left it.
LEMMA FinishOffered == ASSUME Sound, Offered, Finish PROVE Offered'
<1>1. /\ pc = "finish" /\ conv' = conv /\ pass' = pass /\ tx.state = "committing"
      /\ cur \in TxIds /\ cur # NoTx
  BY HasTransaction DEF Finish, sessionVars, recoveryVars, Sound, Stages, Switching
<1>2. IsManifest(tx, serial)
  BY DEF Sound, Types
<1>3. CASE NoFault /\ tx.kind # "undo" /\ Store(InState("committed")) /\ lastUndo' = cur /\ Return
  <2> PICK p, c : p = InState("committed") /\ c = cur
    OBVIOUS
  <2>1. SamePlan(tx, p) /\ SameForward(tx, p)
    BY <1>2, StateView DEF InState, SetState, States
  <2>2. manifest'[c] = p /\ lastUndo' = c
    BY <1>1, <1>3 DEF Store, Sound, Types
  <2>3. tx' = EmptyManifest /\ pc' = "idle"
    BY <1>3 DEF Return, Offered
  <2>4. tx'.hasConv = "no"
    BY <2>3 DEF EmptyManifest
  <2>5. Reversible(tx) /\ (tx.hasConv = "yes" => conv = LeftBy(tx))
    <3>1. tx.hasConv = "yes" => Reversible(tx) /\ conv = LeftBy(tx)
      BY <1>1, <1>3 DEF Offered, ChatThere
    <3>2. tx.hasConv # "yes" => ~NeedsConversation(tx)
      BY <1>1 DEF Offered, ChatKnown, Early
    <3> QED
      BY <3>1, <3>2 DEF Reversible
  <2>6. /\ NeedsConversation(manifest[lastUndo])' <=> NeedsConversation(tx)
        /\ manifest'[lastUndo'].hasConv = tx.hasConv /\ manifest'[lastUndo'].fwdConv = tx.fwdConv
        /\ manifest'[lastUndo'].boundary = tx.boundary
    BY <2>1, <2>2 DEF SamePlan, SameForward, NeedsConversation
  <2>7. LeftBy(manifest[lastUndo])' = LeftBy(tx) /\ (Reversible(manifest[lastUndo])' <=> Reversible(tx))
    BY <2>6 DEF LeftBy, Reversible, Cut
  <2>8. Remembered'
    BY <1>1, <2>4, <2>5, <2>6, <2>7 DEF Remembered
  <2> QED
    BY <1>1, <2>3, <2>8, NothingRuns DEF Offered
<1>4. CASE /\ tx.kind = "undo" /\ Persist(InState("committed")) /\ pc' = "markUndone"
           /\ lastUndo' = lastUndo /\ cur' = cur /\ failed' = failed
  <2> PICK p : p = InState("committed")
    OBVIOUS
  <2>1. SamePlan(tx, p) /\ SameForward(tx, p) /\ p.state = "committed"
    BY <1>2, StateView DEF InState, SetState, States
  <2>2. tx' = p /\ Store(p)
    BY <1>4 DEF Persist
  <2>3. lastUndo # NoTx => manifest'[lastUndo] = manifest[lastUndo]
    BY <1>1, <2>2, StoredKept
  <2>4. /\ NeedsConversation(tx)' <=> NeedsConversation(tx)
        /\ (Reversible(tx)' <=> Reversible(tx))
        /\ tx'.kind = tx.kind /\ tx'.hasConv = tx.hasConv /\ tx'.fwdConv = tx.fwdConv
    BY <2>1, <2>2, FoundSame DEF SamePlan, SameForward
  <2>5. ChatKnown'
    BY <1>1, <1>4, <2>1, <2>2, <2>4 DEF Offered, ChatKnown, Early
  <2>6. ChatThere'
    BY <1>1, <1>4, <2>4 DEF Offered, ChatThere, Preparing, Publishing
  <2>7. Remembered'
    BY <1>1, <1>4, <2>1, <2>2, <2>3, RememberedGoesOn DEF Offered
  <2> QED
    BY <1>1, <2>5, <2>6, <2>7 DEF Offered
<1>5. CASE pc' = "backConv" /\ manifest' = manifest /\ lastUndo' = lastUndo /\ opVars' = opVars
  <2>1. tx' = tx /\ failed' = failed
    BY <1>5 DEF opVars
  <2>2. ChatKnown'
    BY <1>1, <1>5, <2>1, TxViews DEF Offered, ChatKnown, Early
  <2>3. ChatThere'
    BY <1>1, <1>5, <2>1, TxViews DEF Offered, ChatThere, Preparing, Publishing
  <2> QED
    BY <1>1, <1>5, <2>1, <2>2, <2>3, SwitchOffered
<1> QED
  BY <1>3, <1>4, <1>5 DEF Finish

LEMMA MarkUndoneOffered == ASSUME Sound, Offered, MarkUndone PROVE Offered'
<1>1. lastUndo' = NoTx /\ tx' = EmptyManifest /\ pc' = "idle" /\ pass' = pass
  BY DEF MarkUndone, Return, recoveryVars, Offered
<1> QED
  BY <1>1, NothingRuns DEF Offered, Remembered

--------
\* Compensation.

LEMMA BackConversationOffered == ASSUME Sound, Offered, BackConversation PROVE Offered'
<1>1. /\ pc = "backConv" /\ pc' = "backCkpts" /\ manifest' = manifest /\ lastUndo' = lastUndo
      /\ tx' = tx /\ pass' = pass
  BY DEF BackConversation, recoveryVars
<1>2. /\ tx.state = "committing" /\ (NeedsConversation(tx) => tx.hasConv = "yes")
      /\ tx.hasConv = "yes" /\ ~NeedsConversation(tx) => conv = tx.fwdConv
      /\ tx.hasConv = "yes" /\ tx.kind = "undo" => conv \in {tx.fwdConv, LeftBy(tx)}
      /\ tx.kind = "undo" => Reversible(tx)
  BY <1>1 DEF Offered, ChatKnown, ChatThere, Early
<1>3. ~NeedsConversation(tx) => FoundBy(tx) = tx.fwdConv
  BY DEF FoundBy, LeftBy
<1>4. ChatKnown'
  BY <1>1, <1>2, TxViews DEF Offered, ChatKnown, Early
<1>5. CASE tx.kind # "undo" /\ conv' = IF tx.hasConv = "yes" THEN tx.fwdConv ELSE conv
  <2>1. FoundBy(tx) = tx.fwdConv
    BY <1>5 DEF FoundBy
  <2>2. ChatThere'
    BY <1>1, <1>5, <2>1, TxViews DEF ChatThere, Preparing, Publishing
  <2> QED
    BY <1>1, <1>4, <1>5, <2>2, SwitchOffered
<1>6. CASE conv' = conv /\ (NeedsConversation(tx) => "state" \in failed')
  <2>1. ChatThere'
    BY <1>1, <1>2, <1>3, <1>6, TxViews DEF ChatThere, Preparing, Publishing
  <2> QED
    BY <1>1, <1>4, <1>6, <2>1, SwitchOffered
<1>7. CASE /\ tx.kind = "undo" /\ NeedsConversation(tx)
           /\ tx.boundary <= Len(conv) /\ conv' = Cut(conv, tx.boundary)
  <2>1. tx.fwdConv \in Chats(serial) /\ serial \in Nat /\ tx.boundary \in Nat
    BY SessionTypes DEF Sound, Types, IsManifest
  <2>2. FoundBy(tx) = Cut(tx.fwdConv, tx.boundary) /\ LeftBy(tx) = Cut(tx.fwdConv, tx.boundary)
    BY <1>7 DEF FoundBy, LeftBy
  <2>3. Cut(Cut(tx.fwdConv, tx.boundary), tx.boundary) = Cut(tx.fwdConv, tx.boundary)
    BY <1>2, <1>7, <2>1, CutTwice DEF Reversible
  <2>4. conv' = FoundBy(tx) /\ tx.hasConv = "yes"
    BY <1>2, <1>7, <2>2, <2>3
  <2>5. ChatThere'
    BY <1>1, <1>7, <2>4, TxViews DEF ChatThere, Preparing, Publishing
  <2> QED
    BY <1>1, <1>4, <2>4, <2>5, SwitchOffered
<1> QED
  BY <1>5, <1>6, <1>7 DEF BackConversation, Failed

LEMMA BackCheckpointsOffered == ASSUME Sound, Offered, BackCheckpoints PROVE Offered'
<1>1. /\ pc = "backCkpts" /\ pc' = "backDone" /\ manifest' = manifest /\ lastUndo' = lastUndo
      /\ tx' = tx /\ pass' = pass /\ conv' = conv /\ failed \subseteq failed'
  BY DEF BackCheckpoints, Failed, recoveryVars
<1>2. tx.state = "committing"
  BY <1>1 DEF Offered, ChatKnown
<1>3. ChatKnown'
  BY <1>1, <1>2, TxViews DEF Offered, ChatKnown, Early
<1>4. ChatThere'
  BY <1>1, TxViews DEF Offered, ChatThere, Preparing, Publishing
<1> QED
  BY <1>1, <1>3, <1>4, SwitchOffered

\* The files go back, which does not concern the conversation.
LEMMA FilesBackOffered ==
  ASSUME Sound, Offered, BackDone \/ CompensateFile \/ ReinstateFile
  PROVE  Offered'
<1>1. /\ pc \in {"backDone", "compensate", "reinstate"} /\ pc' \in {"compensate", "reinstate"}
      /\ manifest' = manifest /\ lastUndo' = lastUndo /\ tx' = tx /\ pass' = pass /\ conv' = conv
      /\ failed' \in {failed, failed \cup {"files"}}
  BY DEF Offered, BackDone, CompensateFile, ReinstateFile, sessionVars, recoveryVars, Compensate, Failed,
     NextTarget, CompensateNothing, CompensateRename, CompensateForeign, CompensateRemove
<1>2. ChatKnown'
  BY <1>1, TxViews DEF Offered, ChatKnown, Early
<1>3. ChatThere'
  BY <1>1, TxViews DEF Offered, ChatThere, Preparing, Publishing
<1> QED
  BY <1>1, <1>2, <1>3, SwitchOffered

\* A transaction that cannot bring the conversation back stays committing.
LEMMA SettleOffered == ASSUME Sound, Offered, Settle, Quiet' PROVE Offered'
<1>1. /\ pc \in {"compensate", "settle"} /\ Return /\ conv' = conv /\ lastUndo' = lastUndo /\ pass' = pass
      /\ manifest' = manifest \/ \E m : Store(m)
  BY DEF Settle, sessionVars, recoveryVars
<1>2. lastUndo # NoTx => manifest'[lastUndo] = manifest[lastUndo]
  BY <1>1, StoredKept
<1>3. cur \in TxIds /\ cur # NoTx /\ IsManifest(tx, serial) /\ cur' = NoTx /\ manifest[cur] = tx
  BY <1>1, HasTransaction DEF Return, Sound, Types, Stages, Unsaved
<1>4. ASSUME NeedsConversation(tx), manifest'[cur].state = "committing",
             NeedsConversation(manifest'[cur]) <=> NeedsConversation(tx)
      PROVE  FALSE
  <2>1. "conv" \in manifest'[cur].scope
    BY <1>4 DEF NeedsConversation
  <2> PICK c : c = cur
    OBVIOUS
  <2>2. c \in CommittingConv'
    BY <1>3, <1>4, <2>1 DEF CommittingConv, Committing, NeedsConversation
  <2> QED
    BY <1>3, <2>2 DEF Quiet
<1>5. NeedsConversation(tx) /\ pc = "compensate" => "state" \notin failed
  <2>1. CASE manifest' = manifest
    <3>1. NeedsConversation(tx) => tx.state # "committing"
      BY <1>3, <1>4, <2>1
    <3>2. pc = "compensate" => tx.state \in {"prepared", "committing"}
      BY DEF Sound, Stages, Returning
    <3> QED
      BY <3>1, <3>2 DEF Offered, ChatKnown
  <2>2. CASE Store(InState(IF failed = {} THEN "aborted" ELSE "committing"))
    <3> PICK p, s : p = InState(s) /\ s = IF failed = {} THEN "aborted" ELSE "committing"
      OBVIOUS
    <3>1. SamePlan(tx, p) /\ p.state = s
      BY <1>3, StateView DEF InState, SetState, States
    <3>2. manifest'[cur] = p
      BY <1>3, <2>2 DEF Store, Sound, Types
    <3>3. NeedsConversation(manifest'[cur]) <=> NeedsConversation(tx)
      BY <3>1, <3>2 DEF SamePlan, NeedsConversation
    <3> QED
      BY <1>4, <3>1, <3>2, <3>3
  <2> QED
    BY <2>1, <2>2 DEF Settle
<1>6. tx.hasConv = "yes" => conv = FoundBy(tx)
  <2>1. ~NeedsConversation(tx) => FoundBy(tx) = tx.fwdConv
    BY DEF FoundBy, LeftBy
  <2> QED
    BY <1>1, <1>5, <2>1 DEF Offered, ChatThere
<1> QED
  BY <1>1, <1>2, <1>6, ReturnOffered

--------
LEMMA InitTraced == Init => Traced
BY DEF Init, Traced, Offered, ChatKnown, ChatThere, Remembered, EmptyManifest, NeedsConversation

\* What a step of an operation leaves as it was.
LEMMA OperationFrame ==
  ASSUME Sound, pass = 0, Commit \/ Compensation, ~MarkUndone
  PROVE  /\ cur' \in {cur, NoTx} /\ crashes' = crashes /\ reopens' = reopens
         /\ \A t \in TxIds : t # cur => manifest'[t] = manifest[t]
<1>1. pc \notin {"idle", "scan", "down", "markUndone"}
  BY DEF Commit, Compensation, StageTemps, PersistPrepared, AttachForward, PersistUndoAgain, BeginCommit,
     PublishIntent, BackUpTarget, InstallTarget, PersistProgress, FilesDone, CutConversation, CutCheckpoints,
     RestoreConversation, RestoreCheckpoints, Finish, BackConversation, BackCheckpoints, BackDone,
     CompensateFile, ReinstateFile, Settle
<1>2. crashes' = crashes /\ reopens' = reopens
  BY DEF Commit, Compensation, StageTemps, PersistPrepared, AttachForward, PersistUndoAgain, BeginCommit,
     PublishIntent, BackUpTarget, InstallTarget, PersistProgress, FilesDone, CutConversation, CutCheckpoints,
     RestoreConversation, RestoreCheckpoints, Finish, BackConversation, BackCheckpoints, BackDone,
     CompensateFile, ReinstateFile, Settle, boundVars
<1>3. cur' \in {cur, NoTx}
  BY DEF Commit, Compensation, StageTemps, PersistPrepared, AttachForward, PersistUndoAgain, BeginCommit,
     PublishIntent, BackUpTarget, InstallTarget, PersistProgress, FilesDone, CutConversation, CutCheckpoints,
     RestoreConversation, RestoreCheckpoints, Finish, BackConversation, BackCheckpoints, BackDone,
     CompensateFile, ReinstateFile, Settle, opVars, Return
<1>4. manifest' = manifest \/ \E m : Store(m)
  BY DEF Commit, Compensation, StageTemps, PersistPrepared, AttachForward, PersistUndoAgain, BeginCommit,
     PublishIntent, BackUpTarget, InstallTarget, PersistProgress, FilesDone, CutConversation, CutCheckpoints,
     RestoreConversation, RestoreCheckpoints, Finish, BackConversation, BackCheckpoints, BackDone,
     CompensateFile, ReinstateFile, Settle, Persist
<1> QED
  BY <1>1, <1>2, <1>3, <1>4, StoredKept

LEMMA NextTraced == ASSUME Sound, Traced, Next PROVE Traced'
<1>1. crashes' \in Nat /\ reopens' \in Nat /\ (crashes' = 0 => crashes = 0) /\ (reopens' = 0 => reopens = 0)
  <2>1. crashes' \in {crashes, crashes + 1} /\ reopens' \in {reopens, reopens + 1}
    <3>1. CASE Turn \/ ExternalEdit \/ Crash \/ Reopen \/ Recovery
      BY <3>1 DEF Turn, ExternalEdit, Crash, Reopen, Recovery, Restart, Open, ScanManifest, PassDone, boundVars
    <3>2. CASE StartOperation
      BY <3>2 DEF StartOperation, StartRewind, StartFileRevert, StartUndo, Begin
    <3>3. CASE Commit \/ Compensation
      BY <3>3 DEF Commit, Compensation, StageTemps, PersistPrepared, AttachForward, PersistUndoAgain,
         BeginCommit, PublishIntent, BackUpTarget, InstallTarget, PersistProgress, FilesDone,
         CutConversation, CutCheckpoints, RestoreConversation, RestoreCheckpoints, Finish, MarkUndone,
         BackConversation, BackCheckpoints, BackDone, CompensateFile, ReinstateFile, Settle, boundVars
    <3> QED
      BY <3>1, <3>2, <3>3 DEF Next
  <2> QED
    BY <2>1 DEF Traced
<1> SUFFICES ASSUME crashes' = 0, reopens' = 0
             PROVE  /\ pass' = 0 /\ pc' # "down"
                    /\ Quiet' => Offered'
  BY <1>1 DEF Traced, Quiet
<1>2. crashes = 0 /\ reopens = 0 /\ pass = 0 /\ pc \notin {"down", "scan"}
  BY <1>1 DEF Traced, Sound, Stages
<1>3. CASE Turn \/ ExternalEdit
  <2>1. /\ manifest' = manifest /\ cur' = cur /\ crashes' = crashes /\ reopens' = reopens
        /\ pass' = pass /\ pc' = pc
    BY <1>3 DEF Turn, ExternalEdit, opVars, recoveryVars
  <2>2. Quiet' => Quiet
    BY <2>1, WasQuiet
  <2> QED
    BY <1>2, <1>3, <2>1, <2>2, TurnOffered, EditOffered DEF Traced
<1>4. CASE StartOperation
  <2>1. /\ manifest' = manifest /\ pass' = pass /\ pc' \in {"stage", "prepare"} /\ cur' = nextTx
        /\ pc = "idle" /\ nextTx <= MaxTx
    BY <1>4 DEF StartOperation, StartRewind, StartFileRevert, StartUndo, Begin, recoveryVars
  <2>2. manifest[nextTx].state = "none" /\ nextTx \in TxIds
    <3>1. nextTx \in TxIds /\ nextTx \in Nat
      BY <2>1, RewindAssumption DEF Sound, Types, TxIds
    <3>2. ~(nextTx < nextTx)
      BY <3>1
    <3> QED
      BY <3>1, <3>2 DEF Sound, Ledger
  <2>3. CommittingConv' = CommittingConv /\ nextTx \notin CommittingConv
    BY <2>1, <2>2 DEF CommittingConv, Committing, NeedsConversation
  <2>4. Quiet' => Quiet
    BY <1>2, <2>1, <2>3 DEF Quiet
  <2>5. Offered => Offered'
    BY <1>4, StartRewindOffered, StartFileRevertOffered, StartUndoOffered DEF StartOperation
  <2> QED
    BY <1>2, <2>1, <2>4, <2>5 DEF Traced
<1>5. CASE MarkUndone
  <2>1. /\ pass' = pass /\ pc' = "idle" /\ pc = "markUndone" /\ cur' = NoTx
        /\ manifest' = manifest \/ manifest' = [manifest EXCEPT ![tx.parent].state = "undone"]
    BY <1>2, <1>5 DEF MarkUndone, Return, recoveryVars
  <2>2. cur \in TxIds /\ cur # NoTx /\ tx.kind = "undo"
    BY <2>1, HasTransaction DEF Sound, Stages
  <2>3. tx.parent \in TxIds /\ lastUndo = tx.parent /\ tx.parent # NoTx
    BY <1>2, <2>2, SessionTypes DEF Sound, Ledger
  <2>4. manifest[tx.parent].state = "committed"
    BY <2>3 DEF Sound, Offers
  <2>5. ASSUME NEW t \in CommittingConv PROVE t \in CommittingConv'
    <3>1. t \in TxIds /\ manifest[t].state = "committing" /\ t # tx.parent /\ "conv" \in manifest[t].scope
      BY <2>4, <2>5 DEF CommittingConv, Committing, NeedsConversation
    <3>2. manifest'[t] = manifest[t]
      BY <2>1, <3>1 DEF Sound, Types
    <3> QED
      BY <3>1, <3>2 DEF CommittingConv, Committing, NeedsConversation
  <2>6. Quiet' => Quiet
    <3> SUFFICES ASSUME Quiet' PROVE CommittingConv = {}
      BY <1>2 DEF Quiet
    <3>1. \A t \in CommittingConv : t \in TxIds /\ t = NoTx
      BY <2>1, <2>5 DEF Quiet, CommittingConv, Committing
    <3> QED
      BY <3>1, SessionTypes DEF Sound
  <2> QED
    BY <1>2, <1>5, <2>1, <2>6, MarkUndoneOffered DEF Traced
<1>6. CASE (Commit \/ Compensation) /\ ~MarkUndone
  <2>1. Quiet' => Quiet
    BY <1>2, <1>6, OperationFrame, WasQuiet
  <2>2. pass' = 0 /\ pc' # "down"
    <3>1. pass' = pass
      BY <1>6 DEF Commit, Compensation, StageTemps, PersistPrepared, AttachForward, PersistUndoAgain,
         BeginCommit, PublishIntent, BackUpTarget, InstallTarget, PersistProgress, FilesDone,
         CutConversation, CutCheckpoints, RestoreConversation, RestoreCheckpoints, Finish,
         BackConversation, BackCheckpoints, BackDone, CompensateFile, ReinstateFile, Settle, recoveryVars
    <3>2. Return => pc' # "down"
      BY DEF Return
    <3>3. Commit => pc' # "down"
      <4>1. tx.kind \in {"rewind", "undo", "file_revert"}
        BY DEF Sound, Types, IsManifest
      <4>2. PersistPrepared => pc' # "down"
        BY <3>2, <4>1 DEF PersistPrepared
      <4> QED
        BY <1>6, <3>2, <4>2 DEF Commit, StageTemps, AttachForward, PersistUndoAgain,
           BeginCommit, PublishIntent, BackUpTarget, InstallTarget, PersistProgress, FilesDone,
           CutConversation, CutCheckpoints, RestoreConversation, RestoreCheckpoints, Finish, Compensate
    <3>4. Compensation => pc' # "down"
      <4>1. CompensateFile \/ ReinstateFile => pc' # "down"
        BY DEF CompensateFile, ReinstateFile, CompensateNothing, CompensateRename, CompensateForeign,
           CompensateRemove, NextTarget
      <4> QED
        BY <3>2, <4>1 DEF Compensation, BackConversation, BackCheckpoints, BackDone, Settle, Compensate
    <3> QED
      BY <1>2, <1>6, <3>1, <3>3, <3>4
  <2>3. Offered /\ Quiet' => Offered'
    <3>1. CASE Commit
      BY <1>6, <3>1, StageTempsOffered, PersistPreparedOffered, AttachForwardOffered, PublishOffered,
         FilesDoneOffered, CutConversationOffered, CutCheckpointsOffered, RestoreConversationOffered,
         RestoreCheckpointsOffered, FinishOffered DEF Commit
    <3>2. CASE Compensation
      BY <3>2, BackConversationOffered, BackCheckpointsOffered, FilesBackOffered, SettleOffered
         DEF Compensation
    <3> QED
      BY <1>6, <3>1, <3>2
  <2> QED
    BY <2>1, <2>2, <2>3 DEF Traced
<1>7. ~Crash /\ ~Reopen /\ ~Recovery
  <2>1. ~Crash
    BY <1>1, <1>2 DEF Crash, Traced
  <2>2. ~Reopen
    BY <1>1, <1>2 DEF Reopen, Traced
  <2>3. ~Recovery
    BY <1>2 DEF Recovery, Restart, ScanManifest, PassDone
  <2> QED
    BY <2>1, <2>2, <2>3
<1> QED
  BY <1>3, <1>4, <1>5, <1>6, <1>7 DEF Next

LEMMA StillTraced == ASSUME Traced, UNCHANGED vars PROVE Traced'
<1>1. /\ manifest' = manifest /\ conv' = conv /\ lastUndo' = lastUndo /\ pc' = pc /\ tx' = tx /\ cur' = cur
      /\ failed' = failed /\ pass' = pass /\ crashes' = crashes /\ reopens' = reopens
  BY DEF vars, sessionVars, opVars, recoveryVars, boundVars
<1>2. Quiet' => Quiet
  BY <1>1, WasQuiet
<1> QED
  BY <1>1, <1>2, SameOffered DEF Traced

\* As long as neither a crash nor a reopening filled the undo slot again, and no
\* transaction is left committing, an undo is offered only while the conversation is
\* where the transaction left it: what came after is never undone with it.
THEOREM UndosStayCurrent ==
    Spec => [](crashes = 0 /\ reopens = 0 /\ CommittingConv = {} => UndoIsCurrent)
<1>1. Init => Traced
  BY InitTraced
<1>2. Sound /\ Traced /\ [Next]_vars => Traced'
  BY NextTraced, StillTraced
<1>3. Sound /\ Traced => (crashes = 0 /\ reopens = 0 /\ CommittingConv = {} => UndoIsCurrent)
  <2> SUFFICES ASSUME Sound, Traced, crashes = 0, reopens = 0, CommittingConv = {},
                      NEW t \in TxIds, UndoIsOffered(t), manifest[t].hasConv = "yes"
               PROVE  conv = LeftBy(manifest[t])
    BY DEF UndoIsCurrent, LeftBy
  <2>1. Offered
    BY DEF Traced, Quiet
  <2>2. pc = "idle" /\ lastUndo = t /\ t # NoTx /\ tx.hasConv = "no"
    BY DEF UndoIsOffered, Sound, Stages, EmptyManifest
  <2> QED
    BY <2>1, <2>2 DEF Offered, Remembered
<1> QED
  BY <1>1, <1>2, <1>3, SpecSound, PTL DEF Spec

--------
(* Recovery settles.                                                        *)

\* Nobody edits a file from outside, no step of a recovery fails, and nothing comes
\* between the two steps by which compensation puts a file back.
Undisturbed ==
    /\ edited' = {}
    /\ pass # 0 => faults' = faults
    /\ pc = "reinstate" => faults' = faults /\ pc' # "down"

\* What compensation makes of the target f of t: it was not announced, it is
\* at one end or the other, or it is between the two renames of its publication.
Moved(t, m, f) ==
    /\ m.forward[f] # Absent /\ disk[f] = Absent /\ bak[t][f] = m.forward[f]
    /\ Writes(m, f) => << t, f >> \in tmp

Mendable(t, m, f) ==
    f \notin m.published \/ disk[f] = m.forward[f] \/ disk[f] = m.restore[f] \/ Moved(t, m, f)

\* Compensation has removed the published image and not yet brought back the other.
Reinstating(t, f) == pc = "reinstate" /\ t = cur /\ f = Greatest(todo)

FilesMend ==
    \A t \in Committing : \A f \in manifest[t].targets : Mendable(t, manifest[t], f) \/ Reinstating(t, f)

\* The temporaries that the files of S will be installed from.
Staged(S) == \A f \in S : Writes(tx, f) => << cur, f >> \in tmp

\* What the steps ahead rely on: the temporaries are there, and a transaction
\* that turns back before it was committing has announced nothing.
StepsReady ==
    /\ pc = "prepare" /\ tx.kind # "undo" => Staged(tx.targets)
    /\ pc \in {"attach", "prepareAgain", "begin"} => Staged(tx.targets)
    /\ pc \in {"intent", "backup", "install"} => Staged(todo)
    /\ pc = "progress" => Staged(todo \ {Least(todo)})
    /\ pc \in Returning /\ tx.state = "prepared" => tx.published = {}

\* What a recovery under way has left to settle.
LeftToSettle ==
    pass # 0 =>
        /\ failed = {}
        /\ \A t \in TxIds : manifest[t].state = "prepared" => pass = 1 /\ t \in queue
        /\ pass = 2 => Committing \subseteq queue \cup {cur}

Mending == edited = {} /\ faults \in Nat /\ FilesMend /\ StepsReady /\ LeftToSettle
--------
\* Counting failures, and edits that do not happen.
LEMMA FaultsCount ==
  ASSUME faults \in Nat, NoFault \/ Fault
  PROVE  faults' \in Nat /\ (Fault => faults' # faults)
BY DEF NoFault, Fault

LEMMA MendableSame ==
  ASSUME NEW t, NEW m, NEW p, NEW f, p.forward = m.forward, p.restore = m.restore, p.published = m.published,
         Mendable(t, m, f)
  PROVE  Mendable(t, p, f)
BY DEF Mendable, Moved, Writes

\* The files of what is committing stay as they are, and so do its temporaries.
LEMMA MendStep ==
  ASSUME FilesMend, pc # "reinstate", disk' = disk, bak' = bak,
         \A t \in Committing' :
            \/ manifest'[t].published = {}
            \/ /\ t \in Committing
               /\ SamePlan(manifest[t], manifest'[t]) /\ manifest'[t].published = manifest[t].published
               /\ \A f \in Files : << t, f >> \in tmp => << t, f >> \in tmp',
         \A t \in Committing : manifest[t].targets \subseteq Files
  PROVE  FilesMend'
<1> SUFFICES ASSUME NEW t \in Committing', NEW f \in manifest'[t].targets
             PROVE  Mendable(t, manifest[t], f)'
  BY DEF FilesMend
<1> PICK p, m : p = manifest'[t] /\ m = manifest[t]
  OBVIOUS
<1>1. Mendable(t, p, f)'
  <2>1. CASE p.published = {}
    BY <2>1 DEF Mendable
  <2>2. CASE t \in Committing /\ SamePlan(m, p) /\ p.published = m.published
             /\ \A g \in Files : << t, g >> \in tmp => << t, g >> \in tmp'
    <3>1. f \in m.targets /\ f \in Files
      BY <2>2 DEF SamePlan
    <3>2. Mendable(t, m, f)
      BY <2>2, <3>1 DEF FilesMend, Reinstating
    <3>3. Mendable(t, p, f)
      BY <2>2, <3>2, MendableSame DEF SamePlan
    <3> QED
      BY <2>2, <3>1, <3>3 DEF Mendable, Moved, Writes
  <2> QED
    BY <2>1, <2>2
<1> QED
  BY <1>1 DEF Mendable, Moved, Writes

LEMMA MendSame ==
  ASSUME Sound, FilesMend, pc # "reinstate", disk' = disk, bak' = bak, manifest' = manifest, tmp' = tmp
  PROVE  FilesMend'
<1>1. Committing' = Committing
  BY DEF Committing
<1>2. \A t \in Committing : manifest[t].targets \subseteq Files
  BY DEF Committing, Sound, Types, IsManifest
<1>3. \A t \in Committing' : t \in Committing /\ SamePlan(manifest[t], manifest'[t])
                             /\ manifest'[t].published = manifest[t].published
  BY <1>1 DEF SamePlan
<1> QED
  BY <1>1, <1>2, <1>3, MendStep

LEMMA NothingToMend == ASSUME Committing' = {} PROVE FilesMend'
BY DEF FilesMend

\* Outside of a recovery, and while nothing is published, there is nothing to keep.
LEMMA IdleMending ==
  ASSUME edited' = {}, faults' \in Nat, FilesMend', pass' = 0, pc' \in {"idle", "down"}
  PROVE  Mending'
BY DEF Mending, StepsReady, LeftToSettle, Returning

\* The temporaries of the files that are left.
LEMMA StagedKept ==
  ASSUME NEW S, NEW T, T \subseteq S, Staged(S), cur' = cur, SamePlan(tx, tx'),
         \A f \in T : << cur, f >> \in tmp => << cur, f >> \in tmp'
  PROVE  Staged(T)'
BY DEF Staged, Writes, SamePlan

--------
\* Turns, edits and the beginning of an operation.

LEMMA TurnMending ==
  ASSUME Sound, Mending, Orderly, Undisturbed, Turn
  PROVE  Mending'
<1>1. /\ pc' = "idle" /\ pass' = pass /\ pc = "idle" /\ manifest' = manifest /\ faults' = faults
      /\ edited' = edited /\ serial' # serial
  BY DEF Turn, recoveryVars, Sound, Types
<1>2. pass = 0
  BY <1>1 DEF Sound, Stages, Returning
<1>3. Committing' = {}
  BY <1>1 DEF Orderly, BeginsAlone, Committing
<1> QED
  BY <1>1, <1>2, <1>3, NothingToMend, IdleMending DEF Mending

LEMMA NoEdit == ASSUME Undisturbed, ExternalEdit PROVE FALSE
BY DEF Undisturbed, ExternalEdit

LEMMA BeginMending ==
  ASSUME Sound, Mending, Orderly, Undisturbed, StartOperation
  PROVE  Mending'
<1>1. /\ manifest' = manifest /\ pass' = pass /\ cur' = nextTx /\ pc = "idle" /\ nextTx' = nextTx + 1
      /\ faults' = faults /\ nextTx <= MaxTx
  BY DEF StartOperation, StartRewind, StartFileRevert, StartUndo, Begin, recoveryVars
<1>2. pass = 0 /\ nextTx \in Nat
  BY <1>1, RewindAssumption DEF Sound, Types, Stages, Returning
<1>3. Committing' = {}
  BY <1>1, <1>2 DEF Orderly, BeginsAlone, Committing
<1>4. StepsReady'
  <2>1. CASE StartUndo
    <3> PICK m : m = Swapped(lastUndo)
      OBVIOUS
    <3>1. m.kind = "undo"
      BY DEF Swapped
    <3>2. tx' = m /\ pc' = "prepare"
      BY <2>1 DEF StartUndo, Begin
    <3> QED
      BY <3>1, <3>2 DEF StepsReady, Returning
  <2>2. CASE pc' = "stage"
    BY <2>2 DEF StepsReady, Returning
  <2> QED
    BY <2>1, <2>2 DEF StartOperation, StartRewind, StartFileRevert
<1>5. LeftToSettle'
  BY <1>1, <1>2 DEF LeftToSettle
<1> QED
  BY <1>1, <1>3, <1>4, <1>5, NothingToMend DEF Mending, Undisturbed

--------
\* Preparing.

\* While an operation prepares, nothing is committing.
LEMMA PreparingFacts ==
  ASSUME Sound, Whole, pc \in Preparing
  PROVE  /\ cur \in TxIds /\ cur # NoTx /\ pass = 0 /\ Committing = {}
         /\ tx.state = "prepared" /\ tx.published = {} /\ failed = {} /\ IsManifest(tx, serial)
<1>1. /\ cur \in TxIds /\ cur # NoTx /\ tx.state = "prepared" /\ tx.published = {} /\ failed = {}
      /\ IsManifest(tx, serial)
  BY HasTransaction DEF Sound, Types, Stages, Preparing
<1>2. pass = 0
  BY DEF Sound, Stages, Preparing, Returning
<1>3. manifest[cur].state # "committing"
  BY <1>1 DEF Sound, Stages, EmptyManifest
<1>4. Committing = {}
  BY <1>1, <1>3 DEF Whole, Alone, Committing
<1> QED
  BY <1>1, <1>2, <1>4

\* An operation under way that is not a recovery's.
LEMMA LiveMending ==
  ASSUME Undisturbed, faults' \in Nat, FilesMend', pass' = 0, StepsReady'
  PROVE  Mending'
BY DEF Mending, LeftToSettle, Undisturbed

LEMMA ReturnMending ==
  ASSUME Undisturbed, faults' \in Nat, FilesMend', pass = 0, pass' = pass, Return
  PROVE  Mending'
BY LiveMending DEF Return, StepsReady, Returning

LEMMA CompensateMending ==
  ASSUME Sound, Undisturbed, faults' \in Nat, FilesMend', pass = 0, pass' = pass, tx' = tx,
         pc \in Preparing \cup Publishing, Compensate
  PROVE  Mending'
<1>1. tx.state = "prepared" => tx.published = {}
  BY DEF Sound, Stages
<1> QED
  BY <1>1, LiveMending DEF Compensate, StepsReady, Returning

LEMMA StageTempsMending ==
  ASSUME Sound, Whole, Mending, Undisturbed, StageTemps
  PROVE  Mending'
<1>1. /\ pc = "stage" /\ manifest' = manifest /\ disk' = disk /\ bak' = bak /\ pass' = pass
      /\ NoFault \/ Fault
  BY DEF StageTemps, recoveryVars
<1>2. faults' \in Nat /\ pass = 0 /\ Committing' = {}
  BY <1>1, FaultsCount, PreparingFacts DEF Mending, Preparing, Committing
<1>3. FilesMend'
  BY <1>2, NothingToMend
<1>4. CASE Return
  BY <1>1, <1>2, <1>3, <1>4, ReturnMending
<1>5. CASE pc' = "settle"
  <2>1. tx' = tx /\ tx.published = {}
    BY <1>1, <1>5, PreparingFacts DEF StageTemps, Preparing, Return, opVars
  <2> QED
    BY <1>1, <1>2, <1>3, <1>5, <2>1, LiveMending DEF StepsReady, Returning
<1>6. CASE /\ tmp' = tmp \cup { p \in Temps : Writes(tx, p[2]) } /\ opVars' = opVars
           /\ pc' = IF tx.kind = "undo" THEN "prepareAgain" ELSE "prepare"
  <2>1. tx' = tx /\ cur' = cur
    BY <1>6 DEF opVars
  <2>2. ASSUME NEW f \in tx.targets, Writes(tx, f) PROVE << cur, f >> \in tmp'
    <3>1. << cur, f >> \in Temps
      BY DEF Temps
    <3>2. << cur, f >>[2] = f
      OBVIOUS
    <3>3. << cur, f >> \in { p \in Temps : Writes(tx, p[2]) }
      BY <2>2, <3>1, <3>2
    <3> QED
      BY <1>6, <3>3
  <2>3. Staged(tx.targets)'
    BY <2>1, <2>2 DEF Staged, Writes
  <2>4. StepsReady'
    BY <1>6, <2>3 DEF StepsReady, Returning
  <2> QED
    BY <1>1, <1>2, <1>3, <2>4, LiveMending
<1> QED
  BY <1>4, <1>5, <1>6 DEF StageTemps

LEMMA PersistPreparedMending ==
  ASSUME Sound, Whole, Mending, Undisturbed, PersistPrepared
  PROVE  Mending'
<1>1. /\ pc = "prepare" /\ disk' = disk /\ bak' = bak /\ pass' = pass
      /\ NoFault \/ Fault
  BY DEF PersistPrepared, recoveryVars
<1>2. /\ faults' \in Nat /\ pass = 0 /\ Committing = {} /\ cur \in TxIds /\ tx.state = "prepared"
      /\ tx.kind \in {"rewind", "undo", "file_revert"}
  BY <1>1, FaultsCount, PreparingFacts DEF Mending, Preparing, IsManifest
<1>3. Committing' = {}
  <2>1. CASE manifest' = manifest
    BY <1>2, <2>1 DEF Committing
  <2>2. CASE Persist(tx)
    BY <1>2, <2>2 DEF Persist, Store, Committing, Sound, Types
  <2> QED
    BY <2>1, <2>2 DEF PersistPrepared
<1>4. FilesMend'
  BY <1>3, NothingToMend
<1>5. CASE Return
  BY <1>1, <1>2, <1>4, <1>5, ReturnMending
<1>6. CASE /\ Persist(tx) /\ tmp' = tmp /\ cur' = cur
           /\ pc' = CASE tx.kind = "rewind" -> "attach"
                      [] tx.kind = "undo" -> "stage"
                      [] tx.kind = "file_revert" -> "begin"
  <2>1. tx' = tx
    BY <1>6 DEF Persist
  <2>2. \/ pc' = "attach" /\ tx.kind = "rewind"
        \/ pc' = "stage"
        \/ pc' = "begin" /\ tx.kind = "file_revert"
    BY <1>2, <1>6
  <2>3. tx.kind # "undo" => Staged(tx.targets)'
    BY <1>1, <1>6, <2>1, StagedKept DEF Mending, StepsReady, Staged, Writes
  <2>4. StepsReady'
    BY <2>2, <2>3 DEF StepsReady, Returning
  <2> QED
    BY <1>1, <1>2, <1>4, <2>4, LiveMending
<1> QED
  BY <1>5, <1>6 DEF PersistPrepared

LEMMA AttachForwardMending ==
  ASSUME Sound, Whole, Mending, Undisturbed, AttachForward
  PROVE  Mending'
<1>1. /\ pc = "attach" /\ disk' = disk /\ bak' = bak /\ tmp' = tmp /\ pass' = pass
      /\ NoFault \/ Fault
  BY DEF AttachForward, recoveryVars, diskVars
<1>2. /\ faults' \in Nat /\ pass = 0 /\ Committing = {} /\ cur \in TxIds /\ tx.state = "prepared"
      /\ IsManifest(tx, serial)
  BY <1>1, FaultsCount, PreparingFacts DEF Mending, Preparing
<1> PICK p : p = WithForward(tx, conv)
  OBVIOUS
<1>3. p.state = "prepared" /\ SamePlan(tx, p)
  BY <1>2, ForwardView DEF Sound, Types
<1>4. Committing' = {}
  <2>1. CASE manifest' = manifest
    BY <1>2, <2>1 DEF Committing
  <2>2. CASE Persist(p)
    BY <1>2, <1>3, <2>2 DEF Persist, Store, Committing, Sound, Types
  <2> QED
    BY <2>1, <2>2 DEF AttachForward
<1>5. FilesMend'
  BY <1>4, NothingToMend
<1>6. CASE Return
  BY <1>1, <1>2, <1>5, <1>6, ReturnMending
<1>7. CASE Persist(p) /\ pc' = "begin" /\ cur' = cur
  <2>1. SamePlan(tx, tx')
    BY <1>3, <1>7 DEF Persist
  <2>2. tx'.targets = tx.targets
    BY <2>1 DEF SamePlan
  <2>3. Staged(tx.targets)
    BY <1>1 DEF Mending, StepsReady
  <2>4. Staged(tx.targets)'
    BY <1>1, <1>7, <2>1, <2>2, <2>3 DEF Staged, Writes, SamePlan
  <2>5. StepsReady'
    BY <1>7, <2>4 DEF StepsReady, Returning
  <2> QED
    BY <1>1, <1>2, <1>5, <2>5, LiveMending
<1> QED
  BY <1>6, <1>7 DEF AttachForward

LEMMA PersistUndoAgainMending ==
  ASSUME Sound, Whole, Mending, Undisturbed, PersistUndoAgain
  PROVE  Mending'
<1>1. /\ pc = "prepareAgain" /\ disk' = disk /\ bak' = bak /\ tmp' = tmp /\ pass' = pass
      /\ NoFault \/ Fault
  BY DEF PersistUndoAgain, recoveryVars, diskVars
<1>2. faults' \in Nat /\ pass = 0 /\ Committing = {} /\ cur \in TxIds /\ tx.state = "prepared"
  BY <1>1, FaultsCount, PreparingFacts DEF Mending, Preparing
<1>3. Committing' = {}
  <2>1. CASE manifest' = manifest
    BY <1>2, <2>1 DEF Committing
  <2>2. CASE Persist(tx)
    BY <1>2, <2>2 DEF Persist, Store, Committing, Sound, Types
  <2> QED
    BY <2>1, <2>2 DEF PersistUndoAgain
<1>4. FilesMend'
  BY <1>3, NothingToMend
<1>5. CASE Compensate
  <2>1. tx' = tx
    BY DEF PersistUndoAgain, Persist
  <2> QED
    BY <1>1, <1>2, <1>4, <1>5, <2>1, CompensateMending DEF Preparing
<1>6. CASE Persist(tx) /\ pc' = "begin"
  <2>1. tx' = tx /\ cur' = cur
    BY <1>6 DEF Persist, PersistUndoAgain
  <2>2. Staged(tx.targets)'
    BY <1>1, <2>1 DEF Mending, StepsReady, Staged, Writes
  <2>3. StepsReady'
    BY <1>6, <2>2 DEF StepsReady, Returning
  <2> QED
    BY <1>1, <1>2, <1>4, <2>3, LiveMending
<1> QED
  BY <1>5, <1>6 DEF PersistUndoAgain

\* Once it is committing, the transaction has announced nothing yet.
LEMMA BeginCommitMending ==
  ASSUME Sound, Whole, Mending, Undisturbed, BeginCommit
  PROVE  Mending'
<1>1. /\ pc = "begin" /\ disk' = disk /\ bak' = bak /\ tmp' = tmp /\ pass' = pass /\ cur' = cur
      /\ NoFault \/ Fault
  BY DEF BeginCommit, recoveryVars, diskVars
<1>2. /\ faults' \in Nat /\ pass = 0 /\ Committing = {} /\ cur \in TxIds
      /\ IsManifest(tx, serial) /\ tx.published = {}
  BY <1>1, FaultsCount, PreparingFacts DEF Mending, Preparing
<1>3. CASE Compensate /\ manifest' = manifest /\ tx' = tx
  <2>1. FilesMend'
    BY <1>2, <1>3, NothingToMend DEF Committing
  <2> QED
    BY <1>1, <1>2, <1>3, <2>1, CompensateMending DEF Preparing, Publishing
<1>4. CASE Persist(InState("committing")) /\ pc' = "intent" /\ todo' = tx.targets
  <2> PICK p : p = InState("committing")
    OBVIOUS
  <2>1. SamePlan(tx, p) /\ p.published = {}
    BY <1>2, StateView DEF InState, SetState, States
  <2>2. tx' = p /\ manifest'[cur] = p /\ \A t \in TxIds : t # cur => manifest'[t] = manifest[t]
    BY <1>2, <1>4 DEF Persist, Store, Sound, Types
  <2>3. \A t \in Committing' : t = cur
    BY <1>2, <2>2 DEF Committing
  <2>4. FilesMend'
    BY <1>1, <1>2, <2>1, <2>2, <2>3, MendStep DEF Mending
  <2>5. Staged(tx.targets)
    BY <1>1 DEF Mending, StepsReady
  <2>6. Staged(todo)'
    BY <1>1, <1>4, <2>1, <2>2, <2>5 DEF Staged, Writes, SamePlan
  <2>7. StepsReady'
    BY <1>4, <2>6 DEF StepsReady, Returning
  <2> QED
    BY <1>1, <1>2, <2>4, <2>7, LiveMending
<1> QED
  BY <1>3, <1>4 DEF BeginCommit

--------
\* Publishing.

\* While an operation publishes, it is the one that is committing, and the files
\* that are left have their images of before.
LEMMA PublishFacts ==
  ASSUME Sound, Whole, Mending, pc \in Publishing
  PROVE  /\ cur \in TxIds /\ cur # NoTx /\ pass = 0 /\ Committing = {cur} /\ manifest[cur] = tx
         /\ IsManifest(tx, serial) /\ todo \subseteq tx.targets /\ tx.targets \subseteq Files
         /\ \A f \in tx.targets : Mendable(cur, tx, f)
         /\ pc \in {"intent", "backup"} => \A f \in todo : disk[f] = tx.forward[f]
<1>1. /\ cur \in TxIds /\ cur # NoTx /\ tx.state = "committing" /\ manifest[cur] = tx
      /\ IsManifest(tx, serial) /\ todo \subseteq tx.targets
  BY HasTransaction DEF Sound, Types, Stages, Publishing, Unsaved
<1>2. pass = 0
  BY DEF Sound, Stages, Publishing, Returning
<1>3. Committing = {cur}
  BY <1>1 DEF Whole, Alone, Committing
<1>4. \A f \in tx.targets : Mendable(cur, tx, f)
  BY <1>1, <1>3 DEF Mending, FilesMend, Reinstating, Publishing
<1>5. pc \in {"intent", "backup"} => \A f \in todo : disk[f] = tx.forward[f]
  BY DEF Whole, FilesPhase, PutBack, Mending
<1> QED
  BY <1>1, <1>2, <1>3, <1>4, <1>5 DEF IsManifest

\* The only committing transaction is the running one, and its files mend.
LEMMA RunningMends ==
  ASSUME NEW c, cur = c, cur' = c, NEW p, tx' = p, manifest'[c] = p, Committing' \subseteq {c},
         \A f \in p.targets : Mendable(c, p, f)' \/ Reinstating(c, f)'
  PROVE  FilesMend'
<1> SUFFICES ASSUME NEW t \in Committing', NEW f \in manifest'[t].targets
             PROVE  Mendable(t, manifest[t], f)' \/ Reinstating(t, f)'
  BY DEF FilesMend
<1>1. t = c /\ manifest'[t] = p /\ f \in p.targets
  OBVIOUS
<1>2. Mendable(c, p, f)' \/ Reinstating(c, f)'
  BY <1>1
<1> QED
  BY <1>1, <1>2 DEF Mendable, Moved, Writes, Reinstating

LEMMA PublishIntentMending ==
  ASSUME Sound, Whole, Mending, Undisturbed, PublishIntent
  PROVE  Mending'
<1>1. /\ pc = "intent" /\ todo # {} /\ disk' = disk /\ bak' = bak /\ tmp' = tmp /\ pass' = pass /\ cur' = cur
      /\ NoFault \/ Fault
  BY DEF PublishIntent, recoveryVars, diskVars
<1>2. /\ faults' \in Nat /\ pass = 0 /\ cur \in TxIds /\ Committing = {cur} /\ manifest[cur] = tx
      /\ IsManifest(tx, serial) /\ tx.targets \subseteq Files /\ todo \subseteq tx.targets
      /\ \A f \in tx.targets : Mendable(cur, tx, f)
      /\ \A f \in todo : disk[f] = tx.forward[f]
  BY <1>1, FaultsCount, PublishFacts DEF Mending, Publishing
<1>3. CASE Compensate /\ manifest' = manifest /\ tx' = tx
  <2>1. FilesMend'
    BY <1>1, <1>3, MendSame DEF Mending
  <2> QED
    BY <1>1, <1>2, <1>3, <2>1, CompensateMending DEF Preparing, Publishing
<1>4. CASE /\ Persist([tx EXCEPT !.published = @ \cup {Least(todo)}]) /\ pc' = "backup" /\ todo' = todo
  <2> PICK p, S : p = [tx EXCEPT !.published = @ \cup {Least(todo)}] /\ S = tx.published \cup {Least(todo)}
    OBVIOUS
  <2>1. p = SetPublished(tx, S)
    BY DEF SetPublished
  <2>2. S \subseteq tx.targets /\ Least(todo) \in todo
    <3>1. todo \in SUBSET Files /\ Least(todo) \in todo
      BY <1>1, <1>2, NextFile
    <3> QED
      BY <1>2, <3>1 DEF IsManifest
  <2>3. SamePlan(tx, p) /\ p.published = S
    <3> PICK n : n = serial
      OBVIOUS
    <3>1. IsManifest(tx, n) /\ S \subseteq tx.targets
      BY <1>2, <2>2
    <3>2. SamePlan(tx, SetPublished(tx, S)) /\ SetPublished(tx, S).published = S
      BY <3>1, PublishedView
    <3> QED
      BY <2>1, <3>2
  <2>4. tx' = p /\ manifest'[cur] = p /\ \A t \in TxIds : t # cur => manifest'[t] = manifest[t]
    BY <1>2, <1>4 DEF Persist, Store, Sound, Types
  <2>5. Committing' \subseteq {cur}
    BY <1>2, <2>4 DEF Committing
  <2>6. ASSUME NEW f \in p.targets PROVE Mendable(cur, p, f)'
    <3>1. CASE f = Least(todo)
      BY <1>1, <1>2, <2>2, <2>3, <3>1 DEF Mendable, SamePlan
    <3>2. CASE f # Least(todo)
      <4>1. Mendable(cur, tx, f) /\ (f \in p.published <=> f \in tx.published)
        BY <1>2, <2>3, <3>2 DEF SamePlan
      <4> QED
        BY <1>1, <2>3, <4>1 DEF Mendable, Moved, Writes, SamePlan
    <3> QED
      BY <3>1, <3>2
  <2>7. FilesMend'
    <3> PICK c : c = cur
      OBVIOUS
    <3>1. \A f \in p.targets : Mendable(c, p, f)'
      BY <1>1, <2>6 DEF Mendable, Moved, Writes
    <3> QED
      BY <1>1, <2>4, <2>5, <3>1, RunningMends
  <2>8. Staged(todo)'
    BY <1>1, <1>4, <2>3, <2>4 DEF Mending, StepsReady, Staged, Writes, SamePlan
  <2>9. StepsReady'
    BY <1>4, <2>8 DEF StepsReady, Returning
  <2> QED
    BY <1>1, <1>2, <2>7, <2>9, LiveMending
<1> QED
  BY <1>3, <1>4 DEF PublishIntent

\* The target goes to its backup; its temporary will take its place.
LEMMA BackUpTargetMending ==
  ASSUME Sound, Whole, Mending, Undisturbed, BackUpTarget
  PROVE  Mending'
<1>1. /\ pc = "backup" /\ tmp' = tmp /\ pass' = pass /\ cur' = cur /\ tx' = tx /\ manifest' = manifest
      /\ NoFault \/ Fault
  BY DEF BackUpTarget, recoveryVars
<1>2. /\ faults' \in Nat /\ pass = 0 /\ cur \in TxIds /\ Committing = {cur} /\ manifest[cur] = tx
      /\ IsManifest(tx, serial) /\ tx.targets \subseteq Files /\ todo \subseteq tx.targets
      /\ \A f \in tx.targets : Mendable(cur, tx, f)
      /\ \A f \in todo : disk[f] = tx.forward[f]
  BY <1>1, FaultsCount, PublishFacts DEF Mending, Publishing
<1>3. CASE Compensate /\ disk' = disk /\ bak' = bak
  <2>1. FilesMend'
    BY <1>1, <1>3, MendSame DEF Mending
  <2> QED
    BY <1>1, <1>2, <1>3, <2>1, CompensateMending DEF Preparing, Publishing
<1>4. CASE /\ SetBackup(Least(todo), disk[Least(todo)]) /\ Put(Least(todo), Absent) /\ todo' = todo
           /\ pc' = IF Writes(tx, Least(todo)) THEN "install" ELSE "progress"
  <2> PICK g, c : g = Least(todo) /\ c = cur
    OBVIOUS
  <2>1. g \in todo /\ g \in tx.targets /\ g \in Files /\ c \in TxIds
    <3>1. todo \in SUBSET Files /\ todo # {}
      BY <1>1, <1>2 DEF Sound, Stages
    <3> QED
      BY <1>2, <3>1, NextFile
  <2>2. /\ disk'[g] = Absent /\ bak'[c][g] = tx.forward[g]
        /\ \A f \in Files : f # g => disk'[f] = disk[f] /\ bak'[c][f] = bak[c][f]
    BY <1>2, <1>4, <2>1 DEF SetBackup, Put, Sound, Types
  <2>3. Writes(tx, g) => << c, g >> \in tmp
    BY <1>1, <2>1 DEF Mending, StepsReady, Staged
  <2>4. Mendable(c, tx, g)'
    BY <1>1, <2>2, <2>3 DEF Mendable, Moved, Writes
  <2>5. ASSUME NEW f \in tx.targets, f # g PROVE Mendable(c, tx, f)'
    <3>1. Mendable(c, tx, f) /\ disk'[f] = disk[f] /\ bak'[c][f] = bak[c][f]
      BY <1>2, <2>2, <2>5
    <3> QED
      BY <1>1, <3>1 DEF Mendable, Moved, Writes
  <2>6. FilesMend'
    <3> PICK p : p = tx
      OBVIOUS
    <3>1. \A f \in p.targets : Mendable(c, p, f)'
      BY <1>1, <2>4, <2>5 DEF Mendable, Moved, Writes
    <3>2. tx' = p /\ manifest'[c] = p /\ Committing' \subseteq {c}
      BY <1>1, <1>2 DEF Committing
    <3> QED
      BY <1>1, <3>1, <3>2, RunningMends
  <2>7. Staged(todo)' /\ Staged(todo \ {Least(todo)})'
    <3> PICK S : S = todo \ {Least(todo)}
      OBVIOUS
    <3>1. S \subseteq todo /\ (todo \ {Least(todo)})' = S
      BY <1>4
    <3> QED
      BY <1>1, <1>4, <3>1 DEF Mending, StepsReady, Staged, Writes
  <2>8. StepsReady'
    BY <1>4, <2>7 DEF StepsReady, Returning
  <2> QED
    BY <1>1, <1>2, <2>6, <2>8, LiveMending
<1> QED
  BY <1>3, <1>4 DEF BackUpTarget

LEMMA InstallTargetMending ==
  ASSUME Sound, Whole, Mending, Undisturbed, InstallTarget
  PROVE  Mending'
<1>1. /\ pc = "install" /\ pass' = pass /\ cur' = cur /\ tx' = tx /\ manifest' = manifest
      /\ NoFault \/ Fault
  BY DEF InstallTarget, recoveryVars
<1>2. /\ faults' \in Nat /\ pass = 0 /\ cur \in TxIds /\ Committing = {cur} /\ manifest[cur] = tx
      /\ IsManifest(tx, serial) /\ tx.targets \subseteq Files /\ todo \subseteq tx.targets
      /\ \A f \in tx.targets : Mendable(cur, tx, f)
  BY <1>1, FaultsCount, PublishFacts DEF Mending, Publishing
<1> PICK g, c, p : g = Least(todo) /\ c = cur /\ p = tx
  OBVIOUS
<1>3. g \in p.targets /\ g \in Files /\ c \in TxIds
  <2>1. todo \in SUBSET Files /\ todo # {}
    BY <1>1, <1>2 DEF Sound, Stages
  <2> QED
    BY <1>2, <2>1, NextFile
<1>4. ASSUME \A f \in Files : f # g => disk'[f] = disk[f] /\ bak'[c][f] = bak[c][f]
                                     /\ (<< c, f >> \in tmp => << c, f >> \in tmp'),
             Mendable(c, p, g)'
      PROVE  FilesMend'
  <2>1. ASSUME NEW f \in p.targets, f # g PROVE Mendable(c, p, f)'
    <3>1. Mendable(c, p, f) /\ f \in Files
      BY <1>2, <2>1
    <3>2. disk'[f] = disk[f] /\ bak'[c][f] = bak[c][f] /\ (<< c, f >> \in tmp => << c, f >> \in tmp')
      BY <1>4, <2>1, <3>1
    <3> QED
      BY <3>1, <3>2 DEF Mendable, Moved, Writes
  <2>2. \A f \in p.targets : Mendable(c, p, f)'
    BY <1>4, <2>1 DEF Mendable, Moved, Writes
  <2>3. tx' = p /\ manifest'[c] = p /\ Committing' \subseteq {c}
    BY <1>1, <1>2 DEF Committing
  <2> QED
    BY <1>1, <2>2, <2>3, RunningMends
<1>5. CASE Put(g, p.restore[g]) /\ tmp' = tmp \ {<< c, g >>} /\ pc' = "progress" /\ bak' = bak /\ todo' = todo
  <2>1. disk'[g] = p.restore[g] /\ \A f \in Files : f # g => disk'[f] = disk[f]
    BY <1>2, <1>3, <1>5 DEF Put, Sound, Types
  <2>2. Mendable(c, p, g)'
    BY <2>1 DEF Mendable
  <2>3. FilesMend'
    BY <1>4, <1>5, <2>1, <2>2
  <2>4. Staged(todo \ {g})'
    <3> SUFFICES ASSUME NEW f \in todo, f # g, Writes(tx, f)
                 PROVE  << c, f >> \in tmp'
      BY <1>1, <1>5 DEF Staged, Writes
    <3>1. << c, f >> \in tmp
      BY <1>1 DEF Mending, StepsReady, Staged
    <3> QED
      BY <1>5, <3>1
  <2>5. StepsReady'
    <3>1. Least(todo') = g
      BY <1>5
    <3> QED
      BY <1>5, <2>4, <3>1 DEF StepsReady, Staged, Writes, Returning
  <2> QED
    BY <1>1, <1>2, <1>5, <2>3, <2>5, LiveMending
<1>6. CASE Compensate /\ bak[c][g] = Absent /\ disk' = disk /\ bak' = bak /\ tmp' = tmp
  <2>1. FilesMend'
    BY <1>1, <1>6, MendSame DEF Mending
  <2> QED
    BY <1>1, <1>2, <1>6, <2>1, CompensateMending DEF Preparing, Publishing
<1>7. CASE Compensate /\ bak[c][g] # Absent /\ Put(g, bak[c][g]) /\ SetBackup(g, Absent) /\ tmp' = tmp
  <2>1. bak[c][g] = p.forward[g]
    BY <1>2, <1>3, <1>7, HasTransaction, <1>1 DEF Whole, Pendings, Pending, FilesFit, Mending
  <2>2. /\ disk'[g] = p.forward[g] /\ \A f \in Files : f # g => disk'[f] = disk[f]
        /\ \A f \in Files : f # g => bak'[c][f] = bak[c][f]
    BY <1>2, <1>3, <1>7, <2>1 DEF Put, SetBackup, Sound, Types
  <2>3. Mendable(c, p, g)'
    BY <2>2 DEF Mendable
  <2>4. FilesMend'
    BY <1>4, <1>7, <2>2, <2>3
  <2> QED
    BY <1>1, <1>2, <1>7, <2>4, CompensateMending DEF Preparing, Publishing
<1> QED
  BY <1>5, <1>6, <1>7 DEF InstallTarget

\* The manifest in memory is written again.
LEMMA AgainMending ==
  ASSUME Sound, FilesMend, pc \in Publishing, Store(tx) \/ manifest' = manifest,
         disk' = disk, bak' = bak, tmp' = tmp
  PROVE  FilesMend'
<1>1. cur \in TxIds /\ manifest[cur] = tx
  BY HasTransaction DEF Sound, Stages, Publishing, Unsaved
<1>2. \A t \in TxIds : manifest'[t] = manifest[t]
  BY <1>1 DEF Store, Sound, Types
<1>3. \A t \in Committing' : t \in Committing /\ SamePlan(manifest[t], manifest'[t])
                             /\ manifest'[t].published = manifest[t].published
  BY <1>2 DEF Committing, SamePlan
<1>4. \A t \in Committing : manifest[t].targets \subseteq Files
  BY DEF Committing, Sound, Types, IsManifest
<1> QED
  BY <1>3, <1>4, MendStep DEF Publishing

LEMMA PersistProgressMending ==
  ASSUME Sound, Whole, Mending, Undisturbed, PersistProgress
  PROVE  Mending'
<1>1. /\ pc = "progress" /\ disk' = disk /\ bak' = bak /\ tmp' = tmp /\ pass' = pass /\ cur' = cur /\ tx' = tx
  BY DEF PersistProgress, recoveryVars, diskVars, Persist
<1>2. Store(tx) \/ manifest' = manifest
  BY DEF PersistProgress, Persist
<1>3. NoFault \/ Fault
  BY DEF PersistProgress
<1>4. faults' \in Nat /\ pass = 0
  BY <1>1, <1>3, FaultsCount, PublishFacts DEF Mending, Publishing
<1>5. FilesMend'
  BY <1>1, <1>2, AgainMending DEF Publishing, Mending
<1>6. CASE Compensate
  BY <1>1, <1>4, <1>5, <1>6, CompensateMending DEF Preparing, Publishing
<1>7. CASE todo' = todo \ {Least(todo)} /\ pc' = "intent"
  <2>1. Staged(todo \ {Least(todo)})
    BY <1>1 DEF Mending, StepsReady
  <2>2. Staged(todo)'
    BY <1>1, <1>7, <2>1 DEF Staged, Writes
  <2>3. StepsReady'
    BY <1>7, <2>2 DEF StepsReady, Returning
  <2> QED
    BY <1>1, <1>4, <1>5, <2>3, LiveMending
<1> QED
  BY <1>6, <1>7 DEF PersistProgress

LEMMA FilesDoneMending ==
  ASSUME Sound, Whole, Mending, Undisturbed, FilesDone
  PROVE  Mending'
<1>1. /\ pc = "intent" /\ disk' = disk /\ bak' = bak /\ tmp' = tmp /\ pass' = pass /\ tx' = tx
  BY DEF FilesDone, recoveryVars, diskVars, Persist
<1>2. Store(tx) \/ manifest' = manifest
  BY DEF FilesDone, Persist
<1>3. NoFault \/ Fault
  BY DEF FilesDone
<1>4. faults' \in Nat /\ pass = 0
  BY <1>1, <1>3, FaultsCount, PublishFacts DEF Mending, Publishing
<1>5. FilesMend'
  BY <1>1, <1>2, AgainMending DEF Publishing, Mending
<1>6. CASE Compensate
  BY <1>1, <1>4, <1>5, <1>6, CompensateMending DEF Preparing, Publishing
<1>7. CASE pc' \in {"restoreConv", "cutConv", "finish"}
  BY <1>1, <1>4, <1>5, <1>7, LiveMending DEF StepsReady, Returning
<1> QED
  BY <1>6, <1>7 DEF FilesDone

--------
\* The conversation and the checkpoints: the files stay.

LEMMA SwitchMending ==
  ASSUME Sound, Whole, Mending, Undisturbed,
         CutConversation \/ CutCheckpoints \/ RestoreConversation \/ RestoreCheckpoints
  PROVE  Mending'
<1>1. /\ pc \in Switching /\ disk' = disk /\ bak' = bak /\ tmp' = tmp /\ pass' = pass /\ manifest' = manifest
      /\ pc' \in Switching \cup {"backConv"}
  BY DEF CutConversation, CutCheckpoints, RestoreConversation, RestoreCheckpoints, recoveryVars, diskVars,
         Switching
<1>2. NoFault \/ Fault
  BY DEF CutConversation, CutCheckpoints, RestoreConversation, RestoreCheckpoints
<1>3. faults' \in Nat
  BY <1>2, FaultsCount DEF Mending
<1>4. pass = 0
  BY <1>1 DEF Sound, Stages, Switching, Returning
<1>5. FilesMend'
  BY <1>1, MendSame DEF Mending, Switching
<1> QED
  <2>1. tx' = tx /\ tx.state = "committing"
    BY <1>1 DEF CutConversation, CutCheckpoints, RestoreConversation, RestoreCheckpoints, opVars, Sound, Stages
  <2> QED
    BY <1>1, <1>3, <1>4, <1>5, <2>1, LiveMending DEF StepsReady, Switching, Returning

LEMMA FinishMending ==
  ASSUME Sound, Whole, Mending, Undisturbed, Finish
  PROVE  Mending'
<1>1. /\ pc = "finish" /\ disk' = disk /\ bak' = bak /\ tmp' = tmp /\ pass' = pass
  BY DEF Finish, recoveryVars, diskVars
<1>2. NoFault \/ Fault
  BY DEF Finish
<1>3. faults' \in Nat
  BY <1>2, FaultsCount DEF Mending
<1>4. pass = 0 /\ cur \in TxIds /\ manifest[cur] = tx /\ tx.state = "committing"
  BY <1>1, HasTransaction DEF Sound, Stages, Switching, Publishing, Returning, Unsaved
<1>5. CASE Fault /\ pc' = "backConv" /\ manifest' = manifest /\ tx' = tx
  <2>1. FilesMend'
    BY <1>1, <1>5, MendSame DEF Mending
  <2> QED
    BY <1>1, <1>3, <1>4, <1>5, <2>1, LiveMending DEF StepsReady, Returning
<1>6. CASE Store(InState("committed")) /\ pc' \in {"idle", "markUndone"}
  <2> PICK p : p = InState("committed")
    OBVIOUS
  <2>1. p.state = "committed"
    <3>1. IsManifest(tx, serial)
      BY DEF Sound, Types
    <3> QED
      BY <3>1, StateView DEF InState, SetState, States
  <2>2. Committing = {cur}
    BY <1>4 DEF Whole, Alone, Committing
  <2>3. manifest'[cur] = p /\ \A t \in TxIds : t # cur => manifest'[t] = manifest[t]
    BY <1>4, <1>6 DEF Store, Sound, Types
  <2>4. Committing' = {}
    BY <2>1, <2>2, <2>3 DEF Committing
  <2> QED
    BY <1>1, <1>3, <1>4, <1>6, <2>4, NothingToMend, LiveMending DEF StepsReady, Returning
<1> QED
  BY <1>4, <1>5, <1>6 DEF Finish, Return, Persist, opVars

LEMMA MarkUndoneMending ==
  ASSUME Sound, Whole, Mending, Undisturbed, MarkUndone
  PROVE  Mending'
<1>1. /\ pc = "markUndone" /\ disk' = disk /\ bak' = bak /\ tmp' = tmp /\ pass' = pass /\ Return
  BY DEF MarkUndone, recoveryVars, diskVars
<1>2. NoFault \/ Fault
  BY DEF MarkUndone
<1>3. faults' \in Nat
  BY <1>2, FaultsCount DEF Mending
<1>4. /\ pass = 0 /\ cur \in TxIds /\ manifest[cur] = tx /\ tx.state = "committed"
      /\ tx.parent \in TxIds /\ tx.kind = "undo" /\ cur # NoTx
  BY <1>1, HasTransaction DEF Sound, Stages, Returning, Unsaved, Ledger
<1>5. Committing = {}
  BY <1>4 DEF Whole, Alone, Committing
<1>6. \A t \in TxIds : manifest'[t].state = "committing" => manifest[t].state = "committing"
  <2>1. CASE manifest' = manifest
    BY <2>1
  <2>2. CASE manifest' = [manifest EXCEPT ![tx.parent].state = "undone"]
    <3> PICK q, p : q = tx.parent /\ p = SetState(manifest[q], "undone")
      OBVIOUS
    <3>1. p.state = "undone"
      <4>1. IsManifest(manifest[q], serial)
        BY <1>4 DEF Sound, Types
      <4> QED
        BY <4>1, StateView DEF States
    <3>2. manifest'[q] = p /\ \A t \in TxIds : t # q => manifest'[t] = manifest[t]
      BY <1>4, <2>2 DEF Sound, Types, SetState
    <3> QED
      BY <3>1, <3>2
  <2> QED
    BY <2>1, <2>2 DEF MarkUndone
<1>7. Committing' = {}
  BY <1>5, <1>6 DEF Committing
<1> QED
  BY <1>1, <1>3, <1>4, <1>7, NothingToMend, ReturnMending

--------
\* Compensation.

\* No step of a recovery fails.
LEMMA NoFaultThen ==
  ASSUME Mending, Undisturbed, NoFault \/ Fault
  PROVE  /\ faults' \in Nat /\ edited = {} /\ edited' = {}
         /\ (pass # 0 \/ pc = "reinstate" => ~ Fault)
BY FaultsCount DEF Mending, Undisturbed

\* A recovery goes on: what it has left is what it had left.
LEMMA StillLeft ==
  ASSUME LeftToSettle, pass' = pass, queue' = queue, cur' = cur, manifest' = manifest,
         pass # 0 => failed' = failed
  PROVE  LeftToSettle'
BY DEF LeftToSettle, Committing

LEMMA BackConversationMending ==
  ASSUME Sound, Whole, Mending, Undisturbed, BackConversation
  PROVE  Mending'
<1>1. /\ pc = "backConv" /\ pc' = "backCkpts" /\ disk' = disk /\ bak' = bak /\ tmp' = tmp /\ manifest' = manifest
      /\ pass' = pass /\ queue' = queue /\ cur' = cur /\ tx' = tx
  BY DEF BackConversation, diskVars, recoveryVars
<1>2. NoFault \/ Fault
  BY DEF BackConversation
<1>3. FilesMend'
  BY <1>1, MendSame DEF Mending
<1>4. StepsReady'
  BY <1>1 DEF Mending, StepsReady, Returning
<1>5. ASSUME pass # 0 PROVE failed' = failed
  <2>1. NoFault /\ ~ Fault
    BY <1>2, <1>5, NoFaultThen
  <2>2. /\ ChatFits(tx) /\ Attached(tx) /\ serial \in Nat /\ tx.fwdConv \in Chats(serial) /\ tx.boundary \in Nat
    BY <1>1, BackFacts DEF Returning, IsManifest
  <2>3. ASSUME tx.kind = "undo", NeedsConversation(tx) PROVE tx.boundary <= Len(conv)
    <3>1. tx.boundary <= Len(tx.fwdConv)
      BY <2>2, <2>3 DEF Attached
    <3>2. Len(Cut(tx.fwdConv, tx.boundary)) = tx.boundary
      BY <2>2, <3>1, CutTwice
    <3>3. conv = tx.fwdConv \/ conv = Cut(tx.fwdConv, tx.boundary)
      BY <2>2, <2>3 DEF ChatFits
    <3> QED
      BY <2>2, <3>1, <3>2, <3>3
  <2> QED
    BY <2>1, <2>3 DEF BackConversation
<1>6. LeftToSettle'
  BY <1>1, <1>5, StillLeft DEF Mending
<1> QED
  BY <1>2, <1>3, <1>4, <1>6, NoFaultThen DEF Mending

LEMMA BackCheckpointsMending ==
  ASSUME Sound, Whole, Mending, Undisturbed, BackCheckpoints
  PROVE  Mending'
<1>1. /\ pc = "backCkpts" /\ pc' = "backDone" /\ disk' = disk /\ bak' = bak /\ tmp' = tmp /\ manifest' = manifest
      /\ pass' = pass /\ queue' = queue /\ cur' = cur /\ tx' = tx
  BY DEF BackCheckpoints, diskVars, recoveryVars
<1>2. (NoFault /\ failed' = failed) \/ Fault
  BY DEF BackCheckpoints
<1>3. FilesMend'
  BY <1>1, MendSame DEF Mending
<1>4. StepsReady'
  BY <1>1 DEF Mending, StepsReady, Returning
<1>5. pass # 0 => failed' = failed
  BY <1>2, NoFaultThen
<1>6. LeftToSettle'
  BY <1>1, <1>5, StillLeft DEF Mending
<1> QED
  BY <1>2, <1>3, <1>4, <1>6, NoFaultThen DEF Mending

LEMMA BackDoneMending ==
  ASSUME Sound, Whole, Mending, Undisturbed, BackDone
  PROVE  Mending'
<1>1. /\ pc = "backDone" /\ disk' = disk /\ bak' = bak /\ tmp' = tmp /\ manifest' = manifest
      /\ pass' = pass /\ queue' = queue /\ faults' = faults
  BY DEF BackDone, diskVars, recoveryVars
<1>2. pass # 0 => failed = {}
  BY DEF Mending, LeftToSettle
<1>3. Compensate /\ cur' = cur /\ tx' = tx /\ failed' = failed
  BY <1>2 DEF BackDone
<1>4. FilesMend'
  BY <1>1, MendSame DEF Mending
<1>5. StepsReady'
  BY <1>1, <1>3 DEF Mending, StepsReady, Returning, Compensate
<1>6. LeftToSettle'
  BY <1>1, <1>3, StillLeft DEF Mending
<1> QED
  BY <1>1, <1>4, <1>5, <1>6 DEF Mending, Undisturbed

\* Compensation works on one file; the others stay.
LEMMA OneMended ==
  ASSUME Sound, Whole, FilesMend, pc \in {"compensate", "reinstate"}, NEW g, g = Greatest(todo),
         cur' = cur, tx' = tx, manifest' = manifest,
         \A f \in Files : f # g => disk'[f] = disk[f] /\ bak'[cur][f] = bak[cur][f]
                                   /\ (<< cur, f >> \in tmp => << cur, f >> \in tmp'),
         tx.state = "committing" => Mendable(cur, tx, g)' \/ (pc' = "reinstate" /\ todo' = todo)
  PROVE  FilesMend'
<1>1. cur \in TxIds /\ cur # NoTx /\ manifest[cur] = tx /\ tx.targets \subseteq Files
  BY BackFacts DEF Returning
<1>2. Committing' = Committing /\ Committing \subseteq {cur}
  BY <1>1 DEF Committing, Whole, Alone
<1>3. CASE tx.state # "committing"
  <2>1. Committing' = {}
    BY <1>1, <1>2, <1>3 DEF Committing
  <2> QED
    BY <2>1, NothingToMend
<1>4. CASE tx.state = "committing"
  <2> PICK c, p : c = cur /\ p = tx
    OBVIOUS
  <2>1. c \in Committing
    BY <1>1, <1>4 DEF Committing
  <2>2. ASSUME NEW f \in p.targets, f # g PROVE Mendable(c, p, f)'
    <3>1. Mendable(c, p, f)
      BY <1>1, <2>1, <2>2 DEF FilesMend, Reinstating
    <3>2. f \in Files
      BY <1>1
    <3>3. disk'[f] = disk[f] /\ bak'[c][f] = bak[c][f] /\ (<< c, f >> \in tmp => << c, f >> \in tmp')
      BY <2>2, <3>2
    <3> QED
      BY <3>1, <3>3 DEF Mendable, Moved, Writes
  <2>3. Mendable(c, p, g)' \/ Reinstating(c, g)'
    <3>1. Mendable(cur, tx, g)' => Mendable(c, p, g)'
      BY DEF Mendable, Moved, Writes
    <3> QED
      BY <1>4, <3>1 DEF Reinstating
  <2>4. \A f \in p.targets : Mendable(c, p, f)' \/ Reinstating(c, f)'
    <3> SUFFICES ASSUME NEW f \in p.targets PROVE Mendable(c, p, f)' \/ Reinstating(c, f)'
      OBVIOUS
    <3>1. CASE f = g
      BY <2>3, <3>1 DEF Mendable, Moved, Writes, Reinstating
    <3>2. CASE f # g
      BY <2>2, <3>2
    <3> QED
      BY <3>1, <3>2
  <2> QED
    BY <1>1, <1>2, <2>4, RunningMends
<1> QED
  BY <1>3, <1>4

LEMMA CompensateFileMending ==
  ASSUME Sound, Whole, Mending, Undisturbed, CompensateFile
  PROVE  Mending'
<1>1. /\ pc = "compensate" /\ todo # {} /\ manifest' = manifest /\ cur' = cur /\ tx' = tx
      /\ pass' = pass /\ queue' = queue
  BY DEF CompensateFile, recoveryVars
<1> PICK g, c, p : g = Greatest(todo) /\ c = cur /\ p = tx
  OBVIOUS
<1>2. /\ Types /\ g \in Files /\ c \in TxIds /\ c # NoTx /\ g \in todo /\ g \in p.targets /\ manifest[c] = p
      /\ (pass # 0 => p.state = "committing")
  BY <1>1, BackFacts DEF Returning
<1>3. NoFault \/ Fault
  BY DEF CompensateFile
<1>4. p.state = "committing" => Mendable(c, p, g)
  BY <1>1, <1>2 DEF Mending, FilesMend, Committing, Reinstating
<1>5. ~ CompensateForeign(g) \/ p.state # "committing"
  BY <1>2, <1>4 DEF CompensateForeign, Mendable, Moved, Untouched, BetweenRenames, Foreign
<1>6. ASSUME FilesMend', pc' \in {"compensate", "reinstate"}, pass # 0 => failed' = failed
      PROVE  Mending'
  <2>1. StepsReady'
    BY <1>1, <1>6 DEF Mending, StepsReady, Returning
  <2>2. LeftToSettle'
    BY <1>1, <1>6, StillLeft DEF Mending
  <2> QED
    BY <1>3, <1>6, <2>1, <2>2, NoFaultThen DEF Mending
<1>7. CASE CompensateNothing(g)
  <2>1. /\ Untouched(g) /\ disk' = disk /\ bak' = bak /\ failed' = failed /\ tmp' = tmp \ {<< c, g >>}
        /\ pc' = "compensate"
    BY <1>7 DEF CompensateNothing, NextTarget, DropTemp
  <2>2. Mendable(cur, tx, g)'
    BY <1>1, <2>1 DEF Untouched, Mendable
  <2>3. \A f \in Files : f # g /\ << c, f >> \in tmp => << c, f >> \in tmp'
    BY <2>1
  <2>4. FilesMend'
    BY <1>1, <2>1, <2>2, <2>3, OneMended DEF Mending
  <2> QED
    BY <1>6, <2>1, <2>4
<1>8. CASE CompensateRename(g)
  <2>1. /\ bak[c][g] = p.forward[g] /\ failed' = failed /\ tmp' = tmp \ {<< c, g >>}
        /\ pc' = "compensate" /\ Put(g, bak[c][g]) /\ SetBackup(g, Absent)
    BY <1>8 DEF CompensateRename, BetweenRenames, NextTarget, DropTemp
  <2>2. /\ disk'[g] = p.forward[g]
        /\ \A f \in Files : f # g => disk'[f] = disk[f] /\ bak'[c][f] = bak[c][f]
    BY <1>2, <2>1, PutView
  <2>3. Mendable(cur, tx, g)'
    BY <1>1, <2>2 DEF Mendable
  <2>4. \A f \in Files : f # g /\ << c, f >> \in tmp => << c, f >> \in tmp'
    BY <2>1
  <2>5. FilesMend'
    BY <1>1, <2>2, <2>3, <2>4, OneMended DEF Mending
  <2> QED
    BY <1>6, <2>1, <2>5
<1>9. CASE CompensateRemove(g)
  <2>1. /\ failed' = failed /\ bak' = bak /\ tmp' = tmp /\ Put(g, Absent)
        /\ \/ pc' = "compensate" /\ p.forward[g] = Absent
           \/ pc' = "reinstate" /\ todo' = todo
    BY <1>9 DEF CompensateRemove, NextTarget
  <2>2. disk'[g] = Absent /\ \A f \in Files : f # g => disk'[f] = disk[f]
    BY <1>2, <2>1 DEF Put, Types
  <2>3. Mendable(cur, tx, g)' \/ (pc' = "reinstate" /\ todo' = todo)
    BY <1>1, <2>1, <2>2 DEF Mendable
  <2>4. FilesMend'
    BY <1>1, <2>1, <2>2, <2>3, OneMended DEF Mending
  <2> QED
    BY <1>6, <2>1, <2>4
<1>10. ASSUME disk' = disk, bak' = bak, tmp' = tmp PROVE FilesMend'
  BY <1>1, <1>10, MendSame DEF Mending
<1>11. CASE CompensateForeign(g)
  <2>1. pass = 0
    BY <1>2, <1>5, <1>11
  <2> QED
    BY <1>6, <1>10, <1>11, <2>1 DEF CompensateForeign, NextTarget
<1>12. CASE Fault /\ NextTarget(g) /\ UNCHANGED << disk, bak, tmp >>
  <2>1. pass = 0
    BY <1>3, <1>12, NoFaultThen
  <2> QED
    BY <1>6, <1>10, <1>12, <2>1 DEF NextTarget
<1> QED
  BY <1>7, <1>8, <1>9, <1>11, <1>12 DEF CompensateFile

\* The forward image comes back: nothing fails between the two steps.
LEMMA ReinstateFileMending ==
  ASSUME Sound, Whole, Mending, Undisturbed, ReinstateFile
  PROVE  Mending'
<1>1. /\ pc = "reinstate" /\ pc' = "compensate" /\ manifest' = manifest /\ cur' = cur /\ tx' = tx /\ tmp' = tmp
      /\ pass' = pass /\ queue' = queue /\ todo # {}
  BY DEF ReinstateFile, NextTarget, recoveryVars, Sound, Stages
<1> PICK g, c, p : g = Greatest(todo) /\ c = cur /\ p = tx
  OBVIOUS
<1>2. /\ Types /\ g \in Files /\ c \in TxIds /\ g \in p.targets /\ FilesFit(c, p)
  BY <1>1, BackFacts DEF Returning
<1>3. NoFault \/ Fault
  BY DEF ReinstateFile
<1>4. ~ Fault /\ edited = {}
  BY <1>1, <1>3, NoFaultThen
<1>5. ASSUME bak[c][g] # Absent, Put(g, bak[c][g]), SetBackup(g, Absent) PROVE FilesMend'
  <2>1. /\ disk'[g] = bak[c][g]
        /\ \A f \in Files : f # g => disk'[f] = disk[f] /\ bak'[c][f] = bak[c][f]
    BY <1>2, <1>5, PutView
  <2>2. disk'[g] = p.forward[g]
    BY <1>2, <1>4, <1>5, <2>1 DEF FilesFit
  <2>3. Mendable(cur, tx, g)'
    BY <1>1, <2>2 DEF Mendable
  <2> QED
    BY <1>1, <2>1, <2>3, OneMended DEF Mending
<1>6. ASSUME Put(g, p.forward[g]), bak' = bak PROVE FilesMend'
  <2>1. disk'[g] = p.forward[g] /\ \A f \in Files : f # g => disk'[f] = disk[f]
    BY <1>2, <1>6 DEF Put, Types
  <2>2. Mendable(cur, tx, g)'
    BY <1>1, <2>1 DEF Mendable
  <2> QED
    BY <1>1, <1>6, <2>1, <2>2, OneMended DEF Mending
<1>7. FilesMend' /\ failed' = failed
  BY <1>4, <1>5, <1>6 DEF ReinstateFile
<1>8. StepsReady'
  BY <1>1 DEF Mending, StepsReady, Returning
<1>9. LeftToSettle'
  BY <1>1, <1>7, StillLeft DEF Mending
<1> QED
  BY <1>3, <1>7, <1>8, <1>9, NoFaultThen DEF Mending

\* In a recovery everything was put back, so that the transaction is aborted.
LEMMA SettleMending ==
  ASSUME Sound, Whole, Mending, Undisturbed, Settle
  PROVE  Mending'
<1>1. /\ pc \in {"compensate", "settle"} /\ disk' = disk /\ bak' = bak /\ tmp' = tmp /\ Return
      /\ pass' = pass /\ queue' = queue /\ cur' = NoTx /\ failed' = {} /\ pc' \in {"idle", "scan"}
  BY DEF Settle, diskVars, recoveryVars, Return
<1>2. /\ cur \in TxIds /\ cur # NoTx /\ Types /\ manifest[cur] = tx /\ IsManifest(tx, serial)
      /\ (pass # 0 => tx.state = "committing")
  BY <1>1, BackFacts DEF Returning
<1>3. NoFault \/ Fault
  BY DEF Settle
<1> PICK s, p : s = (IF failed = {} THEN "aborted" ELSE "committing") /\ p = InState(s)
  OBVIOUS
<1>4. s \in States /\ p.state = s /\ p.published = tx.published /\ SamePlan(tx, p)
  BY <1>2, StateView DEF InState, SetState, States
<1>5. ASSUME NoFault, Store(p)
      PROVE  manifest'[cur] = p /\ \A t \in TxIds : t # cur => manifest'[t] = manifest[t]
  BY <1>2, <1>5 DEF Store, Types
<1>6. (NoFault /\ Store(p)) \/ (Fault /\ manifest' = manifest)
  BY DEF Settle
<1>7. FilesMend'
  <2>1. CASE manifest' = manifest
    BY <1>1, <2>1, MendSame DEF Mending
  <2>2. CASE NoFault /\ Store(p)
    <3>1. ASSUME NEW t \in Committing'
          PROVE  \/ manifest'[t].published = {}
                 \/ /\ t \in Committing
                    /\ SamePlan(manifest[t], manifest'[t]) /\ manifest'[t].published = manifest[t].published
                    /\ \A f \in Files : << t, f >> \in tmp => << t, f >> \in tmp'
      <4>1. CASE t # cur
        BY <1>1, <1>5, <2>2, <4>1 DEF Committing, SamePlan
      <4>2. CASE t = cur
        <5>1. tx.state \in {"prepared", "committing"}
          BY <1>1 DEF Sound, Stages, Returning
        <5>2. CASE tx.state = "prepared"
          BY <1>1, <1>2, <1>4, <1>5, <2>2, <4>2, <5>2 DEF Mending, StepsReady, Returning
        <5>3. CASE tx.state = "committing"
          BY <1>1, <1>2, <1>4, <1>5, <2>2, <4>2, <5>3 DEF Committing
        <5> QED
          BY <5>1, <5>2, <5>3
      <4> QED
        BY <4>1, <4>2
    <3>2. \A t \in Committing : manifest[t].targets \subseteq Files
      BY DEF Committing, Sound, Types, IsManifest
    <3> QED
      BY <1>1, <3>1, <3>2, MendStep DEF Mending
  <2> QED
    BY <1>6, <2>1, <2>2
<1>8. StepsReady'
  BY <1>1 DEF StepsReady, Returning
<1>9. LeftToSettle'
  <2> SUFFICES ASSUME pass # 0 PROVE LeftToSettle'
    BY <1>1 DEF LeftToSettle
  <2>1. failed = {} /\ NoFault /\ Store(p) /\ s = "aborted"
    BY <1>3, <1>6, NoFaultThen DEF Mending, LeftToSettle
  <2>2. manifest'[cur].state = "aborted" /\ \A t \in TxIds : t # cur => manifest'[t] = manifest[t]
    BY <1>4, <1>5, <2>1
  <2>3. \A t \in TxIds : manifest'[t].state = "prepared" => pass = 1 /\ t \in queue
    BY <2>2 DEF Mending, LeftToSettle
  <2>4. pass = 2 => Committing' \subseteq queue
    BY <2>2 DEF Mending, LeftToSettle, Committing
  <2> QED
    BY <1>1, <2>3, <2>4 DEF LeftToSettle
<1> QED
  BY <1>3, <1>7, <1>8, <1>9, NoFaultThen DEF Mending

--------
\* Crashes, and the recovery itself.

LEMMA CrashMending ==
  ASSUME Sound, Mending, Undisturbed, Crash
  PROVE  Mending'
<1>1. /\ pc' = "down" /\ pass' = 0 /\ disk' = disk /\ bak' = bak /\ tmp' = tmp /\ manifest' = manifest
      /\ faults' = faults
  BY DEF Crash, diskVars
<1>2. pc # "reinstate"
  BY <1>1 DEF Undisturbed
<1>3. FilesMend'
  BY <1>1, <1>2, MendSame DEF Mending
<1> QED
  BY <1>1, <1>3, IdleMending DEF Mending, Undisturbed

LEMMA OpenMending ==
  ASSUME Sound, Mending, Undisturbed, Open, pc \in {"idle", "down"}
  PROVE  Mending'
<1>1. /\ pc' = "scan" /\ pass' = 1 /\ queue' = Manifests /\ disk' = disk /\ bak' = bak /\ tmp' = tmp
      /\ manifest' = manifest /\ failed' = {} /\ faults' = faults
  BY DEF Open, Forget, diskVars
<1>2. FilesMend'
  BY <1>1, MendSame DEF Mending
<1>3. StepsReady'
  BY <1>1 DEF StepsReady, Returning
<1>4. LeftToSettle'
  BY <1>1 DEF LeftToSettle, Manifests
<1> QED
  BY <1>1, <1>2, <1>3, <1>4 DEF Mending, Undisturbed

LEMMA PassDoneMending ==
  ASSUME Sound, Mending, Undisturbed, PassDone
  PROVE  Mending'
<1>1. /\ pc = "scan" /\ queue = {} /\ pc' \in {"scan", "idle"} /\ disk' = disk /\ bak' = bak /\ tmp' = tmp
      /\ manifest' = manifest /\ failed' = failed /\ cur' = cur /\ faults' = faults
      /\ \/ pass' = 0
         \/ pass = 1 /\ pass' = 2 /\ queue' = Manifests
  BY DEF PassDone, diskVars, opVars
<1>2. FilesMend'
  BY <1>1, MendSame DEF Mending
<1>3. StepsReady'
  BY <1>1 DEF StepsReady, Returning
<1>4. LeftToSettle'
  <2>1. CASE pass' = 0
    BY <2>1 DEF LeftToSettle
  <2>2. CASE pass = 1 /\ pass' = 2 /\ queue' = Manifests
    <3>1. failed = {} /\ \A t \in TxIds : manifest[t].state # "prepared"
      BY <1>1, <2>2 DEF Mending, LeftToSettle
    <3>2. Committing' \subseteq queue'
      BY <1>1, <2>2 DEF Committing, Manifests
    <3> QED
      BY <1>1, <2>2, <3>1, <3>2 DEF LeftToSettle
  <2> QED
    BY <1>1, <2>1, <2>2
<1> QED
  BY <1>1, <1>2, <1>3, <1>4 DEF Mending, Undisturbed

LEMMA ScanMending ==
  ASSUME Sound, Whole, Mending, Undisturbed, ScanManifest
  PROVE  Mending'
<1>1. /\ pc = "scan" /\ disk' = disk /\ bak' = bak /\ pass' = pass /\ failed' = failed
  BY DEF ScanManifest
<1>2. PICK t \in queue : ScanNext(t) /\ (RecoverPrepared(t) \/ RecoverCommitting(t) \/ RecoverCommitted(t))
  BY DEF ScanManifest
<1>3. t \in TxIds /\ cur = NoTx /\ pass # 0 /\ queue' = queue \ {t} /\ failed = {}
  BY <1>1, <1>2 DEF Sound, Types, Stages, ScanNext
<1>4. NoFault \/ Fault
  BY <1>2 DEF RecoverPrepared, RecoverCommitting, RecoverCommitted
<1>5. NoFault /\ ~ Fault /\ faults' \in Nat /\ edited' = {}
  BY <1>3, <1>4, NoFaultThen
<1>6. CASE RecoverPrepared(t)
  <2>1. /\ manifest[t].state = "prepared" /\ tmp' = { q \in tmp : q[1] # t } /\ cur' = cur /\ tx' = tx /\ pc' = pc
        /\ manifest' = [manifest EXCEPT ![t].state = "aborted"]
    BY <1>5, <1>6 DEF RecoverPrepared
  <2> PICK p : p = SetState(manifest[t], "aborted")
    OBVIOUS
  <2>2. p.state = "aborted"
    <3>1. IsManifest(manifest[t], serial)
      BY <1>3 DEF Sound, Types
    <3> QED
      BY <3>1, StateView DEF States
  <2>3. manifest'[t] = p /\ \A u \in TxIds : u # t => manifest'[u] = manifest[u]
    BY <1>3, <2>1 DEF Sound, Types, SetState
  <2>4. Committing' = Committing /\ t \notin Committing
    BY <2>1, <2>2, <2>3 DEF Committing
  <2>5. ASSUME NEW u \in Committing'
        PROVE  /\ u \in Committing
               /\ SamePlan(manifest[u], manifest'[u]) /\ manifest'[u].published = manifest[u].published
               /\ \A f \in Files : << u, f >> \in tmp => << u, f >> \in tmp'
    <3>1. u \in Committing /\ u # t /\ u \in TxIds
      BY <2>4 DEF Committing
    <3>2. \A f \in Files : << u, f >>[1] = u
      OBVIOUS
    <3>3. \A f \in Files : << u, f >> \in tmp => << u, f >> \in tmp'
      BY <2>1, <3>1, <3>2
    <3> QED
      BY <2>3, <3>1, <3>3 DEF SamePlan
  <2>6. \A u \in Committing : manifest[u].targets \subseteq Files
    BY DEF Committing, Sound, Types, IsManifest
  <2>7. FilesMend'
    BY <1>1, <2>5, <2>6, MendStep DEF Mending
  <2>8. StepsReady'
    BY <1>1, <2>1 DEF StepsReady, Returning
  <2>9. \A u \in TxIds : manifest'[u].state = "prepared" => pass = 1 /\ u \in queue'
    BY <1>3, <2>2, <2>3 DEF Mending, LeftToSettle
  <2>10. pass = 2 => Committing' \subseteq queue' \cup {cur'}
    BY <1>3, <2>1, <2>4 DEF Mending, LeftToSettle
  <2>11. LeftToSettle'
    BY <1>1, <1>3, <2>9, <2>10 DEF LeftToSettle
  <2> QED
    BY <1>5, <2>7, <2>8, <2>11 DEF Mending
<1>7. CASE RecoverCommitting(t) \/ RecoverCommitted(t)
  <2>1. tmp' = tmp /\ manifest' = manifest
    BY <1>7 DEF RecoverCommitting, RecoverCommitted
  <2>2. FilesMend'
    BY <1>1, <2>1, MendSame DEF Mending
  <2>3. manifest[t].state # "prepared"
    BY <1>7 DEF RecoverCommitting, RecoverCommitted
  <2>4. \A u \in TxIds : manifest'[u].state = "prepared" => pass = 1 /\ u \in queue'
    BY <1>3, <2>1, <2>3 DEF Mending, LeftToSettle
  <2>5. pass = 2 => manifest[t].state # "committing" \/ cur' = t
    BY <1>3, <1>7 DEF RecoverCommitting, RecoverCommitted
  <2>6. pass = 2 => Committing' \subseteq queue' \cup {cur'}
    <3>1. pass = 2 => Committing \subseteq queue
      BY <1>3 DEF Mending, LeftToSettle, Committing, TxIds, NoTx
    <3>2. t \in Committing <=> manifest[t].state = "committing"
      BY <1>3 DEF Committing
    <3> QED
      BY <1>3, <2>1, <2>5, <3>1, <3>2 DEF Committing
  <2>7. LeftToSettle'
    BY <1>1, <1>3, <2>4, <2>6 DEF LeftToSettle
  <2>8. StepsReady'
    <3>1. /\ \/ pc' = "scan"
             \/ pc' \in {"backConv", "compensate"} /\ tx' = manifest[t] /\ manifest[t].state = "committing"
      BY <1>1, <1>7 DEF RecoverCommitting, RecoverCommitted
    <3>2. pc' \in Returning => tx'.state = "committing"
      BY <3>1 DEF Returning
    <3> QED
      BY <3>1, <3>2 DEF StepsReady, Returning
  <2> QED
    BY <1>5, <2>2, <2>7, <2>8 DEF Mending
<1> QED
  BY <1>2, <1>6, <1>7

--------
LEMMA InitMending == Init => Mending
<1> SUFFICES ASSUME Init PROVE Mending
  OBVIOUS
<1>1. /\ manifest = [t \in TxIds |-> EmptyManifest] /\ pc = "idle" /\ pass = 0 /\ edited = {} /\ faults = 0
  BY DEF Init
<1>2. EmptyManifest.state = "none"
  BY DEF EmptyManifest
<1>3. Committing = {}
  BY <1>1, <1>2 DEF Committing
<1> QED
  BY <1>1, <1>3 DEF Mending, FilesMend, StepsReady, LeftToSettle, Returning

\* What RecoverySettles says of one step.
Settles == pass # 0 /\ pc' = "idle" => \A t \in TxIds : ~ Unsettled(t)

\* Only the end of the second pass, with nothing left, ends a recovery.
LEMMA PassDoneSettles ==
  ASSUME Sound, Mending, PassDone, pass # 0, pc' = "idle"
  PROVE  \A t \in TxIds : ~ Unsettled(t)
<1>1. pc = "scan" /\ queue = {} /\ pass = 2 /\ cur = NoTx
  BY DEF PassDone, Sound, Types, Stages
<1>2. \A t \in TxIds : manifest[t].state # "prepared"
  BY <1>1 DEF Mending, LeftToSettle
<1>3. Committing = {}
  BY <1>1 DEF Mending, LeftToSettle, Committing, TxIds, NoTx
<1> QED
  BY <1>2, <1>3 DEF Unsettled, Committing

LEMMA NextMending ==
  ASSUME Sound, Whole, Mending, Next, Orderly, Undisturbed
  PROVE  Mending'
<1>1. CASE Turn \/ ExternalEdit \/ StartOperation
  BY <1>1, TurnMending, NoEdit, BeginMending
<1>2. CASE Commit
  BY <1>2, StageTempsMending, PersistPreparedMending, AttachForwardMending, PersistUndoAgainMending,
     BeginCommitMending, PublishIntentMending, BackUpTargetMending, InstallTargetMending,
     PersistProgressMending, FilesDoneMending, SwitchMending, FinishMending, MarkUndoneMending DEF Commit
<1>3. CASE Compensation
  BY <1>3, BackConversationMending, BackCheckpointsMending, BackDoneMending, CompensateFileMending,
     ReinstateFileMending, SettleMending DEF Compensation
<1>4. CASE Crash \/ Reopen \/ Recovery
  BY <1>4, CrashMending, OpenMending, ScanMending, PassDoneMending DEF Reopen, Recovery, Restart
<1> QED
  BY <1>1, <1>2, <1>3, <1>4 DEF Next

\* No step but the end of a pass takes a recovery to rest.
LEMMA NextSettles ==
  ASSUME Sound, Whole, Mending, Next, Orderly, Undisturbed
  PROVE  Settles
<1> SUFFICES ASSUME pass # 0, pc' = "idle" PROVE \A t \in TxIds : ~ Unsettled(t)
  BY DEF Settles
<1>1. pc \in Returning \cup {"scan"}
  BY DEF Sound, Stages
<1>2. CASE PassDone
  BY <1>2, PassDoneSettles
<1>3. CASE Turn \/ StartOperation
  BY <1>1, <1>3 DEF Turn, StartOperation, StartRewind, StartFileRevert, StartUndo, Begin, Returning
<1>4. CASE Commit
  BY <1>1, <1>4 DEF Commit, StageTemps, PersistPrepared, AttachForward, PersistUndoAgain, BeginCommit,
     PublishIntent, BackUpTarget, InstallTarget, PersistProgress, FilesDone, CutConversation, CutCheckpoints,
     RestoreConversation, RestoreCheckpoints, Finish, MarkUndone, Returning
<1>5. CASE Compensation
  BY <1>1, <1>5 DEF Compensation, BackConversation, BackCheckpoints, BackDone, Settle, CompensateFile,
     ReinstateFile, CompensateNothing, CompensateRename, CompensateForeign, CompensateRemove, NextTarget,
     Compensate, Return
<1>6. CASE Crash \/ Reopen \/ Restart
  BY <1>1, <1>6 DEF Crash, Reopen, Restart, Open, Returning
<1>7. CASE ScanManifest
  BY <1>7 DEF ScanManifest, RecoverPrepared, RecoverCommitting, RecoverCommitted
<1> QED
  BY <1>2, <1>3, <1>4, <1>5, <1>6, <1>7, NoEdit DEF Next, Recovery

LEMMA StillMending ==
  ASSUME Sound, Mending, UNCHANGED vars
  PROVE  Mending'
<1>1. /\ disk' = disk /\ bak' = bak /\ tmp' = tmp /\ manifest' = manifest /\ pc' = pc /\ cur' = cur /\ tx' = tx
      /\ todo' = todo /\ failed' = failed /\ pass' = pass /\ queue' = queue /\ edited' = edited /\ faults' = faults
  BY DEF vars, diskVars, opVars, recoveryVars, boundVars
<1>2. FilesMend'
  BY <1>1 DEF Mending, FilesMend, Mendable, Moved, Writes, Reinstating, Committing
<1>3. StepsReady'
  BY <1>1 DEF Mending, StepsReady, Staged, Writes
<1>4. LeftToSettle'
  BY <1>1, StillLeft DEF Mending
<1> QED
  BY <1>1, <1>2, <1>3, <1>4 DEF Mending

\* A recovery leaves no transaction half-applied, as long as nobody edits a file
\* meanwhile, none of its own steps fails, nothing comes between the two steps
\* that put a file back, and operations begin in order.
THEOREM RecoveriesSettle == Spec /\ [][Orderly /\ Undisturbed]_vars => RecoverySettles
<1>1. Init => Whole /\ Mending
  BY InitWhole, InitMending
<1>2. Sound /\ Whole /\ Mending /\ [Next]_vars /\ [Orderly /\ Undisturbed]_vars =>
        Whole' /\ Mending' /\ [Settles]_vars
  BY NextWhole, StillWhole, NextMending, StillMending, NextSettles
<1>3. [Settles]_vars <=> [pass # 0 /\ pc' = "idle" => \A t \in TxIds : ~ Unsettled(t)]_vars
  BY DEF Settles
<1> QED
  BY <1>1, <1>2, <1>3, SpecSound, PTL DEF Spec, RecoverySettles

--------
(* The refinement: rewinds, reverts and undos are atomic.                   *)

\* An undo begins where its rewind, whatever its scope, left the conversation,
\* and where it left the count of turns if it cut them.
UndoJoins ==
    nextTx' # nextTx /\ tx'.kind = "undo" /\ tx'.hasConv = "yes" =>
        conv = LeftBy(tx') /\ (NeedsConversation(tx') => turn = tx'.from)

\* Nobody edits from outside, and operations follow one another.
InSequence == BeginsAlone /\ UndoJoins /\ edited' = {}

\* The checkpoints are those of the turns before the next one.
Numbered == DOMAIN ckpts = { t \in 0 .. turn : t # turn }

\* A manifest that cuts checkpoints keeps those of a stretch of turns.
Stretch(m) ==
    IF NeedsConversation(m)
    THEN /\ m.from \in DOMAIN m.backup
         /\ \A t \in DOMAIN m.backup : t >= m.from /\ \A u \in m.from .. t : u \in DOMAIN m.backup
    ELSE m.backup = NoBackup

\* What is left of that stretch is as it was kept.
Covers(m) ==
    NeedsConversation(m) =>
        /\ m.from <= turn
        /\ \A t \in DOMAIN ckpts : t >= m.from => t \in DOMAIN m.backup /\ ckpts[t] = m.backup[t]

Covered ==
    /\ \A t \in TxIds : Stretch(manifest[t])
    /\ \A t \in Committing : Covers(manifest[t])
    /\ Stretch(tx) /\ Covers(tx)

\* At these steps all of the stretch is there.
Present == DOMAIN tx.backup \subseteq DOMAIN ckpts

StretchPhase ==
    NeedsConversation(tx) =>
        IF tx.kind = "undo" THEN pc = "finish" => Present
        ELSE /\ pc \in Preparing \cup Publishing \cup {"cutConv", "cutCkpts", "settle"} => Present
             /\ pc \in {"backDone", "compensate", "reinstate"} /\ "state" \notin failed => Present

\* An operation that leaves the conversation alone is at the one it stored.
Kept ==
    /\ pass = 0 /\ tx.hasConv = "yes" /\ ~NeedsConversation(tx) => conv = tx.fwdConv
    /\ pass # 0 /\ pc \in {"backConv", "backCkpts", "backDone"} => NeedsConversation(tx)

\* Nothing of a transaction that is only prepared has to be put back.
Bare ==
    /\ tx.state = "prepared" => tx.published = {} /\ failed = {}
    /\ pc \in {"backConv", "backCkpts", "backDone", "reinstate"} => tx.state = "committing"

Undoables == { t \in Completed : ~Reverted(t) }

\* The newest of these is remembered, or none.
Newest ==
    /\ \A t \in TxIds : manifest[t].state = "undone" => Reverted(t)
    /\ pass = 0 /\ pc # "markUndone" /\ lastUndo # NoTx => \A t \in Undoables : t <= lastUndo
    /\ pass # 0 =>
        /\ \A t \in Undoables \ queue : lastUndo # NoTx /\ t <= lastUndo
        /\ \A t \in Manifests \ queue, u \in queue : t < u

\* An undo under way has what it undoes the other way round.
Mirrors(p, m) ==
    /\ p.scope = m.scope /\ p.from = m.from /\ p.boundary = m.boundary /\ p.targets = m.targets
    /\ p.restore = m.forward /\ p.forward = m.restore /\ SameForward(m, p) /\ p.backup = m.backup

\* The plan of a rewind or revert under way still fits the session as a recovered
\* process would see it.
RewindFits(p) ==
    /\ p.from \in DOMAIN EffectiveCheckpoints
    /\ p.boundary = EffectiveCheckpoints[p.from].msgIndex
    /\ p.scope \in { {"files"}, {"conv"}, {"files", "conv"} }
    /\ IF "files" \in p.scope THEN p.restore = Atomic!Oldest(p.from) /\ Atomic!Unedited(p.from)
                              ELSE p.restore = << >>
    /\ p.scope = {"files"} => Atomic!Captured(p.from) # {}
    /\ NeedsConversation(p) => p.backup = From(EffectiveCheckpoints, p.from)

RevertFits(p) ==
    /\ p.scope = {"files"} /\ p.hasConv = "no"
    /\ \E f \in Atomic!Captured(0) : p.restore = Atomic!Keep(Atomic!Oldest(0), {f})

Planned ==
    pass = 0 /\ pc \in Preparing \cup Publishing \cup Switching =>
        /\ tx.kind = "rewind" => RewindFits(tx)
        /\ tx.kind = "file_revert" => RevertFits(tx)
        /\ tx.kind = "undo" => Mirrors(tx, manifest[tx.parent])
        /\ tx.targets = DOMAIN tx.restore
        /\ tx.kind = "rewind" /\ (pc \in Publishing \cup Switching \/ pc = "begin") => tx.hasConv = "yes"

Lined ==
    /\ Numbered /\ Covered /\ StretchPhase /\ Kept /\ Bare /\ Newest /\ Planned
    /\ edited = {}

--------
(* The session as a recovered process would see it.                         *)

LEMMA GreatestOfOne == ASSUME NEW t \in Nat PROVE Greatest({t}) = t
BY DEF Greatest

\* While nothing is committing it is the session as it is.
LEMMA Plain ==
  ASSUME Sound, Committing = {}
  PROVE  EffectiveFiles = disk /\ EffectiveConv = conv /\ EffectiveCheckpoints = ckpts
<1>1. CommittingConv = {}
  BY DEF CommittingConv
<1>2. EffectiveFiles = [f \in Files |-> disk[f]]
  BY DEF EffectiveFiles
<1>3. disk \in [Files -> Images]
  BY DEF Sound, Types
<1> QED
  BY <1>1, <1>2, <1>3 DEF EffectiveConv, EffectiveCheckpoints

\* While m is committing, alone, it is what m recorded.
HeldFiles(m, d) == [f \in Files |-> IF f \in m.targets THEN m.forward[f] ELSE d[f]]
HeldConv(m, c) ==
    IF ~NeedsConversation(m) THEN c ELSE IF m.kind = "undo" THEN Cut(m.fwdConv, m.boundary) ELSE m.fwdConv
HeldPoints(m, c) ==
    IF ~NeedsConversation(m) THEN c ELSE IF m.kind = "undo" THEN Before(c, m.from) ELSE Merge(c, m.backup)

LEMMA Held ==
  ASSUME NEW t \in TxIds, Committing = {t}
  PROVE  /\ EffectiveFiles = HeldFiles(manifest[t], disk)
         /\ EffectiveConv = HeldConv(manifest[t], conv)
         /\ EffectiveCheckpoints = HeldPoints(manifest[t], ckpts)
<1>1. Greatest({t}) = t
  BY GreatestOfOne, RewindAssumption DEF TxIds
<1>2. ASSUME NEW f \in Files PROVE EffectiveFiles[f] = HeldFiles(manifest[t], disk)[f]
  <2>1. {u \in Committing : f \in manifest[u].targets} = IF f \in manifest[t].targets THEN {t} ELSE {}
    OBVIOUS
  <2> QED
    BY <1>1, <2>1 DEF EffectiveFiles, HeldFiles
<1>3. EffectiveFiles = HeldFiles(manifest[t], disk)
  BY <1>2 DEF EffectiveFiles, HeldFiles
<1>4. CommittingConv = IF NeedsConversation(manifest[t]) THEN {t} ELSE {}
  BY DEF CommittingConv
<1> QED
  BY <1>1, <1>3, <1>4 DEF EffectiveConv, EffectiveCheckpoints, HeldConv, HeldPoints

\* Both at the next state.
LEMMA PlainNext ==
  (Sound /\ Committing = {} =>
     EffectiveFiles = disk /\ EffectiveConv = conv /\ EffectiveCheckpoints = ckpts)'
<1>1. Sound /\ Committing = {} =>
     EffectiveFiles = disk /\ EffectiveConv = conv /\ EffectiveCheckpoints = ckpts
  BY Plain
<1> QED
  BY <1>1, PTL

LEMMA HeldNext ==
  (\A t \in TxIds : Committing = {t} =>
      /\ EffectiveFiles = HeldFiles(manifest[t], disk)
      /\ EffectiveConv = HeldConv(manifest[t], conv)
      /\ EffectiveCheckpoints = HeldPoints(manifest[t], ckpts))'
<1>1. \A t \in TxIds : Committing = {t} =>
      /\ EffectiveFiles = HeldFiles(manifest[t], disk)
      /\ EffectiveConv = HeldConv(manifest[t], conv)
      /\ EffectiveCheckpoints = HeldPoints(manifest[t], ckpts)
  BY Held
<1> QED
  BY <1>1, PTL

--------
(* Steps that do not show. *)

\* What a step may do to the manifest m, making it p, so that it does not show
\* in the log ...
Logged(m, p) ==
    /\ p.state \in {"committed", "undone"} <=> m.state \in {"committed", "undone"}
    /\ p.state = "committed" /\ p.kind = "undo" <=> m.state = "committed" /\ m.kind = "undo"
    /\ m.state \in {"committed", "undone"} => SamePlan(m, p) /\ SameForward(m, p)

\* ... or in what is held by a transaction that is committing.
Recorded(m, p) ==
    /\ Logged(m, p)
    /\ p.state = "committing" <=> m.state = "committing"
    /\ m.state = "committing" => SamePlan(m, p) /\ SameForward(m, p)

AllLogged == \A t \in TxIds : Logged(manifest[t], manifest'[t])
AllRecorded == \A t \in TxIds : Recorded(manifest[t], manifest'[t])

LEMMA RecordedLogged == ASSUME AllRecorded PROVE AllLogged
BY DEF AllRecorded, AllLogged, Recorded

LEMMA LoggedSets ==
  ASSUME AllLogged
  PROVE  Completed' = Completed /\ (\A t : Reverted(t)' <=> Reverted(t)) /\ Undoables' = Undoables
<1>1. ASSUME NEW t \in TxIds PROVE t \in Completed' <=> t \in Completed
  <2>1. /\ manifest'[t].state \in {"committed", "undone"} <=> manifest[t].state \in {"committed", "undone"}
        /\ manifest[t].state \in {"committed", "undone"} => manifest'[t].kind = manifest[t].kind
    BY DEF AllLogged, Logged, SamePlan
  <2> QED
    BY <2>1 DEF Completed
<1>2. Completed' = Completed
  BY <1>1 DEF Completed
<1>3. ASSUME NEW t PROVE Reverted(t)' <=> Reverted(t)
  <2>1. \A u \in TxIds :
          /\ manifest'[u].state = "committed" /\ manifest'[u].kind = "undo"
                <=> manifest[u].state = "committed" /\ manifest[u].kind = "undo"
          /\ manifest[u].state = "committed" => manifest'[u].parent = manifest[u].parent
    BY DEF AllLogged, Logged, SamePlan
  <2> QED
    BY <2>1 DEF Reverted
<1>4. Undoables' = Undoables
  BY <1>2, <1>3 DEF Undoables
<1> QED
  BY <1>2, <1>3, <1>4

LEMMA RecordedSets ==
  ASSUME AllRecorded
  PROVE  Committing' = Committing /\ CommittingConv' = CommittingConv
<1>1. Committing' = Committing
  BY DEF AllRecorded, Recorded, Committing
<1>2. \A t \in Committing : SamePlan(manifest[t], manifest'[t])
  BY DEF AllRecorded, Recorded, Committing
<1> QED
  BY <1>1, <1>2 DEF CommittingConv, NeedsConversation, SamePlan

LEMMA LogSame ==
  ASSUME AllLogged
  PROVE  CompletedLog' = CompletedLog
<1>1. Completed' = Completed /\ \A t : Reverted(t)' <=> Reverted(t)
  BY LoggedSets
<1>2. ASSUME NEW t \in Completed
      PROVE  SamePlan(manifest[t], manifest'[t]) /\ SameForward(manifest[t], manifest'[t])
  BY DEF AllLogged, Logged, Completed
<1>3. ASSUME NEW t \in Completed
      PROVE  CompletedLog'[t] = CompletedLog[t]
  <2>1. Reverted(t)' <=> Reverted(t)
    BY <1>1
  <2>2. /\ manifest'[t].restore = manifest[t].restore /\ manifest'[t].forward = manifest[t].forward
        /\ manifest'[t].backup = manifest[t].backup /\ manifest'[t].hasConv = manifest[t].hasConv
        /\ manifest'[t].fwdConv = manifest[t].fwdConv
    BY <1>2 DEF SamePlan, SameForward
  <2> QED
    BY <1>1, <2>1, <2>2 DEF CompletedLog
<1> QED
  BY <1>1, <1>3 DEF CompletedLog

\* What is committing holds its files; the conversation and the checkpoints are free
\* or held.
LEMMA Hidden ==
  ASSUME Sound, AllRecorded, serial' = serial,
         \A f \in Files : (\A t \in Committing : f \notin manifest[t].targets) => disk'[f] = disk[f],
         CommittingConv = {} => conv' = conv /\ ckpts' = ckpts,
         \A t \in CommittingConv : HeldPoints(manifest[t], ckpts') = HeldPoints(manifest[t], ckpts)
  PROVE  UNCHANGED Atomic!vars
<1>1. Committing' = Committing /\ CommittingConv' = CommittingConv
  BY RecordedSets
<1>2. ASSUME NEW t \in Committing
      PROVE  SamePlan(manifest[t], manifest'[t]) /\ SameForward(manifest[t], manifest'[t])
  BY DEF AllRecorded, Recorded, Committing
<1>3. \A S \in SUBSET TxIds : S # {} => Greatest(S) \in S
  <2>1. MaxTx \in Nat /\ \A S \in SUBSET TxIds : S \in SUBSET (0 .. MaxTx)
    BY RewindAssumption DEF TxIds
  <2> QED
    BY <2>1, GreatestIsGreatest
<1>4. ASSUME NEW f \in Files PROVE EffectiveFiles'[f] = EffectiveFiles[f]
  <2>1. PICK H : H = {t \in Committing : f \in manifest[t].targets}
    OBVIOUS
  <2>2. H = {t \in Committing' : f \in manifest'[t].targets}
    BY <1>1, <1>2, <2>1 DEF SamePlan
  <2>3. CASE H = {}
    BY <2>1, <2>2, <2>3 DEF EffectiveFiles
  <2>4. CASE H # {}
    <3>1. Greatest(H) \in Committing
      BY <1>3, <2>1, <2>4 DEF Committing
    <3>2. manifest'[Greatest(H)].forward = manifest[Greatest(H)].forward
      BY <1>2, <3>1 DEF SamePlan
    <3>3. EffectiveFiles[f] = manifest[Greatest(H)].forward[f]
      BY <2>1, <2>4 DEF EffectiveFiles
    <3>4. EffectiveFiles'[f] = manifest'[Greatest(H)].forward[f]
      BY <2>2, <2>4 DEF EffectiveFiles
    <3> QED
      BY <3>2, <3>3, <3>4
  <2> QED
    BY <2>3, <2>4
<1>5. EffectiveFiles' = EffectiveFiles
  BY <1>4 DEF EffectiveFiles
<1>6. CASE CommittingConv = {}
  <2>1. EffectiveConv' = EffectiveConv /\ EffectiveCheckpoints' = EffectiveCheckpoints
    BY <1>1, <1>6 DEF EffectiveConv, EffectiveCheckpoints
  <2> QED
    BY <1>5, <2>1, RecordedLogged, LogSame DEF Atomic!vars
<1>7. CASE CommittingConv # {}
  <2> PICK g : g = Greatest(CommittingConv)
    OBVIOUS
  <2>1. g \in CommittingConv /\ g \in Committing /\ NeedsConversation(manifest[g])
    BY <1>3, <1>7 DEF CommittingConv, Committing
  <2>2. SamePlan(manifest[g], manifest'[g]) /\ SameForward(manifest[g], manifest'[g])
    BY <1>2, <2>1
  <2>3. EffectiveConv' = EffectiveConv
    BY <1>1, <1>7, <2>2 DEF EffectiveConv, SamePlan, SameForward, Cut
  <2>4. EffectiveCheckpoints = HeldPoints(manifest[g], ckpts)
    BY <1>7, <2>1 DEF EffectiveCheckpoints, HeldPoints
  <2>5. EffectiveCheckpoints' = HeldPoints(manifest[g], ckpts')
    BY <1>1, <1>7, <2>1, <2>2 DEF EffectiveCheckpoints, HeldPoints, SamePlan, Merge, Before
  <2> QED
    BY <1>5, <2>1, <2>3, <2>4, <2>5, RecordedLogged, LogSame DEF Atomic!vars
<1> QED
  BY <1>6, <1>7

\* What a manifest says was there, or in memory.
Written ==
    /\ \A t \in TxIds :
        /\ SamePlan(manifest[t], manifest'[t]) \/ SamePlan(tx, manifest'[t])
        /\ manifest'[t].state = "undone" => manifest[t].state = "undone"
        /\ manifest'[t].state = "committing" =>
              \/ manifest[t].state = "committing" /\ SamePlan(manifest[t], manifest'[t])
              \/ SamePlan(tx, manifest'[t])
    /\ pass # 0 => Manifests' = Manifests

LEMMA PlanReflexive == \A m : SamePlan(m, m) /\ SameForward(m, m)
BY DEF SamePlan, SameForward

LEMMA SameWritten ==
  ASSUME manifest' = manifest
  PROVE  AllRecorded /\ AllLogged /\ Written
BY PlanReflexive DEF AllRecorded, AllLogged, Recorded, Logged, Written, Manifests

LEMMA StoreWritten ==
  ASSUME Sound, pc \notin {"idle", "scan", "down", "markUndone"}, NEW m,
         manifest' = [manifest EXCEPT ![cur] = m], SamePlan(tx, m), m.state = tx.state,
         tx.state = "committing" => SameForward(tx, m)
  PROVE  AllRecorded /\ AllLogged /\ Written
<1>1. /\ cur \in TxIds /\ manifest[cur].state # "committed" /\ tx.state \in {"prepared", "committing"}
      /\ Types
  BY OperationFacts DEF Sound
<1>2. manifest'[cur] = m /\ \A t \in TxIds : t # cur => manifest'[t] = manifest[t]
  BY <1>1 DEF Types
<1>3. manifest[cur] = tx \/ (manifest[cur].state = "none" /\ tx.state = "prepared" /\ pass = 0)
  <2>1. ~Unsaved => manifest[cur] = tx
    BY <1>1, SessionTypes DEF Sound, Stages
  <2>2. Unsaved => pc \in Preparing /\ pc \notin Returning
    BY DEF Unsaved, Preparing, Returning
  <2>3. Unsaved => manifest[cur].state = "none" /\ tx.state = "prepared" /\ pass = 0
    BY <2>2 DEF Sound, Stages, EmptyManifest
  <2> QED
    BY <2>1, <2>3
<1>4. Recorded(manifest[cur], m)
  BY <1>1, <1>3 DEF Recorded, Logged, SamePlan
<1>5. AllRecorded
  BY <1>2, <1>4, PlanReflexive DEF AllRecorded, Recorded, Logged
<1>6. pass # 0 => Manifests' = Manifests
  BY <1>1, <1>2, <1>3 DEF Manifests
<1>7. Written
  BY <1>1, <1>2, <1>6, PlanReflexive DEF Written
<1> QED
  BY <1>5, <1>7, RecordedLogged

\* The stretch of m belongs to its plan.
LEMMA StretchSame ==
  ASSUME NEW m, NEW p, SamePlan(m, p), Stretch(m)
  PROVE  Stretch(p)
BY DEF Stretch, SamePlan, NeedsConversation

LEMMA CoversSame ==
  ASSUME NEW m, NEW p, SamePlan(m, p), Covers(m), ckpts' = ckpts, turn' = turn
  PROVE  Covers(p)'
BY DEF Covers, SamePlan, NeedsConversation

LEMMA EmptyStretch == Stretch(EmptyManifest) /\ Covers(EmptyManifest)
BY DEF Stretch, Covers, EmptyManifest, NeedsConversation, NoBackup

LEMMA CoveredKept ==
  ASSUME Covered, Written, ckpts' = ckpts, turn' = turn,
         SamePlan(tx, tx') \/ tx' = EmptyManifest
  PROVE  Covered'
<1>1. ASSUME NEW t \in TxIds PROVE Stretch(manifest'[t])
  BY StretchSame DEF Covered, Written
<1>2. ASSUME NEW t \in Committing' PROVE Covers(manifest[t])'
  <2> PICK p : p = manifest'[t]
    OBVIOUS
  <2>1. (t \in Committing /\ SamePlan(manifest[t], p)) \/ SamePlan(tx, p)
    BY DEF Committing, Written
  <2>2. Covers(p)'
    BY <2>1, CoversSame DEF Covered
  <2> QED
    BY <2>2 DEF Covers, NeedsConversation
<1>3. Stretch(tx') /\ Covers(tx)'
  <2>1. CASE SamePlan(tx, tx')
    <3>1. Stretch(tx')
      BY <2>1, StretchSame DEF Covered
    <3>2. Covers(tx)'
      BY <2>1 DEF Covered, Covers, SamePlan, NeedsConversation
    <3> QED
      BY <3>1, <3>2
  <2>2. CASE tx' = EmptyManifest
    <3>1. tx'.scope = {} /\ tx'.backup = NoBackup
      BY <2>2 DEF EmptyManifest, NoBackup
    <3> QED
      BY <3>1 DEF Stretch, Covers, NeedsConversation
  <2> QED
    BY <2>1, <2>2
<1> QED
  BY <1>1, <1>2, <1>3 DEF Covered, Stretch, NeedsConversation

LEMMA NewestKept ==
  ASSUME Newest, AllLogged, Written, pass' = pass, queue' = queue, lastUndo' = lastUndo, pc # "markUndone"
  PROVE  Newest'
<1>1. Undoables' = Undoables /\ \A t : Reverted(t)' <=> Reverted(t)
  BY LoggedSets
<1>2. \A t \in TxIds : manifest'[t].state = "undone" => Reverted(t)'
  BY <1>1 DEF Written, Newest
<1> QED
  BY <1>1, <1>2 DEF Newest, Written

\* A plan that fits goes on fitting while nothing shows.
LEMMA FitsStill ==
  ASSUME UNCHANGED Atomic!vars, SamePlan(tx, tx')
  PROVE  /\ RewindFits(tx) => RewindFits(tx)'
         /\ RevertFits(tx) /\ tx'.hasConv = tx.hasConv => RevertFits(tx)'
<1>1. EffectiveFiles' = EffectiveFiles /\ EffectiveCheckpoints' = EffectiveCheckpoints
  BY DEF Atomic!vars
<1>2. /\ tx'.from = tx.from /\ tx'.boundary = tx.boundary /\ tx'.scope = tx.scope
      /\ tx'.restore = tx.restore /\ tx'.backup = tx.backup
  BY DEF SamePlan
<1>3. RewindFits(tx) => RewindFits(tx)'
  BY <1>1, <1>2 DEF RewindFits, Atomic!Oldest, Atomic!Unedited, Atomic!Captured, Atomic!Captures,
     NeedsConversation, From, Atomic!Min, Atomic!Max
<1>4. RevertFits(tx) /\ tx'.hasConv = tx.hasConv => RevertFits(tx)'
  <2>1. Atomic!Captured(0)' = Atomic!Captured(0)
    BY <1>1 DEF Atomic!Captured, Atomic!Captures
  <2>2. Atomic!Oldest(0)' = Atomic!Oldest(0)
    BY <1>1 DEF Atomic!Oldest, Atomic!Captured, Atomic!Captures, Atomic!Min
  <2> QED
    BY <1>2, <2>1, <2>2, SMTT(60) DEF RevertFits, Atomic!Keep
<1> QED
  BY <1>3, <1>4

Ahead == Preparing \cup Publishing \cup Switching
Attachable == {"begin"} \cup Publishing \cup Switching

LEMMA PlannedGoesOn ==
  ASSUME Sound, Planned, UNCHANGED Atomic!vars, AllLogged, cur # NoTx, pass' = pass, SamePlan(tx, tx'),
         SameForward(tx, tx') \/ (tx.kind = "rewind" /\ tx'.hasConv = "yes"),
         pc' \in Ahead => pc \in Ahead,
         tx.kind = "rewind" /\ pc' \in Attachable => pc \in Attachable \/ tx'.hasConv = "yes"
  PROVE  Planned'
<1> SUFFICES ASSUME pass = 0, pc' \in Ahead
             PROVE  /\ tx'.kind = "rewind" => RewindFits(tx)'
                    /\ tx'.kind = "file_revert" => RevertFits(tx)'
                    /\ tx'.kind = "undo" => Mirrors(tx', manifest'[tx'.parent])
                    /\ tx'.targets = DOMAIN tx'.restore
                    /\ tx'.kind = "rewind" /\ pc' \in Attachable => tx'.hasConv = "yes"
  BY DEF Planned, Ahead, Attachable
<1>1. /\ tx.kind = "rewind" => RewindFits(tx)
      /\ tx.kind = "file_revert" => RevertFits(tx)
      /\ tx.kind = "undo" => Mirrors(tx, manifest[tx.parent])
      /\ tx.targets = DOMAIN tx.restore
      /\ tx.kind = "rewind" /\ pc \in Attachable => tx.hasConv = "yes"
  BY DEF Planned, Ahead, Attachable
<1>2. tx'.kind = tx.kind /\ tx'.parent = tx.parent /\ tx'.targets = tx.targets /\ tx'.restore = tx.restore
  BY DEF SamePlan
<1>3. tx.kind = "rewind" => RewindFits(tx)'
  BY <1>1, FitsStill
<1>4. tx.kind = "file_revert" => RevertFits(tx)'
  BY <1>1, FitsStill DEF SameForward
<1>5. ASSUME tx.kind = "undo" PROVE Mirrors(tx', manifest'[tx'.parent])
  <2>1. tx.parent \in TxIds /\ lastUndo = tx.parent /\ tx.parent # NoTx
    BY <1>5, SessionTypes DEF Sound, Ledger
  <2>2. manifest[tx.parent].state = "committed"
    BY <2>1 DEF Sound, Offers
  <2> PICK m, p : m = manifest[tx.parent] /\ p = manifest'[tx.parent]
    OBVIOUS
  <2>3. SamePlan(m, p) /\ SameForward(m, p)
    BY <2>1, <2>2 DEF AllLogged, Logged
  <2>4. SameForward(tx, tx')
    BY <1>5
  <2>5. Mirrors(tx, m)
    BY <1>1, <1>5
  <2>6. Mirrors(tx', p)
    BY <2>3, <2>4, <2>5 DEF Mirrors, SamePlan, SameForward
  <2> QED
    BY <1>2, <2>6
<1>6. tx.kind = "rewind" /\ pc' \in Attachable => tx'.hasConv = "yes"
  BY <1>1 DEF SameForward
<1> QED
  BY <1>1, <1>2, <1>3, <1>4, <1>5, <1>6

\* The operation goes on and the checkpoints stay.
LEMMA GoLined ==
  ASSUME Sound, Lined, UNCHANGED Atomic!vars, AllLogged, Written, cur # NoTx, pc # "markUndone",
         pass' = pass, queue' = queue, lastUndo' = lastUndo, ckpts' = ckpts, turn' = turn, edited' = edited,
         SamePlan(tx, tx'), SameForward(tx, tx') \/ (tx.kind = "rewind" /\ tx'.hasConv = "yes"),
         pc' \in Ahead => pc \in Ahead,
         tx.kind = "rewind" /\ pc' \in Attachable => pc \in Attachable \/ tx'.hasConv = "yes",
         StretchPhase', Kept', Bare'
  PROVE  Lined'
BY PlannedGoesOn, CoveredKept, NewestKept DEF Lined, Numbered

\* The operation returns.
LEMMA ReturnLined ==
  ASSUME Sound, Lined, UNCHANGED Atomic!vars, AllLogged, Written, pc # "markUndone",
         pass' = pass, queue' = queue, lastUndo' = lastUndo, ckpts' = ckpts, turn' = turn, edited' = edited,
         Return
  PROVE  Lined'
<1>1. tx' = EmptyManifest /\ pc' \in {"idle", "scan"} /\ failed' = {}
  BY DEF Return
<1>2. tx'.scope = {} /\ tx'.hasConv = "no" /\ tx'.state = "none"
  BY <1>1 DEF EmptyManifest
<1>3. StretchPhase' /\ Kept' /\ Bare'
  BY <1>1, <1>2 DEF StretchPhase, Kept, Bare, NeedsConversation
<1>4. Planned'
  BY <1>1 DEF Planned, Preparing, Publishing, Switching
<1> QED
  BY <1>1, <1>3, <1>4, CoveredKept, NewestKept DEF Lined, Numbered

--------
(* Preparing and publishing. *)

LEMMA QuietHidden ==
  ASSUME Sound, AllRecorded, serial' = serial, disk' = disk, conv' = conv, ckpts' = ckpts
  PROVE  UNCHANGED Atomic!vars
<1>1. \A t \in CommittingConv : HeldPoints(manifest[t], ckpts') = HeldPoints(manifest[t], ckpts)
  OBVIOUS
<1> QED
  BY <1>1, Hidden

\* What these steps leave alone.
Elsewhere ==
    /\ serial' = serial /\ conv' = conv /\ ckpts' = ckpts /\ turn' = turn /\ edited' = edited
    /\ pass' = pass /\ queue' = queue /\ lastUndo' = lastUndo

LEMMA AheadLined ==
  ASSUME Sound, Lined, pc \in Preparing \cup Publishing, Elsewhere, UNCHANGED Atomic!vars,
         AllLogged, Written, cur' = cur, failed' = failed, SamePlan(tx, tx'),
         SameForward(tx, tx') \/ (tx.kind = "rewind" /\ tx'.hasConv = "yes" /\ tx'.fwdConv = conv),
         tx'.state = "prepared" => tx.state = "prepared" /\ tx'.published = tx.published,
         tx.kind = "rewind" /\ pc' \in Attachable => pc \in Attachable \/ tx'.hasConv = "yes",
         pc' \notin {"backConv", "backCkpts", "backDone", "reinstate"}, pc' = "finish" => tx.kind # "undo"
  PROVE  Lined'
<1>1. cur # NoTx /\ pass = 0 /\ pc # "markUndone"
  BY HasTransaction DEF Sound, Stages, Preparing, Publishing, Returning
<1>2. NeedsConversation(tx)' <=> NeedsConversation(tx)
  BY DEF NeedsConversation, SamePlan
<1>3. StretchPhase'
  BY <1>2 DEF Lined, StretchPhase, Present, SamePlan, Elsewhere
<1>4. Kept'
  BY <1>1, <1>2 DEF Lined, Kept, SameForward, Elsewhere
<1>5. Bare'
  BY DEF Lined, Bare
<1> QED
  BY <1>1, <1>3, <1>4, <1>5, GoLined DEF Elsewhere, Ahead

LEMMA StageTempsLined ==
  ASSUME Sound, Lined, StageTemps
  PROVE  Lined' /\ UNCHANGED Atomic!vars
<1>1. pc = "stage" /\ manifest' = manifest /\ disk' = disk /\ Elsewhere
  BY DEF StageTemps, Elsewhere, sessionVars, recoveryVars, boundVars
<1>2. AllRecorded /\ AllLogged /\ Written /\ UNCHANGED Atomic!vars
  BY <1>1, SameWritten, QuietHidden DEF Elsewhere
<1>3. CASE opVars' = opVars /\ pc' \in {"prepareAgain", "prepare", "settle"} /\ (pc' # "prepare" => tx.kind = "undo")
  BY <1>1, <1>2, <1>3, AheadLined, PlanReflexive DEF opVars, Preparing, Publishing, Attachable, Switching
<1>4. CASE Return
  BY <1>1, <1>2, <1>4, ReturnLined DEF Elsewhere
<1> QED
  BY <1>2, <1>3, <1>4 DEF StageTemps

LEMMA PersistPreparedLined ==
  ASSUME Sound, Lined, PersistPrepared
  PROVE  Lined' /\ UNCHANGED Atomic!vars
<1>1. pc = "prepare" /\ disk' = disk /\ Elsewhere
  BY DEF PersistPrepared, Elsewhere, sessionVars, recoveryVars, boundVars
<1>2. CASE /\ manifest' = [manifest EXCEPT ![cur] = tx] /\ tx' = tx /\ cur' = cur /\ failed' = failed
           /\ pc' = CASE tx.kind = "rewind" -> "attach"
                      [] tx.kind = "undo" -> "stage"
                      [] tx.kind = "file_revert" -> "begin"
  <2>1. tx.kind \in {"rewind", "undo", "file_revert"}
    BY DEF Sound, Types, IsManifest
  <2>2. \/ pc' = "attach" /\ tx.kind = "rewind"
        \/ pc' = "stage" /\ tx.kind = "undo"
        \/ pc' = "begin" /\ tx.kind = "file_revert"
    BY <1>2, <2>1
  <2>3. AllRecorded /\ AllLogged /\ Written /\ UNCHANGED Atomic!vars
    BY <1>1, <1>2, StoreWritten, PlanReflexive, QuietHidden DEF Elsewhere
  <2> QED
    BY <1>1, <1>2, <2>2, <2>3, PlanReflexive, AheadLined DEF Preparing, Publishing, Attachable, Switching
<1>3. CASE manifest' = manifest /\ Return
  BY <1>1, <1>3, SameWritten, QuietHidden, ReturnLined DEF Elsewhere
<1> QED
  BY <1>2, <1>3 DEF PersistPrepared, Persist, Store

LEMMA AttachForwardLined ==
  ASSUME Sound, Whole, Lined, AttachForward
  PROVE  Lined' /\ UNCHANGED Atomic!vars
<1>1. pc = "attach" /\ disk' = disk /\ Elsewhere
  BY DEF AttachForward, Elsewhere, diskVars, sessionVars, recoveryVars, boundVars
<1>2. CASE Persist(WithForward(tx, conv)) /\ pc' = "begin" /\ cur' = cur /\ failed' = failed
  <2> PICK p : p = WithForward(tx, conv)
    OBVIOUS
  <2>1. tx.state = "prepared" /\ tx.kind = "rewind" /\ conv \in Chats(serial) /\ IsManifest(tx, serial)
    BY <1>1 DEF Sound, Stages, Preparing, Types, Whole, ChatPhase
  <2>2. /\ p.hasConv = "yes" /\ p.fwdConv = conv /\ p.state = tx.state /\ p.published = tx.published
        /\ SamePlan(tx, p)
    BY <2>1, ForwardView
  <2>3. manifest' = [manifest EXCEPT ![cur] = p] /\ tx' = p
    BY <1>2 DEF Persist, Store
  <2>4. AllRecorded /\ AllLogged /\ Written
    BY <1>1, <2>1, <2>2, <2>3, StoreWritten
  <2>5. UNCHANGED Atomic!vars
    BY <1>1, <2>4, QuietHidden DEF Elsewhere
  <2> QED
    BY <1>1, <1>2, <2>1, <2>2, <2>3, <2>4, <2>5, AheadLined DEF Preparing, Publishing
<1>3. CASE manifest' = manifest /\ Return
  BY <1>1, <1>3, SameWritten, QuietHidden, ReturnLined DEF Elsewhere
<1> QED
  BY <1>2, <1>3 DEF AttachForward

\* Compensation begins.
LEMMA PersistUndoAgainLined ==
  ASSUME Sound, Lined, PersistUndoAgain
  PROVE  Lined' /\ UNCHANGED Atomic!vars
<1>1. /\ pc = "prepareAgain" /\ disk' = disk /\ Elsewhere /\ tx' = tx /\ cur' = cur /\ failed' = failed
      /\ pc' \in {"begin", "compensate"}
      /\ manifest' = manifest \/ manifest' = [manifest EXCEPT ![cur] = tx]
  BY DEF PersistUndoAgain, Elsewhere, diskVars, sessionVars, recoveryVars, boundVars, Persist, Store, Compensate
<1>2. AllRecorded /\ AllLogged /\ Written
  BY <1>1, SameWritten, StoreWritten, PlanReflexive
<1>3. UNCHANGED Atomic!vars
  BY <1>1, <1>2, QuietHidden DEF Elsewhere
<1>4. tx.kind = "undo"
  BY <1>1 DEF Sound, Stages
<1> QED
  BY <1>1, <1>2, <1>3, <1>4, PlanReflexive, AheadLined DEF Preparing, Publishing

LEMMA PublishIntentLined ==
  ASSUME Sound, Lined, PublishIntent
  PROVE  Lined' /\ UNCHANGED Atomic!vars
<1>1. /\ pc = "intent" /\ todo # {} /\ disk' = disk /\ Elsewhere /\ cur' = cur /\ failed' = failed
      /\ pc' \in {"backup", "compensate"} /\ tx.state = "committing"
  BY DEF PublishIntent, Elsewhere, diskVars, sessionVars, recoveryVars, boundVars, Compensate, Sound, Stages,
     Publishing
<1>2. IsManifest(tx, serial) /\ todo \subseteq tx.targets
  BY DEF Sound, Types
<1>3. CASE Persist([tx EXCEPT !.published = @ \cup {Least(todo)}])
  <2> PICK S : S = tx.published \cup {Least(todo)}
    OBVIOUS
  <2>1. PICK p : p = SetPublished(tx, S)
    OBVIOUS
  <2>2. S \subseteq tx.targets
    BY <1>1, <1>2, NextFile DEF IsManifest
  <2>3. SamePlan(tx, p) /\ SameForward(tx, p) /\ p.state = tx.state
    BY <1>2, <2>1, <2>2, PublishedView
  <2>4. manifest' = [manifest EXCEPT ![cur] = p] /\ tx' = p
    BY <1>3, <2>1 DEF Persist, Store, SetPublished
  <2>5. AllRecorded /\ AllLogged /\ Written
    BY <1>1, <2>3, <2>4, StoreWritten
  <2>6. UNCHANGED Atomic!vars
    BY <1>1, <2>5, QuietHidden DEF Elsewhere
  <2> QED
    BY <1>1, <2>3, <2>4, <2>5, <2>6, AheadLined DEF Publishing, Attachable
<1>4. CASE tx' = tx /\ manifest' = manifest
  <2>1. AllRecorded /\ AllLogged /\ Written /\ UNCHANGED Atomic!vars
    BY <1>1, <1>4, SameWritten, QuietHidden DEF Elsewhere
  <2> QED
    BY <1>1, <1>4, <2>1, PlanReflexive, AheadLined DEF Publishing, Attachable
<1> QED
  BY <1>3, <1>4 DEF PublishIntent

LEMMA PersistProgressLined ==
  ASSUME Sound, Lined, PersistProgress
  PROVE  Lined' /\ UNCHANGED Atomic!vars
<1>1. /\ pc = "progress" /\ disk' = disk /\ Elsewhere /\ tx' = tx /\ cur' = cur /\ failed' = failed
      /\ pc' \in {"intent", "compensate"}
      /\ manifest' = manifest \/ manifest' = [manifest EXCEPT ![cur] = tx]
  BY DEF PersistProgress, Elsewhere, diskVars, sessionVars, recoveryVars, boundVars, Persist, Store, Compensate
<1>2. AllRecorded /\ AllLogged /\ Written
  BY <1>1, SameWritten, StoreWritten, PlanReflexive
<1>3. UNCHANGED Atomic!vars
  BY <1>1, <1>2, QuietHidden DEF Elsewhere
<1> QED
  BY <1>1, <1>2, <1>3, PlanReflexive, AheadLined DEF Publishing, Attachable

LEMMA FilesDoneLined ==
  ASSUME Sound, Lined, FilesDone
  PROVE  Lined' /\ UNCHANGED Atomic!vars
<1>1. /\ pc = "intent" /\ disk' = disk /\ Elsewhere /\ tx' = tx /\ cur' = cur /\ failed' = failed
      /\ pc' \in {"restoreConv", "cutConv", "finish", "compensate"} /\ (pc' = "finish" => tx.kind # "undo")
      /\ manifest' = manifest \/ manifest' = [manifest EXCEPT ![cur] = tx]
  BY DEF FilesDone, Elsewhere, diskVars, sessionVars, recoveryVars, boundVars, Persist, Store, Compensate
<1>2. AllRecorded /\ AllLogged /\ Written
  BY <1>1, SameWritten, StoreWritten, PlanReflexive
<1>3. UNCHANGED Atomic!vars
  BY <1>1, <1>2, QuietHidden DEF Elsewhere
<1> QED
  BY <1>1, <1>2, <1>3, PlanReflexive, AheadLined DEF Publishing, Attachable

\* A committing transaction moves its targets.
LEMMA FilesHidden ==
  ASSUME Sound, cur \in Committing, manifest[cur] = tx, manifest' = manifest,
         serial' = serial, conv' = conv, ckpts' = ckpts,
         \A f \in Files : f \notin tx.targets => disk'[f] = disk[f]
  PROVE  UNCHANGED Atomic!vars /\ AllRecorded /\ AllLogged /\ Written
<1>1. AllRecorded /\ AllLogged /\ Written
  BY SameWritten
<1>2. \A t \in CommittingConv : HeldPoints(manifest[t], ckpts') = HeldPoints(manifest[t], ckpts)
  OBVIOUS
<1>3. \A f \in Files : (\A t \in Committing : f \notin manifest[t].targets) => disk'[f] = disk[f]
  OBVIOUS
<1> QED
  BY <1>1, <1>2, <1>3, Hidden

LEMMA MoveLined ==
  ASSUME Sound, Lined, BackUpTarget \/ InstallTarget
  PROVE  Lined' /\ UNCHANGED Atomic!vars
<1> PICK g : g = Least(todo)
  OBVIOUS
<1>1. /\ pc \in {"backup", "install"} /\ Elsewhere /\ tx' = tx /\ cur' = cur /\ failed' = failed /\ manifest' = manifest
      /\ pc' \in {"install", "progress", "compensate"}
      /\ disk' = disk \/ \E i : disk' = [disk EXCEPT ![g] = i]
  BY DEF BackUpTarget, InstallTarget, Elsewhere, diskVars, sessionVars, recoveryVars, boundVars, Compensate, Put
<1>2. /\ cur \in TxIds /\ manifest[cur] = tx /\ tx.state = "committing" /\ IsManifest(tx, serial)
      /\ todo \subseteq tx.targets /\ disk \in [Files -> Images]
  BY <1>1, PublishingFacts DEF Sound, Types, Publishing
<1>3. \A f \in Files : f \notin tx.targets => disk'[f] = disk[f]
  <2>1. pc = "backup" \/ pc = "install" => todo # {}
    BY DEF Sound, Stages
  <2>2. g \in tx.targets
    BY <1>1, <1>2, <2>1, NextFile DEF IsManifest
  <2> QED
    BY <1>1, <1>2, <2>2
<1>4. UNCHANGED Atomic!vars /\ AllRecorded /\ AllLogged /\ Written
  BY <1>1, <1>2, <1>3, FilesHidden DEF Elsewhere, Committing
<1> QED
  BY <1>1, <1>4, PlanReflexive, AheadLined DEF Publishing, Attachable

\* Where m begins, what it holds is what is there.
LEMMA HeldIsPlain ==
  ASSUME Types, NEW m, IsManifest(m, serial), \A f \in m.targets : disk[f] = m.forward[f],
         NeedsConversation(m) => Start(m),
         NeedsConversation(m) /\ m.kind # "undo" => DOMAIN m.backup \subseteq DOMAIN ckpts
  PROVE  HeldFiles(m, disk) = disk /\ HeldConv(m, conv) = conv /\ HeldPoints(m, ckpts) = ckpts
<1>1. HeldFiles(m, disk) = disk
  BY DEF HeldFiles, Types
<1>2. HeldConv(m, conv) = conv
  BY DEF HeldConv, Start, ConversationBack, ConversationForward
<1>3. HeldPoints(m, ckpts) = ckpts
  <2>1. ckpts = [t \in DOMAIN ckpts |-> ckpts[t]] /\ \A t \in DOMAIN ckpts : t \in Nat
    BY SessionTypes DEF Types, PointMaps
  <2>2. CASE ~NeedsConversation(m)
    BY <2>2 DEF HeldPoints
  <2>3. CASE NeedsConversation(m) /\ m.kind = "undo"
    <3>1. \A t \in DOMAIN ckpts : t < m.from
      BY <2>3 DEF Start, ConversationBack
    <3>2. {u \in DOMAIN ckpts : u < m.from} = DOMAIN ckpts
      BY <3>1
    <3> QED
      BY <2>1, <2>3, <3>2 DEF HeldPoints, Before
  <2>4. CASE NeedsConversation(m) /\ m.kind # "undo"
    <3>1. DOMAIN ckpts \cup DOMAIN m.backup = DOMAIN ckpts
      BY <2>4
    <3>2. \A t \in DOMAIN m.backup : ckpts[t] = m.backup[t]
      BY <2>4 DEF Start, ConversationForward
    <3> QED
      BY <2>1, <2>4, <3>1, <3>2 DEF HeldPoints, Merge
  <2> QED
    BY <2>2, <2>3, <2>4
<1> QED
  BY <1>1, <1>2, <1>3

\* Becoming committing does not show either, since nothing was moved yet.
LEMMA BeginCommitLined ==
  ASSUME Sound, Sound', Whole, Lined, BeginCommit
  PROVE  Lined' /\ UNCHANGED Atomic!vars
<1> PICK c : c = cur
  OBVIOUS
<1>1. /\ pc = "begin" /\ disk' = disk /\ Elsewhere /\ cur' = cur /\ failed' = failed
      /\ pc' \in {"intent", "compensate"} /\ tx.state = "prepared" /\ tx.published = {}
  BY DEF BeginCommit, Elsewhere, diskVars, sessionVars, recoveryVars, boundVars, Compensate, Sound, Stages,
     Preparing
<1>2. /\ cur \in TxIds /\ cur # NoTx /\ manifest[cur] = tx /\ IsManifest(tx, serial) /\ Types
      /\ Pending(cur, tx) /\ edited = {}
  BY <1>1, HasTransaction DEF Sound, Stages, Types, Whole, Pendings, Unsaved, Lined
<1>3. CASE tx' = tx /\ manifest' = manifest
  <2>1. AllLogged /\ Written /\ UNCHANGED Atomic!vars
    BY <1>1, <1>3, SameWritten, QuietHidden DEF Elsewhere
  <2> QED
    BY <1>1, <1>3, <2>1, PlanReflexive, AheadLined DEF Preparing, Attachable
<1>4. CASE Persist(InState("committing"))
  <2>1. PICK p : p = SetState(tx, "committing")
    OBVIOUS
  <2>2. /\ p.state = "committing" /\ SamePlan(tx, p) /\ SameForward(tx, p) /\ IsManifest(p, serial)
    BY <1>2, <2>1, StateView DEF States
  <2>3. manifest' = [manifest EXCEPT ![c] = p] /\ tx' = p
    BY <1>4, <2>1 DEF Persist, Store, InState, SetState
  <2>4. manifest'[c] = p /\ \A t \in TxIds : t # c => manifest'[t] = manifest[t]
    BY <1>2, <2>3 DEF Types
  <2>5. AllLogged
    BY <1>1, <1>2, <2>2, <2>4, PlanReflexive DEF AllLogged, Logged
  <2>6. Written
    <3>1. pass = 0
      BY <1>1 DEF Sound, Stages, Returning
    <3> QED
      BY <1>2, <2>2, <2>4, <3>1, PlanReflexive DEF Written
  <2>7. Committing = {} /\ Committing' = {c}
    BY <1>1, <1>2, <2>2, <2>4 DEF Whole, Alone, Committing
  <2>8. \A f \in p.targets : disk[f] = p.forward[f]
    BY <1>1, <1>2, <2>2 DEF Pending, FilesFit, SamePlan
  <2>9. NeedsConversation(p) => Start(p)
    <3>1. NeedsConversation(tx) => Start(tx)
      BY <1>1 DEF Whole, ChatPhase
    <3> QED
      BY <2>2, <3>1, StartSame
  <2>10. NeedsConversation(p) /\ p.kind # "undo" => DOMAIN p.backup \subseteq DOMAIN ckpts
    BY <1>1, <2>2 DEF Lined, StretchPhase, Present, Preparing, NeedsConversation, SamePlan
  <2>11. HeldFiles(p, disk) = disk /\ HeldConv(p, conv) = conv /\ HeldPoints(p, ckpts) = ckpts
    BY <1>2, <2>2, <2>8, <2>9, <2>10, HeldIsPlain
  <2>12. EffectiveFiles = disk /\ EffectiveConv = conv /\ EffectiveCheckpoints = ckpts
    BY <2>7, Plain
  <2>13. /\ EffectiveFiles' = HeldFiles(p, disk') /\ EffectiveConv' = HeldConv(p, conv')
         /\ EffectiveCheckpoints' = HeldPoints(p, ckpts')
    <3>1. EffectiveFiles' = HeldFiles(p, disk')
      BY <1>2, <2>4, <2>7, HeldNext DEF HeldFiles
    <3>2. EffectiveConv' = HeldConv(p, conv')
      BY <1>2, <2>4, <2>7, HeldNext DEF HeldConv, NeedsConversation, Cut
    <3>3. EffectiveCheckpoints' = HeldPoints(p, ckpts')
      BY <1>2, <2>4, <2>7, HeldNext DEF HeldPoints, NeedsConversation, Merge, Before
    <3> QED
      BY <3>1, <3>2, <3>3
  <2>14. UNCHANGED Atomic!vars
    BY <1>1, <2>5, <2>11, <2>12, <2>13, LogSame DEF Atomic!vars, Elsewhere
  <2> QED
    BY <1>1, <1>4, <2>2, <2>3, <2>5, <2>6, <2>14, AheadLined DEF Preparing, Attachable
<1> QED
  BY <1>3, <1>4 DEF BeginCommit

--------
(* The conversation and the checkpoints move. *)

\* A committing transaction that holds them may move them.
LEMMA SessionHidden ==
  ASSUME Sound, Whole, cur \in Committing, manifest[cur] = tx, manifest' = manifest,
         disk' = disk, serial' = serial,
         ~NeedsConversation(tx) => conv' = conv /\ ckpts' = ckpts,
         NeedsConversation(tx) => HeldPoints(tx, ckpts') = HeldPoints(tx, ckpts)
  PROVE  UNCHANGED Atomic!vars /\ AllRecorded /\ AllLogged /\ Written
<1>1. AllRecorded /\ AllLogged /\ Written
  BY SameWritten
<1>2. Committing = {cur} /\ cur # NoTx
  BY SessionTypes DEF Whole, Alone, Committing, Sound
<1>3. CommittingConv = IF NeedsConversation(tx) THEN {cur} ELSE {}
  BY <1>2 DEF CommittingConv
<1>4. UNCHANGED Atomic!vars
  BY <1>1, <1>2, <1>3, Hidden
<1> QED
  BY <1>1, <1>4

LEMMA CutPoints ==
  ASSUME Types, IsManifest(tx, serial), Numbered, Stretch(tx), Covers(tx), NeedsConversation(tx), tx' = tx,
         ckpts' = Before(ckpts, tx.from), turn' = tx.from
  PROVE  Numbered' /\ Covers(tx)' /\ HeldPoints(tx, ckpts') = HeldPoints(tx, ckpts)
<1> PICK k, b : k = tx.from /\ b = tx.backup
  OBVIOUS
<1>1. /\ k \in Nat /\ turn \in Nat /\ k <= turn /\ \A t \in DOMAIN ckpts : t \in Nat
      /\ \A t \in DOMAIN ckpts : t >= k => t \in DOMAIN b /\ ckpts[t] = b[t]
  BY SessionTypes DEF Types, IsManifest, Covers
<1>2. DOMAIN ckpts' = {t \in DOMAIN ckpts : t < k} /\ \A t \in DOMAIN ckpts' : ckpts'[t] = ckpts[t]
  BY DEF Before
<1>3. Numbered'
  <2>1. DOMAIN ckpts = {t \in 0 .. turn : t # turn}
    BY DEF Numbered
  <2>2. DOMAIN ckpts' = {t \in 0 .. k : t # k}
    BY <1>1, <1>2, <2>1
  <2> QED
    BY <2>2 DEF Numbered
<1>4. Covers(tx)'
  BY <1>1, <1>2 DEF Covers
<1>5. Before(ckpts', k) = Before(ckpts, k)
  BY <1>2 DEF Before
<1>6. Merge(ckpts', b) = Merge(ckpts, b)
  <2>1. DOMAIN ckpts' \cup DOMAIN b = DOMAIN ckpts \cup DOMAIN b
    BY <1>1, <1>2
  <2> QED
    BY <1>2, <2>1 DEF Merge
<1> QED
  BY <1>3, <1>4, <1>5, <1>6 DEF HeldPoints

LEMMA MergePoints ==
  ASSUME Types, IsManifest(tx, serial), Numbered, Stretch(tx), Covers(tx), NeedsConversation(tx), tx' = tx,
         ckpts' = Merge(ckpts, tx.backup), turn' = NextTurn(ckpts')
  PROVE  Numbered' /\ Covers(tx)' /\ HeldPoints(tx, ckpts') = HeldPoints(tx, ckpts) /\ Present'
<1> PICK k, b : k = tx.from /\ b = tx.backup
  OBVIOUS
<1>1. /\ k \in Nat /\ turn \in Nat /\ serial \in Nat /\ k <= turn /\ b \in PointMaps(serial)
      /\ \A t \in DOMAIN ckpts : t >= k => t \in DOMAIN b /\ ckpts[t] = b[t]
      /\ k \in DOMAIN b /\ \A t \in DOMAIN b : t >= k /\ \A u \in k .. t : u \in DOMAIN b
  BY SessionTypes DEF Types, IsManifest, Covers, Stretch
<1>2. /\ \A t \in DOMAIN ckpts : t \in Nat /\ t < serial
      /\ \A t \in DOMAIN b : t \in Nat /\ t < serial
  BY <1>1, PointFacts DEF Types
<1> PICK D : D = DOMAIN ckpts \cup DOMAIN b
  OBVIOUS
<1>3. /\ DOMAIN ckpts' = D
      /\ \A t \in D : ckpts'[t] = IF t \in DOMAIN b THEN b[t] ELSE ckpts[t]
  BY DEF Merge
<1> PICK g : g = Greatest(D)
  OBVIOUS
<1>4. g \in D /\ \A t \in D : t <= g
  <2>1. D \in SUBSET (0 .. serial) /\ D # {}
    BY <1>1, <1>2
  <2> QED
    BY <1>1, <2>1, GreatestIsGreatest
<1>5. g \in Nat /\ turn' = g + 1
  BY <1>1, <1>2, <1>3, <1>4 DEF NextTurn
<1>6. DOMAIN ckpts = {t \in 0 .. turn : t # turn}
  BY DEF Numbered
<1>7. Numbered'
  <2>1. ASSUME NEW t \in 0 .. g PROVE t \in D
    <3>1. CASE g \in DOMAIN ckpts
      BY <1>1, <1>5, <1>6, <3>1
    <3>2. CASE g \in DOMAIN b /\ t >= k
      BY <1>1, <1>5, <3>2
    <3>3. CASE t < k
      BY <1>1, <1>5, <1>6, <3>3
    <3> QED
      BY <1>1, <1>4, <1>5, <3>1, <3>2, <3>3
  <2>2. D = 0 .. g
    BY <1>2, <1>4, <1>5, <2>1
  <2>3. 0 .. g = {t \in 0 .. (g + 1) : t # g + 1}
    BY <1>5
  <2> QED
    BY <1>3, <1>5, <2>2, <2>3 DEF Numbered
<1>8. Covers(tx)'
  <2>1. k <= turn'
    BY <1>1, <1>4, <1>5
  <2>2. \A t \in DOMAIN ckpts' : t >= k => t \in DOMAIN b /\ ckpts'[t] = b[t]
    BY <1>1, <1>3
  <2> QED
    BY <2>1, <2>2 DEF Covers
<1>9. Before(ckpts', k) = Before(ckpts, k)
  <2>1. {u \in D : u < k} = {u \in DOMAIN ckpts : u < k}
    BY <1>1, <1>2
  <2>2. \A u \in D : u < k => ckpts'[u] = ckpts[u]
    BY <1>1, <1>2, <1>3
  <2> QED
    BY <1>3, <2>1, <2>2 DEF Before
<1>10. Merge(ckpts', b) = Merge(ckpts, b)
  BY <1>3 DEF Merge
<1>11. Present'
  BY <1>3 DEF Present
<1> QED
  BY <1>7, <1>8, <1>9, <1>10, <1>11 DEF HeldPoints

\* The running transaction, which is committing, moves them.
LEMMA SessionLined ==
  ASSUME Sound, Whole, Lined, pc \in Switching \cup Returning, tx.state = "committing", UNCHANGED Atomic!vars,
         cur' = cur, tx' = tx, manifest' = manifest, pass' = pass, queue' = queue, lastUndo' = lastUndo,
         edited' = edited, Numbered', Covers(tx)',
         pc' \in Ahead => pc \in Ahead, pc' \in Attachable => pc \in Attachable,
         StretchPhase', Kept', Bare'
  PROVE  Lined'
<1>1. cur \in TxIds /\ cur # NoTx /\ pc # "markUndone"
  BY HasTransaction DEF Switching, Returning
<1>2. AllLogged /\ Written
  BY SameWritten
<1>3. Newest'
  BY <1>1, <1>2, NewestKept DEF Lined
<1>4. Planned'
  BY <1>1, <1>2, PlanReflexive, PlannedGoesOn DEF Lined
<1>5. manifest[cur] = tx
  <2>1. ~Unsaved
    BY DEF Unsaved, Switching, Returning
  <2> QED
    BY <1>1, <2>1 DEF Sound, Stages
<1>6. Committing' = Committing /\ \A t \in Committing : t = cur
  BY <1>1 DEF Whole, Alone, Committing
<1>7. Covered'
  <2>1. \A t \in TxIds : Stretch(manifest[t])'
    BY DEF Lined, Covered, Stretch, NeedsConversation
  <2>2. ASSUME NEW t \in Committing' PROVE Covers(manifest[t])'
    BY <1>5, <1>6 DEF Covers, NeedsConversation
  <2>3. Stretch(tx)'
    BY DEF Lined, Covered, Stretch, NeedsConversation
  <2> QED
    BY <2>1, <2>2, <2>3 DEF Covered, Stretch, NeedsConversation
<1> QED
  BY <1>3, <1>4, <1>7 DEF Lined

LEMMA CutConversationLined ==
  ASSUME Sound, Whole, Lined, CutConversation
  PROVE  Lined' /\ UNCHANGED Atomic!vars
<1>1. /\ pc = "cutConv" /\ pc' \in {"cutCkpts", "backConv"} /\ disk' = disk /\ serial' = serial
      /\ manifest' = manifest /\ ckpts' = ckpts /\ turn' = turn /\ pass' = pass /\ queue' = queue
      /\ lastUndo' = lastUndo /\ edited' = edited /\ cur' = cur /\ tx' = tx /\ failed' = failed
  BY DEF CutConversation, diskVars, opVars, recoveryVars, boundVars
<1>2. /\ cur \in TxIds /\ manifest[cur] = tx /\ tx.state = "committing" /\ pass = 0
      /\ NeedsConversation(tx) /\ tx.kind # "undo"
  BY <1>1, SwitchFacts DEF Whole, ChatPhase, Switching
<1>3. UNCHANGED Atomic!vars
  BY <1>1, <1>2, SessionHidden DEF Committing
<1>4. Numbered' /\ Covers(tx)'
  BY <1>1 DEF Lined, Covered, Numbered, Covers, NeedsConversation
<1>5. StretchPhase' /\ Kept' /\ Bare'
  BY <1>1, <1>2 DEF Lined, StretchPhase, Kept, Bare, Present, NeedsConversation, Preparing, Publishing
<1> QED
  BY <1>1, <1>2, <1>3, <1>4, <1>5, SessionLined DEF Switching, Ahead, Attachable

LEMMA CutCheckpointsLined ==
  ASSUME Sound, Whole, Lined, CutCheckpoints
  PROVE  Lined' /\ UNCHANGED Atomic!vars
<1>1. /\ pc = "cutCkpts" /\ pc' \in {"finish", "backConv"} /\ disk' = disk /\ serial' = serial
      /\ manifest' = manifest /\ conv' = conv /\ pass' = pass /\ queue' = queue
      /\ lastUndo' = lastUndo /\ edited' = edited /\ cur' = cur /\ tx' = tx /\ failed' = failed
      /\ (ckpts' = ckpts /\ turn' = turn) \/ (ckpts' = Before(ckpts, tx.from) /\ turn' = tx.from)
  BY DEF CutCheckpoints, diskVars, opVars, recoveryVars, boundVars
<1>2. /\ cur \in TxIds /\ manifest[cur] = tx /\ tx.state = "committing" /\ pass = 0
      /\ NeedsConversation(tx) /\ tx.kind # "undo" /\ Types /\ IsManifest(tx, serial)
  BY <1>1, SwitchFacts DEF Whole, ChatPhase, Switching
<1>3. Numbered' /\ Covers(tx)' /\ HeldPoints(tx, ckpts') = HeldPoints(tx, ckpts)
  <2>1. CASE ckpts' = ckpts /\ turn' = turn
    BY <1>1, <2>1 DEF Lined, Covered, Numbered, Covers, NeedsConversation
  <2>2. CASE ckpts' = Before(ckpts, tx.from) /\ turn' = tx.from
    BY <1>1, <1>2, <2>2, CutPoints DEF Lined, Covered
  <2> QED
    BY <1>1, <2>1, <2>2
<1>4. UNCHANGED Atomic!vars
  BY <1>1, <1>2, <1>3, SessionHidden DEF Committing
<1>5. StretchPhase' /\ Kept' /\ Bare'
  BY <1>1, <1>2 DEF Lined, StretchPhase, Kept, Bare, Present, NeedsConversation, Preparing, Publishing
<1> QED
  BY <1>1, <1>2, <1>3, <1>4, <1>5, SessionLined DEF Switching, Ahead, Attachable

LEMMA RestoreConversationLined ==
  ASSUME Sound, Whole, Lined, RestoreConversation
  PROVE  Lined' /\ UNCHANGED Atomic!vars
<1>1. /\ pc = "restoreConv" /\ pc' \in {"restoreCkpts", "backConv"} /\ disk' = disk /\ serial' = serial
      /\ manifest' = manifest /\ ckpts' = ckpts /\ turn' = turn /\ pass' = pass /\ queue' = queue
      /\ lastUndo' = lastUndo /\ edited' = edited /\ cur' = cur /\ tx' = tx /\ failed' = failed
      /\ conv' = conv \/ (tx.hasConv = "yes" /\ conv' = tx.fwdConv)
  BY DEF RestoreConversation, diskVars, opVars, recoveryVars, boundVars
<1>2. /\ cur \in TxIds /\ manifest[cur] = tx /\ tx.state = "committing" /\ pass = 0 /\ tx.kind = "undo"
  BY <1>1, SwitchFacts DEF Whole, ChatPhase, Switching
<1>3. ~NeedsConversation(tx) => conv' = conv
  BY <1>1, <1>2 DEF Lined, Kept
<1>4. UNCHANGED Atomic!vars
  BY <1>1, <1>2, <1>3, SessionHidden DEF Committing
<1>5. Numbered' /\ Covers(tx)'
  BY <1>1 DEF Lined, Covered, Numbered, Covers, NeedsConversation
<1>6. StretchPhase' /\ Kept' /\ Bare'
  BY <1>1, <1>2, <1>3 DEF Lined, StretchPhase, Kept, Bare, Present, NeedsConversation
<1> QED
  BY <1>1, <1>2, <1>4, <1>5, <1>6, SessionLined DEF Switching, Ahead, Attachable

LEMMA RestoreCheckpointsLined ==
  ASSUME Sound, Whole, Lined, RestoreCheckpoints
  PROVE  Lined' /\ UNCHANGED Atomic!vars
<1>1. /\ pc = "restoreCkpts" /\ pc' \in {"finish", "backConv"} /\ disk' = disk /\ serial' = serial
      /\ manifest' = manifest /\ conv' = conv /\ pass' = pass /\ queue' = queue
      /\ lastUndo' = lastUndo /\ edited' = edited /\ cur' = cur /\ tx' = tx /\ failed' = failed
  BY DEF RestoreCheckpoints, diskVars, opVars, recoveryVars, boundVars
<1>2. /\ cur \in TxIds /\ manifest[cur] = tx /\ tx.state = "committing" /\ pass = 0 /\ tx.kind = "undo"
      /\ Types /\ IsManifest(tx, serial)
  BY <1>1, SwitchFacts DEF Whole, ChatPhase, Switching
<1>3. \/ ckpts' = ckpts /\ turn' = turn /\ (NeedsConversation(tx) => pc' = "backConv")
      \/ NeedsConversation(tx) /\ ckpts' = Merge(ckpts, tx.backup) /\ turn' = NextTurn(ckpts')
  BY DEF RestoreCheckpoints, ReinstateCheckpoints
<1>4. /\ Numbered' /\ Covers(tx)' /\ HeldPoints(tx, ckpts') = HeldPoints(tx, ckpts)
      /\ NeedsConversation(tx) /\ pc' = "finish" => Present'
  <2>1. CASE ckpts' = ckpts /\ turn' = turn /\ (NeedsConversation(tx) => pc' = "backConv")
    BY <1>1, <2>1 DEF Lined, Covered, Numbered, Covers, NeedsConversation
  <2>2. CASE NeedsConversation(tx) /\ ckpts' = Merge(ckpts, tx.backup) /\ turn' = NextTurn(ckpts')
    BY <1>1, <1>2, <2>2, MergePoints DEF Lined, Covered
  <2> QED
    BY <1>3, <2>1, <2>2
<1>5. UNCHANGED Atomic!vars
  BY <1>1, <1>2, <1>3, <1>4, SessionHidden DEF Committing
<1>6. StretchPhase' /\ Kept' /\ Bare'
  BY <1>1, <1>2, <1>4 DEF Lined, StretchPhase, Kept, Bare, NeedsConversation
<1> QED
  BY <1>1, <1>2, <1>4, <1>5, <1>6, SessionLined DEF Switching, Ahead, Attachable

\* On the way back only a committing transaction comes by here.
LEMMA BackIsCommitting ==
  ASSUME Sound, Whole, Lined, pc \in {"backConv", "backCkpts", "backDone", "reinstate"}
  PROVE  /\ cur \in TxIds /\ cur # NoTx /\ manifest[cur] = tx /\ tx.state = "committing" /\ cur \in Committing
         /\ Types /\ IsManifest(tx, serial)
<1>1. /\ cur \in TxIds /\ cur # NoTx /\ manifest[cur] = tx /\ Types /\ IsManifest(tx, serial)
  BY BackFacts DEF Returning
<1>2. tx.state = "committing"
  BY DEF Lined, Bare
<1> QED
  BY <1>1, <1>2 DEF Committing

LEMMA BackConversationLined ==
  ASSUME Sound, Whole, Lined, BackConversation
  PROVE  Lined' /\ UNCHANGED Atomic!vars
<1>1. /\ pc = "backConv" /\ pc' = "backCkpts" /\ disk' = disk /\ serial' = serial
      /\ manifest' = manifest /\ ckpts' = ckpts /\ turn' = turn /\ pass' = pass /\ queue' = queue
      /\ lastUndo' = lastUndo /\ edited' = edited /\ cur' = cur /\ tx' = tx
  BY DEF BackConversation, diskVars, recoveryVars, boundVars
<1>2. cur \in Committing /\ manifest[cur] = tx /\ tx.state = "committing"
  BY <1>1, BackIsCommitting
<1>3. ~NeedsConversation(tx) => conv' = conv
  <2> SUFFICES ASSUME ~NeedsConversation(tx) PROVE conv' = conv
    OBVIOUS
  <2>1. pass = 0 /\ (tx.hasConv = "yes" => conv = tx.fwdConv)
    BY <1>1 DEF Lined, Kept, Sound, Types
  <2> QED
    BY <2>1 DEF BackConversation
<1>4. UNCHANGED Atomic!vars
  BY <1>1, <1>2, <1>3, SessionHidden
<1>5. Numbered' /\ Covers(tx)'
  BY <1>1 DEF Lined, Covered, Numbered, Covers, NeedsConversation
<1>6. StretchPhase' /\ Kept' /\ Bare'
  BY <1>1, <1>2, <1>3 DEF Lined, StretchPhase, Kept, Bare, Present, NeedsConversation, Preparing, Publishing
<1> QED
  BY <1>1, <1>2, <1>4, <1>5, <1>6, SessionLined DEF Returning, Ahead, Attachable, Preparing, Publishing, Switching

LEMMA BackCheckpointsLined ==
  ASSUME Sound, Whole, Lined, BackCheckpoints
  PROVE  Lined' /\ UNCHANGED Atomic!vars
<1>1. /\ pc = "backCkpts" /\ pc' = "backDone" /\ disk' = disk /\ serial' = serial
      /\ manifest' = manifest /\ conv' = conv /\ pass' = pass /\ queue' = queue
      /\ lastUndo' = lastUndo /\ edited' = edited /\ cur' = cur /\ tx' = tx
  BY DEF BackCheckpoints, diskVars, recoveryVars, boundVars
<1>2. /\ cur \in Committing /\ manifest[cur] = tx /\ tx.state = "committing" /\ Types /\ IsManifest(tx, serial)
  BY <1>1, BackIsCommitting
<1>3. \/ ckpts' = ckpts /\ turn' = turn /\ (NeedsConversation(tx) => "state" \in failed')
      \/ NeedsConversation(tx) /\ tx.kind # "undo" /\ ckpts' = Merge(ckpts, tx.backup) /\ turn' = NextTurn(ckpts')
      \/ NeedsConversation(tx) /\ tx.kind = "undo" /\ ckpts' = Before(ckpts, tx.from) /\ turn' = tx.from
  <2>1. CASE ~NeedsConversation(tx)
    BY <2>1 DEF BackCheckpoints, Failed
  <2>2. CASE NeedsConversation(tx) /\ tx.kind # "undo"
    BY <2>2 DEF BackCheckpoints, Failed, ReinstateCheckpoints
  <2>3. CASE NeedsConversation(tx) /\ tx.kind = "undo"
    BY <2>3 DEF BackCheckpoints, Failed
  <2> QED
    BY <2>1, <2>2, <2>3
<1>4. /\ Numbered' /\ Covers(tx)' /\ HeldPoints(tx, ckpts') = HeldPoints(tx, ckpts)
      /\ NeedsConversation(tx) /\ tx.kind # "undo" /\ "state" \notin failed' => Present'
  <2>1. CASE ckpts' = ckpts /\ turn' = turn /\ (NeedsConversation(tx) => "state" \in failed')
    BY <1>1, <2>1 DEF Lined, Covered, Numbered, Covers, NeedsConversation
  <2>2. CASE NeedsConversation(tx) /\ ckpts' = Merge(ckpts, tx.backup) /\ turn' = NextTurn(ckpts')
    BY <1>1, <1>2, <2>2, MergePoints DEF Lined, Covered
  <2>3. CASE NeedsConversation(tx) /\ tx.kind = "undo" /\ ckpts' = Before(ckpts, tx.from) /\ turn' = tx.from
    BY <1>1, <1>2, <2>3, CutPoints DEF Lined, Covered
  <2> QED
    BY <1>3, <2>1, <2>2, <2>3
<1>5. UNCHANGED Atomic!vars
  BY <1>1, <1>2, <1>3, <1>4, SessionHidden
<1>6. StretchPhase' /\ Kept' /\ Bare'
  <2>1. StretchPhase'
    BY <1>1, <1>4 DEF StretchPhase, NeedsConversation, Preparing, Publishing
  <2> QED
    BY <1>1, <1>2, <2>1 DEF Lined, Kept, Bare, NeedsConversation
<1> QED
  BY <1>1, <1>2, <1>4, <1>5, <1>6, SessionLined DEF Returning, Ahead, Attachable, Preparing, Publishing, Switching

LEMMA BackDoneLined ==
  ASSUME Sound, Whole, Lined, BackDone
  PROVE  Lined' /\ UNCHANGED Atomic!vars
<1>1. /\ pc = "backDone" /\ disk' = disk /\ serial' = serial /\ conv' = conv
      /\ manifest' = manifest /\ ckpts' = ckpts /\ turn' = turn /\ pass' = pass /\ queue' = queue
      /\ lastUndo' = lastUndo /\ edited' = edited
  BY DEF BackDone, diskVars, sessionVars, recoveryVars, boundVars
<1>2. AllRecorded /\ AllLogged /\ Written /\ UNCHANGED Atomic!vars
  BY <1>1, SameWritten, QuietHidden
<1>3. CASE Return
  BY <1>1, <1>2, <1>3, ReturnLined
<1>4. CASE Compensate /\ cur' = cur /\ tx' = tx /\ failed' = failed
  <2>1. cur # NoTx /\ pc' = "compensate"
    BY <1>1, <1>4, BackIsCommitting DEF Compensate
  <2>2. StretchPhase' /\ Kept' /\ Bare'
    BY <1>1, <1>4, <2>1 DEF Lined, StretchPhase, Kept, Bare, Present, NeedsConversation, Preparing, Publishing
  <2> QED
    BY <1>1, <1>2, <1>4, <2>1, <2>2, PlanReflexive, GoLined DEF Ahead, Attachable, Preparing, Publishing, Switching
<1> QED
  BY <1>2, <1>3, <1>4 DEF BackDone

--------
(* The files go back. *)

\* Nothing of a prepared transaction has to.
LEMMA FilesBackLined ==
  ASSUME Sound, Whole, Lined, pc \in {"compensate", "reinstate"}, pc' \in {"compensate", "reinstate"},
         Elsewhere, manifest' = manifest, cur' = cur, tx' = tx, failed \subseteq failed',
         \A f \in Files : f \notin tx.targets => disk'[f] = disk[f],
         tx.state = "prepared" => disk' = disk /\ failed' = failed /\ pc' = "compensate"
  PROVE  Lined' /\ UNCHANGED Atomic!vars
<1>1. cur \in TxIds /\ cur # NoTx /\ manifest[cur] = tx /\ tx.state \in {"prepared", "committing"}
  BY ReturningFacts DEF Returning
<1>2. AllRecorded /\ AllLogged /\ Written
  BY SameWritten
<1>3. UNCHANGED Atomic!vars
  <2>1. CASE tx.state = "prepared"
    BY <1>2, <2>1, QuietHidden DEF Elsewhere
  <2>2. CASE tx.state = "committing"
    BY <1>1, <2>2, FilesHidden DEF Elsewhere, Committing
  <2> QED
    BY <1>1, <2>1, <2>2
<1>4. StretchPhase'
  BY DEF Lined, StretchPhase, Present, NeedsConversation, Preparing, Publishing, Elsewhere
<1>5. Kept'
  BY DEF Lined, Kept, NeedsConversation, Elsewhere
<1>6. Bare'
  BY <1>1 DEF Lined, Bare
<1> QED
  BY <1>1, <1>2, <1>3, <1>4, <1>5, <1>6, PlanReflexive, GoLined
     DEF Elsewhere, Ahead, Attachable, Preparing, Publishing, Switching

LEMMA CompensateFileLined ==
  ASSUME Sound, Whole, Lined, CompensateFile
  PROVE  Lined' /\ UNCHANGED Atomic!vars
<1> PICK g : g = Greatest(todo)
  OBVIOUS
<1>1. /\ pc = "compensate" /\ todo # {} /\ Elsewhere /\ manifest' = manifest /\ cur' = cur /\ tx' = tx
  BY DEF CompensateFile, Elsewhere, sessionVars, recoveryVars, boundVars
<1>2. pc' \in {"compensate", "reinstate"} /\ failed \subseteq failed'
  BY DEF CompensateFile, CompensateNothing, CompensateRename, CompensateForeign, CompensateRemove, NextTarget, Failed
<1>3. disk' = disk \/ \E i : disk' = [disk EXCEPT ![g] = i]
  BY DEF CompensateFile, CompensateNothing, CompensateRename, CompensateForeign, CompensateRemove, Put
<1>4. g \in tx.targets /\ disk \in [Files -> Images]
  BY <1>1, BackFacts DEF Returning, Types
<1>5. \A f \in Files : f \notin tx.targets => disk'[f] = disk[f]
  BY <1>3, <1>4
<1>6. ASSUME tx.state = "prepared" PROVE disk' = disk /\ failed' = failed /\ pc' = "compensate"
  <2>1. Untouched(g) /\ g \notin tx.published
    BY <1>6 DEF Lined, Bare, Untouched
  <2> QED
    BY <2>1 DEF CompensateFile, CompensateNothing, CompensateRename, CompensateForeign, CompensateRemove, NextTarget
<1> QED
  BY <1>1, <1>2, <1>5, <1>6, FilesBackLined

LEMMA ReinstateFileLined ==
  ASSUME Sound, Whole, Lined, ReinstateFile
  PROVE  Lined' /\ UNCHANGED Atomic!vars
<1> PICK g : g = Greatest(todo)
  OBVIOUS
<1>1. /\ pc = "reinstate" /\ pc' = "compensate" /\ Elsewhere /\ manifest' = manifest /\ cur' = cur /\ tx' = tx
      /\ failed \subseteq failed'
  BY DEF ReinstateFile, Elsewhere, sessionVars, recoveryVars, boundVars, NextTarget, Failed
<1>2. disk' = disk \/ \E i : disk' = [disk EXCEPT ![g] = i]
  BY DEF ReinstateFile, Put
<1>3. todo # {} /\ tx.state = "committing"
  BY <1>1 DEF Sound, Stages, Lined, Bare
<1>4. g \in tx.targets /\ disk \in [Files -> Images]
  BY <1>1, <1>3, BackFacts DEF Returning, Types
<1>5. \A f \in Files : f \notin tx.targets => disk'[f] = disk[f]
  BY <1>2, <1>4
<1> QED
  BY <1>1, <1>3, <1>5, FilesBackLined

\* The transaction is settled: it is back where it began, or pends.
LEMMA SettleLined ==
  ASSUME Sound, Sound', Whole, Lined, Settle
  PROVE  Lined' /\ UNCHANGED Atomic!vars
<1> PICK c : c = cur
  OBVIOUS
<1>1. /\ pc \in {"compensate", "settle"} /\ (pc = "compensate" => todo = {}) /\ disk' = disk /\ Elsewhere /\ Return
  BY DEF Settle, Elsewhere, diskVars, sessionVars, recoveryVars, boundVars
<1>2. /\ c \in TxIds /\ c # NoTx /\ manifest[c] = tx /\ Types /\ IsManifest(tx, serial)
      /\ tx.state \in {"prepared", "committing"} /\ edited = {}
  BY <1>1, ReturningFacts DEF Returning, Lined
<1>3. pc # "markUndone"
  BY <1>1
<1>4. CASE manifest' = manifest
  BY <1>1, <1>3, <1>4, SameWritten, QuietHidden, ReturnLined DEF Elsewhere
<1>5. ASSUME NEW s \in {"aborted", "committing"}, Store(InState(s)),
             s = IF failed = {} THEN "aborted" ELSE "committing"
      PROVE  Lined' /\ UNCHANGED Atomic!vars
  <2>1. PICK p : p = SetState(tx, s)
    OBVIOUS
  <2>2. p.state = s /\ SamePlan(tx, p) /\ SameForward(tx, p)
    BY <1>2, <2>1, StateView DEF States
  <2>3. manifest' = [manifest EXCEPT ![c] = p]
    BY <1>5, <2>1 DEF Store, InState, SetState
  <2>4. manifest'[c] = p /\ \A t \in TxIds : t # c => manifest'[t] = manifest[t]
    BY <1>2, <2>3 DEF Types
  <2>5. AllLogged
    BY <1>2, <1>5, <2>2, <2>4, PlanReflexive DEF AllLogged, Logged
  <2>6. s = "committing" => tx.state = "committing"
    BY <1>2, <1>5 DEF Lined, Bare
  <2>7. Written
    <3>1. Manifests' = Manifests
      BY <1>2, <1>5, <2>2, <2>4 DEF Manifests
    <3> QED
      BY <1>2, <1>5, <2>2, <2>4, <2>6, <3>1, PlanReflexive DEF Written
  <2>8. UNCHANGED Atomic!vars
    <3>1. CASE tx.state = s \/ tx.state = "prepared"
      <4>1. AllRecorded
        BY <1>2, <1>5, <2>2, <2>4, <2>5, <2>6, <3>1, PlanReflexive DEF AllRecorded, Recorded, AllLogged
      <4> QED
        BY <1>1, <4>1, QuietHidden DEF Elsewhere
    <3>2. CASE tx.state = "committing" /\ s = "aborted"
      <4>1. Committing = {c}
        BY <1>2, <3>2 DEF Whole, Alone, Committing
      <4>2. Committing' = {}
        BY <1>2, <2>2, <2>4, <3>2, <4>1 DEF Committing
      <4>3. pc = "compensate" /\ todo = {} /\ failed = {}
        BY <1>1, <1>5, <3>2 DEF Whole, FilesPhase
      <4>4. \A f \in tx.targets : disk[f] = tx.forward[f]
        BY <1>2, <4>3 DEF Whole, FilesPhase, PutBack
      <4>5. NeedsConversation(tx) => Start(tx)
        BY <4>3 DEF Whole, ChatPhase
      <4>6. NeedsConversation(tx) /\ tx.kind # "undo" => DOMAIN tx.backup \subseteq DOMAIN ckpts
        BY <4>3 DEF Lined, StretchPhase, Present
      <4>7. HeldFiles(tx, disk) = disk /\ HeldConv(tx, conv) = conv /\ HeldPoints(tx, ckpts) = ckpts
        BY <1>2, <4>4, <4>5, <4>6, HeldIsPlain
      <4>8. EffectiveFiles = disk /\ EffectiveConv = conv /\ EffectiveCheckpoints = ckpts
        BY <1>2, <4>1, <4>7, Held
      <4>9. EffectiveFiles' = disk' /\ EffectiveConv' = conv' /\ EffectiveCheckpoints' = ckpts'
        BY <4>2, PlainNext
      <4> QED
        BY <1>1, <2>5, <4>8, <4>9, LogSame DEF Atomic!vars, Elsewhere
    <3> QED
      BY <1>2, <1>5, <3>1, <3>2
  <2> QED
    BY <1>1, <1>3, <2>5, <2>7, <2>8, ReturnLined DEF Elsewhere
<1> QED
  BY <1>4, <1>5 DEF Settle

--------
(* Crashes and recovery. *)

\* No transaction is under way afterwards.
LEMMA LeftLined ==
  ASSUME Sound, Lined, AllRecorded, Written, serial' = serial, disk' = disk, conv' = conv, ckpts' = ckpts,
         turn' = turn, edited' = edited, tx' = EmptyManifest, failed' = {}, pc' \in {"idle", "scan", "down"},
         Newest'
  PROVE  Lined' /\ UNCHANGED Atomic!vars
<1>1. UNCHANGED Atomic!vars
  BY QuietHidden
<1>2. tx'.scope = {} /\ tx'.hasConv = "no" /\ tx'.state = "none"
  BY DEF EmptyManifest
<1>3. StretchPhase' /\ Kept' /\ Bare'
  BY <1>2 DEF StretchPhase, Kept, Bare, NeedsConversation
<1>4. Planned'
  BY DEF Planned, Preparing, Publishing, Switching
<1> QED
  BY <1>1, <1>3, <1>4, CoveredKept DEF Lined, Numbered

\* A parent is only marked undone when an undo reverted it.
LEMMA UndoneKept ==
  ASSUME Newest, AllLogged, Written
  PROVE  /\ Undoables' = Undoables
         /\ \A t \in TxIds : manifest'[t].state = "undone" => Reverted(t)'
<1>1. Undoables' = Undoables /\ \A t : Reverted(t)' <=> Reverted(t)
  BY LoggedSets
<1> QED
  BY <1>1 DEF Written, Newest

LEMMA CrashLined ==
  ASSUME Sound, Lined, Crash
  PROVE  Lined' /\ UNCHANGED Atomic!vars
<1>1. /\ manifest' = manifest /\ serial' = serial /\ disk' = disk /\ conv' = conv /\ ckpts' = ckpts
      /\ turn' = turn /\ edited' = edited /\ tx' = EmptyManifest /\ failed' = {} /\ pc' = "down"
      /\ pass' = 0 /\ lastUndo' = NoTx
  BY DEF Crash, Forget, diskVars, sessionVars
<1>2. AllRecorded /\ AllLogged /\ Written
  BY <1>1, SameWritten
<1>3. Newest'
  BY <1>1, <1>2, UndoneKept DEF Lined, Newest
<1> QED
  BY <1>1, <1>2, <1>3, LeftLined

\* The next turn's number is the one that the checkpoints give.
LEMMA NumberedTurn ==
  ASSUME Types, Numbered
  PROVE  NextTurn(ckpts) = turn
<1>1. turn \in Nat /\ DOMAIN ckpts = {t \in 0 .. turn : t # turn}
  BY SessionTypes DEF Types, Numbered
<1>2. CASE turn = 0
  <2>1. DOMAIN ckpts = {}
    BY <1>1, <1>2
  <2> QED
    BY <1>2, <2>1 DEF NextTurn
<1>3. CASE turn # 0
  <2>1. DOMAIN ckpts \in SUBSET (0 .. turn) /\ turn - 1 \in DOMAIN ckpts /\ turn - 1 \in Nat
    BY <1>1, <1>3
  <2> PICK g : g = Greatest(DOMAIN ckpts)
    OBVIOUS
  <2>2. g \in DOMAIN ckpts /\ \A t \in DOMAIN ckpts : t <= g
    BY <1>1, <2>1, GreatestIsGreatest
  <2>3. g = turn - 1
    BY <1>1, <2>1, <2>2
  <2> QED
    BY <1>1, <2>1, <2>3 DEF NextTurn
<1> QED
  BY <1>2, <1>3

LEMMA UndoableIsStored == Undoables \subseteq Manifests /\ Undoables \subseteq TxIds
BY DEF Undoables, Completed, Manifests

LEMMA OpenLined ==
  ASSUME Sound, Lined, Open
  PROVE  Lined' /\ UNCHANGED Atomic!vars
<1>1. /\ manifest' = manifest /\ serial' = serial /\ disk' = disk /\ conv' = conv /\ ckpts' = ckpts
      /\ edited' = edited /\ tx' = EmptyManifest /\ failed' = {} /\ pc' = "scan"
      /\ pass' = 1 /\ queue' = Manifests /\ turn' = NextTurn(ckpts)
  BY DEF Open, Forget, diskVars
<1>2. turn' = turn
  BY <1>1, NumberedTurn DEF Lined, Sound
<1>3. AllRecorded /\ AllLogged /\ Written
  BY <1>1, SameWritten
<1>4. Manifests' = Manifests
  BY <1>1 DEF Manifests
<1>5. Newest'
  BY <1>1, <1>3, <1>4, UndoneKept, UndoableIsStored DEF Lined, Newest
<1> QED
  BY <1>1, <1>2, <1>3, <1>5, LeftLined

LEMMA PassDoneLined ==
  ASSUME Sound, Lined, PassDone
  PROVE  Lined' /\ UNCHANGED Atomic!vars
<1>1. /\ pc = "scan" /\ queue = {} /\ pass # 0
      /\ manifest' = manifest /\ serial' = serial /\ disk' = disk /\ conv' = conv /\ ckpts' = ckpts
      /\ edited' = edited /\ turn' = turn /\ lastUndo' = lastUndo
      /\ tx' = tx /\ failed' = failed /\ pc' \in {"scan", "idle"}
      /\ (pass' = 2 /\ queue' = Manifests) \/ pass' = 0
  BY DEF PassDone, diskVars, sessionVars, opVars, boundVars, Sound, Stages
<1>2. tx = EmptyManifest /\ failed = {}
  BY <1>1 DEF Sound, Stages
<1>3. AllRecorded /\ AllLogged /\ Written
  BY <1>1, SameWritten
<1>4. Manifests' = Manifests
  BY <1>1 DEF Manifests
<1>5. Newest'
  <2>1. Undoables' = Undoables /\ \A t \in TxIds : manifest'[t].state = "undone" => Reverted(t)'
    BY <1>3, UndoneKept DEF Lined
  <2>2. \A t \in Undoables : lastUndo # NoTx /\ t <= lastUndo
    BY <1>1 DEF Lined, Newest
  <2> QED
    BY <1>1, <1>4, <2>1, <2>2, UndoableIsStored DEF Newest
<1> QED
  BY <1>1, <1>2, <1>3, <1>5, LeftLined

\* The manifest of u is restated, which does not show.
LEMMA RestateRecorded ==
  ASSUME Sound, NEW u \in TxIds, NEW s \in {"aborted", "undone"}, manifest' = [manifest EXCEPT ![u].state = s],
         \/ s = "aborted" /\ manifest[u].state = "prepared"
         \/ s = "undone" /\ manifest[u].state = "committed" /\ manifest[u].kind # "undo"
  PROVE  /\ AllRecorded /\ AllLogged /\ Manifests' = Manifests
         /\ \A t \in TxIds : SamePlan(manifest[t], manifest'[t])
         /\ \A t \in TxIds : t # u => manifest'[t] = manifest[t]
         /\ manifest'[u].state = s
<1>1. PICK m : m = SetState(manifest[u], s)
  OBVIOUS
<1>2. IsManifest(manifest[u], serial) /\ s \in States /\ Types
  BY DEF Sound, Types, States
<1>3. m.state = s /\ SamePlan(manifest[u], m) /\ SameForward(manifest[u], m)
  BY <1>1, <1>2, StateView
<1>4. manifest' = [manifest EXCEPT ![u] = m]
  BY <1>1 DEF SetState
<1>5. manifest'[u] = m /\ \A t \in TxIds : t # u => manifest'[t] = manifest[t]
  BY <1>2, <1>4 DEF Types
<1>6. Recorded(manifest[u], m)
  BY <1>3 DEF Recorded, Logged, SamePlan
<1>7. AllRecorded
  BY <1>5, <1>6, PlanReflexive DEF AllRecorded, Recorded, Logged
<1>8. Manifests' = Manifests
  BY <1>3, <1>5 DEF Manifests
<1>9. \A t \in TxIds : SamePlan(manifest[t], manifest'[t])
  BY <1>3, <1>5, PlanReflexive
<1> QED
  BY <1>3, <1>5, <1>7, <1>8, <1>9, RecordedLogged

LEMMA MarkUndoneLined ==
  ASSUME Sound, Whole, Lined, MarkUndone
  PROVE  Lined' /\ UNCHANGED Atomic!vars
<1> PICK q : q = tx.parent
  OBVIOUS
<1>1. /\ pc = "markUndone" /\ Return /\ disk' = disk /\ serial' = serial /\ conv' = conv /\ ckpts' = ckpts
      /\ turn' = turn /\ edited' = edited /\ pass' = pass /\ lastUndo' = NoTx
  BY DEF MarkUndone, diskVars, sessionVars, recoveryVars, boundVars
<1>2. /\ cur \in TxIds /\ cur # NoTx /\ manifest[cur] = tx /\ tx.state = "committed" /\ tx.kind = "undo"
      /\ pass = 0
  BY <1>1, HasTransaction DEF Sound, Stages, Unsaved, Returning
<1>3. q \in TxIds /\ lastUndo = q /\ q # NoTx
  BY <1>2, SessionTypes DEF Sound, Ledger
<1>4. manifest[q].state = "committed" /\ manifest[q].kind # "undo"
  BY <1>3 DEF Sound, Offers
<1>5. Reverted(q)
  BY <1>2 DEF Reverted
<1>6. CASE manifest' = manifest
  <2>1. AllRecorded /\ AllLogged /\ Written
    BY <1>6, SameWritten
  <2>2. Newest'
    BY <1>1, <1>2, <2>1, UndoneKept DEF Lined, Newest
  <2> QED
    BY <1>1, <2>1, <2>2, LeftLined DEF Return
<1>7. CASE manifest' = [manifest EXCEPT ![q].state = "undone"]
  <2>1. /\ AllRecorded /\ AllLogged
        /\ \A t \in TxIds : SamePlan(manifest[t], manifest'[t])
        /\ \A t \in TxIds : t # q => manifest'[t] = manifest[t]
    BY <1>3, <1>4, <1>7, RestateRecorded
  <2>2. UNCHANGED Atomic!vars
    BY <1>1, <2>1, QuietHidden
  <2>3. Newest'
    <3>1. \A t : Reverted(t)' <=> Reverted(t)
      BY <2>1, LoggedSets
    <3>2. \A t \in TxIds : manifest'[t].state = "undone" => Reverted(t)
      BY <1>5, <2>1 DEF Lined, Newest
    <3> QED
      BY <1>1, <1>2, <3>1, <3>2 DEF Newest
  <2>4. tx' = EmptyManifest /\ failed' = {} /\ pc' = "idle"
    BY <1>1, <1>2 DEF Return
  <2>5. tx'.scope = {} /\ tx'.backup = NoBackup /\ tx'.hasConv = "no" /\ tx'.state = "none"
    BY <2>4 DEF EmptyManifest
  <2>6. Committing' = {}
    BY <1>2, <2>1, RecordedSets DEF Whole, Alone, Committing
  <2>7. Covered'
    <3>1. ASSUME NEW t \in TxIds PROVE Stretch(manifest'[t])
      BY <2>1, StretchSame DEF Lined, Covered
    <3> QED
      BY <2>5, <2>6, <3>1 DEF Covered, Stretch, Covers, NeedsConversation
  <2>8. StretchPhase' /\ Kept' /\ Bare' /\ Planned'
    BY <2>4, <2>5 DEF StretchPhase, Kept, Bare, Planned, NeedsConversation, Preparing, Publishing, Switching
  <2> QED
    BY <1>1, <2>2, <2>3, <2>7, <2>8 DEF Lined, Numbered
<1> QED
  BY <1>6, <1>7 DEF MarkUndone

LEMMA UndoneParentsAre == \A t : t \in UndoneParents <=> Reverted(t)
BY DEF UndoneParents, Reverted

\* What recovery passes over is accounted for.
LEMMA ScanNewest ==
  ASSUME Sound, Lined, pass # 0, NEW t \in queue, t = Least(queue), queue' = queue \ {t}, pass' = pass,
         AllLogged, Manifests' = Manifests,
         \A u \in TxIds : manifest'[u].state = "undone" => manifest[u].state = "undone",
         \/ lastUndo' = t /\ t \in Undoables
         \/ lastUndo' = lastUndo /\ t \notin Undoables
  PROVE  Newest'
<1>1. queue \subseteq TxIds /\ TxIds \in SUBSET Nat /\ t \in TxIds
  BY RewindAssumption DEF Sound, Types, TxIds
<1>2. t \in Nat /\ \A u \in queue : t <= u
  BY <1>1, LeastIsLeast
<1>3. Undoables' = Undoables /\ \A u : Reverted(u)' <=> Reverted(u)
  BY LoggedSets
<1>4. /\ \A u \in Undoables \ queue : lastUndo # NoTx /\ u <= lastUndo
      /\ \A u \in Manifests \ queue, w \in queue : u < w
      /\ \A u \in TxIds : manifest[u].state = "undone" => Reverted(u)
  BY DEF Lined, Newest
<1>5. t # NoTx
  BY <1>1, SessionTypes DEF Sound
<1>6. ASSUME NEW u \in Undoables \ queue' PROVE lastUndo' # NoTx /\ u <= lastUndo'
  <2>1. u \in TxIds /\ u \in Nat /\ u \in Manifests
    BY <1>1, UndoableIsStored
  <2>2. CASE u = t
    BY <1>2, <1>5, <2>2
  <2>3. CASE u # t
    <3>1. u \in Undoables \ queue
      BY <2>3
    <3>2. u < t
      BY <1>4, <2>1, <3>1
    <3> QED
      BY <1>1, <1>2, <1>4, <1>5, <2>1, <3>1, <3>2
  <2> QED
    BY <2>2, <2>3
<1>7. ASSUME NEW u \in Manifests \ queue', NEW w \in queue' PROVE u < w
  <2>1. w \in queue /\ w # t /\ w \in Nat /\ t <= w
    BY <1>1, <1>2
  <2> QED
    BY <1>2, <1>4, <2>1
<1>8. \A u \in TxIds : manifest'[u].state = "undone" => Reverted(u)'
  BY <1>3, <1>4
<1> QED
  BY <1>3, <1>6, <1>7, <1>8 DEF Newest

LEMMA ScanLined ==
  ASSUME Sound, Whole, Lined, ScanManifest
  PROVE  Lined' /\ UNCHANGED Atomic!vars
<1>1. /\ pc = "scan" /\ disk' = disk /\ serial' = serial /\ conv' = conv /\ ckpts' = ckpts
      /\ turn' = turn /\ edited' = edited /\ pass' = pass /\ failed' = failed
  BY DEF ScanManifest, sessionVars, boundVars
<1>2. PICK t \in queue : ScanNext(t) /\ (RecoverPrepared(t) \/ RecoverCommitting(t) \/ RecoverCommitted(t))
  BY DEF ScanManifest
<1>3. /\ t \in TxIds /\ t = Least(queue) /\ queue' = queue \ {t} /\ cur = NoTx /\ pass # 0
      /\ tx = EmptyManifest /\ failed = {}
  BY <1>1, <1>2 DEF ScanNext, Sound, Types, Stages
<1>4. t \in Undoables <=> manifest[t].state = "committed" /\ manifest[t].kind # "undo" /\ t \notin UndoneParents
  BY <1>3, UndoneParentsAre DEF Undoables, Completed, Lined, Newest
<1>5. CASE manifest' = manifest /\ tx' = tx /\ pc' = pc /\
           (\/ lastUndo' = t /\ t \in Undoables
            \/ lastUndo' = lastUndo /\ t \notin Undoables)
  <2>1. AllRecorded /\ AllLogged /\ Written
    BY <1>5, SameWritten
  <2>2. Manifests' = Manifests
    BY <1>5 DEF Manifests
  <2>3. Newest'
    BY <1>1, <1>3, <1>5, <2>1, <2>2, ScanNewest
  <2> QED
    BY <1>1, <1>3, <1>5, <2>1, <2>3, LeftLined
<1>6. CASE /\ manifest[t].state = "prepared" /\ manifest' = [manifest EXCEPT ![t].state = "aborted"]
           /\ tx' = tx /\ pc' = pc /\ lastUndo' = lastUndo
  <2>1. /\ AllRecorded /\ AllLogged /\ Manifests' = Manifests
        /\ \A u \in TxIds : SamePlan(manifest[u], manifest'[u])
        /\ \A u \in TxIds : u # t => manifest'[u] = manifest[u]
        /\ manifest'[t].state = "aborted"
    BY <1>3, <1>6, RestateRecorded
  <2>2. Written
    BY <2>1 DEF Written
  <2>3. \A u \in TxIds : manifest'[u].state = "undone" => manifest[u].state = "undone"
    BY <2>2 DEF Written
  <2>4. t \notin Undoables
    BY <1>4, <1>6
  <2>5. Newest'
    BY <1>1, <1>3, <1>6, <2>1, <2>3, <2>4, ScanNewest
  <2> QED
    BY <1>1, <1>3, <1>6, <2>1, <2>2, <2>5, LeftLined
<1>7. CASE /\ manifest[t].state = "committing" /\ manifest' = manifest /\ tx' = manifest[t] /\ lastUndo' = lastUndo
           /\ \/ pc' = "backConv" /\ NeedsConversation(manifest[t])
              \/ pc' = "compensate" /\ ~ NeedsConversation(manifest[t])
  <2>1. AllRecorded /\ AllLogged /\ Written
    BY <1>7, SameWritten
  <2>2. UNCHANGED Atomic!vars
    BY <1>1, <2>1, QuietHidden
  <2>3. Manifests' = Manifests /\ t \notin Undoables
    BY <1>4, <1>7 DEF Manifests
  <2>4. Newest'
    BY <1>1, <1>3, <1>7, <2>1, <2>3, ScanNewest
  <2>5. StretchPhase'
    BY <1>7 DEF StretchPhase, NeedsConversation, Preparing, Publishing
  <2>6. Kept' /\ Bare'
    BY <1>1, <1>3, <1>7 DEF Kept, Bare, NeedsConversation
  <2>7. Planned'
    BY <1>7 DEF Planned, Preparing, Publishing, Switching
  <2>8. t \in Committing
    BY <1>3, <1>7 DEF Committing
  <2>9. Covered'
    <3>1. \A u \in TxIds : Stretch(manifest[u])'
      BY <1>7 DEF Lined, Covered, Stretch, NeedsConversation
    <3>2. Committing' = Committing
      BY <2>1, RecordedSets
    <3>3. ASSUME NEW u \in Committing' PROVE Covers(manifest[u])'
      BY <1>1, <1>7, <3>2 DEF Lined, Covered, Covers, NeedsConversation
    <3>4. Stretch(tx)' /\ Covers(tx)'
      BY <1>1, <1>3, <1>7, <2>8 DEF Lined, Covered, Stretch, Covers, NeedsConversation
    <3> QED
      BY <3>1, <3>3, <3>4 DEF Covered, Stretch, NeedsConversation
  <2> QED
    BY <1>1, <2>2, <2>4, <2>5, <2>6, <2>7, <2>9 DEF Lined, Numbered
<1>8. CASE RecoverPrepared(t)
  <2>1. t \notin Undoables
    BY <1>4, <1>8 DEF RecoverPrepared
  <2> QED
    BY <1>5, <1>6, <1>8, <2>1 DEF RecoverPrepared
<1>9. CASE RecoverCommitting(t)
  <2>1. t \notin Undoables
    BY <1>4, <1>9 DEF RecoverCommitting
  <2> QED
    BY <1>5, <1>7, <1>9, <2>1 DEF RecoverCommitting
<1>10. CASE RecoverCommitted(t)
  BY <1>4, <1>5, <1>10 DEF RecoverCommitted
<1> QED
  BY <1>2, <1>8, <1>9, <1>10

--------
(* Turns. *)

\* Nothing is under way, and nothing pending shows.
LEMMA IdleLined ==
  ASSUME Sound, Lined, Committing = {}, manifest' = manifest, tx' = EmptyManifest, failed' = {},
         pc' = "idle", pass' = 0, lastUndo' = NoTx, edited' = edited, Numbered'
  PROVE  Lined'
<1>1. AllRecorded /\ AllLogged /\ Written
  BY SameWritten
<1>2. Newest'
  BY <1>1, UndoneKept DEF Lined, Newest
<1>3. tx'.scope = {} /\ tx'.backup = NoBackup /\ tx'.hasConv = "no" /\ tx'.state = "none"
  BY DEF EmptyManifest
<1>4. Committing' = {}
  BY <1>1, RecordedSets
<1>5. Covered'
  <2>1. \A t \in TxIds : Stretch(manifest[t])'
    BY DEF Lined, Covered, Stretch, NeedsConversation
  <2> QED
    BY <1>3, <1>4, <2>1 DEF Covered, Stretch, Covers, NeedsConversation
<1>6. StretchPhase' /\ Kept' /\ Bare' /\ Planned'
  BY <1>3 DEF StretchPhase, Kept, Bare, Planned, NeedsConversation, Preparing, Publishing, Switching
<1> QED
  BY <1>2, <1>5, <1>6 DEF Lined

\* A turn is a turn.
LEMMA TurnAtomic ==
  ASSUME Sound, Sound', Lined, Turn, BeginsAlone
  PROVE  Lined' /\ Atomic!Turn
<1>0. PICK touched \in SUBSET Files : \E new \in [touched -> Images] :
        /\ disk' = [ f \in Files |-> IF f \in touched THEN new[f] ELSE disk[f] ]
        /\ ckpts' = Merge(ckpts, [ t \in {turn} |->
                        [ serial |-> serial', msgIndex |-> Len(conv),
                          pre |-> [ f \in touched |-> disk[f] ], after |-> new ] ])
  BY DEF Turn
<1> PICK new \in [touched -> Images] :
        /\ disk' = [ f \in Files |-> IF f \in touched THEN new[f] ELSE disk[f] ]
        /\ ckpts' = Merge(ckpts, [ t \in {turn} |->
                        [ serial |-> serial', msgIndex |-> Len(conv),
                          pre |-> [ f \in touched |-> disk[f] ], after |-> new ] ])
  BY <1>0
<1>1. /\ pc = "idle" /\ pc' = "idle" /\ serial' = serial + 1 /\ conv' = Append(conv, serial') /\ turn' = turn + 1
      /\ manifest' = manifest /\ tx' = tx /\ failed' = failed /\ edited' = edited /\ pass' = pass
      /\ lastUndo' = NoTx
  BY DEF Turn, InvalidateUndo, opVars, recoveryVars
<1>2. /\ tx = EmptyManifest /\ failed = {} /\ pass = 0 /\ Types /\ serial \in Nat
      /\ disk \in [Files -> Images] /\ turn \in Nat
  BY <1>1, SessionTypes DEF Sound, Stages, Returning, Types
<1>3. Committing = {}
  BY <1>1, <1>2 DEF BeginsAlone
<1>4. Numbered'
  <2>1. DOMAIN ckpts' = DOMAIN ckpts \cup {turn}
    BY DEF Merge
  <2>2. DOMAIN ckpts = {t \in 0 .. turn : t # turn}
    BY DEF Lined, Numbered
  <2>3. ASSUME NEW t PROVE t \in DOMAIN ckpts' <=> t \in {u \in 0 .. (turn + 1) : u # turn + 1}
    BY <1>2, <2>1, <2>2
  <2> QED
    BY <1>1, <2>3 DEF Numbered
<1>5. Lined'
  BY <1>1, <1>2, <1>3, <1>4, IdleLined
<1>6. AllLogged /\ Committing' = {}
  BY <1>1, <1>3, SameWritten, RecordedSets
<1>7. CompletedLog' = CompletedLog
  BY <1>6, LogSame
<1>8. EffectiveFiles = disk /\ EffectiveConv = conv /\ EffectiveCheckpoints = ckpts
  BY <1>3, Plain
<1>9. EffectiveFiles' = disk' /\ EffectiveConv' = conv' /\ EffectiveCheckpoints' = ckpts'
  BY <1>6, PlainNext
<1>10. Atomic!NewTurn = turn
  BY <1>2, <1>8, NumberedTurn DEF Atomic!NewTurn, Atomic!Max, NextTurn, Greatest, Lined
<1>11. Atomic!Keep(disk, touched) = [f \in touched |-> disk[f]]
  <2>1. DOMAIN disk \cap touched = touched
    BY <1>2
  <2> QED
    BY <2>1 DEF Atomic!Keep
<1>12. disk' = Atomic!Override(disk, new)
  <2>1. DOMAIN disk \cup DOMAIN new = Files /\ DOMAIN new = touched
    BY <1>2
  <2> QED
    BY <2>1 DEF Atomic!Override
<1>13. ckpts' = Atomic!Override(ckpts, [t \in {turn} |->
                  [ serial |-> serial', msgIndex |-> Len(conv),
                    pre |-> Atomic!Keep(disk, touched), after |-> new ] ])
  BY <1>11 DEF Atomic!Override, Merge
<1>14. new \in [touched -> Atomic!Images]
  BY DEF Atomic!Images, Images
<1>15. PICK q : q = [t \in {turn} |->
                  [ serial |-> serial', msgIndex |-> Len(conv),
                    pre |-> Atomic!Keep(disk, touched), after |-> new ] ]
  OBVIOUS
<1>16. /\ EffectiveFiles' = Atomic!Override(EffectiveFiles, new)
       /\ EffectiveCheckpoints' = Atomic!Override(EffectiveCheckpoints, [t \in {Atomic!NewTurn} |->
                  [ serial |-> serial', msgIndex |-> Len(EffectiveConv),
                    pre |-> Atomic!Keep(EffectiveFiles, touched), after |-> new ] ])
  <2>1. EffectiveFiles' = Atomic!Override(EffectiveFiles, new)
    BY <1>8, <1>9, <1>12
  <2>2. PICK p : p = Atomic!Keep(EffectiveFiles, touched)
    OBVIOUS
  <2>3. p = Atomic!Keep(disk, touched)
    BY <1>8, <2>2
  <2>4. Len(EffectiveConv) = Len(conv)
    BY <1>8
  <2>5. q = [t \in {Atomic!NewTurn} |->
                  [ serial |-> serial', msgIndex |-> Len(EffectiveConv), pre |-> p, after |-> new ] ]
    BY <1>10, <1>15, <2>3, <2>4
  <2>6. EffectiveCheckpoints' = Atomic!Override(EffectiveCheckpoints, q)
    BY <1>8, <1>9, <1>13, <1>15
  <2> QED
    BY <2>1, <2>2, <2>5, <2>6
<1>17. EffectiveConv' = Append(EffectiveConv, serial')
  BY <1>1, <1>8, <1>9
<1>18. Atomic!Turn
  BY <1>1, <1>7, <1>14, <1>16, <1>17, Zenon DEF Atomic!Turn
<1> QED
  BY <1>5, <1>18

--------
(* Beginning an operation. *)

LEMMA BeginLined ==
  ASSUME Sound, Lined, BeginsAlone, NEW m, Begin(m), pc' \in {"stage", "prepare"},
         m.state = "prepared", m.published = {}, Stretch(m), Covers(m),
         NeedsConversation(m) /\ m.kind # "undo" => DOMAIN m.backup \subseteq DOMAIN ckpts,
         m.hasConv = "yes" /\ ~NeedsConversation(m) => conv = m.fwdConv,
         m.kind = "rewind" => RewindFits(m), m.kind = "file_revert" => RevertFits(m),
         m.kind = "undo" => Mirrors(m, manifest[m.parent]), m.targets = DOMAIN m.restore
  PROVE  Lined' /\ UNCHANGED Atomic!vars
<1>1. /\ pc = "idle" /\ tx' = m /\ disk' = disk /\ manifest' = manifest /\ conv' = conv /\ serial' = serial
      /\ ckpts' = ckpts /\ turn' = turn /\ pass' = pass /\ queue' = queue /\ edited' = edited
      /\ lastUndo' = lastUndo /\ failed' = failed
  BY DEF Begin, diskVars, sessionVars, recoveryVars
<1>2. failed = {} /\ pass = 0
  BY <1>1 DEF Sound, Stages, Returning
<1>3. AllRecorded /\ AllLogged /\ Written
  BY <1>1, SameWritten
<1>4. UNCHANGED Atomic!vars
  BY <1>1, <1>3, QuietHidden
<1>5. Newest'
  BY <1>1, <1>3, NewestKept DEF Lined
<1>6. Covered'
  <2>1. \A t \in TxIds : Stretch(manifest[t])'
    BY <1>1 DEF Lined, Covered, Stretch, NeedsConversation
  <2>2. \A t \in Committing' : Covers(manifest[t])'
    BY <1>1 DEF Lined, Covered, Covers, NeedsConversation, Committing
  <2>3. Stretch(tx)' /\ Covers(tx)'
    BY <1>1 DEF Stretch, Covers, NeedsConversation
  <2> QED
    BY <2>1, <2>2, <2>3 DEF Covered, Stretch, NeedsConversation
<1>7. StretchPhase'
  BY <1>1 DEF StretchPhase, Present, NeedsConversation
<1>8. Kept' /\ Bare'
  BY <1>1, <1>2 DEF Kept, Bare, NeedsConversation
<1>9. EffectiveFiles' = EffectiveFiles /\ EffectiveCheckpoints' = EffectiveCheckpoints
  BY <1>4 DEF Atomic!vars
<1>10. m.kind = "rewind" => RewindFits(tx)'
  BY <1>1, <1>9 DEF RewindFits, Atomic!Oldest, Atomic!Unedited, Atomic!Captured, Atomic!Captures,
     NeedsConversation, From, Atomic!Min, Atomic!Max
<1>11. m.kind = "file_revert" => RevertFits(tx)'
  <2>1. Atomic!Captured(0)' = Atomic!Captured(0)
    BY <1>9 DEF Atomic!Captured, Atomic!Captures
  <2>2. Atomic!Oldest(0)' = Atomic!Oldest(0)
    BY <1>9 DEF Atomic!Oldest, Atomic!Captured, Atomic!Captures, Atomic!Min
  <2> QED
    BY <1>1, <2>1, <2>2, SMTT(60) DEF RevertFits, Atomic!Keep
<1>12. m.kind = "undo" => Mirrors(tx', manifest'[tx'.parent])
  BY <1>1
<1>13. Planned'
  BY <1>1, <1>10, <1>11, <1>12 DEF Planned, Publishing, Switching
<1> QED
  BY <1>1, <1>4, <1>5, <1>6, <1>7, <1>8, <1>13 DEF Lined, Numbered

\* While nothing is committing the plans are made from the session as it would be
\* recovered.
LEMMA PlansAreAtomic ==
  ASSUME Sound, Committing = {}, NEW k
  PROVE  /\ Atomic!Captured(k) = Touched(k)
         /\ Atomic!Oldest(k) = [f \in Touched(k) |-> Preimage(k, f)]
         /\ PrecheckFiles(k) <=> Atomic!Unedited(k)
<1>1. EffectiveFiles = disk /\ EffectiveCheckpoints = ckpts
  BY Plain
<1>2. \A f : Atomic!Captures(k, f) = Owners(k, f)
  BY <1>1 DEF Atomic!Captures, Owners
<1>3. Atomic!Captured(k) = Touched(k)
  BY <1>2 DEF Atomic!Captured, Touched
<1>4. \A f : Atomic!Min(Atomic!Captures(k, f)) = Least(Owners(k, f))
  BY <1>2 DEF Atomic!Min, Least
<1>5. \A f : Atomic!Max(Atomic!Captures(k, f)) = Greatest(Owners(k, f))
  BY <1>2 DEF Atomic!Max, Greatest
<1>6. Atomic!Oldest(k) = [f \in Touched(k) |-> Preimage(k, f)]
  BY <1>1, <1>3, <1>4 DEF Atomic!Oldest, Preimage
<1>7. PrecheckFiles(k) <=> Atomic!Unedited(k)
  BY <1>1, <1>3, <1>5 DEF Atomic!Unedited, PrecheckFiles, OwnedImage
<1> QED
  BY <1>3, <1>6, <1>7

\* Nothing is committing where an operation begins.
LEMMA BeginsClear ==
  ASSUME Sound, BeginsAlone, NEW m, Begin(m)
  PROVE  Committing = {}
<1>1. nextTx' = nextTx + 1 /\ nextTx \in Nat
  BY RewindAssumption DEF Begin, Sound, Types
<1> QED
  BY <1>1 DEF BeginsAlone

LEMMA StartRewindLined ==
  ASSUME Sound, Lined, BeginsAlone,
         NEW k \in DOMAIN ckpts, NEW scope \in { {"files"}, {"conv"}, {"files", "conv"} }, StartRewind(k, scope)
  PROVE  Lined' /\ UNCHANGED Atomic!vars
<1>1. PICK targets, restore, backup :
      /\ targets = IF "files" \in scope THEN Touched(k) ELSE {}
      /\ restore = [ f \in targets |-> Preimage(k, f) ]
      /\ backup = IF "conv" \in scope THEN From(ckpts, k) ELSE NoBackup
  OBVIOUS
<1>2. PICK m : m = Prepared("rewind", scope, k, ckpts[k].msgIndex, restore, backup)
  OBVIOUS
<1>3. /\ m.state = "prepared" /\ m.kind = "rewind" /\ m.scope = scope /\ m.from = k
      /\ m.boundary = ckpts[k].msgIndex /\ m.targets = targets /\ m.restore = restore
      /\ m.published = {} /\ m.backup = backup /\ m.hasConv = "no"
  BY <1>1, <1>2 DEF Prepared
<1>4. Begin(m) /\ pc' = "stage"
  BY <1>1, <1>2 DEF StartRewind
<1>5. Committing = {}
  BY <1>4, BeginsClear
<1>6. EffectiveFiles = disk /\ EffectiveCheckpoints = ckpts
  BY <1>5, Plain
<1>7. /\ "files" \in scope => PrecheckFiles(k)
      /\ scope = {"files"} => Touched(k) # {}
  BY DEF StartRewind
<1>8. RewindFits(m)
  <2>1. "files" \in scope => restore = Atomic!Oldest(k) /\ Atomic!Unedited(k)
    BY <1>1, <1>5, <1>7, PlansAreAtomic
  <2>2. "files" \notin scope => restore = << >>
    BY <1>1
  <2>3. scope = {"files"} => Atomic!Captured(k) # {}
    BY <1>5, <1>7, PlansAreAtomic
  <2>4. NeedsConversation(m) => backup = From(EffectiveCheckpoints, k)
    BY <1>1, <1>3, <1>6 DEF NeedsConversation
  <2> QED
    BY <1>3, <1>6, <2>1, <2>2, <2>3, <2>4 DEF RewindFits
<1>9. k \in Nat /\ turn \in Nat /\ DOMAIN ckpts = {t \in 0 .. turn : t # turn}
  BY SessionTypes DEF Sound, Types, Lined, Numbered
<1>10. Stretch(m) /\ Covers(m) /\ (NeedsConversation(m) => DOMAIN backup \subseteq DOMAIN ckpts)
  <2>1. CASE NeedsConversation(m)
    <3>1. backup = From(ckpts, k)
      BY <1>1, <1>3, <2>1 DEF NeedsConversation
    <3>2. DOMAIN backup = {u \in DOMAIN ckpts : u >= k} /\ \A t \in DOMAIN backup : backup[t] = ckpts[t]
      BY <3>1 DEF From
    <3>3. \A t \in DOMAIN backup : t >= k /\ \A u \in k .. t : u \in DOMAIN backup
      BY <1>9, <3>2
    <3>4. k \in DOMAIN backup /\ k <= turn
      BY <1>9, <3>2
    <3>5. Stretch(m)
      BY <1>3, <2>1, <3>3, <3>4 DEF Stretch
    <3>6. Covers(m)
      BY <1>3, <3>2, <3>4 DEF Covers
    <3> QED
      BY <3>2, <3>5, <3>6
  <2>2. CASE ~NeedsConversation(m)
    BY <1>1, <1>3, <2>2 DEF Stretch, Covers, NeedsConversation
  <2> QED
    BY <2>1, <2>2
<1>11. targets = DOMAIN restore
  BY <1>1
<1> QED
  BY <1>3, <1>4, <1>8, <1>10, <1>11, BeginLined

LEMMA StartFileRevertLined ==
  ASSUME Sound, Lined, BeginsAlone, NEW f \in Files, StartFileRevert(f)
  PROVE  Lined' /\ UNCHANGED Atomic!vars
<1>1. PICK restore : restore = [ g \in {f} |-> Preimage(0, f) ]
  OBVIOUS
<1>2. PICK m : m = Prepared("file_revert", {"files"}, 0, 0, restore, NoBackup)
  OBVIOUS
<1>3. Begin(m) /\ pc' = "stage" /\ f \in Touched(0)
  BY <1>1, <1>2 DEF StartFileRevert
<1>4. /\ m.state = "prepared" /\ m.kind = "file_revert" /\ m.scope = {"files"} /\ m.hasConv = "no"
      /\ m.targets = DOMAIN restore /\ m.restore = restore /\ m.published = {} /\ m.backup = NoBackup
  BY <1>2 DEF Prepared
<1>5. ~ NeedsConversation(m)
  BY <1>4 DEF NeedsConversation
<1>6. Committing = {}
  BY <1>3, BeginsClear
<1>7. RevertFits(m)
  <2>1. /\ Atomic!Captured(0) = Touched(0)
        /\ Atomic!Oldest(0) = [g \in Touched(0) |-> Preimage(0, g)]
    BY <1>6, PlansAreAtomic
  <2>2. Touched(0) \cap {f} = {f}
    BY <1>3
  <2> PICK o : o = Atomic!Oldest(0)
    OBVIOUS
  <2>3. DOMAIN o = Touched(0) /\ o[f] = Preimage(0, f)
    BY <1>3, <2>1
  <2>4. Atomic!Keep(o, {f}) = [g \in {f} |-> o[g]]
    BY <2>2, <2>3 DEF Atomic!Keep
  <2>5. Atomic!Keep(o, {f}) = restore
    BY <1>1, <2>3, <2>4
  <2> QED
    BY <1>3, <1>4, <2>1, <2>5 DEF RevertFits
<1>8. Stretch(m) /\ Covers(m)
  BY <1>4, <1>5 DEF Stretch, Covers
<1> QED
  BY <1>3, <1>4, <1>5, <1>7, <1>8, BeginLined

LEMMA StartUndoLined ==
  ASSUME Sound, Whole, Lined, BeginsAlone, UndoJoins, StartUndo
  PROVE  Lined' /\ UNCHANGED Atomic!vars
<1> PICK m, p : m = Swapped(lastUndo) /\ p = manifest[lastUndo]
  OBVIOUS
<1>1. Begin(m) /\ pc' = "prepare" /\ lastUndo # NoTx /\ p.state = "committed"
  BY DEF StartUndo
<1>2. /\ lastUndo \in TxIds /\ Attached(p) /\ nextTx \in Nat /\ IsManifest(p, serial)
      /\ turn \in Nat /\ DOMAIN ckpts = {t \in 0 .. turn : t # turn} /\ Stretch(p)
  BY <1>1, RewindAssumption, SessionTypes DEF Sound, Types, Whole, Pendings, Lined, Numbered, Covered
<1>3. /\ m.state = "prepared" /\ m.kind = "undo" /\ m.scope = p.scope /\ m.from = p.from
      /\ m.boundary = p.boundary /\ m.targets = p.targets /\ m.forward = p.restore /\ m.restore = p.forward
      /\ m.published = {} /\ m.hasConv = p.hasConv /\ m.fwdConv = p.fwdConv /\ m.backup = p.backup
      /\ m.parent = lastUndo
  BY DEF Swapped
<1>4. tx' = m /\ nextTx' # nextTx
  BY <1>1, <1>2 DEF Begin
<1>5. m.hasConv = "yes" => conv = LeftBy(m) /\ (NeedsConversation(m) => turn = m.from)
  BY <1>3, <1>4 DEF UndoJoins
<1>6. NeedsConversation(m) => m.hasConv = "yes"
  BY <1>1, <1>2, <1>3 DEF Attached, NeedsConversation
<1>7. Stretch(m)
  BY <1>2, <1>3 DEF Stretch, NeedsConversation
<1>8. Covers(m)
  BY <1>2, <1>5, <1>6 DEF Covers
<1>9. m.hasConv = "yes" /\ ~NeedsConversation(m) => conv = m.fwdConv
  BY <1>5 DEF LeftBy
<1>10. Mirrors(m, manifest[m.parent])
  BY <1>3 DEF Mirrors, SameForward
<1>11. m.targets = DOMAIN m.restore
  BY <1>2, <1>3 DEF IsManifest
<1> QED
  BY <1>1, <1>3, <1>7, <1>8, <1>9, <1>10, <1>11, BeginLined

\* Such an undo begins where the earlier results need it.
LEMMA JoinsFit ==
  ASSUME Sound, Whole, Lined, StartUndo, UndoJoins
  PROVE  UndoFits
<1> PICK m, p : m = Swapped(lastUndo) /\ p = manifest[lastUndo]
  OBVIOUS
<1>1. Begin(m) /\ lastUndo # NoTx /\ p.state = "committed"
  BY DEF StartUndo
<1>2. /\ lastUndo \in TxIds /\ Attached(p) /\ nextTx \in Nat
      /\ turn \in Nat /\ DOMAIN ckpts = {t \in 0 .. turn : t # turn}
  BY <1>1, RewindAssumption DEF Sound, Types, Whole, Pendings, Lined, Numbered
<1>3. /\ m.kind = "undo" /\ m.scope = p.scope /\ m.hasConv = p.hasConv
  BY DEF Swapped
<1>4. tx' = m /\ nextTx' # nextTx
  BY <1>1, <1>2 DEF Begin
<1>5. m.hasConv = "yes" => conv = LeftBy(m) /\ (NeedsConversation(m) => turn = m.from)
  BY <1>3, <1>4 DEF UndoJoins
<1>6. NeedsConversation(m) => m.hasConv = "yes"
  BY <1>1, <1>2, <1>3 DEF Attached, NeedsConversation
<1>7. NeedsConversation(m) => conv = Cut(m.fwdConv, m.boundary)
  BY <1>5, <1>6 DEF LeftBy
<1>8. NeedsConversation(m) => \A t \in DOMAIN ckpts : t < m.from
  BY <1>2, <1>5, <1>6
<1> QED
  BY <1>4, <1>7, <1>8 DEF UndoFits, ConversationBack

--------
(* The point of no return. *)

\* The transaction m = tx is committing, alone, its files are installed, and it becomes p.
LEMMA FinishViews ==
  ASSUME Sound, Sound', Whole, Lined, pc = "finish", NEW p, p.state = "committed", SamePlan(tx, p),
         SameForward(tx, p), manifest' = [manifest EXCEPT ![cur] = p],
         disk' = disk, conv' = conv, ckpts' = ckpts, serial' = serial
  PROVE  /\ cur \in TxIds /\ cur # NoTx /\ manifest[cur] = tx /\ tx.state = "committing" /\ pass = 0
         /\ IsManifest(tx, serial) /\ Types
         /\ manifest'[cur] = p /\ \A t \in TxIds : t # cur => manifest'[t] = manifest[t]
         /\ \A f \in tx.targets : disk[f] = tx.restore[f]
         /\ NeedsConversation(tx) => tx.hasConv = "yes" /\ End(tx)
         /\ Committing' = {}
         /\ EffectiveFiles = HeldFiles(tx, disk) /\ EffectiveConv = HeldConv(tx, conv)
         /\ EffectiveCheckpoints = HeldPoints(tx, ckpts)
         /\ EffectiveFiles' = disk /\ EffectiveConv' = conv /\ EffectiveCheckpoints' = ckpts
         /\ Written
<1>1. /\ cur \in TxIds /\ cur # NoTx /\ manifest[cur] = tx /\ tx.state = "committing" /\ pass = 0
      /\ IsManifest(tx, serial) /\ Types /\ Installed(tx.targets)
      /\ NeedsConversation(tx) => tx.hasConv = "yes"
  BY SwitchFacts DEF Switching
<1>2. manifest'[cur] = p /\ \A t \in TxIds : t # cur => manifest'[t] = manifest[t]
  BY <1>1 DEF Types
<1>3. \A f \in tx.targets : disk[f] = tx.restore[f]
  BY <1>1 DEF Installed, Lined
<1>4. NeedsConversation(tx) => End(tx)
  BY DEF Whole, ChatPhase
<1> PICK c : c = cur
  OBVIOUS
<1>5. Committing = {c} /\ c \in TxIds /\ manifest[c] = tx
  BY <1>1 DEF Whole, Alone, Committing
<1>6. Committing' = {}
  BY <1>1, <1>2, <1>5 DEF Committing
<1>7. /\ EffectiveFiles = HeldFiles(tx, disk) /\ EffectiveConv = HeldConv(tx, conv)
      /\ EffectiveCheckpoints = HeldPoints(tx, ckpts)
  BY <1>5, Held
<1>8. EffectiveFiles' = disk /\ EffectiveConv' = conv /\ EffectiveCheckpoints' = ckpts
  BY <1>6, PlainNext
<1>9. Written
  BY <1>1, <1>2, PlanReflexive DEF Written
<1> QED
  BY <1>1, <1>2, <1>3, <1>4, <1>6, <1>7, <1>8, <1>9

\* What was there, with the restored images over it, is what is there.
LEMMA FilesSwitch ==
  ASSUME Types, IsManifest(tx, serial), \A f \in tx.targets : disk[f] = tx.restore[f]
  PROVE  /\ disk = Atomic!Override(HeldFiles(tx, disk), tx.restore)
         /\ Atomic!Keep(HeldFiles(tx, disk), DOMAIN tx.restore) = tx.forward
         /\ \A f \in tx.targets : HeldFiles(tx, disk)[f] = tx.forward[f]
<1> PICK h, r : h = HeldFiles(tx, disk) /\ r = tx.restore
  OBVIOUS
<1>1. /\ tx.targets \subseteq Files /\ disk \in [Files -> Images] /\ DOMAIN r = tx.targets
      /\ tx.forward \in [tx.targets -> Images]
  BY DEF IsManifest, Types
<1>2. DOMAIN h = Files /\ \A f \in Files : h[f] = IF f \in tx.targets THEN tx.forward[f] ELSE disk[f]
  BY DEF HeldFiles
<1>3. DOMAIN h \cup DOMAIN r = Files /\ DOMAIN h \cap DOMAIN r = tx.targets
  BY <1>1, <1>2
<1>4. Atomic!Override(h, r) = [f \in Files |-> IF f \in DOMAIN r THEN r[f] ELSE h[f]]
  BY <1>3 DEF Atomic!Override
<1>5. \A f \in Files : (IF f \in DOMAIN r THEN r[f] ELSE h[f]) = disk[f]
  BY <1>1, <1>2
<1>6. disk = Atomic!Override(h, r)
  BY <1>1, <1>4, <1>5
<1>7. Atomic!Keep(h, DOMAIN r) = [f \in tx.targets |-> h[f]]
  BY <1>3 DEF Atomic!Keep
<1>8. Atomic!Keep(h, DOMAIN r) = tx.forward
  BY <1>1, <1>2, <1>7
<1> QED
  BY <1>1, <1>2, <1>6, <1>8

\* What the log says of it.
Entry(m) ==
    [ undone |-> "no", to |-> m.restore, was |-> m.forward, dropped |-> m.backup,
      chat |-> IF m.hasConv = "yes" THEN {m.fwdConv} ELSE {} ]

LEMMA FinishLog ==
  ASSUME Sound, cur \in TxIds, manifest[cur] = tx, tx.state = "committing", tx.kind # "undo", pass = 0, cur # NoTx,
         NEW p, p.state = "committed", SamePlan(tx, p), SameForward(tx, p),
         manifest'[cur] = p, \A t \in TxIds : t # cur => manifest'[t] = manifest[t]
  PROVE  /\ cur \notin DOMAIN CompletedLog
         /\ CompletedLog' = Atomic!Override(CompletedLog, [i \in {cur} |-> Entry(tx)])
         /\ \A t : Reverted(t)' <=> Reverted(t)
<1>1. Completed' = Completed \cup {cur} /\ cur \notin Completed
  BY DEF Completed, SamePlan
<1>2. \A t : Reverted(t)' <=> Reverted(t)
  BY DEF Reverted, SamePlan
<1>3. ~Reverted(cur)
  <2> SUFFICES ASSUME NEW u \in TxIds, manifest[u].state = "committed", manifest[u].kind = "undo",
                      manifest[u].parent = cur
               PROVE  FALSE
    BY DEF Reverted
  <2>1. cur < u /\ u < nextTx /\ nextTx = cur + 1
    BY DEF Sound, Ledger, Stages
  <2>2. cur \in Nat /\ u \in Nat
    BY RewindAssumption DEF TxIds
  <2> QED
    BY <2>1, <2>2
<1>4. DOMAIN CompletedLog = Completed /\ DOMAIN CompletedLog' = Completed'
  BY DEF CompletedLog
<1>5. ASSUME NEW t \in Completed PROVE CompletedLog'[t] = CompletedLog[t]
  <2>1. (Reverted(t)' <=> Reverted(t)) /\ manifest'[t] = manifest[t] /\ t \in Completed'
    BY <1>1, <1>2, <1>5 DEF Completed
  <2> QED
    BY <2>1 DEF CompletedLog
<1>6. CompletedLog'[cur] = Entry(tx)
  <2> PICK c : c = cur
    OBVIOUS
  <2>1. ~Reverted(c)' /\ c \in Completed'
    BY <1>1, <1>2, <1>3
  <2>2. /\ manifest'[c].restore = tx.restore /\ manifest'[c].forward = tx.forward
        /\ manifest'[c].backup = tx.backup /\ manifest'[c].hasConv = tx.hasConv
        /\ manifest'[c].fwdConv = tx.fwdConv
    BY DEF SamePlan, SameForward
  <2>3. CompletedLog'[c] = Entry(tx)
    BY <2>1, <2>2 DEF CompletedLog, Entry
  <2> QED
    BY <2>3
<1>7. CompletedLog' = [t \in Completed' |-> CompletedLog'[t]]
  BY <1>4 DEF CompletedLog
<1>8. Atomic!Override(CompletedLog, [i \in {cur} |-> Entry(tx)])
        = [t \in Completed \cup {cur} |-> IF t \in {cur} THEN Entry(tx) ELSE CompletedLog[t]]
  BY <1>4 DEF Atomic!Override
<1> QED
  BY <1>1, <1>2, <1>4, <1>5, <1>6, <1>7, <1>8

\* The operation completes with these images, this cut of the conversation and this turn.
LEMMA FinishCompletes ==
  ASSUME Sound, Sound', Whole, Lined, pc = "finish", tx.kind # "undo", NEW p, p.state = "committed",
         SamePlan(tx, p), SameForward(tx, p), manifest' = [manifest EXCEPT ![cur] = p],
         disk' = disk, conv' = conv, ckpts' = ckpts, serial' = serial,
         NEW upTo, NEW k, NEW saved,
         conv = SubSeq(EffectiveConv, 1, upTo),
         ckpts = Atomic!Keep(EffectiveCheckpoints, {t \in DOMAIN EffectiveCheckpoints : t < k}),
         tx.backup = Atomic!Keep(EffectiveCheckpoints, {t \in DOMAIN EffectiveCheckpoints : t >= k}),
         saved = IF tx.hasConv = "yes" THEN {tx.fwdConv} ELSE {}
  PROVE  Atomic!Complete(cur, tx.restore, upTo, k, saved)
<1>1. /\ cur \in TxIds /\ cur # NoTx /\ manifest[cur] = tx /\ tx.state = "committing" /\ pass = 0
      /\ IsManifest(tx, serial) /\ Types
      /\ manifest'[cur] = p /\ \A t \in TxIds : t # cur => manifest'[t] = manifest[t]
      /\ \A f \in tx.targets : disk[f] = tx.restore[f]
      /\ EffectiveFiles = HeldFiles(tx, disk)
      /\ EffectiveFiles' = disk /\ EffectiveConv' = conv /\ EffectiveCheckpoints' = ckpts
  BY FinishViews
<1>2. /\ cur \notin DOMAIN CompletedLog
      /\ CompletedLog' = Atomic!Override(CompletedLog, [i \in {cur} |-> Entry(tx)])
  BY <1>1, FinishLog
<1>3. /\ EffectiveFiles' = Atomic!Override(EffectiveFiles, tx.restore)
      /\ Atomic!Keep(EffectiveFiles, DOMAIN tx.restore) = tx.forward
  BY <1>1, FilesSwitch
<1>4. EffectiveConv' = SubSeq(EffectiveConv, 1, upTo)
  BY <1>1
<1>5. EffectiveCheckpoints' = Atomic!Keep(EffectiveCheckpoints, {t \in DOMAIN EffectiveCheckpoints : t < k})
  BY <1>1
<1>6. Entry(tx) = [ undone |-> "no", to |-> tx.restore, was |-> Atomic!Keep(EffectiveFiles, DOMAIN tx.restore),
                    dropped |-> Atomic!Keep(EffectiveCheckpoints, {t \in DOMAIN EffectiveCheckpoints : t >= k}),
                    chat |-> saved ]
  BY <1>3 DEF Entry
<1> QED
  BY <1>2, <1>3, <1>4, <1>5, <1>6 DEF Atomic!Complete

\* Cutting where nothing is left to cut.
LEMMA CutNothing ==
  ASSUME Types, Numbered
  PROVE  /\ SubSeq(conv, 1, Len(conv)) = conv
         /\ Atomic!Keep(ckpts, {t \in DOMAIN ckpts : t < turn}) = ckpts
         /\ Atomic!Keep(ckpts, {t \in DOMAIN ckpts : t >= turn}) = NoBackup
<1>1. conv \in Seq(1 .. serial) /\ turn \in Nat /\ ckpts = [t \in DOMAIN ckpts |-> ckpts[t]]
  BY SessionTypes DEF Types, Chats, PointMaps
<1>2. \A t \in DOMAIN ckpts : t \in Nat /\ t < turn
  BY <1>1 DEF Numbered
<1>3. SubSeq(conv, 1, Len(conv)) = conv
  BY <1>1
<1>4. DOMAIN ckpts \cap {t \in DOMAIN ckpts : t < turn} = DOMAIN ckpts
  BY <1>2
<1>5. DOMAIN ckpts \cap {t \in DOMAIN ckpts : t >= turn} = {}
  BY <1>1, <1>2
<1> QED
  BY <1>1, <1>3, <1>4, <1>5 DEF Atomic!Keep, NoBackup

\* A rewind or a revert completes.
LEMMA FinishForward ==
  ASSUME Sound, Sound', Whole, Lined, pc = "finish", tx.kind # "undo", NEW p, p.state = "committed",
         SamePlan(tx, p), SameForward(tx, p), manifest' = [manifest EXCEPT ![cur] = p],
         disk' = disk, conv' = conv, ckpts' = ckpts, serial' = serial
  PROVE  Atomic!Next
<1>1. /\ cur \in TxIds /\ cur # NoTx /\ tx.state = "committing" /\ pass = 0 /\ IsManifest(tx, serial) /\ Types
      /\ NeedsConversation(tx) => tx.hasConv = "yes" /\ End(tx)
      /\ EffectiveConv = HeldConv(tx, conv) /\ EffectiveCheckpoints = HeldPoints(tx, ckpts)
  BY FinishViews
<1>2. /\ tx.kind = "rewind" => RewindFits(tx) /\ tx.hasConv = "yes"
      /\ tx.kind = "file_revert" => RevertFits(tx)
  BY <1>1 DEF Lined, Planned, Switching
<1>3. tx.kind \in {"rewind", "file_revert"}
  BY <1>1 DEF IsManifest
<1>4. CASE ~NeedsConversation(tx)
  <2>1. EffectiveConv = conv /\ EffectiveCheckpoints = ckpts
    BY <1>1, <1>4 DEF HeldConv, HeldPoints
  <2>2. tx.backup = NoBackup
    BY <1>4 DEF Lined, Covered, Stretch
  <2>3. tx.hasConv = "yes" => conv = tx.fwdConv
    BY <1>1, <1>4 DEF Lined, Kept
  <2>4. Atomic!NewTurn = turn
    BY <1>1, <2>1, NumberedTurn DEF Atomic!NewTurn, Atomic!Max, NextTurn, Greatest, Lined
  <2>5. /\ SubSeq(conv, 1, Len(conv)) = conv
        /\ Atomic!Keep(ckpts, {t \in DOMAIN ckpts : t < turn}) = ckpts
        /\ Atomic!Keep(ckpts, {t \in DOMAIN ckpts : t >= turn}) = NoBackup
    BY <1>1, CutNothing DEF Lined
  <2> PICK saved : saved = IF tx.hasConv = "yes" THEN {tx.fwdConv} ELSE {}
    OBVIOUS
  <2>6. Atomic!Complete(cur, tx.restore, Len(EffectiveConv), Atomic!NewTurn, saved)
    <3>1. conv = SubSeq(EffectiveConv, 1, Len(EffectiveConv))
      BY <2>1, <2>5
    <3>2. ckpts = Atomic!Keep(EffectiveCheckpoints, {t \in DOMAIN EffectiveCheckpoints : t < Atomic!NewTurn})
      BY <2>1, <2>4, <2>5
    <3>3. tx.backup = Atomic!Keep(EffectiveCheckpoints, {t \in DOMAIN EffectiveCheckpoints : t >= Atomic!NewTurn})
      BY <2>1, <2>2, <2>4, <2>5
    <3> QED
      BY <3>1, <3>2, <3>3, FinishCompletes
  <2>7. CASE tx.kind = "rewind"
    <3>1. tx.scope = {"files"}
      BY <1>2, <1>4, <2>7 DEF RewindFits, NeedsConversation
    <3>2. /\ Atomic!Captured(tx.from) # {} /\ Atomic!Unedited(tx.from) /\ tx.restore = Atomic!Oldest(tx.from)
          /\ tx.from \in DOMAIN EffectiveCheckpoints
      BY <1>2, <2>7, <3>1 DEF RewindFits
    <3>3. saved = {EffectiveConv}
      BY <1>2, <2>1, <2>3, <2>7
    <3>4. Atomic!RewindCode(cur, tx.from)
      BY <2>6, <3>2, <3>3 DEF Atomic!RewindCode
    <3> QED
      BY <1>1, <3>2, <3>4 DEF Atomic!Next
  <2>8. CASE tx.kind = "file_revert"
    <3>1. PICK f \in Atomic!Captured(0) : tx.restore = Atomic!Keep(Atomic!Oldest(0), {f})
      BY <1>2, <2>8 DEF RevertFits
    <3>2. saved = {} /\ f \in Files
      BY <1>2, <2>8, <3>1 DEF RevertFits, Atomic!Captured
    <3>3. Atomic!RevertFile(cur, f)
      BY <2>6, <3>1, <3>2 DEF Atomic!RevertFile
    <3> QED
      BY <1>1, <3>2, <3>3 DEF Atomic!Next
  <2> QED
    BY <1>3, <2>7, <2>8
<1>5. CASE NeedsConversation(tx)
  <2>1. tx.kind = "rewind" /\ RewindFits(tx)
    BY <1>2, <1>3, <1>5 DEF RevertFits, NeedsConversation
  <2>2. EffectiveConv = tx.fwdConv /\ EffectiveCheckpoints = Merge(ckpts, tx.backup)
    BY <1>1, <1>5, <2>1 DEF HeldConv, HeldPoints
  <2> PICK k, b, c : k = tx.from /\ b = tx.backup /\ c = EffectiveCheckpoints
    OBVIOUS
  <2>3. k \in DOMAIN c /\ tx.boundary = c[k].msgIndex /\ b = From(c, k)
    BY <1>5, <2>1 DEF RewindFits
  <2>4. conv = SubSeq(EffectiveConv, 1, tx.boundary)
    BY <1>1, <1>5, <2>1, <2>2 DEF End, ConversationBack, Cut
  <2>5. ckpts = Atomic!Keep(c, {t \in DOMAIN c : t < k})
    <3>1. \A t \in DOMAIN ckpts : t \in Nat /\ t < k
      BY <1>1, <1>5, <2>1, SessionTypes DEF End, ConversationBack
    <3>2. \A t \in DOMAIN b : ~(t < k)
      <4>1. serial \in Nat
        BY <1>1, SessionTypes
      <4>2. k \in Nat
        BY <1>1, <4>1 DEF IsManifest
      <4>3. \A t \in DOMAIN b : t \in Nat
        BY <1>1, <4>1, PointFacts DEF IsManifest
      <4>4. \A t \in DOMAIN b : t >= k
        BY <1>5 DEF Lined, Covered, Stretch
      <4> QED
        BY <4>2, <4>3, <4>4
    <3>3. ckpts = [t \in DOMAIN ckpts |-> ckpts[t]]
      BY <1>1 DEF Types, PointMaps
    <3>4. /\ DOMAIN c = DOMAIN ckpts \cup DOMAIN b
          /\ \A t \in DOMAIN c : c[t] = IF t \in DOMAIN b THEN b[t] ELSE ckpts[t]
      BY <2>2 DEF Merge
    <3>5. DOMAIN c \cap {t \in DOMAIN c : t < k} = DOMAIN ckpts
      BY <3>1, <3>2, <3>4
    <3>6. \A t \in DOMAIN ckpts : c[t] = ckpts[t]
      BY <3>1, <3>2, <3>4
    <3> QED
      BY <3>3, <3>5, <3>6 DEF Atomic!Keep
  <2>6. b = Atomic!Keep(c, {t \in DOMAIN c : t >= k})
    <3>1. DOMAIN c \cap {t \in DOMAIN c : t >= k} = {t \in DOMAIN c : t >= k}
      OBVIOUS
    <3> QED
      BY <2>3, <3>1 DEF Atomic!Keep, From
  <2>7. Atomic!Complete(cur, tx.restore, tx.boundary, k, {EffectiveConv})
    <3>1. {EffectiveConv} = IF tx.hasConv = "yes" THEN {tx.fwdConv} ELSE {}
      BY <1>1, <1>5, <2>2
    <3> QED
      BY <2>4, <2>5, <2>6, <3>1, FinishCompletes
  <2>8. CASE "files" \in tx.scope
    <3>1. Atomic!RewindBoth(cur, k)
      BY <2>1, <2>3, <2>7, <2>8 DEF Atomic!RewindBoth, RewindFits
    <3> QED
      BY <1>1, <2>3, <3>1 DEF Atomic!Next
  <2>9. CASE "files" \notin tx.scope
    <3>1. Atomic!RewindConversation(cur, k)
      BY <2>1, <2>3, <2>7, <2>9 DEF Atomic!RewindConversation, RewindFits
    <3> QED
      BY <1>1, <2>3, <3>1 DEF Atomic!Next
  <2> QED
    BY <2>8, <2>9
<1> QED
  BY <1>4, <1>5

\* What the log says once an undo has reverted q.
LEMMA UndoLog ==
  ASSUME Sound, cur \in TxIds, manifest[cur] = tx, tx.state = "committing", tx.kind = "undo",
         NEW q, q = tx.parent, q \in Completed, ~Reverted(q),
         NEW p, p.state = "committed", SamePlan(tx, p), manifest'[cur] = p,
         \A t \in TxIds : t # cur => manifest'[t] = manifest[t]
  PROVE  /\ CompletedLog' = [CompletedLog EXCEPT ![q].undone = "yes"]
         /\ \A t : Reverted(t)' <=> Reverted(t) \/ t = q
<1> PICK c : c = cur
  OBVIOUS
<1>1. p.kind = "undo" /\ p.parent = q
  BY DEF SamePlan
<1>2. Completed' = Completed /\ c \notin Completed
  BY <1>1 DEF Completed
<1>3. ASSUME NEW t PROVE Reverted(t)' <=> Reverted(t) \/ t = q
  <2>1. CASE t = q
    BY <1>1, <2>1 DEF Reverted
  <2>2. CASE t # q
    BY <1>1, <2>2 DEF Reverted
  <2> QED
    BY <2>1, <2>2
<1>4. DOMAIN CompletedLog = Completed /\ DOMAIN CompletedLog' = Completed
  BY <1>2 DEF CompletedLog
<1>5. ASSUME NEW t \in Completed, t # q PROVE CompletedLog'[t] = CompletedLog[t]
  <2>1. (Reverted(t)' <=> Reverted(t)) /\ manifest'[t] = manifest[t] /\ t \in Completed'
    BY <1>2, <1>3, <1>5 DEF Completed
  <2> QED
    BY <2>1 DEF CompletedLog
<1>6. CompletedLog'[q] = [CompletedLog[q] EXCEPT !.undone = "yes"]
  <2>1. Reverted(q)' /\ manifest'[q] = manifest[q] /\ q \in Completed'
    BY <1>2, <1>3 DEF Completed
  <2> PICK m : m = manifest[q]
    OBVIOUS
  <2> PICK ch : ch = IF m.hasConv = "yes" THEN {m.fwdConv} ELSE {}
    OBVIOUS
  <2>2. CompletedLog'[q] = [ undone |-> "yes", to |-> m.restore, was |-> m.forward, dropped |-> m.backup,
                             chat |-> ch ]
    BY <2>1 DEF CompletedLog
  <2>3. CompletedLog[q] = [ undone |-> "no", to |-> m.restore, was |-> m.forward, dropped |-> m.backup,
                            chat |-> ch ]
    BY DEF CompletedLog
  <2> QED
    BY <2>2, <2>3
<1>7. CompletedLog' = [t \in Completed |-> CompletedLog'[t]]
  BY <1>2, <1>4 DEF CompletedLog
<1>8. CompletedLog = [t \in Completed |-> CompletedLog[t]]
  BY DEF CompletedLog
<1> PICK L, M : L = CompletedLog /\ M = CompletedLog'
  OBVIOUS
<1>9. M = [L EXCEPT ![q] = [L[q] EXCEPT !.undone = "yes"]]
  BY <1>4, <1>5, <1>6, <1>7, <1>8
<1> QED
  BY <1>3, <1>9

\* The checkpoints an undo has brought back.
LEMMA UndonePoints ==
  ASSUME Sound, Lined, NeedsConversation(tx), tx.kind = "undo", pc = "finish"
  PROVE  ckpts = Atomic!Override(Before(ckpts, tx.from), tx.backup)
<1> PICK k, b : k = tx.from /\ b = tx.backup
  OBVIOUS
<1>1. /\ DOMAIN b \subseteq DOMAIN ckpts
      /\ \A t \in DOMAIN ckpts : t >= k => t \in DOMAIN b /\ ckpts[t] = b[t]
      /\ \A t \in DOMAIN b : t >= k
  BY DEF Lined, StretchPhase, Present, Covered, Covers, Stretch
<1>2. Types /\ IsManifest(tx, serial) /\ serial \in Nat
  BY SessionTypes DEF Sound, Types
<1>3. k \in Nat /\ \A t \in DOMAIN ckpts : t \in Nat
  BY <1>2, SessionTypes DEF IsManifest
<1>4. ckpts = [t \in DOMAIN ckpts |-> ckpts[t]]
  BY <1>2 DEF Types, PointMaps
<1> PICK B : B = Before(ckpts, k)
  OBVIOUS
<1>5. DOMAIN B = {t \in DOMAIN ckpts : t < k} /\ \A t \in DOMAIN B : B[t] = ckpts[t]
  BY DEF Before
<1>6. DOMAIN B \cup DOMAIN b = DOMAIN ckpts
  BY <1>1, <1>3, <1>5
<1>7. \A t \in DOMAIN ckpts : ckpts[t] = IF t \in DOMAIN b THEN b[t] ELSE B[t]
  BY <1>1, <1>3, <1>5
<1>8. ckpts = Atomic!Override(B, b)
  BY <1>4, <1>6, <1>7 DEF Atomic!Override
<1> QED
  BY <1>8

\* An undo completes.
LEMMA FinishUndo ==
  ASSUME Sound, Sound', Whole, Lined, pc = "finish", tx.kind = "undo", NEW p, p.state = "committed",
         SamePlan(tx, p), SameForward(tx, p), manifest' = [manifest EXCEPT ![cur] = p],
         disk' = disk, conv' = conv, ckpts' = ckpts, serial' = serial
  PROVE  Atomic!Next
<1> PICK q : q = tx.parent
  OBVIOUS
<1> PICK m : m = manifest[q]
  OBVIOUS
<1>1. /\ cur \in TxIds /\ cur # NoTx /\ manifest[cur] = tx /\ tx.state = "committing" /\ pass = 0
      /\ IsManifest(tx, serial) /\ Types
      /\ manifest'[cur] = p /\ \A t \in TxIds : t # cur => manifest'[t] = manifest[t]
      /\ \A f \in tx.targets : disk[f] = tx.restore[f]
      /\ NeedsConversation(tx) => tx.hasConv = "yes" /\ End(tx)
      /\ EffectiveFiles = HeldFiles(tx, disk) /\ EffectiveConv = HeldConv(tx, conv)
      /\ EffectiveCheckpoints = HeldPoints(tx, ckpts)
      /\ EffectiveFiles' = disk /\ EffectiveConv' = conv /\ EffectiveCheckpoints' = ckpts
  BY FinishViews
<1>2. q \in TxIds /\ lastUndo = q /\ q # NoTx
  BY <1>1, SessionTypes DEF Sound, Ledger
<1>3. m.state = "committed" /\ m.kind # "undo" /\ ~Reverted(q)
  BY <1>2 DEF Sound, Offers
<1>4. q \in Completed /\ q \in Undoables
  BY <1>2, <1>3 DEF Completed, Undoables
<1>5. /\ m.restore = tx.forward /\ m.forward = tx.restore /\ m.backup = tx.backup
      /\ m.hasConv = tx.hasConv /\ m.fwdConv = tx.fwdConv
  BY <1>1 DEF Lined, Planned, Switching, Mirrors, SameForward
<1> PICK L, e : L = CompletedLog /\ e = CompletedLog[q]
  OBVIOUS
<1>6. CompletedLog' = [L EXCEPT ![q].undone = "yes"]
  BY <1>1, <1>3, <1>4, UndoLog
<1>7. e = [ undone |-> "no", to |-> tx.forward, was |-> tx.restore, dropped |-> tx.backup,
            chat |-> IF tx.hasConv = "yes" THEN {tx.fwdConv} ELSE {} ]
  BY <1>3, <1>4, <1>5 DEF CompletedLog
<1>8. Atomic!Undoable # {} /\ q = Atomic!Max(Atomic!Undoable)
  <2>1. Atomic!Undoable = Undoables
    <3>1. DOMAIN CompletedLog = Completed /\ \A t \in Completed : CompletedLog[t].undone = "no" <=> ~Reverted(t)
      BY DEF CompletedLog
    <3> QED
      BY <3>1 DEF Atomic!Undoable, Undoables
  <2>2. \A t \in Undoables : t <= q
    BY <1>1, <1>2 DEF Lined, Newest
  <2>3. \A t \in Undoables : t \in Nat
    <3>1. \A t \in TxIds : t \in Nat
      BY RewindAssumption DEF TxIds
    <3>2. Undoables \subseteq TxIds
      BY UndoableIsStored
    <3> QED
      BY <3>1, <3>2
  <2>4. \A t \in Undoables : (\A u \in Undoables : u <= t) => t = q
    BY <1>4, <2>2, <2>3
  <2>5. q = CHOOSE t \in Undoables : \A u \in Undoables : u <= t
    BY <1>4, <2>2, <2>4
  <2> QED
    BY <1>4, <2>1, <2>5 DEF Atomic!Max
<1>9. /\ \A f \in DOMAIN e.to : EffectiveFiles[f] = e.to[f]
      /\ EffectiveFiles' = Atomic!Override(EffectiveFiles, e.was)
  <2>1. /\ disk = Atomic!Override(HeldFiles(tx, disk), tx.restore)
        /\ \A f \in tx.targets : HeldFiles(tx, disk)[f] = tx.forward[f]
    BY <1>1, FilesSwitch
  <2>2. e.to = tx.forward /\ DOMAIN e.to = tx.targets /\ e.was = tx.restore
    BY <1>1, <1>7 DEF IsManifest
  <2> QED
    BY <1>1, <2>1, <2>2
<1>10. EffectiveConv' \in (IF e.chat = {} THEN {EffectiveConv} ELSE e.chat)
  <2>1. CASE tx.hasConv = "yes"
    <3>1. conv = tx.fwdConv
      <4>1. CASE NeedsConversation(tx)
        BY <1>1, <4>1 DEF End, ConversationForward
      <4>2. CASE ~NeedsConversation(tx)
        BY <1>1, <2>1, <4>2 DEF Lined, Kept
      <4> QED
        BY <4>1, <4>2
    <3> QED
      BY <1>1, <1>7, <2>1, <3>1
  <2>2. CASE tx.hasConv # "yes"
    <3>1. EffectiveConv = conv
      BY <1>1, <2>2 DEF HeldConv
    <3>2. e.chat = {}
      BY <1>7, <2>2
    <3> QED
      BY <1>1, <3>1, <3>2
  <2> QED
    BY <2>1, <2>2
<1>11. EffectiveCheckpoints' = Atomic!Override(EffectiveCheckpoints, e.dropped)
  <2>1. e.dropped = tx.backup
    BY <1>7
  <2>2. CASE NeedsConversation(tx)
    <3>1. EffectiveCheckpoints = Before(ckpts, tx.from)
      BY <1>1, <2>2 DEF HeldPoints
    <3> QED
      BY <1>1, <2>1, <2>2, <3>1, UndonePoints
  <2>3. CASE ~NeedsConversation(tx)
    <3>1. EffectiveCheckpoints = ckpts
      BY <1>1, <2>3 DEF HeldPoints
    <3>2. tx.backup = << >>
      BY <2>3 DEF Lined, Covered, Stretch, NoBackup
    <3>3. DOMAIN tx.backup = {}
      BY <3>2
    <3>4. ckpts = [t \in DOMAIN ckpts |-> ckpts[t]]
      BY <1>1 DEF Types, PointMaps
    <3>5. ckpts = Atomic!Override(ckpts, tx.backup)
      BY <3>3, <3>4 DEF Atomic!Override
    <3> QED
      BY <1>1, <2>1, <3>1, <3>5
  <2> QED
    BY <2>2, <2>3
<1>12. Atomic!Undo(q)
  BY <1>6, <1>8, <1>9, <1>10, <1>11 DEF Atomic!Undo
<1> QED
  BY <1>2, <1>12 DEF Atomic!Next

LEMMA FinishLined ==
  ASSUME Sound, Sound', Whole, Lined, Finish
  PROVE  Lined' /\ (Atomic!Next \/ UNCHANGED Atomic!vars)
<1>1. /\ pc = "finish" /\ disk' = disk /\ conv' = conv /\ ckpts' = ckpts /\ turn' = turn
      /\ serial' = serial /\ pass' = pass /\ queue' = queue /\ edited' = edited
  BY DEF Finish, diskVars, sessionVars, recoveryVars, boundVars
<1>2. /\ cur \in TxIds /\ cur # NoTx /\ Types /\ IsManifest(tx, serial) /\ manifest[cur] = tx /\ pass = 0
      /\ tx.state = "committing"
  BY <1>1, SwitchFacts DEF Switching
<1> PICK c : c = cur
  OBVIOUS
<1> PICK p : p = SetState(tx, "committed")
  OBVIOUS
<1>3. p.state = "committed" /\ SamePlan(tx, p) /\ SameForward(tx, p)
  BY <1>2, StateView DEF States
<1>4. p.kind = tx.kind /\ p.parent = tx.parent /\ NeedsConversation(p) = NeedsConversation(tx)
  BY <1>3 DEF SamePlan, NeedsConversation
<1>5. CASE tx.kind # "undo" /\ Store(InState("committed")) /\ lastUndo' = cur /\ Return
  <2>1. manifest' = [manifest EXCEPT ![cur] = p]
    BY <1>5 DEF Store, InState, SetState
  <2>2. Atomic!Next
    BY <1>1, <1>3, <1>5, <2>1, FinishForward
  <2>3. Written /\ manifest'[c] = p /\ \A t \in TxIds : t # c => manifest'[t] = manifest[t]
    BY <1>1, <1>3, <2>1, FinishViews
  <2>4. tx' = EmptyManifest /\ pc' = "idle" /\ failed' = {} /\ lastUndo' = c
    BY <1>2, <1>5 DEF Return
  <2>5. tx'.scope = {} /\ tx'.hasConv = "no" /\ tx'.state = "none"
    BY <2>4 DEF EmptyManifest
  <2>6. StretchPhase' /\ Kept' /\ Bare' /\ Planned'
    BY <2>4, <2>5 DEF StretchPhase, Kept, Bare, Planned, NeedsConversation, Preparing, Publishing, Switching
  <2>7. Covered'
    BY <1>1, <2>3, <2>4, CoveredKept DEF Lined
  <2>8. Newest'
    <3>1. \A t : Reverted(t)' <=> Reverted(t)
      BY <1>2, <1>3, <1>5, <2>3, FinishLog
    <3>2. \A t \in TxIds : manifest'[t].state = "undone" => Reverted(t)'
      BY <1>3, <2>3, <3>1 DEF Lined, Newest
    <3>3. ASSUME NEW t \in Undoables' PROVE t <= c
      <4>1. t \in TxIds /\ manifest'[t].state # "none"
        BY <3>3 DEF Undoables, Completed
      <4>2. t \in Nat /\ c \in Nat
        BY <1>2, <4>1, RewindAssumption DEF TxIds
      <4>3. CASE t = c
        BY <4>2, <4>3
      <4>4. CASE t # c
        <5>1. t < nextTx /\ nextTx = c + 1
          BY <1>2, <2>3, <4>1, <4>4 DEF Sound, Ledger, Stages
        <5> QED
          BY <4>2, <5>1
      <4> QED
        BY <4>3, <4>4
    <3> QED
      BY <1>1, <1>2, <2>4, <3>2, <3>3 DEF Newest
  <2> QED
    BY <1>1, <2>2, <2>6, <2>7, <2>8 DEF Lined, Numbered
<1>6. CASE /\ tx.kind = "undo" /\ Persist(InState("committed")) /\ pc' = "markUndone"
           /\ lastUndo' = lastUndo /\ failed' = failed
  <2>1. manifest' = [manifest EXCEPT ![cur] = p] /\ tx' = p
    BY <1>6 DEF Persist, Store, InState, SetState
  <2>2. Atomic!Next
    BY <1>1, <1>3, <1>6, <2>1, FinishUndo
  <2>3. Written /\ manifest'[c] = p /\ \A t \in TxIds : t # c => manifest'[t] = manifest[t]
    BY <1>1, <1>3, <2>1, FinishViews
  <2>4. p.hasConv = tx.hasConv /\ p.fwdConv = tx.fwdConv
    BY <1>3 DEF SameForward
  <2>5. StretchPhase' /\ Kept' /\ Bare' /\ Planned'
    <3>1. StretchPhase'
      BY <1>4, <1>6, <2>1 DEF StretchPhase
    <3>2. Kept'
      <4>1. tx'.hasConv = "yes" /\ ~NeedsConversation(p) => conv = p.fwdConv
        BY <1>2, <1>4, <2>1, <2>4 DEF Lined, Kept
      <4> QED
        BY <1>1, <1>2, <2>1, <4>1 DEF Kept, NeedsConversation
    <3>3. Bare'
      BY <1>3, <1>6, <2>1 DEF Bare
    <3>4. Planned'
      BY <1>6 DEF Planned, Preparing, Publishing, Switching
    <3> QED
      BY <3>1, <3>2, <3>3, <3>4
  <2>6. Covered'
    BY <1>1, <1>3, <2>1, <2>3, CoveredKept DEF Lined
  <2>7. Newest'
    <3>1. ASSUME NEW t \in TxIds, manifest'[t].state = "undone" PROVE Reverted(t)'
      <4>1. t # c /\ manifest[t].state = "undone"
        BY <1>3, <2>3, <3>1
      <4>2. PICK u \in TxIds : manifest[u].state = "committed" /\ manifest[u].kind = "undo" /\ manifest[u].parent = t
        BY <4>1 DEF Lined, Newest, Reverted
      <4>3. u # c
        BY <1>2, <4>2
      <4>4. manifest'[u] = manifest[u]
        BY <2>3, <4>3
      <4> QED
        BY <4>2, <4>4 DEF Reverted
    <3> QED
      BY <1>1, <1>2, <1>6, <3>1 DEF Newest
  <2> QED
    BY <1>1, <2>2, <2>5, <2>6, <2>7 DEF Lined, Numbered
<1>7. CASE /\ pc' = "backConv" /\ manifest' = manifest /\ lastUndo' = lastUndo /\ cur' = cur /\ tx' = tx
           /\ todo' = todo /\ failed' = failed
  <2>1. AllRecorded
    BY <1>7, SameWritten
  <2>2. UNCHANGED Atomic!vars
    BY <1>1, <2>1, QuietHidden
  <2>3. Numbered' /\ Covers(tx)'
    BY <1>1, <1>7 DEF Lined, Covered, Numbered, Covers, NeedsConversation
  <2>4. StretchPhase' /\ Kept' /\ Bare'
    BY <1>1, <1>2, <1>7 DEF Lined, StretchPhase, Kept, Bare, Present, NeedsConversation, Preparing, Publishing
  <2> QED
    BY <1>1, <1>2, <1>7, <2>2, <2>3, <2>4, SessionLined DEF Switching, Ahead, Attachable, Preparing, Publishing
<1>8. \/ tx.kind # "undo" /\ Store(InState("committed")) /\ lastUndo' = cur /\ Return
      \/ /\ tx.kind = "undo" /\ Persist(InState("committed")) /\ pc' = "markUndone"
         /\ lastUndo' = lastUndo /\ failed' = failed
      \/ /\ pc' = "backConv" /\ manifest' = manifest /\ lastUndo' = lastUndo /\ cur' = cur /\ tx' = tx
         /\ todo' = todo /\ failed' = failed
  BY DEF Finish, opVars
<1> QED
  BY <1>5, <1>6, <1>7, <1>8

--------
(* Every step. *)

\* Only an undo begins an undo.
LEMMA NewUndo ==
  ASSUME Next, nextTx' # nextTx, tx'.kind = "undo"
  PROVE  StartUndo
<1>1. \/ Turn \/ ExternalEdit \/ Crash \/ Reopen \/ Restart \/ ScanManifest \/ PassDone \/ Commit \/ Compensation
      => nextTx' = nextTx
  <2>1. Turn \/ ExternalEdit \/ Crash \/ Reopen \/ Restart => nextTx' = nextTx
    BY DEF Turn, ExternalEdit, Crash, Reopen, Restart, Open
  <2>2. ScanManifest \/ PassDone => nextTx' = nextTx
    BY DEF ScanManifest, PassDone, boundVars
  <2>3. StageTemps \/ PersistPrepared \/ AttachForward \/ PersistUndoAgain \/ BeginCommit => nextTx' = nextTx
    BY DEF StageTemps, PersistPrepared, AttachForward, PersistUndoAgain, BeginCommit, boundVars
  <2>4. PublishIntent \/ BackUpTarget \/ InstallTarget \/ PersistProgress \/ FilesDone => nextTx' = nextTx
    BY DEF PublishIntent, BackUpTarget, InstallTarget, PersistProgress, FilesDone, boundVars
  <2>5. CutConversation \/ CutCheckpoints \/ RestoreConversation \/ RestoreCheckpoints => nextTx' = nextTx
    BY DEF CutConversation, CutCheckpoints, RestoreConversation, RestoreCheckpoints, boundVars
  <2>6. Finish \/ MarkUndone => nextTx' = nextTx
    BY DEF Finish, MarkUndone, boundVars
  <2>7. Compensation => nextTx' = nextTx
    BY DEF Compensation, BackConversation, BackCheckpoints, BackDone, CompensateFile, ReinstateFile, Settle,
       boundVars
  <2> QED
    BY <2>1, <2>2, <2>3, <2>4, <2>5, <2>6, <2>7 DEF Commit
<1>2. StartOperation
  BY <1>1 DEF Next, Recovery
<1>3. ASSUME NEW k \in DOMAIN ckpts, NEW scope \in { {"files"}, {"conv"}, {"files", "conv"} }, StartRewind(k, scope)
      PROVE  FALSE
  BY <1>3 DEF StartRewind, Begin, Prepared
<1>4. ASSUME NEW f \in Files, StartFileRevert(f) PROVE FALSE
  BY <1>4 DEF StartFileRevert, Begin, Prepared
<1> QED
  BY <1>2, <1>3, <1>4 DEF StartOperation

\* What follows in sequence is orderly.
LEMMA SequenceIsOrderly ==
  ASSUME Sound, Whole, Lined, Next, InSequence
  PROVE  Orderly
<1>1. StartUndo => UndoFits
  BY JoinsFit DEF InSequence
<1>2. UndoFits
  BY <1>1, NewUndo DEF UndoFits
<1> QED
  BY <1>2 DEF InSequence, Orderly

LEMMA NextLined ==
  ASSUME Sound, Sound', Whole, Lined, Next, InSequence
  PROVE  Lined' /\ (Atomic!Next \/ UNCHANGED Atomic!vars)
<1>1. CASE Turn
  BY <1>1, TurnAtomic DEF InSequence, Atomic!Next
<1>2. CASE ExternalEdit
  <2>1. edited' # {}
    BY <1>2 DEF ExternalEdit
  <2> QED
    BY <2>1 DEF InSequence
<1>3. CASE StartOperation
  <2>1. ASSUME NEW k \in DOMAIN ckpts, NEW scope \in { {"files"}, {"conv"}, {"files", "conv"} },
               StartRewind(k, scope)
        PROVE  Lined' /\ UNCHANGED Atomic!vars
    BY <2>1, StartRewindLined DEF InSequence
  <2>2. ASSUME NEW f \in Files, StartFileRevert(f) PROVE Lined' /\ UNCHANGED Atomic!vars
    BY <2>2, StartFileRevertLined DEF InSequence
  <2> QED
    BY <1>3, <2>1, <2>2, StartUndoLined DEF StartOperation, InSequence
<1>4. CASE Commit
  <2>1. CASE StageTemps \/ PersistPrepared \/ AttachForward \/ PersistUndoAgain \/ BeginCommit
    BY <2>1, StageTempsLined, PersistPreparedLined, AttachForwardLined, PersistUndoAgainLined, BeginCommitLined
  <2>2. CASE PublishIntent \/ BackUpTarget \/ InstallTarget \/ PersistProgress \/ FilesDone
    BY <2>2, PublishIntentLined, MoveLined, PersistProgressLined, FilesDoneLined
  <2>3. CASE CutConversation \/ CutCheckpoints \/ RestoreConversation \/ RestoreCheckpoints
    BY <2>3, CutConversationLined, CutCheckpointsLined, RestoreConversationLined, RestoreCheckpointsLined
  <2>4. CASE Finish \/ MarkUndone
    BY <2>4, FinishLined, MarkUndoneLined
  <2> QED
    BY <1>4, <2>1, <2>2, <2>3, <2>4 DEF Commit
<1>5. CASE Compensation
  BY <1>5, BackConversationLined, BackCheckpointsLined, BackDoneLined, CompensateFileLined,
     ReinstateFileLined, SettleLined DEF Compensation
<1>6. CASE Crash
  BY <1>6, CrashLined
<1>7. CASE Reopen \/ Recovery
  BY <1>7, OpenLined, ScanLined, PassDoneLined DEF Reopen, Recovery, Restart
<1> QED
  BY <1>1, <1>2, <1>3, <1>4, <1>5, <1>6, <1>7 DEF Next

LEMMA StillLined ==
  ASSUME Sound, Lined, UNCHANGED vars
  PROVE  Lined' /\ UNCHANGED Atomic!vars
<1>1. /\ disk' = disk /\ manifest' = manifest /\ conv' = conv /\ ckpts' = ckpts /\ turn' = turn
      /\ lastUndo' = lastUndo /\ pc' = pc /\ cur' = cur /\ tx' = tx /\ failed' = failed
      /\ pass' = pass /\ queue' = queue /\ serial' = serial /\ edited' = edited
  BY DEF vars, diskVars, sessionVars, opVars, recoveryVars, boundVars
<1>2. AllRecorded /\ AllLogged /\ Written
  BY <1>1, SameWritten
<1>3. UNCHANGED Atomic!vars
  BY <1>1, <1>2, QuietHidden
<1>4. Newest'
  <2>1. Undoables' = Undoables /\ \A t \in TxIds : manifest'[t].state = "undone" => Reverted(t)'
    BY <1>2, UndoneKept DEF Lined
  <2>2. Manifests' = Manifests
    BY <1>1 DEF Manifests
  <2> QED
    BY <1>1, <2>1, <2>2 DEF Lined, Newest
<1>5. Covered'
  BY <1>1, <1>2, PlanReflexive, CoveredKept DEF Lined
<1>6. StretchPhase' /\ Kept' /\ Bare'
  BY <1>1 DEF Lined, StretchPhase, Present, Kept, Bare, NeedsConversation
<1>7. Planned'
  <2>1. CASE cur = NoTx
    <3>1. pc' \notin Ahead
      BY <1>1, <2>1 DEF Sound, Stages, Ahead, Preparing, Publishing, Switching
    <3> QED
      BY <3>1 DEF Planned, Ahead
  <2>2. CASE cur # NoTx
    BY <1>1, <1>2, <1>3, <2>2, PlanReflexive, PlannedGoesOn DEF Lined
  <2> QED
    BY <2>1, <2>2
<1> QED
  BY <1>1, <1>3, <1>4, <1>5, <1>6, <1>7 DEF Lined, Numbered

LEMMA InitLined ==
  ASSUME Init
  PROVE  Lined /\ Atomic!Init
<1>1. /\ disk \in [Files -> Images] /\ manifest = [t \in TxIds |-> EmptyManifest] /\ conv = << >>
      /\ ckpts = << >> /\ turn = 0 /\ lastUndo = NoTx /\ pc = "idle" /\ tx = EmptyManifest
      /\ failed = {} /\ pass = 0 /\ serial = 0 /\ edited = {}
  BY DEF Init
<1>2. /\ EmptyManifest.state = "none" /\ EmptyManifest.hasConv = "no" /\ ~NeedsConversation(EmptyManifest)
  BY DEF EmptyManifest, NeedsConversation
<1>3. \A t \in TxIds : manifest[t] = EmptyManifest
  BY <1>1
<1>4. DOMAIN ckpts = {}
  BY <1>1
<1>5. Committing = {} /\ Completed = {} /\ Undoables = {}
  BY <1>2, <1>3 DEF Committing, Completed, Undoables
<1>6. Numbered
  BY <1>1, <1>4 DEF Numbered
<1>7. Covered
  BY <1>1, <1>3, <1>5, EmptyStretch DEF Covered
<1>8. StretchPhase /\ Kept /\ Bare /\ Planned
  BY <1>1, <1>2 DEF StretchPhase, Kept, Bare, Planned, Preparing, Publishing, Switching
<1>9. Newest
  BY <1>1, <1>2, <1>3, <1>5 DEF Newest
<1>10. EffectiveFiles = disk /\ EffectiveConv = conv /\ EffectiveCheckpoints = ckpts
  BY <1>5, InitSound, Plain
<1>11. CompletedLog = << >>
  BY <1>5 DEF CompletedLog
<1>12. Atomic!Init
  <2>1. Atomic!Images = Images
    BY DEF Atomic!Images, Images
  <2> QED
    BY <1>1, <1>10, <1>11, <2>1 DEF Atomic!Init
<1> QED
  BY <1>1, <1>6, <1>7, <1>8, <1>9, <1>12 DEF Lined

\* Rewinds, reverts and undos are atomic: however they fail and wherever the process
\* dies, the session as a recovered process would see it goes from one state of
\* AtomicRewind to the next, as long as nobody edits its files from outside, nothing
\* begins while a transaction is pending and every undo begins where its rewind left
\* the session.
THEOREM RewindsAreAtomic == Spec /\ [][InSequence]_vars => ImplementsAtomicRewind
<1>1. Init => Whole /\ Lined /\ Atomic!Init
  BY InitWhole, InitLined
<1>2. Sound /\ Sound' /\ Whole /\ Lined /\ [Next]_vars /\ [InSequence]_vars
        => Whole' /\ Lined' /\ (Atomic!Next \/ UNCHANGED Atomic!vars)
  <2> SUFFICES ASSUME Sound, Sound', Whole, Lined, [Next]_vars, [InSequence]_vars
               PROVE  Whole' /\ Lined' /\ (Atomic!Next \/ UNCHANGED Atomic!vars)
    OBVIOUS
  <2>1. CASE UNCHANGED vars
    BY <2>1, StillWhole, StillLined
  <2>2. CASE Next /\ InSequence
    BY <2>2, SequenceIsOrderly, NextWhole, NextLined
  <2> QED
    BY <2>1, <2>2
<1>3. (Atomic!Next \/ UNCHANGED Atomic!vars) => [Atomic!Next]_(Atomic!vars)
  OBVIOUS
<1> QED
  BY <1>1, <1>2, <1>3, SpecSound, PTL DEF Spec, Atomic!Spec, ImplementsAtomicRewind
=============================================================================
