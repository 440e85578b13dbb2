------------------------- MODULE SessionStoreProofs -------------------------
(***************************************************************************)
(* For any number of runtimes, messages, rewrites, failing writes and      *)
(* crashes: what a save acknowledged can be loaded from some path until a  *)
(* runtime takes it out of its own transcript, and a runtime is told of a  *)
(* conflict only if another one wrote its path or a save of its own failed *)
(* half-way.  What a recorded rewrite took out of a transcript does not    *)
(* come back with the save of a runtime that still has it.                 *)
(*                                                                         *)
(* A save decides under the lock of the path what it may write, and writes *)
(* in three steps under that same lock.  So the invariant says             *)
(*   - what the file under the lock holds at each step (Stage): until the  *)
(*     record of the ledger, the transcript that was there or the one of   *)
(*     the save, which lacks only what a runtime took out (Covers);        *)
(*   - what a runtime knows of its own saves (Known): the transcript it    *)
(*     last stored, the digest of its base, is in its session but for what *)
(*     it took out since, and that is why a rewritten session may replace  *)
(*     the file;                                                           *)
(*   - what it believes of its path (Current): revision and digest of its  *)
(*     base are those of the file, unless another runtime wrote there or a *)
(*     save of its own failed.                                             *)
(* A step of one runtime leaves the others alone (Bystander): it writes    *)
(* under a lock that they do not hold, or marks them as overtaken.         *)
(*                                                                         *)
(* That rewrites stand needs a second invariant (Standing), which follows  *)
(* every message:                                                          *)
(*   - one that a runtime added and has not stored is in no file and in no *)
(*     other session, but for those that read it while it is being written *)
(*     (Sealed, Secret), so a rewrite cannot take it out (Spared);         *)
(*   - a runtime whose base holds what is gone is behind the revision of   *)
(*     its file (Ahead), so its next save is a conflict and nothing that a *)
(*     save writes is gone (Clear).                                        *)
(*                                                                         *)
(* The theorems ask that forks stay apart (ForksApart): the branch that a  *)
(* conflict is saved to is not there yet, or holds that very transcript.   *)
(***************************************************************************)
EXTENDS SessionStore, TLAPS

-----------------------------------------------------------------------------
(* The invariant. *)

Transcripts == Seq(Nat)
Paths == Seq(Transcripts)
Optional == Transcripts \cup {Nothing}

FileRecords == [log : Optional, torn : BOOLEAN, checkpoint : Optional, rev : Nat, digest : Optional]
Bases == [path : Paths \cup {Nothing}, digest : Transcripts, ver : Nat, rev : Nat, verified : BOOLEAN]
Sessions == [open : BOOLEAN, path : Paths, msgs : Transcripts, ver : Nat, rw : Nat, savedRw : Nat,
             base : Bases]

Writing == {"log", "checkpoint", "record"}
Branching == {"fork", "branchLog", "branchCheckpoint", "branchMeta"}
Between == {"idle", "save", "meta", "metaWrite"}
Steps == {"ledger", "conflict", "force"} \cup Writing \cup Branching \cup Between

JobRecords == [at : Steps, mode : {"snapshot", "rewrite"}, path : Paths, msgs : Optional, ver : Nat,
               rw : Nat, rev : Nat, shape : {"none", "full", "append", "force", "stale", "diverged"},
               from : Nat, meta : BOOLEAN]

Types ==
    /\ disk \in [DOMAIN disk -> FileRecords] /\ DOMAIN disk \subseteq Paths /\ Main \in DOMAIN disk
    /\ mem \in [Runtimes -> Sessions] /\ job \in [Runtimes -> JobRecords]
    /\ foreign \in [Runtimes -> BOOLEAN] /\ unsure \in [Runtimes -> BOOLEAN]
    /\ next \in Nat

\* Where a runtime is, and what it may have open.
Placed(r) ==
    /\ mem[r].path \in DOMAIN disk
    /\ mem[r].savedRw <= mem[r].rw /\ mem[r].base.ver <= mem[r].ver
    /\ job[r].at \notin {"idle", "ledger"} => mem[r].open
    /\ job[r].at \notin {"idle", "save", "ledger"} \cup Branching => job[r].path = mem[r].path
    /\ job[r].at = "ledger" => job[r].path \in DOMAIN disk
    /\ job[r].at \in Branching => Depth(job[r].path) <= MaxDepth
    /\ job[r].at # "metaWrite" => job[r].msgs \in Transcripts

Shallow == \A p \in DOMAIN disk : Depth(p) <= MaxDepth

Locked == \A r, s \in Runtimes : r # s => \A p \in Paths : ~(Holds(r, p) /\ Holds(s, p))

\* What of the stored transcript is not in t was taken out of it.
Covers(t, f) == Exists(f) => Messages(Raw(f)) \subseteq Messages(t) \cup removed \cup forced

\* The file under the lock at each step of a save.
Stage(r) ==
    LET j == job[r]
        f == File(j.path)
    IN /\ j.at = "log" =>
            /\ ~f.torn /\ Covers(j.msgs, f) /\ j.shape \in {"full", "append", "force"}
            /\ j.shape = "append" => Exists(f) /\ IsPrefix(Raw(f), j.msgs) /\ j.from = Len(Raw(f))
       /\ j.at = "checkpoint" => f.log \in {Nothing, j.msgs} /\ Covers(j.msgs, f)
       /\ j.at = "record" => Raw(f) = j.msgs
       /\ j.at = "branchCheckpoint" => f.log \in {Nothing, j.msgs} /\ Raw(f) \in {Nothing, j.msgs}
       /\ j.at = "branchMeta" => Exists(f)

\* What a runtime holds of what it has stored, and what is being stored.
Known(r) ==
    /\ Messages(mem[r].base.digest) \subseteq Messages(mem[r].msgs) \cup removed
    /\ mem[r].base.verified => Messages(mem[r].base.digest) \subseteq acked
    /\ mem[r].base.verified /\ mem[r].base.ver = mem[r].ver => mem[r].base.digest = mem[r].msgs
    /\ job[r].at \in Writing \cup Branching =>
         /\ job[r].ver <= mem[r].ver /\ job[r].rw <= mem[r].rw
         /\ Messages(job[r].msgs) \subseteq Messages(mem[r].msgs) \cup removed
         /\ job[r].ver = mem[r].ver => job[r].msgs = mem[r].msgs

\* What a runtime believes of its path is so unless another one wrote there.
Current(r) ==
    LET j == job[r]
        b == mem[r].base
        f == File(mem[r].path)
        there == File(j.path)
    IN /\ j.at \in {"conflict", "force"} \cup Branching => foreign[r] \/ unsure[r]
       /\ j.at = "ledger" /\ ~foreign[r] => Exists(there) /\ j.msgs = Loaded(there)
       /\ j.at = "ledger" => ~unsure[r]
       /\ j.at = "metaWrite" /\ ~foreign[r] => j.rev = there.rev
       /\ mem[r].open /\ ~foreign[r] /\ ~unsure[r] /\ j.at \in Between =>
            b.path = mem[r].path /\ b.rev = f.rev /\ Exists(f) /\ b.digest \in {Raw(f), Loaded(f)}

Orderly(r) == Placed(r) /\ Stage(r) /\ Known(r) /\ Current(r)
IInv == Types /\ Shallow /\ Locked /\ NothingHidden /\ \A r \in Runtimes : Orderly(r)

\* A fork finds nothing in the place of its branch, or the transcript it stores:
\* its file is named by a digest of the path and the transcript it was forked
\* from.  Without this the branch of an earlier fork of the same transcript, which
\* was resumed since and changed, is written over (SaveRecoveryBranch).
ForksApart ==
    \A r \in Runtimes : job[r].at \in {"branchLog", "branchMeta"} =>
        Raw(File(job[r].path)) \in {Nothing, job[r].msgs}

-----------------------------------------------------------------------------
(* Transcripts. *)

\* A prefix agrees with the transcript.
LEMMA PrefixAgrees ==
  ASSUME NEW s \in Transcripts, NEW t \in Transcripts, IsPrefix(s, t)
  PROVE  Len(s) \in Nat /\ Len(t) \in Nat /\ Len(s) <= Len(t) /\ \A i \in 1 .. Len(s) : s[i] = t[i]
<1>1. Len(s) \in Nat /\ Len(t) \in Nat /\ Len(s) <= Len(t) /\ SubSeq(s, 1, Len(s)) = SubSeq(t, 1, Len(s))
  BY DEF IsPrefix, Transcripts
<1> QED
  BY <1>1 DEF Transcripts

\* The messages of a prefix are in the transcript.
LEMMA PrefixMessages ==
  ASSUME NEW s \in Transcripts, NEW t \in Transcripts, IsPrefix(s, t)
  PROVE  Messages(s) \subseteq Messages(t)
<1>1. DOMAIN s = 1 .. Len(s) /\ DOMAIN t = 1 .. Len(t)
  BY DEF Transcripts
<1>2. ASSUME NEW i \in DOMAIN s PROVE i \in DOMAIN t /\ s[i] = t[i]
  BY <1>1, <1>2, PrefixAgrees
<1> QED
  BY <1>2 DEF Messages

\* A prefix and the rest make the transcript.
LEMMA Completed ==
  ASSUME NEW s \in Transcripts, NEW t \in Transcripts, IsPrefix(s, t)
  PROVE  s \o SubSeq(t, Len(s) + 1, Len(t)) = t
<1>1. Len(s) \in Nat /\ Len(t) \in Nat /\ Len(s) <= Len(t) /\ SubSeq(s, 1, Len(s)) = SubSeq(t, 1, Len(s))
  BY DEF IsPrefix, Transcripts
<1>2. \A i \in 1 .. Len(s) : s[i] = t[i]
  BY <1>1 DEF Transcripts
<1> QED
  BY <1>1, <1>2 DEF Transcripts

\* A rewind keeps the messages up to n.
LEMMA CutMessages ==
  ASSUME NEW t \in Transcripts, NEW n \in 1 .. (Len(t) - 1)
  PROVE  /\ SubSeq(t, 1, n) \in Transcripts
         /\ Messages(t) \subseteq Messages(SubSeq(t, 1, n)) \cup Messages(SubSeq(t, n + 1, Len(t)))
<1>1. Len(t) \in Nat /\ n \in Nat /\ n < Len(t)
  BY DEF Transcripts
<1>2. SubSeq(t, 1, n) \in Transcripts /\ SubSeq(t, n + 1, Len(t)) \in Transcripts
  BY <1>1 DEF Transcripts
<1>3. ASSUME NEW i \in DOMAIN t, i <= n
      PROVE  i \in DOMAIN SubSeq(t, 1, n) /\ SubSeq(t, 1, n)[i] = t[i]
  BY <1>1, <1>3 DEF Transcripts
<1>4. ASSUME NEW i \in DOMAIN t, ~(i <= n)
      PROVE  i - n \in DOMAIN SubSeq(t, n + 1, Len(t)) /\ SubSeq(t, n + 1, Len(t))[i - n] = t[i]
  <2>1. i \in 1 .. Len(t) /\ i - n \in 1 .. (Len(t) - n)
    BY <1>1, <1>4 DEF Transcripts
  <2>2. Len(SubSeq(t, n + 1, Len(t))) = Len(t) - n
    BY <1>1 DEF Transcripts
  <2>3. SubSeq(t, n + 1, Len(t))[i - n] = t[i]
    BY <1>1, <2>1 DEF Transcripts
  <2>4. DOMAIN SubSeq(t, n + 1, Len(t)) = 1 .. (Len(t) - n)
    BY <1>2, <2>2 DEF Transcripts
  <2> QED
    BY <2>1, <2>3, <2>4
<1>5. Messages(t) \subseteq Messages(SubSeq(t, 1, n)) \cup Messages(SubSeq(t, n + 1, Len(t)))
  <2>1. SUFFICES ASSUME NEW i \in DOMAIN t
                 PROVE  t[i] \in Messages(SubSeq(t, 1, n)) \cup Messages(SubSeq(t, n + 1, Len(t)))
    BY DEF Messages
  <2>2. CASE i <= n
    <3>1. i \in DOMAIN SubSeq(t, 1, n) /\ SubSeq(t, 1, n)[i] = t[i]
      BY <1>3, <2>1, <2>2
    <3> QED
      BY <3>1 DEF Messages
  <2>3. CASE ~(i <= n)
    <3>1. PICK k : k = i - n
      OBVIOUS
    <3>2. k \in DOMAIN SubSeq(t, n + 1, Len(t)) /\ SubSeq(t, n + 1, Len(t))[k] = t[i]
      BY <1>4, <2>1, <2>3, <3>1
    <3> QED
      BY <3>2 DEF Messages
  <2> QED
    BY <2>2, <2>3
<1> QED
  BY <1>2, <1>5

\* An append keeps them all,
LEMMA AppendMessages ==
  ASSUME NEW t \in Transcripts, NEW m \in Nat
  PROVE  Append(t, m) \in Transcripts /\ Messages(t) \subseteq Messages(Append(t, m))
<1>1. ASSUME NEW i \in DOMAIN t PROVE i \in DOMAIN Append(t, m) /\ Append(t, m)[i] = t[i]
  BY DEF Transcripts
<1> QED
  BY <1>1 DEF Messages, Transcripts

\* and a prune all but the first.
LEMMA ReplaceMessages ==
  ASSUME NEW t \in Transcripts, NEW m \in Nat, t # << >>
  PROVE  /\ [t EXCEPT ![1] = m] \in Transcripts
         /\ Messages(t) \subseteq Messages([t EXCEPT ![1] = m]) \cup {t[1]}
<1>1. Len(t) \in Nat /\ Len(t) >= 1
  BY DEF Transcripts
<1>2. [t EXCEPT ![1] = m] \in Transcripts /\ DOMAIN [t EXCEPT ![1] = m] = DOMAIN t
  BY <1>1 DEF Transcripts
<1>3. ASSUME NEW i \in DOMAIN t, i # 1 PROVE [t EXCEPT ![1] = m][i] = t[i]
  BY <1>3
<1> QED
  BY <1>2, <1>3 DEF Messages

\* An absent file is no transcript, an absent path no path.
LEMMA NothingIsApart == Nothing \notin Transcripts /\ Nothing \notin Paths
  BY NothingAssumption DEF Transcripts, Paths

\* A load repairs what is stored and loses nothing of it.
LEMMA LoadsAll ==
  ASSUME NEW f \in FileRecords, Exists(f)
  PROVE  /\ Raw(f) \in Transcripts /\ Loaded(f) \in Transcripts
         /\ Messages(Raw(f)) \subseteq Messages(Loaded(f))
<1>1. Raw(f) \in Transcripts
  BY DEF Exists, Raw, FileRecords, Optional
<1>2. PICK t : t = Raw(f)
  OBVIOUS
<1>3. CASE Pending(t)
  <2>1. t # << >> /\ t[Len(t)] \in Nat
    BY <1>1, <1>2, <1>3 DEF Pending, Transcripts
  <2>2. Placeholder(Last(t)) \in Nat
    BY <2>1, BoundsAssumption DEF Placeholder, Last
  <2> QED
    BY <1>1, <1>2, <1>3, <2>2, AppendMessages DEF Loaded, Normalized
<1>4. CASE ~Pending(t)
  BY <1>1, <1>2, <1>4 DEF Loaded, Normalized
<1> QED
  BY <1>3, <1>4

-----------------------------------------------------------------------------
(* What a check decides. *)

\* A check lets a save write only over a transcript that it extends or owns, and
\* reports a conflict only if the file is not the one the runtime builds on.
LEMMA Decides ==
  ASSUME NEW base \in Bases, NEW f \in FileRecords, NEW t \in Transcripts, NEW rewrite \in BOOLEAN,
         NEW d, d = Decision(base, f, t, rewrite)
  PROVE  /\ d \in {"full", "same", "heal", "append", "stale", "diverged"}
         /\ d \in {"same", "heal"} => Exists(f) /\ Raw(f) = t
         /\ d = "append" => Exists(f) /\ IsPrefix(Raw(f), t) /\ View(f, t) = Raw(f) /\ ~f.torn
         /\ d = "full" /\ Exists(f) =>
              \/ IsPrefix(Loaded(f), t) \/ IsPrefix(Raw(f), t)
              \/ base.path # Nothing /\ base.digest \in {Raw(f), Loaded(f)}
         /\ d \in {"stale", "diverged"} =>
              Exists(f) /\ ~(base.path # Nothing /\ base.rev = f.rev /\ base.digest \in {Raw(f), Loaded(f)})
<1>1. View(f, t) \in {Raw(f), Loaded(f)}
  BY DEF View
<1>2. IsPrefix(View(f, t), t) => IsPrefix(Loaded(f), t) \/ IsPrefix(Raw(f), t)
  BY DEF View
<1>3. /\ OwnsEither(base, f) => base.path # Nothing /\ base.digest \in {Raw(f), Loaded(f)}
      /\ base.path # Nothing /\ base.rev = f.rev /\ base.digest \in {Raw(f), Loaded(f)} => OwnsEither(base, f)
  BY DEF OwnsEither, Owns
<1> HIDE DEF View
<1> QED
  BY <1>1, <1>2, <1>3 DEF Decision

-----------------------------------------------------------------------------
(* Files. *)

\* A file that is not there is an empty one.
LEMMA FileIsRecord == ASSUME Types, NEW p PROVE File(p) \in FileRecords
<1>1. NoFile \in FileRecords
  BY DEF NoFile, FileRecords, Optional
<1> QED
  BY <1>1 DEF Types, File

\* A write changes one file.
LEMMA PutFile ==
  ASSUME Types, NEW p \in Paths, NEW f \in FileRecords, disk' = Put(p, f)
  PROVE  /\ disk' \in [DOMAIN disk' -> FileRecords] /\ DOMAIN disk' = DOMAIN disk \cup {p}
         /\ DOMAIN disk' \subseteq Paths /\ Main \in DOMAIN disk'
         /\ File(p)' = f /\ \A q : q # p => File(q)' = File(q)
<1>1. DOMAIN disk' = DOMAIN disk \cup {p}
  BY DEF Put
<1>2. disk'[p] = f /\ \A q \in DOMAIN disk : q # p => disk'[q] = disk[q]
  BY DEF Put
<1>3. disk' = [q \in DOMAIN disk' |-> disk'[q]]
  BY DEF Put
<1>4. \A q \in DOMAIN disk' : disk'[q] \in FileRecords
  BY <1>1, <1>2 DEF Types
<1> QED
  BY <1>1, <1>2, <1>3, <1>4 DEF Types, File

\* Nor does a step that writes nothing change one.
LEMMA SameFile == ASSUME disk' = disk, NEW p PROVE File(p)' = File(p)
  BY DEF File

\* A runtime goes on to job j.
LEMMA Moved ==
  ASSUME Types, NEW r \in Runtimes, NEW j \in JobRecords, job' = [job EXCEPT ![r] = j]
  PROVE  /\ job' \in [Runtimes -> JobRecords] /\ job'[r] = j
         /\ \A s \in Runtimes : s # r => job'[s] = job[s]
  BY DEF Types

-----------------------------------------------------------------------------
(* A step of one runtime, as the others see it. *)

Keeps(p) == /\ File(p)'.log = File(p).log /\ File(p)'.checkpoint = File(p).checkpoint
            /\ File(p)'.torn = File(p).torn

Undisturbed(s) ==
    /\ mem'[s] = mem[s] /\ job'[s] = job[s] /\ unsure'[s] = unsure[s]
    /\ foreign[s] => foreign'[s]
    /\ \A p \in Paths : Holds(s, p) => Keeps(p)
    /\ \A p \in Paths :
         (mem[s].open /\ p = mem[s].path) \/ (job[s].at # "idle" /\ p = job[s].path) =>
            foreign'[s] \/ (Raw(File(p)') = Raw(File(p)) /\ File(p)'.rev = File(p).rev)

\* What is stored and what is known of it only grows.
Grows ==
    /\ DOMAIN disk \subseteq DOMAIN disk' /\ Main \in DOMAIN disk
    /\ removed \subseteq removed' /\ acked \subseteq acked' /\ forced \subseteq forced'

\* The transcript a file holds is that of its log and checkpoint.
LEMMA RawKept == ASSUME NEW p, Keeps(p) PROVE Raw(File(p)') = Raw(File(p))
  BY DEF Keeps, Raw

\* What a step leaves undisturbed stays in order.
LEMMA Bystander ==
  ASSUME Types, Types', Grows, NEW s \in Runtimes, Orderly(s), Undisturbed(s)
  PROVE  Orderly(s)'
<1>1. PICK j : j = job[s]
  OBVIOUS
<1>2. PICK m : m = mem[s]
  OBVIOUS
<1>3. /\ job[s] = j /\ job'[s] = j /\ mem[s] = m /\ mem'[s] = m /\ unsure'[s] = unsure[s]
      /\ j.path \in Paths /\ m.path \in Paths
  BY <1>1, <1>2 DEF Undisturbed, Types, JobRecords, Sessions
<1>4. PICK p : p = j.path
  OBVIOUS
<1>5. PICK q : q = m.path
  OBVIOUS
<1>6. Placed(s)'
  BY <1>3 DEF Orderly, Placed, Grows
<1>7. Known(s)'
  BY <1>3 DEF Orderly, Known, Grows
<1>8. Stage(s)'
  <2>1. j.at \in Writing \cup Branching /\ j.at # "fork" => Keeps(p)
    BY <1>3, <1>4 DEF Undisturbed, Holds, Writing, Branching
  <2>2. j.at \in Writing \cup Branching /\ j.at # "fork" =>
          /\ File(p)'.log = File(p).log /\ File(p)'.torn = File(p).torn /\ Raw(File(p)') = Raw(File(p))
          /\ Exists(File(p)') = Exists(File(p))
    BY <2>1, RawKept DEF Keeps, Exists
  <2>3. j.at \in Writing \cup Branching /\ j.at # "fork" =>
          (Covers(j.msgs, File(p)) => Covers(j.msgs, File(p))')
    <3>1. PICK t : t = j.msgs
      OBVIOUS
    <3>2. Covers(t, File(p)) /\ Raw(File(p)') = Raw(File(p)) /\ Exists(File(p)') = Exists(File(p))
            => Covers(t, File(p))'
      BY DEF Covers, Grows
    <3> QED
      BY <2>2, <3>1, <3>2
  <2> QED
    BY <1>3, <1>4, <2>2, <2>3 DEF Orderly, Stage, Writing, Branching
<1>9. Current(s)'
  <2>1. foreign[s] => foreign'[s]
    BY DEF Undisturbed
  <2>2. j.at # "idle" => foreign'[s] \/ (Raw(File(p)') = Raw(File(p)) /\ File(p)'.rev = File(p).rev)
    BY <1>3, <1>4 DEF Undisturbed
  <2>3. m.open => foreign'[s] \/ (Raw(File(q)') = Raw(File(q)) /\ File(q)'.rev = File(q).rev)
    BY <1>3, <1>5 DEF Undisturbed
  <2>4. foreign[s] \in BOOLEAN /\ foreign'[s] \in BOOLEAN
    BY DEF Types
  <2>5. \A f, g : Raw(f) = Raw(g) => Exists(f) = Exists(g) /\ Loaded(f) = Loaded(g)
    BY DEF Exists, Loaded
  <2> QED
    BY <1>3, <1>4, <1>5, <2>1, <2>2, <2>3, <2>4, <2>5 DEF Orderly, Current
<1> QED
  BY <1>6, <1>7, <1>8, <1>9 DEF Orderly

\* A step that writes nothing, and one that writes f at p.
LEMMA QuietAside ==
  ASSUME Types, NEW s \in Runtimes, disk' = disk, foreign'[s] = foreign[s],
         mem'[s] = mem[s], job'[s] = job[s], unsure'[s] = unsure[s]
  PROVE  Undisturbed(s)
<1>1. \A p : File(p)' = File(p)
  BY SameFile
<1> QED
  BY <1>1 DEF Undisturbed, Keeps

\* A write disturbs no other runtime unless it has the lock of the path.
LEMMA WritesAside ==
  ASSUME Types, NEW r \in Runtimes, NEW s \in Runtimes, s # r, NEW p \in Paths, NEW f \in FileRecords,
         disk' = Put(p, f), foreign'[s] = Touched(r, p, f)[s],
         mem'[s] = mem[s], job'[s] = job[s], unsure'[s] = unsure[s],
         \/ ~Holds(s, p)
         \/ f.log = File(p).log /\ f.checkpoint = File(p).checkpoint /\ f.torn = File(p).torn
  PROVE  Undisturbed(s)
<1>1. File(p)' = f /\ \A q : q # p => File(q)' = File(q)
  BY PutFile
<1>2. foreign[s] => foreign'[s]
  BY DEF Touched
<1>3. ASSUME NEW q \in Paths, Holds(s, q) PROVE Keeps(q)
  BY <1>1, <1>3 DEF Keeps
<1>4. ASSUME NEW q \in Paths, (mem[s].open /\ q = mem[s].path) \/ (job[s].at # "idle" /\ q = job[s].path)
      PROVE  foreign'[s] \/ (Raw(File(q)') = Raw(File(q)) /\ File(q)'.rev = File(q).rev)
  <2>1. CASE q # p
    BY <1>1, <2>1
  <2>2. CASE q = p
    <3>1. foreign'[s] \/ (Raw(f) = Raw(File(p)) /\ f.rev = File(p).rev)
      BY <1>4, <2>2 DEF Touched
    <3> QED
      BY <1>1, <2>2, <3>1
  <2> QED
    BY <2>1, <2>2
<1> QED
  BY <1>2, <1>3, <1>4 DEF Undisturbed

\* Only one runtime at a time holds the lock of a path.
LEMMA StillLocked ==
  ASSUME Types, Types', Locked, NEW r \in Runtimes,
         \A s \in Runtimes : s # r => job'[s] = job[s],
         \A p \in Paths : Holds(r, p)' => Holds(r, p) \/ Free(p)
  PROVE  Locked'
<1>1. ASSUME NEW s \in Runtimes, s # r PROVE \A p \in Paths : Holds(s, p)' = Holds(s, p)
  BY <1>1 DEF Holds
<1>2. ASSUME NEW s \in Runtimes, s # r, NEW p \in Paths PROVE ~(Holds(r, p)' /\ Holds(s, p)')
  BY <1>1, <1>2 DEF Locked, Free
<1>3. ASSUME NEW s \in Runtimes, NEW u \in Runtimes, s # u, NEW p \in Paths PROVE ~(Holds(s, p)' /\ Holds(u, p)')
  <2>1. CASE s = r
    BY <1>2, <1>3, <2>1
  <2>2. CASE u = r
    BY <1>2, <1>3, <2>2
  <2>3. CASE s # r /\ u # r
    BY <1>1, <1>3, <2>3 DEF Locked
  <2> QED
    BY <2>1, <2>2, <2>3
<1> QED
  BY <1>3 DEF Locked

\* Nothing is hidden by a write that keeps what was not taken out.
LEMMA WriteHidesNothing ==
  ASSUME Types, NothingHidden, NEW p \in Paths, NEW f \in FileRecords, disk' = Put(p, f),
         Exists(File(p)) => Exists(f) /\ Messages(Raw(File(p))) \subseteq Messages(Raw(f)) \cup removed' \cup forced',
         removed \subseteq removed', forced \subseteq forced',
         NEW t, acked' \subseteq acked \cup t, t = {} \/ (Exists(f) /\ t \subseteq Messages(Raw(f)))
  PROVE  NothingHidden'
<1>1. /\ DOMAIN disk' = DOMAIN disk \cup {p}
      /\ File(p)' = f /\ \A q : q # p => File(q)' = File(q)
  BY PutFile
<1>2. \A q : q # p => Stored(q)' = Stored(q)
  BY <1>1 DEF Stored
<1>3. Stored(p)' = IF Exists(f) THEN Messages(Raw(f)) ELSE {}
  BY <1>1 DEF Stored
<1>4. Stored(p) = IF Exists(File(p)) THEN Messages(Raw(File(p))) ELSE {}
  BY DEF Stored
<1>5. ASSUME NEW m, m \in acked', m \notin removed', m \notin forced'
      PROVE  \E q \in DOMAIN disk' : m \in Stored(q)'
  <2>1. CASE m \in t
    BY <1>1, <1>3, <2>1
  <2>2. CASE m \in acked
    <3>1. PICK q \in DOMAIN disk : m \in Stored(q)
      BY <1>5, <2>2 DEF NothingHidden, Loadable
    <3> QED
      BY <1>1, <1>2, <1>3, <1>4, <1>5, <3>1
  <2> QED
    BY <1>5, <2>1, <2>2
<1> QED
  BY <1>5 DEF NothingHidden, Loadable

\* Nor by a step that writes nothing.
LEMMA QuietHidesNothing ==
  ASSUME NothingHidden, disk' = disk, removed \subseteq removed', forced \subseteq forced', acked' = acked
  PROVE  NothingHidden'
<1>1. \A q : Stored(q)' = Stored(q)
  BY SameFile DEF Stored
<1> QED
  BY <1>1 DEF NothingHidden, Loadable

-----------------------------------------------------------------------------
(* The shape of every step. *)

\* Nothing else changes than runtime r,
Others(r) == \A s \in Runtimes : s # r =>
    mem'[s] = mem[s] /\ job'[s] = job[s] /\ unsure'[s] = unsure[s]

\* everything keeps its type,
TypedNext ==
    /\ mem' \in [Runtimes -> Sessions] /\ job' \in [Runtimes -> JobRecords]
    /\ foreign' \in [Runtimes -> BOOLEAN] /\ unsure' \in [Runtimes -> BOOLEAN] /\ next' \in Nat

\* and r takes only a lock that is free.
Locks(r) == \A p \in Paths : Holds(r, p)' => Holds(r, p) \/ Free(p)

\* A step of runtime r that writes nothing,
LEMMA QuietStep ==
  ASSUME IInv, NEW r \in Runtimes, disk' = disk, TypedNext, Others(r), Locks(r), acked' = acked,
         \A s \in Runtimes : s # r => foreign'[s] = foreign[s],
         removed \subseteq removed', forced \subseteq forced', Orderly(r)'
  PROVE  IInv'
<1>1. Types'
  BY DEF IInv, Types, TypedNext
<1>2. Shallow'
  BY DEF IInv, Shallow
<1>3. Grows
  BY DEF IInv, Types, Grows
<1>4. NothingHidden'
  BY QuietHidesNothing DEF IInv
<1>5. Locked'
  BY <1>1, StillLocked DEF IInv, Others, Locks
<1>6. ASSUME NEW s \in Runtimes, s # r PROVE Orderly(s)'
  <2>1. Undisturbed(s)
    BY <1>6, QuietAside DEF IInv, Others
  <2> QED
    BY <1>1, <1>3, <2>1, Bystander DEF IInv
<1>7. \A s \in Runtimes : Orderly(s)'
  BY <1>6
<1> QED
  BY <1>1, <1>2, <1>4, <1>5, <1>7 DEF IInv

\* and one that writes file f at p.
LEMMA WriteStep ==
  ASSUME IInv, NEW r \in Runtimes, NEW p \in Paths, Depth(p) <= MaxDepth, NEW f \in FileRecords,
         disk' = Put(p, f), TypedNext, Others(r), Locks(r),
         \A s \in Runtimes : s # r => foreign'[s] = Touched(r, p, f)[s],
         \/ Holds(r, p) \/ Free(p)
         \/ f.log = File(p).log /\ f.checkpoint = File(p).checkpoint /\ f.torn = File(p).torn,
         Exists(File(p)) => Exists(f) /\ Messages(Raw(File(p))) \subseteq Messages(Raw(f)) \cup removed' \cup forced',
         removed \subseteq removed', forced \subseteq forced', acked \subseteq acked',
         NEW t, acked' \subseteq acked \cup t, t = {} \/ (Exists(f) /\ t \subseteq Messages(Raw(f))),
         Orderly(r)'
  PROVE  IInv'
<1>1. /\ disk' \in [DOMAIN disk' -> FileRecords] /\ DOMAIN disk' = DOMAIN disk \cup {p}
      /\ DOMAIN disk' \subseteq Paths /\ Main \in DOMAIN disk'
  BY PutFile DEF IInv
<1>2. Types'
  BY <1>1 DEF Types, TypedNext
<1>3. Shallow'
  BY <1>1 DEF IInv, Shallow
<1>4. Grows
  BY <1>1 DEF IInv, Types, Grows
<1>5. NothingHidden'
  BY WriteHidesNothing DEF IInv
<1>6. Locked'
  BY <1>2, StillLocked DEF IInv, Others, Locks
<1>7. ASSUME NEW s \in Runtimes, s # r PROVE Orderly(s)'
  <2>1. \/ ~Holds(s, p)
        \/ f.log = File(p).log /\ f.checkpoint = File(p).checkpoint /\ f.torn = File(p).torn
    BY <1>7 DEF IInv, Locked, Free
  <2>2. Undisturbed(s)
    BY <1>7, <2>1, WritesAside DEF IInv, Others
  <2> QED
    BY <1>2, <1>4, <2>2, Bystander DEF IInv
<1>8. \A s \in Runtimes : Orderly(s)'
  BY <1>7
<1> QED
  BY <1>2, <1>3, <1>5, <1>6, <1>8 DEF IInv

\* A runtime goes on with session m.
LEMMA Changed ==
  ASSUME Types, NEW r \in Runtimes, NEW m \in Sessions, mem' = [mem EXCEPT ![r] = m]
  PROVE  /\ mem' \in [Runtimes -> Sessions] /\ mem'[r] = m
         /\ \A s \in Runtimes : s # r => mem'[s] = mem[s]
  BY DEF Types

\* Between two saves.
LEMMA IdleJob == Idle \in JobRecords /\ Idle.at = "idle" /\ Idle.msgs \in Transcripts /\ Idle.path \in Paths
  BY DEF Idle, JobRecords, Steps, Between, Main, Transcripts, Paths, Optional

-----------------------------------------------------------------------------
(* The steps that write nothing. *)

\* A load reads the transcript,
LEMMA ReadTranscriptKeeps ==
  ASSUME IInv, NEW r \in Runtimes, NEW p \in DOMAIN disk, ReadTranscript(r, p)
  PROVE  IInv'
<1>1. /\ disk' = disk /\ mem' = mem /\ next' = next /\ removed' = removed /\ acked' = acked /\ forced' = forced
      /\ foreign' = [foreign EXCEPT ![r] = FALSE] /\ unsure' = [unsure EXCEPT ![r] = FALSE]
  BY DEF ReadTranscript, bounds
<1>2. PICK t : t = Loaded(File(p))
  OBVIOUS
<1>3. p \in Paths /\ Exists(File(p)) /\ t \in Transcripts
  BY <1>2, FileIsRecord, LoadsAll DEF IInv, Types, ReadTranscript
<1>4. PICK j : j = [job[r] EXCEPT !.at = "ledger", !.path = p, !.msgs = t]
  OBVIOUS
<1>5. j \in JobRecords /\ j.at = "ledger" /\ j.path = p /\ j.msgs = t
  <2>1. job[r] \in JobRecords
    BY DEF IInv, Types
  <2>2. j.at = "ledger" /\ j.path = p /\ j.msgs = t
    BY <1>4, <2>1 DEF JobRecords
  <2>3. j \in JobRecords
    BY <1>3, <1>4, <2>1 DEF JobRecords, Steps, Optional
  <2> QED
    BY <2>2, <2>3
<1>6. job' = [job EXCEPT ![r] = j]
  BY <1>2, <1>4 DEF ReadTranscript, IInv, Types
<1>7. job' \in [Runtimes -> JobRecords] /\ job'[r] = j /\ \A s \in Runtimes : s # r => job'[s] = job[s]
  BY <1>5, <1>6, Moved DEF IInv
<1>8. TypedNext /\ Others(r) /\ foreign'[r] = FALSE /\ unsure'[r] = FALSE
  BY <1>1, <1>7 DEF IInv, Types, TypedNext, Others
<1>9. Locks(r)
  BY <1>5, <1>7 DEF Locks, Holds
<1>10. Placed(r)'
  BY <1>1, <1>3, <1>5, <1>7 DEF IInv, Orderly, Placed, Branching
<1>11. Stage(r)'
  BY <1>5, <1>7 DEF Stage
<1>12. Known(r)'
  BY <1>1, <1>5, <1>7 DEF IInv, Orderly, Known, Writing, Branching
<1>13. Current(r)'
  <2>1. File(p)' = File(p)
    BY <1>1, SameFile
  <2> QED
    BY <1>2, <1>3, <1>5, <1>7, <1>8, <2>1 DEF Current, Branching, Between
<1>14. \A s \in Runtimes : s # r => foreign'[s] = foreign[s]
  BY <1>1 DEF IInv, Types
<1> QED
  BY <1>1, <1>8, <1>9, <1>10, <1>11, <1>12, <1>13, <1>14, QuietStep DEF Orderly

\* and then its ledger.
LEMMA ReadLedgerKeeps ==
  ASSUME IInv, NEW r \in Runtimes, ReadLedger(r)
  PROVE  IInv'
<1>1. /\ disk' = disk /\ next' = next /\ removed' = removed /\ acked' = acked /\ forced' = forced
      /\ foreign' = foreign /\ unsure' = unsure /\ job[r].at = "ledger"
  BY DEF ReadLedger, bounds
<1>2. PICK p : p = job[r].path
  OBVIOUS
<1>3. PICK t : t = job[r].msgs
  OBVIOUS
<1>4. p \in DOMAIN disk /\ p \in Paths /\ t \in Transcripts /\ File(p).rev \in Nat
  BY <1>1, <1>2, <1>3, FileIsRecord DEF IInv, Types, Orderly, Placed, FileRecords
<1>5. PICK b : b = [path |-> p, digest |-> t, ver |-> 0, rev |-> File(p).rev, verified |-> FALSE]
  OBVIOUS
<1>6. PICK m : m = [open |-> TRUE, path |-> p, msgs |-> t, ver |-> 0, rw |-> 0, savedRw |-> 0, base |-> b]
  OBVIOUS
<1>7. b \in Bases /\ m \in Sessions
  BY <1>4, <1>5, <1>6 DEF Bases, Sessions
<1>8. mem' = [mem EXCEPT ![r] = m]
  BY <1>2, <1>3, <1>5, <1>6 DEF ReadLedger
<1>9. mem' \in [Runtimes -> Sessions] /\ mem'[r] = m /\ \A s \in Runtimes : s # r => mem'[s] = mem[s]
  BY <1>7, <1>8, Changed DEF IInv
<1>10. PICK j : j = IF job[r].meta THEN [Idle EXCEPT !.at = "meta", !.path = p] ELSE Idle
  OBVIOUS
<1>11. j \in JobRecords /\ j.at \in {"idle", "meta"} /\ (j.at = "meta" => j.path = p) /\ j.msgs \in Transcripts
  BY <1>4, <1>10, IdleJob DEF Idle, JobRecords, Steps, Between, Optional, Paths
<1>12. job' = [job EXCEPT ![r] = j]
  BY <1>2, <1>10 DEF ReadLedger, Finish
<1>13. job' \in [Runtimes -> JobRecords] /\ job'[r] = j /\ \A s \in Runtimes : s # r => job'[s] = job[s]
  BY <1>11, <1>12, Moved DEF IInv
<1>14. TypedNext /\ Others(r)
  BY <1>1, <1>9, <1>13 DEF IInv, Types, TypedNext, Others
<1>15. Locks(r)
  BY <1>11, <1>13 DEF Locks, Holds
<1>16. Placed(r)'
  BY <1>1, <1>4, <1>5, <1>6, <1>9, <1>11, <1>13 DEF Placed, Branching
<1>17. Stage(r)'
  BY <1>11, <1>13 DEF Stage
<1>18. Known(r)'
  BY <1>5, <1>6, <1>9, <1>11, <1>13 DEF Known, Writing, Branching
<1>19. Current(r)'
  <2>1. File(p)' = File(p)
    BY <1>1, SameFile
  <2>2. foreign[r] \/ (Exists(File(p)) /\ t = Loaded(File(p)))
    BY <1>1, <1>2, <1>3 DEF IInv, Orderly, Current
  <2> QED
    BY <1>1, <1>5, <1>6, <1>9, <1>11, <1>13, <2>1, <2>2 DEF Current, Branching, Between
<1> QED
  BY <1>1, <1>14, <1>15, <1>16, <1>17, <1>18, <1>19, QuietStep DEF Orderly

\* A change of the session, which may run beside a save of it.
LEMMA ChangeKeeps ==
  ASSUME IInv, NEW r \in Runtimes, mem[r].open, NEW t \in Transcripts, NEW rewrite \in BOOLEAN,
         Change(r, t, rewrite), disk' = disk,
         job' = job \/ (job[r].at = "idle" /\ job' = [job EXCEPT ![r].at = "save", ![r].mode = "rewrite"]),
         foreign' = foreign, unsure' = unsure, acked' = acked, forced' = forced, next' \in Nat,
         removed \subseteq removed', Messages(mem[r].msgs) \subseteq Messages(t) \cup removed'
  PROVE  IInv'
<1>1. PICK n : n = IF rewrite THEN mem[r].rw + 1 ELSE mem[r].rw
  OBVIOUS
<1>16. PICK v : v = mem[r].ver + 1
  OBVIOUS
<1>2. PICK m : m = [mem[r] EXCEPT !.msgs = t, !.ver = v, !.rw = n]
  OBVIOUS
<1>3. /\ m \in Sessions /\ m.msgs = t /\ m.ver = mem[r].ver + 1 /\ m.rw = n /\ n >= mem[r].rw /\ n \in Nat
      /\ m.path = mem[r].path /\ m.open = mem[r].open /\ m.base = mem[r].base /\ m.savedRw = mem[r].savedRw
      /\ mem[r].ver \in Nat /\ mem[r].rw \in Nat /\ mem[r].savedRw \in Nat /\ mem[r].base.ver \in Nat
      /\ job[r].ver \in Nat /\ job[r].rw \in Nat
  <2>1. mem[r] \in Sessions /\ job[r] \in JobRecords
    BY DEF IInv, Types
  <2>2. job[r].ver \in Nat /\ job[r].rw \in Nat
    BY <2>1 DEF JobRecords
  <2>3. mem[r].ver \in Nat /\ mem[r].rw \in Nat /\ mem[r].savedRw \in Nat /\ mem[r].base \in Bases
    BY <2>1 DEF Sessions
  <2>4. n \in Nat /\ n >= mem[r].rw
    BY <1>1, <2>3
  <2>5. mem[r].base.ver \in Nat
    BY <2>3 DEF Bases
  <2>6. m.msgs = t /\ m.ver = mem[r].ver + 1 /\ m.rw = n
        /\ m.path = mem[r].path /\ m.open = mem[r].open /\ m.base = mem[r].base /\ m.savedRw = mem[r].savedRw
    BY <1>2, <1>16, <2>1 DEF Sessions
  <2>8. v \in Nat
    BY <1>16, <2>3
  <2>7. m \in Sessions
    BY <1>2, <2>1, <2>4, <2>8 DEF Sessions
  <2> QED
    BY <2>2, <2>3, <2>4, <2>5, <2>6, <2>7
<1>4. mem' = [mem EXCEPT ![r] = m]
  BY <1>1, <1>2, <1>16 DEF Change, IInv, Types
<1>5. mem' \in [Runtimes -> Sessions] /\ mem'[r] = m /\ \A s \in Runtimes : s # r => mem'[s] = mem[s]
  BY <1>3, <1>4, Changed DEF IInv
<1>6. PICK j : j = job'[r]
  OBVIOUS
<1>7. /\ job' \in [Runtimes -> JobRecords] /\ job'[r] = j /\ \A s \in Runtimes : s # r => job'[s] = job[s]
      /\ j.path = job[r].path /\ j.msgs = job[r].msgs /\ (j = job[r] \/ (job[r].at = "idle" /\ j.at = "save"))
  <2>1. CASE job' = job
    BY <1>6, <2>1 DEF IInv, Types
  <2>2. CASE job[r].at = "idle" /\ job' = [job EXCEPT ![r].at = "save", ![r].mode = "rewrite"]
    <3>1. PICK k : k = [job[r] EXCEPT !.at = "save", !.mode = "rewrite"]
      OBVIOUS
    <3>2. job[r] \in JobRecords
      BY DEF IInv, Types
    <3>3. k.at = "save" /\ k.path = job[r].path /\ k.msgs = job[r].msgs
      BY <3>1, <3>2 DEF JobRecords
    <3>4. k \in JobRecords
      BY <3>1, <3>2 DEF JobRecords, Steps, Between
    <3>5. k \in JobRecords /\ k.at = "save" /\ k.path = job[r].path /\ k.msgs = job[r].msgs
      BY <3>3, <3>4
    <3>6. job' = [job EXCEPT ![r] = k]
      BY <2>2, <3>1 DEF IInv, Types
    <3>7. job' \in [Runtimes -> JobRecords] /\ job'[r] = k /\ \A s \in Runtimes : s # r => job'[s] = job[s]
      BY <3>5, <3>6, Moved DEF IInv
    <3> QED
      BY <1>6, <2>2, <3>5, <3>7
  <2> QED
    BY <2>1, <2>2
<1>8. TypedNext /\ Others(r)
  BY <1>5, <1>7 DEF IInv, Types, TypedNext, Others
<1>9. Locks(r)
  BY <1>7 DEF Locks, Holds
<1>10. Placed(r) /\ Stage(r) /\ Known(r) /\ Current(r)
  BY DEF IInv, Orderly
<1>11. \A p : File(p)' = File(p)
  BY SameFile
<1>12. Placed(r)'
  <2>1. m.savedRw <= m.rw /\ m.base.ver <= m.ver
    BY <1>3, <1>10 DEF Placed
  <2>2. j.at # "metaWrite" => j.msgs \in Transcripts
    BY <1>7, <1>10 DEF Placed
  <2> QED
    BY <1>3, <1>5, <1>7, <1>10, <2>1, <2>2 DEF Placed, Branching
<1>13. Stage(r)'
  <2>1. PICK p : p = job[r].path
    OBVIOUS
  <2>2. PICK u : u = job[r].msgs
    OBVIOUS
  <2>3. Covers(u, File(p)) => Covers(u, File(p))'
    BY <1>11 DEF Covers
  <2> QED
    BY <1>7, <1>10, <1>11, <2>1, <2>2, <2>3 DEF Stage
<1>14. Known(r)'
  <2>1. PICK d : d = mem[r].base.digest
    OBVIOUS
  <2>2. PICK u : u = job[r].msgs
    OBVIOUS
  <2>3. Messages(d) \subseteq Messages(mem[r].msgs) \cup removed
    BY <1>10, <2>1 DEF Known
  <2>4. Messages(d) \subseteq Messages(t) \cup removed'
    BY <2>3
  <2>5. m.base.ver # m.ver
    BY <1>3, <1>10 DEF Placed
  <2>6. ASSUME j.at \in Writing \cup Branching
        PROVE  /\ j.ver <= m.ver /\ j.rw <= m.rw /\ j.ver # m.ver
               /\ Messages(u) \subseteq Messages(t) \cup removed'
    <3>1. j = job[r]
      BY <1>7, <2>6 DEF Writing, Branching
    <3>2. job[r].ver <= mem[r].ver /\ job[r].rw <= mem[r].rw /\ Messages(u) \subseteq Messages(mem[r].msgs) \cup removed
      BY <1>10, <2>2, <2>6, <3>1 DEF Known
    <3> QED
      BY <1>3, <3>1, <3>2
  <2> QED
    BY <1>3, <1>5, <1>7, <1>10, <2>1, <2>2, <2>4, <2>5, <2>6 DEF Known
<1>15. Current(r)'
  <2>1. PICK p : p = job[r].path
    OBVIOUS
  <2>2. PICK q : q = mem[r].path
    OBVIOUS
  <2>3. File(p)' = File(p) /\ File(q)' = File(q)
    BY <1>11
  <2> QED
    BY <1>3, <1>5, <1>7, <1>10, <2>1, <2>2, <2>3 DEF Current, Between, Branching
<1> QED
  BY <1>8, <1>9, <1>12, <1>13, <1>14, <1>15, QuietStep DEF Orderly

\* A turn adds to the session or rewrites it.
LEMMA TurnKeeps ==
  ASSUME IInv, NEW r \in Runtimes, Add(r) \/ Prune(r) \/ \E n \in 1..MaxMessages : Rewind(r, n) \/ CancelTurn(r, n)
  PROVE  IInv'
<1>1. PICK t : t = mem[r].msgs
  OBVIOUS
<1>2. t \in Transcripts /\ next \in Nat
  BY <1>1 DEF IInv, Types, Sessions
<1>3. CASE Add(r)
  <2>1. next' = next + 1 /\ mem[r].open /\ Change(r, Append(t, next'), FALSE)
        /\ disk' = disk /\ job' = job /\ foreign' = foreign /\ unsure' = unsure /\ acked' = acked
        /\ forced' = forced /\ removed' = removed
    BY <1>1, <1>3 DEF Add, ghosts
  <2>2. next' \in Nat
    BY <1>2, <2>1
  <2>3. Append(t, next') \in Transcripts /\ Messages(t) \subseteq Messages(Append(t, next'))
    BY <1>2, <2>2, AppendMessages
  <2> QED
    BY <1>1, <2>1, <2>2, <2>3, ChangeKeeps
<1>4. CASE Prune(r)
  <2>1. next' = next + 1 /\ mem[r].open /\ t # << >> /\ Change(r, [t EXCEPT ![1] = next'], TRUE)
        /\ disk' = disk /\ job' = job /\ foreign' = foreign /\ unsure' = unsure /\ acked' = acked
        /\ forced' = forced /\ removed' = removed \cup {t[1]}
    BY <1>1, <1>4 DEF Prune
  <2>2. next' \in Nat
    BY <1>2, <2>1
  <2>3. [t EXCEPT ![1] = next'] \in Transcripts /\ Messages(t) \subseteq Messages([t EXCEPT ![1] = next']) \cup {t[1]}
    BY <1>2, <2>1, <2>2, ReplaceMessages
  <2> QED
    BY <1>1, <2>1, <2>2, <2>3, ChangeKeeps
<1>5. ASSUME NEW n \in 1..MaxMessages, Rewind(r, n) \/ CancelTurn(r, n) PROVE IInv'
  <2>1. n \in 1 .. (Len(t) - 1)
    BY <1>1, <1>5 DEF Rewind, CancelTurn, Boundaries
  <2>2. PICK u : u = SubSeq(t, 1, n)
    OBVIOUS
  <2>3. u \in Transcripts /\ Messages(t) \subseteq Messages(u) \cup Messages(SubSeq(t, n + 1, Len(t)))
    BY <1>2, <2>1, <2>2, CutMessages
  <2>4. next' = next /\ mem[r].open /\ (Change(r, u, TRUE) \/ Change(r, u, FALSE))
        /\ disk' = disk /\ foreign' = foreign /\ unsure' = unsure /\ acked' = acked
        /\ forced' = forced /\ removed' = removed \cup Messages(SubSeq(t, n + 1, Len(t)))
    BY <1>1, <1>5, <2>2 DEF Rewind, CancelTurn
  <2>5. job' = job \/ (job[r].at = "idle" /\ job' = [job EXCEPT ![r].at = "save", ![r].mode = "rewrite"])
    BY <1>5 DEF Rewind, CancelTurn
  <2> QED
    BY <1>1, <1>2, <2>3, <2>4, <2>5, ChangeKeeps
<1> QED
  BY <1>3, <1>4, <1>5

\* An update of the metadata reads the ledger that it writes back.
LEMMA ReadMetaKeeps ==
  ASSUME IInv, NEW r \in Runtimes, ReadMeta(r)
  PROVE  IInv'
<1>1. /\ disk' = disk /\ mem' = mem /\ next' = next /\ removed' = removed /\ acked' = acked /\ forced' = forced
      /\ foreign' = foreign /\ unsure' = unsure /\ job[r].at = "meta"
  BY DEF ReadMeta, bounds, ghosts
<1>2. PICK p : p = job[r].path
  OBVIOUS
<1>3. PICK f : f = File(p)
  OBVIOUS
<1>4. f \in FileRecords /\ f.rev \in Nat /\ f.digest \in Optional
  BY <1>3, FileIsRecord DEF IInv, FileRecords
<1>5. PICK j : j = [job[r] EXCEPT !.at = "metaWrite", !.rev = f.rev, !.msgs = f.digest]
  OBVIOUS
<1>6. j \in JobRecords /\ j.at = "metaWrite" /\ j.path = p /\ j.rev = f.rev
  <2>1. job[r] \in JobRecords
    BY DEF IInv, Types
  <2>2. j.at = "metaWrite" /\ j.path = p /\ j.rev = f.rev
    BY <1>2, <1>5, <2>1 DEF JobRecords
  <2>3. j \in JobRecords
    BY <1>4, <1>5, <2>1 DEF JobRecords, Steps, Between
  <2> QED
    BY <2>2, <2>3
<1>7. job' = [job EXCEPT ![r] = j]
  BY <1>2, <1>3, <1>5 DEF ReadMeta, IInv, Types
<1>8. job' \in [Runtimes -> JobRecords] /\ job'[r] = j /\ \A s \in Runtimes : s # r => job'[s] = job[s]
  BY <1>6, <1>7, Moved DEF IInv
<1>9. TypedNext /\ Others(r)
  BY <1>1, <1>8 DEF IInv, Types, TypedNext, Others
<1>10. Locks(r)
  BY <1>6, <1>8 DEF Locks, Holds
<1>11. Placed(r) /\ Known(r) /\ Current(r)
  BY DEF IInv, Orderly
<1>12. Placed(r)'
  BY <1>1, <1>2, <1>6, <1>8, <1>11 DEF Placed, Branching
<1>13. Stage(r)'
  BY <1>6, <1>8 DEF Stage
<1>14. Known(r)'
  BY <1>1, <1>6, <1>8, <1>11 DEF Known, Writing, Branching
<1>15. Current(r)'
  <2>1. PICK q : q = mem[r].path
    OBVIOUS
  <2>2. File(p)' = f /\ File(q)' = File(q)
    BY <1>1, <1>3, SameFile
  <2> QED
    BY <1>1, <1>6, <1>8, <1>11, <2>1, <2>2 DEF Current, Between, Branching
<1> QED
  BY <1>1, <1>9, <1>10, <1>12, <1>13, <1>14, <1>15, QuietStep DEF Orderly

\* A save is tried once more as a rewrite.
LEMMA RetryKeeps ==
  ASSUME IInv, NEW r \in Runtimes, Retry(r)
  PROVE  IInv'
<1>1. /\ disk' = disk /\ mem' = mem /\ next' = next /\ removed' = removed /\ acked' = acked /\ forced' = forced
      /\ foreign' = foreign /\ unsure' = unsure /\ job[r].at = "conflict"
  BY DEF Retry, bounds, ghosts
<1>2. PICK j : j = [Idle EXCEPT !.at = "save", !.mode = "rewrite", !.meta = TRUE]
  OBVIOUS
<1>3. j \in JobRecords /\ j.at = "save" /\ j.msgs \in Transcripts
  BY <1>2, IdleJob DEF Idle, JobRecords, Steps, Between
<1>4. job' = [job EXCEPT ![r] = j]
  BY <1>2 DEF Retry
<1>5. job' \in [Runtimes -> JobRecords] /\ job'[r] = j /\ \A s \in Runtimes : s # r => job'[s] = job[s]
  BY <1>3, <1>4, Moved DEF IInv
<1>6. TypedNext /\ Others(r)
  BY <1>1, <1>5 DEF IInv, Types, TypedNext, Others
<1>7. Locks(r)
  BY <1>3, <1>5 DEF Locks, Holds
<1>8. Placed(r) /\ Known(r) /\ Current(r)
  BY DEF IInv, Orderly
<1>9. Placed(r)'
  BY <1>1, <1>3, <1>5, <1>8 DEF Placed, Branching
<1>10. Stage(r)'
  BY <1>3, <1>5 DEF Stage
<1>11. Known(r)'
  BY <1>1, <1>3, <1>5, <1>8 DEF Known, Writing, Branching
<1>12. Current(r)'
  BY <1>1, <1>3, <1>5, <1>8 DEF Current, Between, Branching
<1> QED
  BY <1>1, <1>6, <1>7, <1>9, <1>10, <1>11, <1>12, QuietStep DEF Orderly

\* A conflict is saved to a branch, or over its own path at the depth cap.
LEMMA ForkKeeps ==
  ASSUME IInv, NEW r \in Runtimes, Fork(r)
  PROVE  IInv'
<1>1. /\ disk' = disk /\ mem' = mem /\ next' = next /\ removed' = removed /\ acked' = acked /\ forced' = forced
      /\ foreign' = foreign /\ unsure' = unsure /\ job[r].at = "conflict"
  BY DEF Fork, Conflicted, bounds, ghosts
<1>2. PICK p : p = job[r].path
  OBVIOUS
<1>3. PICK t : t = mem[r].msgs
  OBVIOUS
<1>4. p \in Paths /\ t \in Transcripts /\ mem[r].ver \in Nat /\ mem[r].rw \in Nat /\ MaxDepth \in Nat
  BY <1>2, <1>3, BoundsAssumption DEF IInv, Types, Sessions, JobRecords
<1>5. Placed(r) /\ Known(r) /\ Current(r)
  BY DEF IInv, Orderly
<1>6. PICK j : j = IF Depth(p) >= MaxDepth THEN [job[r] EXCEPT !.at = "force", !.shape = "none"]
                   ELSE [job[r] EXCEPT !.at = "fork", !.shape = "none", !.path = RecoveryPath(p, t), !.msgs = t,
                                       !.ver = mem[r].ver, !.rw = mem[r].rw]
  OBVIOUS
<1>7. job' = [job EXCEPT ![r] = j]
  BY <1>2, <1>3, <1>6 DEF Fork
<1>8. /\ j \in JobRecords
      /\ \/ j.at = "force" /\ j.path = p /\ j.msgs = job[r].msgs
         \/ /\ j.at = "fork" /\ Depth(j.path) <= MaxDepth /\ j.msgs = t /\ j.ver = mem[r].ver /\ j.rw = mem[r].rw
  <2>1. CASE Depth(p) >= MaxDepth
    <3>1. job[r] \in JobRecords /\ j = [job[r] EXCEPT !.at = "force", !.shape = "none"]
      BY <1>6, <2>1 DEF IInv, Types
    <3>2. j.at = "force" /\ j.path = p /\ j.msgs = job[r].msgs
      BY <1>2, <3>1 DEF JobRecords
    <3>3. j \in JobRecords
      BY <3>1 DEF JobRecords, Steps
    <3> QED
      BY <3>2, <3>3
  <2>2. CASE ~(Depth(p) >= MaxDepth)
    <3>1. PICK q : q = RecoveryPath(p, t)
      OBVIOUS
    <3>2. q \in Paths /\ Depth(q) <= MaxDepth
      BY <1>4, <2>2, <3>1 DEF RecoveryPath, Depth, Paths
    <3>3. j = [job[r] EXCEPT !.at = "fork", !.shape = "none", !.path = q, !.msgs = t,
                             !.ver = mem[r].ver, !.rw = mem[r].rw]
      BY <1>6, <2>2, <3>1
    <3>4. job[r] \in JobRecords /\ t \in Optional /\ "fork" \in Steps
      BY <1>4 DEF IInv, Types, Optional, Steps, Branching
    <3>5. j \in JobRecords
      BY <1>4, <3>2, <3>3, <3>4 DEF JobRecords
    <3>6. j.at = "fork" /\ j.path = q /\ j.msgs = t /\ j.ver = mem[r].ver /\ j.rw = mem[r].rw
      BY <3>3, <3>4 DEF JobRecords
    <3> QED
      BY <3>2, <3>5, <3>6
  <2> QED
    BY <2>1, <2>2
<1>9. job' \in [Runtimes -> JobRecords] /\ job'[r] = j /\ \A s \in Runtimes : s # r => job'[s] = job[s]
  BY <1>7, <1>8, Moved DEF IInv
<1>10. TypedNext /\ Others(r)
  BY <1>1, <1>9 DEF IInv, Types, TypedNext, Others
<1>11. Locks(r)
  BY <1>8, <1>9 DEF Locks, Holds
<1>12. Placed(r)'
  BY <1>1, <1>2, <1>4, <1>5, <1>8, <1>9 DEF Placed, Branching
<1>13. Stage(r)'
  BY <1>8, <1>9 DEF Stage
<1>14. Known(r)'
  BY <1>1, <1>3, <1>4, <1>5, <1>8, <1>9 DEF Known, Writing, Branching
<1>15. Current(r)'
  BY <1>1, <1>5, <1>8, <1>9 DEF Current, Between, Branching
<1> QED
  BY <1>1, <1>10, <1>11, <1>12, <1>13, <1>14, <1>15, QuietStep DEF Orderly

\* The lock of the branch is taken.
LEMMA TakeBranchKeeps ==
  ASSUME IInv, NEW r \in Runtimes, TakeBranch(r)
  PROVE  IInv'
<1>1. /\ disk' = disk /\ mem' = mem /\ next' = next /\ removed' = removed /\ acked' = acked /\ forced' = forced
      /\ foreign' = foreign /\ unsure' = unsure /\ job[r].at = "fork"
  BY DEF TakeBranch, bounds, ghosts
<1>2. PICK p : p = job[r].path
  OBVIOUS
<1>3. PICK a : a = IF Exists(File(p)) /\ Loaded(File(p)) = job[r].msgs THEN "branchMeta" ELSE "branchLog"
  OBVIOUS
<1>4. PICK j : j = [job[r] EXCEPT !.at = a]
  OBVIOUS
<1>5. /\ j \in JobRecords /\ j.at = a /\ j.path = p /\ j.msgs = job[r].msgs /\ j.ver = job[r].ver /\ j.rw = job[r].rw
      /\ a \in {"branchMeta", "branchLog"}
  BY <1>2, <1>3, <1>4 DEF IInv, Types, JobRecords, Steps, Branching
<1>6. job' = [job EXCEPT ![r] = j] /\ Free(p)
  BY <1>2, <1>3, <1>4 DEF TakeBranch, Go, IInv, Types
<1>7. job' \in [Runtimes -> JobRecords] /\ job'[r] = j /\ \A s \in Runtimes : s # r => job'[s] = job[s]
  BY <1>5, <1>6, Moved DEF IInv
<1>8. TypedNext /\ Others(r)
  BY <1>1, <1>7 DEF IInv, Types, TypedNext, Others
<1>9. Locks(r)
  BY <1>5, <1>6, <1>7 DEF Locks, Holds
<1>10. Placed(r) /\ Known(r) /\ Current(r)
  BY DEF IInv, Orderly
<1>11. Placed(r)'
  BY <1>1, <1>2, <1>5, <1>7, <1>10 DEF Placed, Branching
<1>12. Stage(r)'
  <2>1. File(p)' = File(p)
    BY <1>1, SameFile
  <2> QED
    BY <1>3, <1>5, <1>7, <2>1 DEF Stage
<1>13. Known(r)'
  BY <1>1, <1>5, <1>7, <1>10 DEF Known, Writing, Branching
<1>14. Current(r)'
  BY <1>1, <1>5, <1>7, <1>10 DEF Current, Between, Branching
<1> QED
  BY <1>1, <1>8, <1>9, <1>11, <1>12, <1>13, <1>14, QuietStep DEF Orderly

-----------------------------------------------------------------------------
(* The steps that write under the lock of a path. *)

\* No path is deeper than a chain of recoveries may be.
LEMMA PathsAreShallow ==
  ASSUME IInv, NEW r \in Runtimes, job[r].at \notin {"idle", "save"}
  PROVE  job[r].path \in Paths /\ Depth(job[r].path) <= MaxDepth
<1>1. Placed(r)
  BY DEF IInv, Orderly
<1> QED
  BY <1>1 DEF IInv, Placed, Shallow, Types, JobRecords

\* A write that fails leaves file f, and the save ends.
LEMMA FailKeeps ==
  ASSUME IInv, NEW r \in Runtimes, NEW p, p = job[r].path, Holds(r, p), NEW f \in FileRecords, Fail(r, p, f),
         Exists(File(p)) => Exists(f) /\ Messages(Raw(File(p))) \subseteq Messages(Raw(f)) \cup removed \cup forced,
         forced \subseteq forced'
  PROVE  IInv'
<1>1. /\ disk' = Put(p, f) /\ mem' = mem /\ next' = next /\ removed' = removed /\ acked' = acked
      /\ foreign' = Touched(r, p, f) /\ unsure' = [unsure EXCEPT ![r] = TRUE]
  BY DEF Fail, Write
<1>2. p \in Paths /\ Depth(p) <= MaxDepth
  BY PathsAreShallow DEF Holds
<1>3. job' = [job EXCEPT ![r] = Idle]
  BY DEF Fail, Done
<1>4. job' \in [Runtimes -> JobRecords] /\ job'[r] = Idle /\ \A s \in Runtimes : s # r => job'[s] = job[s]
  BY <1>3, IdleJob, Moved DEF IInv
<1>5. foreign' \in [Runtimes -> BOOLEAN] /\ unsure' \in [Runtimes -> BOOLEAN]
  BY <1>1 DEF IInv, Types, Touched
<1>6. TypedNext /\ Others(r)
  BY <1>1, <1>4, <1>5 DEF IInv, Types, TypedNext, Others
<1>7. Locks(r)
  BY <1>4, IdleJob DEF Locks, Holds
<1>8. Placed(r) /\ Known(r)
  BY DEF IInv, Orderly
<1>9. Placed(r)'
  <2>1. mem[r].path \in DOMAIN disk'
    BY <1>1, <1>2, <1>8, PutFile DEF IInv, Placed
  <2> QED
    BY <1>1, <1>4, <1>8, <2>1, IdleJob DEF Placed, Branching
<1>10. Stage(r)'
  BY <1>4, IdleJob DEF Stage
<1>11. Known(r)'
  BY <1>1, <1>4, <1>8, IdleJob DEF Known, Writing, Branching
<1>12. Current(r)'
  BY <1>1, <1>4, <1>5, IdleJob DEF IInv, Types, Current, Branching
<1> QED
  BY <1>1, <1>2, <1>6, <1>7, <1>9, <1>10, <1>11, <1>12, WriteStep DEF Orderly

\* What a log write may leave, done or not.
LEMMA LogWritesAre ==
  ASSUME NEW j \in JobRecords, j.msgs \in Transcripts, NEW f \in FileRecords, NEW g, g \in LogTorn(j, f),
         ~f.torn, j.shape = "append" => Exists(f) /\ IsPrefix(Raw(f), j.msgs) /\ j.from = Len(Raw(f))
  PROVE  /\ g \in FileRecords
         /\ g.log = f.log \/ g.log = j.msgs
         /\ g.checkpoint = f.checkpoint /\ g.rev = f.rev
         /\ g \in LogWrites(j, f) => g.log = j.msgs \/ (j.shape = "force" /\ g.log = Nothing)
<1>1. j.msgs \in Optional
  BY DEF Optional
<1>2. LogReplace(f, j.msgs) = [f EXCEPT !.log = j.msgs]
  BY DEF LogReplace
<1>3. j.shape = "append" /\ f.log # Nothing => LogAppend(f, j.from, j.msgs) = [f EXCEPT !.log = j.msgs]
  <2>1. SUFFICES ASSUME j.shape = "append", f.log # Nothing
                 PROVE  LogAppend(f, j.from, j.msgs) = [f EXCEPT !.log = j.msgs]
    OBVIOUS
  <2>2. f.log = Raw(f) /\ f.log \in Transcripts
    BY <2>1 DEF Raw, FileRecords, Optional
  <2>3. f.log \o SubSeq(j.msgs, j.from + 1, Len(j.msgs)) = j.msgs
    BY <2>1, <2>2, Completed
  <2> QED
    BY <2>1, <2>2, <2>3 DEF LogAppend
<1>4. LogCompact(f, j.msgs) = [f EXCEPT !.log = j.msgs, !.torn = FALSE]
  BY DEF LogCompact
<1>5. g \in LogWrites(j, f) => \/ g = [f EXCEPT !.log = j.msgs] \/ g = [f EXCEPT !.log = j.msgs, !.torn = FALSE]
                               \/ (j.shape = "force" /\ f.log = Nothing /\ g = f)
  BY <1>2, <1>3, <1>4 DEF LogWrites
<1>6. \/ g = f \/ g = [f EXCEPT !.torn = TRUE]
      \/ g = [f EXCEPT !.log = j.msgs] \/ g = [f EXCEPT !.log = j.msgs, !.torn = FALSE]
  BY <1>5 DEF LogTorn
<1>7. g \in FileRecords
  BY <1>1, <1>6 DEF FileRecords
<1>8. g.log = f.log \/ g.log = j.msgs
  BY <1>6 DEF FileRecords
<1>9. g.checkpoint = f.checkpoint /\ g.rev = f.rev
  BY <1>6 DEF FileRecords
<1>10. g \in LogWrites(j, f) => g.log = j.msgs \/ (j.shape = "force" /\ g.log = Nothing)
  BY <1>5 DEF FileRecords
<1> QED
  BY <1>7, <1>8, <1>9, <1>10

\* A write of the transcript t in place of another hides nothing that t covers.
LEMMA Covering ==
  ASSUME NEW f \in FileRecords, NEW g \in FileRecords, NEW t \in Transcripts, Covers(t, f),
         g.log = f.log \/ g.log = t, g.checkpoint = f.checkpoint \/ g.checkpoint = t
  PROVE  /\ Exists(f) => Exists(g) /\ Messages(Raw(f)) \subseteq Messages(Raw(g)) \cup removed \cup forced
         /\ Covers(t, g)
<1>1. t # Nothing
  BY NothingIsApart
<1>2. g.log = t => Raw(g) = t
  BY <1>1 DEF Raw
<1>3. g.log = Nothing /\ g.checkpoint = t => Raw(g) = t
  BY <1>1 DEF Raw
<1>4. Raw(g) = t \/ Raw(g) = Raw(f)
  BY <1>1, <1>2, <1>3 DEF Raw
<1> QED
  BY <1>1, <1>4 DEF Covers, Exists

\* A log write that fails leaves the old transcript, the new one or a torn tail.
LEMMA WriteLogFailsKeeps ==
  ASSUME IInv, NEW r \in Runtimes, WriteLogFails(r)
  PROVE  IInv'
<1>1. PICK p : p = job[r].path
  OBVIOUS
<1>2. PICK g \in LogTorn(job[r], File(p)) : Fail(r, p, g)
  BY <1>1 DEF WriteLogFails
<1>3. job[r].at = "log" /\ Holds(r, p)
  BY <1>1 DEF WriteLogFails, Holds
<1>4. Stage(r) /\ Placed(r)
  BY DEF IInv, Orderly
<1>5. File(p) \in FileRecords /\ job[r] \in JobRecords /\ job[r].msgs \in Transcripts
  BY <1>3, <1>4, FileIsRecord DEF IInv, Types, Placed
<1>6. /\ ~File(p).torn /\ Covers(job[r].msgs, File(p))
      /\ job[r].shape = "append" =>
            Exists(File(p)) /\ IsPrefix(Raw(File(p)), job[r].msgs) /\ job[r].from = Len(Raw(File(p)))
  BY <1>1, <1>3, <1>4 DEF Stage
<1>7. g \in FileRecords /\ (g.log = File(p).log \/ g.log = job[r].msgs) /\ g.checkpoint = File(p).checkpoint
  BY <1>2, <1>5, <1>6, LogWritesAre
<1>8. Exists(File(p)) => Exists(g) /\ Messages(Raw(File(p))) \subseteq Messages(Raw(g)) \cup removed \cup forced
  BY <1>5, <1>6, <1>7, Covering
<1>9. forced' = forced
  BY <1>2 DEF Fail
<1> QED
  BY <1>1, <1>2, <1>3, <1>7, <1>8, <1>9, FailKeeps

\* Any other one leaves the file as it is.
LEMMA WriteFailsKeeps ==
  ASSUME IInv, NEW r \in Runtimes, WriteFails(r)
  PROVE  IInv'
<1>1. PICK p : p = job[r].path
  OBVIOUS
<1>2. Holds(r, p) /\ Fail(r, p, File(p)) /\ File(p) \in FileRecords
  BY <1>1, FileIsRecord DEF WriteFails, Holds, IInv
<1>3. forced' = forced
  BY <1>2 DEF Fail
<1> QED
  BY <1>1, <1>2, <1>3, FailKeeps

\* A save goes on to its next step.
LEMMA AdvanceKeeps ==
  ASSUME IInv, NEW r \in Runtimes, NEW p, p = job[r].path, Holds(r, p), NEW f \in FileRecords, Write(r, p, f),
         mem' = mem, next' = next, removed' = removed, acked' = acked, forced' = forced, unsure' = unsure,
         Exists(File(p)) => Exists(f) /\ Messages(Raw(File(p))) \subseteq Messages(Raw(f)) \cup removed \cup forced,
         NEW j \in JobRecords, job' = [job EXCEPT ![r] = j], j.path = p,
         j.msgs = job[r].msgs, j.ver = job[r].ver, j.rw = job[r].rw,
         \/ job[r].at \in Writing /\ j.at \in Writing
         \/ job[r].at \in Branching /\ j.at \in Branching,
         Stage(r)'
  PROVE  IInv'
<1>1. disk' = Put(p, f) /\ foreign' = Touched(r, p, f)
  BY DEF Write
<1>2. p \in Paths /\ Depth(p) <= MaxDepth
  BY PathsAreShallow DEF Holds
<1>3. job' \in [Runtimes -> JobRecords] /\ job'[r] = j /\ \A s \in Runtimes : s # r => job'[s] = job[s]
  BY Moved DEF IInv
<1>4. foreign' \in [Runtimes -> BOOLEAN] /\ (foreign[r] => foreign'[r])
  BY <1>1 DEF IInv, Types, Touched
<1>5. TypedNext /\ Others(r)
  BY <1>3, <1>4 DEF IInv, Types, TypedNext, Others
<1>6. Locks(r)
  BY <1>3 DEF Locks, Holds
<1>7. Placed(r) /\ Known(r) /\ Current(r)
  BY DEF IInv, Orderly
<1>8. Placed(r)'
  <2>1. mem[r].path \in DOMAIN disk'
    BY <1>1, <1>2, <1>7, PutFile DEF IInv, Placed
  <2> QED
    BY <1>2, <1>3, <1>7, <2>1 DEF Placed, Writing, Branching
<1>9. Known(r)'
  BY <1>3, <1>7 DEF Known
<1>10. Current(r)'
  BY <1>3, <1>4, <1>7 DEF Current, Between, Branching, Writing
<1> QED
  BY <1>1, <1>2, <1>5, <1>6, <1>8, <1>9, <1>10, WriteStep DEF Orderly

\* The log is written,
LEMMA WriteLogKeeps ==
  ASSUME IInv, NEW r \in Runtimes, WriteLog(r)
  PROVE  IInv'
<1>1. PICK p : p = job[r].path
  OBVIOUS
<1>2. PICK a : a = IF job[r].shape = "append" THEN "record" ELSE "checkpoint"
  OBVIOUS
<1>3. PICK g \in LogWrites(job[r], File(p)) :
        /\ Write(r, p, g)
        /\ job' = [job EXCEPT ![r].at = a, ![r].shape = "none", ![r].from = 0]
  BY <1>1, <1>2 DEF WriteLog
<1>4. /\ job[r].at = "log" /\ Holds(r, p) /\ mem' = mem /\ next' = next /\ removed' = removed /\ acked' = acked
      /\ forced' = forced /\ unsure' = unsure
  BY <1>1 DEF WriteLog, Holds, bounds
<1>5. Stage(r) /\ Placed(r)
  BY DEF IInv, Orderly
<1>6. PICK t : t = job[r].msgs
  OBVIOUS
<1>7. File(p) \in FileRecords /\ job[r] \in JobRecords /\ t \in Transcripts /\ t # Nothing
  BY <1>4, <1>5, <1>6, FileIsRecord, NothingIsApart DEF IInv, Types, Placed
<1>8. /\ ~File(p).torn /\ Covers(t, File(p))
      /\ job[r].shape = "append" =>
            Exists(File(p)) /\ IsPrefix(Raw(File(p)), t) /\ job[r].from = Len(Raw(File(p)))
  BY <1>1, <1>4, <1>5, <1>6 DEF Stage
<1>9. g \in LogTorn(job[r], File(p))
  BY <1>3 DEF LogTorn
<1>10. /\ g \in FileRecords /\ (g.log = File(p).log \/ g.log = t) /\ g.checkpoint = File(p).checkpoint
       /\ g.log = t \/ (job[r].shape = "force" /\ g.log = Nothing)
  BY <1>3, <1>6, <1>7, <1>8, <1>9, LogWritesAre
<1>11. /\ Exists(File(p)) => Exists(g) /\ Messages(Raw(File(p))) \subseteq Messages(Raw(g)) \cup removed \cup forced
       /\ Covers(t, g)
  BY <1>7, <1>8, <1>10, Covering
<1>12. PICK j : j = [job[r] EXCEPT !.at = a, !.shape = "none", !.from = 0]
  OBVIOUS
<1>13. /\ j \in JobRecords /\ j.at = a /\ j.path = p /\ j.msgs = t /\ j.ver = job[r].ver /\ j.rw = job[r].rw
       /\ a \in Writing /\ (a = "record" <=> job[r].shape = "append") /\ a \in {"record", "checkpoint"}
  BY <1>1, <1>2, <1>6, <1>7, <1>12 DEF JobRecords, Steps, Writing
<1>14. job' = [job EXCEPT ![r] = j]
  BY <1>3, <1>12 DEF IInv, Types
<1>15. job'[r] = j
  BY <1>13, <1>14, Moved DEF IInv
<1>16. Stage(r)'
  <2>1. File(p)' = g
    BY <1>3, <1>4, <1>10, PathsAreShallow, PutFile DEF Write, Holds, IInv
  <2>2. Covers(t, g)'
    BY <1>4, <1>11 DEF Covers
  <2>3. a = "record" => Raw(g) = t
    BY <1>7, <1>10, <1>13 DEF Raw
  <2> QED
    BY <1>10, <1>13, <1>15, <2>1, <2>2, <2>3 DEF Stage
<1>17. job[r].at \in Writing /\ j.at \in Writing
  BY <1>4, <1>13 DEF Writing
<1>18. /\ g \in FileRecords /\ Write(r, p, g) /\ j.path = p /\ j.msgs = job[r].msgs /\ j.ver = job[r].ver
       /\ j.rw = job[r].rw /\ j \in JobRecords
  BY <1>3, <1>6, <1>10, <1>13
<1> QED
  BY <1>1, <1>4, <1>11, <1>14, <1>16, <1>17, <1>18, AdvanceKeeps

\* and then the checkpoint.
LEMMA WriteCheckpointKeeps ==
  ASSUME IInv, NEW r \in Runtimes, WriteCheckpoint(r)
  PROVE  IInv'
<1>1. PICK p : p = job[r].path
  OBVIOUS
<1>2. PICK t : t = job[r].msgs
  OBVIOUS
<1>3. PICK g : g = [File(p) EXCEPT !.checkpoint = t]
  OBVIOUS
<1>4. /\ job[r].at = "checkpoint" /\ Holds(r, p) /\ mem' = mem /\ next' = next /\ removed' = removed /\ acked' = acked
      /\ forced' = forced /\ unsure' = unsure /\ Write(r, p, g) /\ job' = [job EXCEPT ![r].at = "record"]
  BY <1>1, <1>2, <1>3 DEF WriteCheckpoint, Holds, bounds, Go
<1>5. Stage(r) /\ Placed(r)
  BY DEF IInv, Orderly
<1>6. File(p) \in FileRecords /\ job[r] \in JobRecords /\ t \in Transcripts /\ t # Nothing /\ t \in Optional
  BY <1>2, <1>4, <1>5, FileIsRecord, NothingIsApart DEF IInv, Types, Placed, Optional
<1>7. File(p).log \in {Nothing, t} /\ Covers(t, File(p))
  BY <1>1, <1>2, <1>4, <1>5 DEF Stage
<1>8. g \in FileRecords /\ g.log = File(p).log /\ g.checkpoint = t
  BY <1>3, <1>6 DEF FileRecords
<1>9. Exists(File(p)) => Exists(g) /\ Messages(Raw(File(p))) \subseteq Messages(Raw(g)) \cup removed \cup forced
  BY <1>6, <1>7, <1>8, Covering
<1>10. PICK j : j = [job[r] EXCEPT !.at = "record"]
  OBVIOUS
<1>11. j \in JobRecords /\ j.at = "record" /\ j.path = p /\ j.msgs = t /\ j.ver = job[r].ver /\ j.rw = job[r].rw
  BY <1>1, <1>2, <1>6, <1>10 DEF JobRecords, Steps, Writing
<1>12. job' = [job EXCEPT ![r] = j]
  BY <1>4, <1>10 DEF IInv, Types
<1>13. job'[r] = j
  BY <1>11, <1>12, Moved DEF IInv
<1>14. Stage(r)'
  <2>1. File(p)' = g
    BY <1>4, <1>8, PathsAreShallow, PutFile DEF Write, Holds, IInv
  <2>2. Raw(g) = t
    BY <1>7, <1>8 DEF Raw
  <2> QED
    BY <1>11, <1>13, <2>1, <2>2 DEF Stage
<1>15. job[r].at \in Writing /\ j.at \in Writing
  BY <1>4, <1>11 DEF Writing
<1>16. j.msgs = job[r].msgs /\ job[r].path = j.path
  BY <1>1, <1>2, <1>11
<1>17. /\ p = job[r].path /\ Holds(r, p) /\ Write(r, p, g) /\ mem' = mem /\ next' = next
       /\ removed' = removed /\ acked' = acked /\ forced' = forced /\ unsure' = unsure
  BY <1>1, <1>4
<1> QED
  BY <1>17, <1>8, <1>9, <1>11, <1>12, <1>14, <1>15, <1>16, AdvanceKeeps

\* The log of a branch is written, which holds nothing else.
LEMMA WriteBranchLogKeeps ==
  ASSUME IInv, ForksApart, NEW r \in Runtimes, WriteBranchLog(r) \/ WriteBranchLogFails(r)
  PROVE  IInv'
<1>1. PICK p : p = job[r].path
  OBVIOUS
<1>2. PICK t : t = job[r].msgs
  OBVIOUS
<1>3. job[r].at = "branchLog" /\ Holds(r, p)
  BY <1>1 DEF WriteBranchLog, WriteBranchLogFails, Holds
<1>4. Placed(r)
  BY DEF IInv, Orderly
<1>5. File(p) \in FileRecords /\ job[r] \in JobRecords /\ t \in Transcripts /\ t # Nothing /\ t \in Optional
  BY <1>2, <1>3, <1>4, FileIsRecord, NothingIsApart DEF IInv, Types, Placed, Optional
<1>6. Raw(File(p)) \in {Nothing, t}
  BY <1>1, <1>2, <1>3 DEF ForksApart
<1>7. ASSUME NEW g, g \in {File(p), [File(p) EXCEPT !.torn = TRUE], LogReplace(File(p), t)}
      PROVE  /\ g \in FileRecords
             /\ Exists(File(p)) => Exists(g) /\ Messages(Raw(File(p))) \subseteq Messages(Raw(g)) \cup removed \cup forced
             /\ g.log \in {Nothing, t} /\ Raw(g) \in {Nothing, t}
  <2>1. g \in FileRecords /\ (g.log = File(p).log \/ g.log = t) /\ g.checkpoint = File(p).checkpoint
    BY <1>5, <1>7 DEF LogReplace, FileRecords
  <2>2. g.log = Nothing \/ g.log = t
    BY <1>5, <1>6, <2>1 DEF Raw
  <2>3. Raw(g) = Raw(File(p)) \/ Raw(g) = t
    BY <1>5, <2>1 DEF Raw
  <2>4. Exists(File(p)) => Raw(g) = Raw(File(p))
    BY <1>6, <2>3 DEF Exists
  <2> QED
    BY <1>6, <2>1, <2>2, <2>3, <2>4 DEF Exists
<1>8. CASE WriteBranchLog(r)
  <2>1. PICK g : g = LogReplace(File(p), t)
    OBVIOUS
  <2>2. /\ mem' = mem /\ next' = next /\ removed' = removed /\ acked' = acked
        /\ forced' = forced /\ unsure' = unsure /\ Write(r, p, g) /\ job' = [job EXCEPT ![r].at = "branchCheckpoint"]
    BY <1>1, <1>2, <1>8, <2>1 DEF WriteBranchLog, bounds, Go
  <2>3. PICK j : j = [job[r] EXCEPT !.at = "branchCheckpoint"]
    OBVIOUS
  <2>4. j \in JobRecords /\ j.at = "branchCheckpoint" /\ j.path = p /\ j.msgs = t /\ j.ver = job[r].ver /\ j.rw = job[r].rw
    BY <1>1, <1>2, <1>5, <2>3 DEF JobRecords, Steps, Branching
  <2>5. job' = [job EXCEPT ![r] = j]
    BY <2>2, <2>3 DEF IInv, Types
  <2>6. job'[r] = j
    BY <2>4, <2>5, Moved DEF IInv
  <2>7. g \in FileRecords /\ g.log \in {Nothing, t} /\ Raw(g) \in {Nothing, t}
        /\ (Exists(File(p)) => Exists(g) /\ Messages(Raw(File(p))) \subseteq Messages(Raw(g)) \cup removed \cup forced)
    BY <1>7, <2>1
  <2>8. Stage(r)'
    <3>1. File(p)' = g
      BY <1>1, <1>3, <2>2, <2>7, PathsAreShallow, PutFile DEF Write, IInv
    <3> QED
      BY <2>4, <2>6, <2>7, <3>1 DEF Stage
  <2> QED
    BY <1>1, <1>2, <1>3, <2>2, <2>4, <2>5, <2>7, <2>8, AdvanceKeeps DEF Branching
<1>9. CASE WriteBranchLogFails(r)
  <2>1. PICK g \in {File(p), [File(p) EXCEPT !.torn = TRUE], LogReplace(File(p), t)} : Fail(r, p, g)
    BY <1>1, <1>2, <1>9 DEF WriteBranchLogFails
  <2>2. forced' = forced
    BY <2>1 DEF Fail
  <2> QED
    BY <1>1, <1>3, <1>7, <2>1, <2>2, FailKeeps
<1> QED
  BY <1>8, <1>9

\* So is its checkpoint.
LEMMA WriteBranchCheckpointKeeps ==
  ASSUME IInv, NEW r \in Runtimes, WriteBranchCheckpoint(r)
  PROVE  IInv'
<1>1. PICK p : p = job[r].path
  OBVIOUS
<1>2. PICK t : t = job[r].msgs
  OBVIOUS
<1>3. PICK g : g = [File(p) EXCEPT !.checkpoint = t]
  OBVIOUS
<1>4. /\ job[r].at = "branchCheckpoint" /\ Holds(r, p) /\ mem' = mem /\ next' = next /\ removed' = removed
      /\ acked' = acked /\ forced' = forced /\ unsure' = unsure /\ Write(r, p, g)
      /\ job' = [job EXCEPT ![r].at = "branchMeta"]
  BY <1>1, <1>2, <1>3 DEF WriteBranchCheckpoint, Holds, bounds, Go
<1>5. Stage(r) /\ Placed(r)
  BY DEF IInv, Orderly
<1>6. File(p) \in FileRecords /\ job[r] \in JobRecords /\ t \in Transcripts /\ t # Nothing /\ t \in Optional
  BY <1>2, <1>4, <1>5, FileIsRecord, NothingIsApart DEF IInv, Types, Placed, Optional
<1>7. File(p).log \in {Nothing, t} /\ Raw(File(p)) \in {Nothing, t}
  BY <1>1, <1>2, <1>4, <1>5 DEF Stage
<1>8. g \in FileRecords /\ g.log = File(p).log /\ g.checkpoint = t
  BY <1>3, <1>6 DEF FileRecords
<1>9. Raw(g) = t /\ Exists(g)
  BY <1>6, <1>7, <1>8 DEF Raw, Exists
<1>10. Exists(File(p)) => Exists(g) /\ Messages(Raw(File(p))) \subseteq Messages(Raw(g)) \cup removed \cup forced
  BY <1>7, <1>9 DEF Exists
<1>11. PICK j : j = [job[r] EXCEPT !.at = "branchMeta"]
  OBVIOUS
<1>12. j \in JobRecords /\ j.at = "branchMeta" /\ j.path = p /\ j.msgs = t /\ j.ver = job[r].ver /\ j.rw = job[r].rw
  BY <1>1, <1>2, <1>6, <1>11 DEF JobRecords, Steps, Branching
<1>13. job' = [job EXCEPT ![r] = j]
  BY <1>4, <1>11 DEF IInv, Types
<1>14. job'[r] = j
  BY <1>12, <1>13, Moved DEF IInv
<1>15. Stage(r)'
  <2>1. File(p)' = g
    BY <1>4, <1>8, PathsAreShallow, PutFile DEF Write, Holds, IInv
  <2> QED
    BY <1>9, <1>12, <1>14, <2>1 DEF Stage
<1>16. job[r].at \in Branching /\ j.at \in Branching
  BY <1>4, <1>12 DEF Branching
<1>17. j.msgs = job[r].msgs /\ job[r].path = j.path
  BY <1>1, <1>2, <1>12
<1>18. /\ p = job[r].path /\ Holds(r, p) /\ Write(r, p, g) /\ mem' = mem /\ next' = next
       /\ removed' = removed /\ acked' = acked /\ forced' = forced /\ unsure' = unsure
  BY <1>1, <1>4
<1> QED
  BY <1>18, <1>8, <1>10, <1>12, <1>13, <1>15, <1>16, <1>17, AdvanceKeeps

-----------------------------------------------------------------------------
(* The steps that end a save. *)

\* A save ends, with an update of the metadata to come or not.
LEMMA FinishedJob ==
  ASSUME IInv, NEW r \in Runtimes, NEW p \in Paths, NEW meta, Finish(r, p, meta)
  PROVE  /\ job' \in [Runtimes -> JobRecords] /\ \A s \in Runtimes : s # r => job'[s] = job[s]
         /\ job'[r].at \in {"idle", "meta"} /\ (job'[r].at = "meta" => job'[r].path = p)
         /\ job'[r].msgs \in Transcripts
<1>1. PICK j : j = IF meta THEN [Idle EXCEPT !.at = "meta", !.path = p] ELSE Idle
  OBVIOUS
<1>2. j \in JobRecords /\ j.at \in {"idle", "meta"} /\ (j.at = "meta" => j.path = p) /\ j.msgs \in Transcripts
  BY <1>1, IdleJob DEF Idle, JobRecords, Steps, Between, Optional, Paths
<1>3. job' = [job EXCEPT ![r] = j]
  BY <1>1 DEF Finish
<1>4. job' \in [Runtimes -> JobRecords] /\ job'[r] = j /\ \A s \in Runtimes : s # r => job'[s] = job[s]
  BY <1>2, <1>3, Moved DEF IInv
<1> QED
  BY <1>2, <1>4

\* A save of transcript t to path p returns, and leaves file f and session m.
Returns(r, p, f, t, meta, m) ==
    /\ p \in Paths /\ Depth(p) <= MaxDepth /\ f \in FileRecords /\ t \in Transcripts /\ m \in Sessions
    /\ Acknowledge(r, p, f, t) /\ Raw(f) = t /\ f.log = File(p).log /\ f.checkpoint = File(p).checkpoint
    /\ Holds(r, p) \/ Free(p)
    /\ Finish(r, p, meta) /\ next' = next /\ mem' = [mem EXCEPT ![r] = m]
    /\ m.path = p /\ m.msgs = mem[r].msgs /\ m.ver = mem[r].ver /\ m.open
    /\ m.savedRw <= m.rw /\ m.base.ver <= m.ver
    /\ m.base.path = p /\ m.base.digest = t /\ m.base.rev = f.rev
    /\ m.base.ver = m.ver => t = m.msgs
    /\ Messages(t) \subseteq Messages(m.msgs) \cup removed

\* It ends a save under its lock, and the revision of the ledger does not go back.
Ends(r, f) == Holds(r, job[r].path) /\ f.rev >= File(job[r].path).rev

\* What it has stored is what the runtime builds on from there.
LEMMA AcknowledgeKeeps ==
  ASSUME IInv, NEW r \in Runtimes, NEW p, NEW f, NEW t, NEW meta, NEW m, Returns(r, p, f, t, meta, m)
  PROVE  IInv'
<1>0. /\ p \in Paths /\ Depth(p) <= MaxDepth /\ f \in FileRecords /\ t \in Transcripts /\ m \in Sessions
      /\ Acknowledge(r, p, f, t) /\ Raw(f) = t /\ f.log = File(p).log /\ f.checkpoint = File(p).checkpoint
      /\ Holds(r, p) \/ Free(p)
      /\ Finish(r, p, meta) /\ next' = next /\ mem' = [mem EXCEPT ![r] = m]
      /\ m.path = p /\ m.msgs = mem[r].msgs /\ m.ver = mem[r].ver /\ m.open
      /\ m.savedRw <= m.rw /\ m.base.ver <= m.ver
      /\ m.base.path = p /\ m.base.digest = t /\ m.base.rev = f.rev
      /\ m.base.ver = m.ver => t = m.msgs
      /\ Messages(t) \subseteq Messages(m.msgs) \cup removed
  BY DEF Returns
<1>1. /\ disk' = Put(p, f) /\ acked' = acked \cup Messages(t) /\ removed' = removed /\ forced' = forced
      /\ foreign' = [Touched(r, p, f) EXCEPT ![r] = FALSE] /\ unsure' = [unsure EXCEPT ![r] = FALSE]
  BY <1>0 DEF Acknowledge
<1>2. mem' \in [Runtimes -> Sessions] /\ mem'[r] = m /\ \A s \in Runtimes : s # r => mem'[s] = mem[s]
  BY <1>0, Changed DEF IInv
<1>3. /\ job' \in [Runtimes -> JobRecords] /\ \A s \in Runtimes : s # r => job'[s] = job[s]
      /\ job'[r].at \in {"idle", "meta"} /\ (job'[r].at = "meta" => job'[r].path = p)
      /\ job'[r].msgs \in Transcripts
  BY <1>0, FinishedJob
<1>4. /\ foreign' \in [Runtimes -> BOOLEAN] /\ foreign'[r] = FALSE
      /\ \A s \in Runtimes : s # r => foreign'[s] = Touched(r, p, f)[s]
  BY <1>0, <1>1 DEF IInv, Types, Touched
<1>5. unsure' \in [Runtimes -> BOOLEAN] /\ unsure'[r] = FALSE /\ \A s \in Runtimes : s # r => unsure'[s] = unsure[s]
  BY <1>0, <1>1 DEF IInv, Types
<1>6. TypedNext /\ Others(r)
  BY <1>0, <1>2, <1>3, <1>4, <1>5 DEF IInv, Types, TypedNext, Others
<1>7. Locks(r)
  BY <1>0, <1>3 DEF Locks, Holds
<1>8. p \in DOMAIN disk' /\ File(p)' = f
  BY <1>0, <1>1, PutFile DEF IInv
<1>9. t # Nothing /\ Exists(f)
  BY <1>0, NothingIsApart DEF Exists
<1>10. Raw(f) = Raw(File(p))
  BY <1>0 DEF Raw
<1>11. Placed(r)'
  BY <1>0, <1>2, <1>3, <1>8 DEF Placed, Branching
<1>12. Stage(r)'
  BY <1>0, <1>3 DEF Stage
<1>13. Known(r)'
  BY <1>0, <1>1, <1>2, <1>3 DEF Known, Writing, Branching
<1>14. Current(r)'
  BY <1>0, <1>2, <1>3, <1>4, <1>5, <1>8, <1>9 DEF Current, Branching, Between
<1>15. Orderly(r)'
  BY <1>0, <1>11, <1>12, <1>13, <1>14 DEF Orderly
<1>16. Messages(t) \subseteq Messages(Raw(f))
  BY <1>0
<1> QED
  BY <1>0, <1>1, <1>4, <1>6, <1>7, <1>9, <1>10, <1>15, <1>16, WriteStep

\* What a save leaves in memory.
Marked(r, p, j, rev) ==
    [mem[r] EXCEPT !.base = [path |-> p, digest |-> j.msgs, ver |-> j.ver, rev |-> rev, verified |-> TRUE],
                   !.savedRw = IF j.rw > @ THEN j.rw ELSE @]

Updated(r, m) == [mem EXCEPT ![r] = m]

\* A save of j to path p at revision rev leaves session m,
Marks(r, p, j, rev, m) ==
    /\ p \in Paths /\ rev \in Nat /\ j \in JobRecords /\ j.msgs \in Transcripts
    /\ j.ver <= mem[r].ver /\ j.rw <= mem[r].rw
    /\ m = Marked(r, p, j, rev)

\* which builds on what it has stored.
Persists(r, p, j, rev, m) ==
    /\ m \in Sessions /\ m.path = mem[r].path /\ m.msgs = mem[r].msgs /\ m.ver = mem[r].ver /\ m.open = mem[r].open
    /\ m.rw = mem[r].rw /\ m.savedRw <= m.rw /\ m.base.ver <= m.ver
    /\ m.base.path = p /\ m.base.digest = j.msgs /\ m.base.rev = rev /\ m.base.ver = j.ver
    /\ Updated(r, m) = MarkPersisted(r, p, j, rev)

\* The session after a save is of its types.
LEMMA Persisted ==
  ASSUME IInv, NEW r \in Runtimes, NEW p, NEW rev, NEW j, NEW m, Marks(r, p, j, rev, m)
  PROVE  Persists(r, p, j, rev, m)
<1>0. /\ p \in Paths /\ rev \in Nat /\ j \in JobRecords /\ j.msgs \in Transcripts
      /\ j.ver <= mem[r].ver /\ j.rw <= mem[r].rw
      /\ m = Marked(r, p, j, rev)
  BY DEF Marks
<1>1. mem[r] \in Sessions /\ mem[r].savedRw \in Nat /\ mem[r].rw \in Nat /\ mem[r].savedRw <= mem[r].rw
  BY DEF IInv, Orderly, Placed, Types, Sessions
<1>2. j.ver \in Nat /\ j.rw \in Nat
  BY <1>0 DEF JobRecords
<1>3. PICK n : n = IF j.rw > mem[r].savedRw THEN j.rw ELSE mem[r].savedRw
  OBVIOUS
<1>4. n \in Nat /\ n <= mem[r].rw
  BY <1>0, <1>1, <1>2, <1>3
<1>5. PICK b : b = [path |-> p, digest |-> j.msgs, ver |-> j.ver, rev |-> rev, verified |-> TRUE]
  OBVIOUS
<1>6. b \in Bases /\ b.path = p /\ b.digest = j.msgs /\ b.rev = rev /\ b.ver = j.ver
  BY <1>0, <1>2, <1>5 DEF Bases
<1>7. m = [mem[r] EXCEPT !.base = b, !.savedRw = n]
  BY <1>0, <1>1, <1>3, <1>5 DEF Marked, Sessions
<1>8. m \in Sessions
  BY <1>1, <1>4, <1>6, <1>7 DEF Sessions
<1>9. /\ m.path = mem[r].path /\ m.msgs = mem[r].msgs /\ m.ver = mem[r].ver /\ m.open = mem[r].open
      /\ m.rw = mem[r].rw /\ m.savedRw = n /\ m.base = b
  BY <1>1, <1>7 DEF Sessions
<1>10. Updated(r, m) = MarkPersisted(r, p, j, rev)
  BY <1>1, <1>3, <1>5, <1>7 DEF MarkPersisted, Updated, IInv, Types, Sessions
<1> QED
  BY <1>0, <1>4, <1>6, <1>8, <1>9, <1>10 DEF Persists

\* The record in the ledger ends a save,
LEMMA RecordReturns ==
  ASSUME IInv, NEW r \in Runtimes, Record(r)
  PROVE  \E f, meta, m : Returns(r, job[r].path, f, job[r].msgs, meta, m) /\ Ends(r, f)
<1>1. PICK p : p = job[r].path
  OBVIOUS
<1>2. PICK j : j = job[r]
  OBVIOUS
<1>3. PICK f : f = Recorded(File(p), j.msgs, j.rev)
  OBVIOUS
<1>4. /\ j.at = "record" /\ Holds(r, p) /\ Acknowledge(r, p, f, j.msgs) /\ mem' = MarkPersisted(r, p, j, f.rev)
      /\ Finish(r, p, j.meta) /\ next' = next
  BY <1>1, <1>2, <1>3 DEF Record, Holds, bounds
<1>5. Stage(r) /\ Placed(r) /\ Known(r)
  BY DEF IInv, Orderly
<1>6. File(p) \in FileRecords /\ j \in JobRecords /\ j.msgs \in Transcripts /\ j.msgs \in Optional /\ j.rev \in Nat
      /\ p = mem[r].path /\ mem[r].open
  BY <1>1, <1>2, <1>4, <1>5, FileIsRecord DEF IInv, Types, Placed, Optional, JobRecords, Branching
<1>7. p \in Paths /\ Depth(p) <= MaxDepth
  BY <1>1, <1>2, <1>4, PathsAreShallow
<1>8. Raw(File(p)) = j.msgs
  BY <1>1, <1>2, <1>4, <1>5 DEF Stage
<1>9. PICK n : n = (IF File(p).rev < j.rev THEN j.rev ELSE File(p).rev) + 1
  OBVIOUS
<1>10. n \in Nat /\ f = [File(p) EXCEPT !.rev = n, !.digest = j.msgs]
  BY <1>3, <1>6, <1>9 DEF Recorded, FileRecords
<1>11. f \in FileRecords /\ f.log = File(p).log /\ f.checkpoint = File(p).checkpoint /\ f.rev \in Nat
  BY <1>6, <1>10 DEF FileRecords
<1>12. Raw(f) = j.msgs
  BY <1>8, <1>11 DEF Raw
<1>13. /\ j.ver <= mem[r].ver /\ j.rw <= mem[r].rw /\ Messages(j.msgs) \subseteq Messages(mem[r].msgs) \cup removed
       /\ j.ver = mem[r].ver => j.msgs = mem[r].msgs
  BY <1>2, <1>4, <1>5 DEF Known, Writing
<1>14. PICK m : m = Marked(r, p, j, f.rev)
  OBVIOUS
<1>15. /\ m \in Sessions /\ m.path = mem[r].path /\ m.msgs = mem[r].msgs /\ m.ver = mem[r].ver /\ m.open = mem[r].open
       /\ m.rw = mem[r].rw /\ m.savedRw <= m.rw /\ m.base.ver <= m.ver
       /\ m.base.path = p /\ m.base.digest = j.msgs /\ m.base.rev = f.rev /\ m.base.ver = j.ver
       /\ Updated(r, m) = MarkPersisted(r, p, j, f.rev)
  <2>1. PICK rev : rev = f.rev
    OBVIOUS
  <2>2. Marks(r, p, j, rev, m)
    BY <1>6, <1>7, <1>11, <1>13, <1>14, <2>1 DEF Marks
  <2>3. Persists(r, p, j, rev, m)
    BY <2>2, Persisted
  <2> QED
    BY <2>1, <2>3 DEF Persists
<1>16. mem' = [mem EXCEPT ![r] = m]
  BY <1>4, <1>15 DEF Updated
<1>17. PICK t : t = j.msgs
  OBVIOUS
<1>18. PICK meta : meta = j.meta
  OBVIOUS
<1>19. t \in Transcripts /\ Acknowledge(r, p, f, t) /\ Raw(f) = t /\ Finish(r, p, meta) /\ (Holds(r, p) \/ Free(p))
  BY <1>4, <1>6, <1>12, <1>17, <1>18
<1>20. /\ m.path = p /\ m.open /\ m.msgs = mem[r].msgs /\ m.ver = mem[r].ver /\ m.savedRw <= m.rw /\ m.base.ver <= m.ver
       /\ m.base.path = p /\ m.base.digest = t /\ m.base.rev = f.rev
       /\ m.base.ver = m.ver => t = m.msgs
       /\ Messages(t) \subseteq Messages(m.msgs) \cup removed
  BY <1>6, <1>13, <1>15, <1>17
<1>21. Returns(r, p, f, t, meta, m)
  BY <1>4, <1>7, <1>11, <1>15, <1>16, <1>19, <1>20 DEF Returns
<1>22. Ends(r, f)
  <2>1. f.rev >= File(p).rev
    BY <1>6, <1>9, <1>10 DEF FileRecords
  <2> QED
    BY <1>1, <1>4, <2>1 DEF Ends
<1> QED
  BY <1>1, <1>2, <1>17, <1>21, <1>22

LEMMA RecordKeeps ==
  ASSUME IInv, NEW r \in Runtimes, Record(r)
  PROVE  IInv'
BY RecordReturns, AcknowledgeKeeps

\* that in the ledger of the branch ends a fork,
LEMMA WriteBranchMetaReturns ==
  ASSUME IInv, ForksApart, NEW r \in Runtimes, WriteBranchMeta(r)
  PROVE  \E f, meta, m : Returns(r, job[r].path, f, job[r].msgs, meta, m) /\ Ends(r, f)
<1>1. PICK p : p = job[r].path
  OBVIOUS
<1>2. PICK j : j = job[r]
  OBVIOUS
<1>3. PICK f : f = BranchLedger(File(p), j.msgs)
  OBVIOUS
<1>4. /\ j.at = "branchMeta" /\ Holds(r, p) /\ Acknowledge(r, p, f, j.msgs)
      /\ mem' = [MarkPersisted(r, p, j, f.rev) EXCEPT ![r].path = p]
      /\ Finish(r, p, j.meta) /\ next' = next
  BY <1>1, <1>2, <1>3 DEF WriteBranchMeta, Holds, bounds
<1>5. Stage(r) /\ Placed(r) /\ Known(r)
  BY DEF IInv, Orderly
<1>6. File(p) \in FileRecords /\ j \in JobRecords /\ j.msgs \in Transcripts /\ j.msgs \in Optional /\ mem[r].open
  BY <1>1, <1>2, <1>4, <1>5, FileIsRecord DEF IInv, Types, Placed, Optional
<1>7. p \in Paths /\ Depth(p) <= MaxDepth
  BY <1>1, <1>2, <1>4, PathsAreShallow
<1>8. Raw(File(p)) = j.msgs
  <2>1. Exists(File(p))
    BY <1>1, <1>2, <1>4, <1>5 DEF Stage
  <2> QED
    BY <1>1, <1>2, <1>4, <2>1 DEF ForksApart, Exists
<1>9. f = File(p) \/ f = [File(p) EXCEPT !.rev = 1, !.digest = j.msgs]
  BY <1>3 DEF BranchLedger
<1>10. f \in FileRecords /\ f.log = File(p).log /\ f.checkpoint = File(p).checkpoint /\ f.rev \in Nat
  <2>1. PICK g : g = File(p)
    OBVIOUS
  <2>2. PICK t : t = j.msgs
    OBVIOUS
  <2>3. g \in FileRecords /\ g.rev \in Nat /\ t \in Optional
    BY <1>6, <2>1, <2>2 DEF FileRecords
  <2>4. CASE f = g
    BY <2>1, <2>3, <2>4
  <2>5. CASE f = [g EXCEPT !.rev = 1, !.digest = t]
    BY <2>1, <2>3, <2>5 DEF FileRecords
  <2> QED
    BY <1>9, <2>1, <2>2, <2>4, <2>5
<1>11. Raw(f) = j.msgs
  BY <1>8, <1>10 DEF Raw
<1>12. /\ j.ver <= mem[r].ver /\ j.rw <= mem[r].rw /\ Messages(j.msgs) \subseteq Messages(mem[r].msgs) \cup removed
       /\ j.ver = mem[r].ver => j.msgs = mem[r].msgs
  BY <1>2, <1>4, <1>5 DEF Known, Branching
<1>13. PICK k : k = Marked(r, p, j, f.rev)
  OBVIOUS
<1>14. /\ k \in Sessions /\ k.msgs = mem[r].msgs /\ k.ver = mem[r].ver /\ k.open = mem[r].open
       /\ k.rw = mem[r].rw /\ k.savedRw <= k.rw /\ k.base.ver <= k.ver
       /\ k.base.path = p /\ k.base.digest = j.msgs /\ k.base.rev = f.rev /\ k.base.ver = j.ver
       /\ Updated(r, k) = MarkPersisted(r, p, j, f.rev)
  <2>1. PICK rev : rev = f.rev
    OBVIOUS
  <2>2. Marks(r, p, j, rev, k)
    BY <1>6, <1>7, <1>10, <1>12, <1>13, <2>1 DEF Marks
  <2>3. Persists(r, p, j, rev, k)
    BY <2>2, Persisted
  <2> QED
    BY <2>1, <2>3 DEF Persists
<1>15. PICK m : m = [k EXCEPT !.path = p]
  OBVIOUS
<1>16. m \in Sessions /\ m.path = p /\ m.msgs = k.msgs /\ m.ver = k.ver /\ m.open = k.open /\ m.rw = k.rw
       /\ m.savedRw = k.savedRw /\ m.base = k.base
  BY <1>7, <1>14, <1>15 DEF Sessions
<1>17. mem' = [mem EXCEPT ![r] = m]
  <2>1. mem' = [[mem EXCEPT ![r] = k] EXCEPT ![r].path = p]
    BY <1>4, <1>14 DEF Updated
  <2> QED
    BY <1>15, <2>1 DEF IInv, Types
<1>18. PICK t : t = j.msgs
  OBVIOUS
<1>19. PICK meta : meta = j.meta
  OBVIOUS
<1>20. t \in Transcripts /\ Acknowledge(r, p, f, t) /\ Raw(f) = t /\ Finish(r, p, meta) /\ (Holds(r, p) \/ Free(p))
  BY <1>4, <1>6, <1>11, <1>18, <1>19
<1>21. /\ m.path = p /\ m.open /\ m.msgs = mem[r].msgs /\ m.ver = mem[r].ver /\ m.savedRw <= m.rw /\ m.base.ver <= m.ver
       /\ m.base.path = p /\ m.base.digest = t /\ m.base.rev = f.rev
       /\ m.base.ver = m.ver => t = m.msgs
       /\ Messages(t) \subseteq Messages(m.msgs) \cup removed
  BY <1>6, <1>12, <1>14, <1>16, <1>18
<1>22. Returns(r, p, f, t, meta, m)
  BY <1>4, <1>7, <1>10, <1>16, <1>17, <1>20, <1>21 DEF Returns
<1>23. Ends(r, f)
  <2>1. f.rev >= File(p).rev
    BY <1>3, <1>6 DEF BranchLedger, FileRecords
  <2> QED
    BY <1>1, <1>4, <2>1 DEF Ends
<1> QED
  BY <1>1, <1>2, <1>18, <1>22, <1>23

LEMMA WriteBranchMetaKeeps ==
  ASSUME IInv, ForksApart, NEW r \in Runtimes, WriteBranchMeta(r)
  PROVE  IInv'
BY WriteBranchMetaReturns, AcknowledgeKeeps

\* and the metadata written ends it all.
LEMMA WriteMetaKeeps ==
  ASSUME IInv, NEW r \in Runtimes, WriteMeta(r)
  PROVE  IInv'
<1>1. PICK p : p = job[r].path
  OBVIOUS
<1>2. PICK f : f = [File(p) EXCEPT !.rev = job[r].rev, !.digest = job[r].msgs]
  OBVIOUS
<1>3. /\ job[r].at = "metaWrite" /\ mem' = mem /\ next' = next /\ removed' = removed /\ acked' = acked
      /\ forced' = forced /\ unsure' = unsure /\ disk' = Put(p, f) /\ foreign' = Touched(r, p, f)
      /\ job' = [job EXCEPT ![r] = Idle]
  BY <1>1, <1>2 DEF WriteMeta, Write, Done, bounds
<1>4. Placed(r) /\ Known(r) /\ Current(r)
  BY DEF IInv, Orderly
<1>5. p \in Paths /\ Depth(p) <= MaxDepth /\ p = mem[r].path
  BY <1>1, <1>3, <1>4, PathsAreShallow DEF Placed, Branching
<1>6. File(p) \in FileRecords /\ job[r].rev \in Nat /\ job[r].msgs \in Optional
  BY FileIsRecord DEF IInv, Types, JobRecords
<1>7. f \in FileRecords /\ f.log = File(p).log /\ f.checkpoint = File(p).checkpoint /\ f.torn = File(p).torn
      /\ f.rev = job[r].rev
  BY <1>2, <1>6 DEF FileRecords
<1>8. Raw(f) = Raw(File(p)) /\ Exists(f) = Exists(File(p)) /\ Loaded(f) = Loaded(File(p))
  BY <1>7 DEF Raw, Exists, Loaded
<1>9. job' \in [Runtimes -> JobRecords] /\ job'[r] = Idle /\ \A s \in Runtimes : s # r => job'[s] = job[s]
  BY <1>3, IdleJob, Moved DEF IInv
<1>10. foreign' \in [Runtimes -> BOOLEAN] /\ foreign'[r] = foreign[r]
  BY <1>3 DEF IInv, Types, Touched
<1>11. TypedNext /\ Others(r)
  BY <1>3, <1>9, <1>10 DEF IInv, Types, TypedNext, Others
<1>12. Locks(r)
  BY <1>9, IdleJob DEF Locks, Holds
<1>13. p \in DOMAIN disk' /\ File(p)' = f
  BY <1>3, <1>5, <1>7, PutFile DEF IInv
<1>14. Placed(r)'
  BY <1>3, <1>4, <1>5, <1>9, <1>13, IdleJob DEF Placed, Branching
<1>15. Stage(r)'
  BY <1>9, IdleJob DEF Stage
<1>16. Known(r)'
  BY <1>3, <1>4, <1>9, IdleJob DEF Known, Writing, Branching
<1>17. Current(r)'
  <2>1. foreign[r] \/ job[r].rev = File(p).rev
    BY <1>1, <1>3, <1>4 DEF Current
  <2>2. mem[r].open /\ ~foreign[r] /\ ~unsure[r] =>
          /\ mem[r].base.path = p /\ mem[r].base.rev = File(p).rev /\ Exists(File(p))
          /\ mem[r].base.digest \in {Raw(File(p)), Loaded(File(p))}
    BY <1>3, <1>4, <1>5 DEF Current, Between
  <2> QED
    BY <1>3, <1>5, <1>7, <1>8, <1>9, <1>10, <1>13, <2>1, <2>2, IdleJob DEF Current, Branching, Between
<1>18. Orderly(r)'
  BY <1>14, <1>15, <1>16, <1>17 DEF Orderly
<1> QED
  BY <1>3, <1>5, <1>7, <1>8, <1>11, <1>12, <1>18, WriteStep

-----------------------------------------------------------------------------
(* The check of a save, which repairs the tail of the log. *)

\* The transcript of a log whose torn tail is cut is the one it had.
LEMMA Repaired ==
  ASSUME NEW g \in FileRecords, NEW f, f = TailRepaired(g)
  PROVE  /\ f \in FileRecords /\ f.log = g.log /\ f.checkpoint = g.checkpoint /\ f.rev = g.rev
         /\ f.digest = g.digest /\ ~f.torn
         /\ Raw(f) = Raw(g) /\ Exists(f) = Exists(g) /\ Loaded(f) = Loaded(g)
<1>1. f = [g EXCEPT !.torn = FALSE]
  BY DEF TailRepaired
<1>2. f \in FileRecords /\ f.log = g.log /\ f.checkpoint = g.checkpoint /\ f.rev = g.rev
      /\ f.digest = g.digest /\ ~f.torn
  BY <1>1 DEF FileRecords
<1>3. Raw(f) = Raw(g)
  BY <1>2 DEF Raw
<1> QED
  BY <1>2, <1>3 DEF Exists, Loaded

\* A step of a save under the lock that it takes or has, over the same transcript.
LEMMA EnterKeeps ==
  ASSUME IInv, NEW r \in Runtimes, job[r].at \in {"idle", "save", "force"}, NEW p, p = mem[r].path, Free(p),
         NEW f, f = TailRepaired(File(p)), Write(r, p, f), mem' = mem, next' = next,
         removed' = removed, acked' = acked, unsure' = unsure, forced \subseteq forced',
         NEW j \in JobRecords, job' = [job EXCEPT ![r] = j], j.path = p, j.msgs \in Transcripts,
         j.at \in {"conflict", "log", "record"}, mem[r].open,
         j.at = "conflict" => foreign'[r] \/ unsure'[r],
         j.at # "conflict" => j.ver = mem[r].ver /\ j.rw = mem[r].rw /\ j.msgs = mem[r].msgs,
         Stage(r)'
  PROVE  IInv'
<1>1. disk' = Put(p, f) /\ foreign' = Touched(r, p, f)
  BY DEF Write
<1>2. Placed(r) /\ Known(r)
  BY DEF IInv, Orderly
<1>3. p \in DOMAIN disk /\ p \in Paths /\ Depth(p) <= MaxDepth
  BY <1>2 DEF IInv, Types, Placed, Shallow
<1>4. f \in FileRecords /\ Raw(f) = Raw(File(p)) /\ Exists(f) = Exists(File(p))
  BY FileIsRecord, Repaired DEF IInv
<1>5. job' \in [Runtimes -> JobRecords] /\ job'[r] = j /\ \A s \in Runtimes : s # r => job'[s] = job[s]
  BY Moved DEF IInv
<1>6. foreign' \in [Runtimes -> BOOLEAN]
  BY <1>1 DEF IInv, Types, Touched
<1>7. TypedNext /\ Others(r)
  BY <1>5, <1>6 DEF IInv, Types, TypedNext, Others
<1>8. Locks(r)
  BY <1>5 DEF Locks, Holds
<1>9. Placed(r)'
  <2>1. p \in DOMAIN disk'
    BY <1>1, <1>3, <1>4, PutFile DEF IInv
  <2> QED
    BY <1>2, <1>5, <2>1 DEF Placed, Branching
<1>10. Known(r)'
  <2>1. mem[r].ver \in Nat /\ mem[r].rw \in Nat
    BY DEF IInv, Types, Sessions
  <2> QED
    BY <1>2, <1>5, <2>1 DEF Known, Writing, Branching
<1>11. Current(r)'
  BY <1>5 DEF Current, Branching, Between
<1>12. Orderly(r)'
  BY <1>9, <1>10, <1>11 DEF Orderly
<1> QED
  BY <1>1, <1>3, <1>4, <1>7, <1>8, <1>12, WriteStep

\* What a check reads,
Reads(r, j, p, t, f, base, d, k) ==
    /\ p = mem[r].path /\ t = mem[r].msgs /\ f = TailRepaired(File(p)) /\ base = Base(r, p)
    /\ d = Decision(base, f, t, j.mode = "rewrite")
    /\ k = [j EXCEPT !.path = p, !.msgs = t, !.ver = mem[r].ver, !.rw = mem[r].rw, !.rev = f.rev]

\* of what kinds that is,
Found(r, j, p, t, f, base, d, k) ==
    /\ mem[r] \in Sessions /\ mem[r].base \in Bases /\ p \in Paths /\ t \in Transcripts /\ t \in Optional
    /\ mem[r].ver \in Nat /\ mem[r].rw \in Nat /\ p \in DOMAIN disk /\ Depth(p) <= MaxDepth /\ p # Nothing
    /\ f \in FileRecords /\ f.log = File(p).log /\ f.checkpoint = File(p).checkpoint /\ f.rev = File(p).rev
    /\ ~f.torn /\ Raw(f) = Raw(File(p)) /\ Exists(f) = Exists(File(p)) /\ Loaded(f) = Loaded(File(p))
    /\ f.rev \in Nat /\ f.digest = File(p).digest
    /\ base \in Bases /\ (base.path # Nothing => base = mem[r].base)
    /\ (mem[r].base.path = p => base = mem[r].base)
    /\ k \in JobRecords /\ k.at = j.at /\ k.path = p /\ k.msgs = t /\ k.ver = mem[r].ver /\ k.rw = mem[r].rw
    /\ k.rev = f.rev

\* and how it ends.
Ending(r, j, p, t, f, d, k) ==
    \/ /\ UpToDate(r, p) /\ acked' = acked \cup Messages(t) /\ Done(r)
       /\ UNCHANGED <<disk, mem, removed, forced, cut, gone, foreign, slipped, unsure>>
    \/ /\ d = "same" /\ Acknowledge(r, p, f, t) /\ mem' = MarkPersisted(r, p, k, f.rev) /\ Finish(r, p, j.meta)
    \/ /\ d \in {"stale", "diverged"} /\ Write(r, p, f)
       /\ job' = [job EXCEPT ![r] = [j EXCEPT !.at = "conflict", !.path = p, !.shape = d]]
       /\ UNCHANGED <<mem, acked, removed, forced, gone, slipped, unsure>>
    \/ /\ d \in {"full", "append", "heal"} /\ Write(r, p, f)
       /\ job' = [job EXCEPT ![r] =
                    IF d = "heal" THEN [k EXCEPT !.at = "record"]
                    ELSE [k EXCEPT !.at = "log", !.shape = d, !.from = IF d = "append" THEN Len(View(f, t)) ELSE 0]]
       /\ UNCHANGED <<mem, acked, removed, forced, gone, slipped, unsure>>

LEMMA Checks ==
  ASSUME IInv, NEW r \in Runtimes, NEW j \in JobRecords, Check(r, j),
         NEW p, NEW t, NEW f, NEW base, NEW d, NEW k, Reads(r, j, p, t, f, base, d, k)
  PROVE  Found(r, j, p, t, f, base, d, k) /\ Ending(r, j, p, t, f, d, k) /\ Free(p) /\ next' = next
<1>1. /\ p = mem[r].path /\ t = mem[r].msgs /\ f = TailRepaired(File(p)) /\ base = Base(r, p)
      /\ d = Decision(base, f, t, j.mode = "rewrite")
      /\ k = [j EXCEPT !.path = p, !.msgs = t, !.ver = mem[r].ver, !.rw = mem[r].rw, !.rev = f.rev]
  BY DEF Reads
<1>2. /\ mem[r] \in Sessions /\ mem[r].base \in Bases /\ p \in Paths /\ t \in Transcripts /\ t \in Optional
      /\ mem[r].ver \in Nat /\ mem[r].rw \in Nat /\ p \in DOMAIN disk /\ Depth(p) <= MaxDepth
      /\ p # Nothing
  BY <1>1, NothingIsApart DEF IInv, Types, Sessions, Orderly, Placed, Optional, Shallow
<1>3. /\ f \in FileRecords /\ f.log = File(p).log /\ f.checkpoint = File(p).checkpoint /\ f.rev = File(p).rev
      /\ ~f.torn /\ Raw(f) = Raw(File(p)) /\ Exists(f) = Exists(File(p)) /\ Loaded(f) = Loaded(File(p))
      /\ f.rev \in Nat /\ f.digest = File(p).digest
  <2>1. File(p) \in FileRecords
    BY FileIsRecord DEF IInv
  <2>2. /\ f \in FileRecords /\ f.log = File(p).log /\ f.checkpoint = File(p).checkpoint /\ f.rev = File(p).rev
        /\ ~f.torn /\ Raw(f) = Raw(File(p)) /\ Exists(f) = Exists(File(p)) /\ Loaded(f) = Loaded(File(p))
        /\ f.digest = File(p).digest
    BY <1>1, <2>1, Repaired
  <2> QED
    BY <2>2 DEF FileRecords
<1>4. base \in Bases /\ (base.path # Nothing => base = mem[r].base)
      /\ (mem[r].base.path = p => base = mem[r].base)
  <2>1. NoBase \in Bases /\ NoBase.path = Nothing
    BY DEF NoBase, Bases, Transcripts
  <2> QED
    BY <1>1, <1>2, <2>1 DEF Base
<1>5. /\ k \in JobRecords /\ k.at = j.at /\ k.path = p /\ k.msgs = t /\ k.ver = mem[r].ver /\ k.rw = mem[r].rw
      /\ k.rev = f.rev
  <2>1. PICK v : v = mem[r].ver
    OBVIOUS
  <2>2. PICK w : w = mem[r].rw
    OBVIOUS
  <2>3. PICK n : n = f.rev
    OBVIOUS
  <2>4. k = [j EXCEPT !.path = p, !.msgs = t, !.ver = v, !.rw = w, !.rev = n] /\ v \in Nat /\ w \in Nat /\ n \in Nat
    BY <1>1, <1>2, <1>3, <2>1, <2>2, <2>3
  <2>5. k \in JobRecords
    BY <1>2, <2>4 DEF JobRecords
  <2>6. k.at = j.at /\ k.path = p /\ k.msgs = t /\ k.ver = v /\ k.rw = w /\ k.rev = n
    BY <2>4 DEF JobRecords
  <2> QED
    BY <2>1, <2>2, <2>3, <2>5, <2>6
<1>6. d \in {"full", "same", "heal", "append", "stale", "diverged"}
  <2>1. PICK w : w = (j.mode = "rewrite")
    OBVIOUS
  <2>2. w \in BOOLEAN /\ d = Decision(base, f, t, w)
    BY <1>1, <2>1
  <2> QED
    BY <1>2, <1>3, <1>4, <2>2, Decides
<1>7. Free(p) /\ next' = next
  BY <1>1 DEF Check, bounds
<1>8. Ending(r, j, p, t, f, d, k)
  BY <1>1, <1>5, <1>6 DEF Check, Ending
<1>9. Found(r, j, p, t, f, base, d, k)
  BY <1>2, <1>3, <1>4, <1>5 DEF Found
<1> QED
  BY <1>7, <1>8, <1>9

\* A check that finds the transcript stored, by an earlier save or by another runtime, ends the save.
LEMMA SameReturns ==
  ASSUME IInv, NEW r \in Runtimes, mem[r].open, NEW j \in JobRecords, Check(r, j),
         NEW p, NEW t, NEW f, NEW base, NEW d, NEW k, Reads(r, j, p, t, f, base, d, k),
         d = "same", Acknowledge(r, p, f, t), mem' = MarkPersisted(r, p, k, f.rev), Finish(r, p, j.meta)
  PROVE  \E meta, m : Returns(r, p, f, t, meta, m)
<1>1. Found(r, j, p, t, f, base, d, k) /\ Free(p) /\ next' = next
  BY Checks
<1>2. /\ p = mem[r].path /\ t = mem[r].msgs /\ d = Decision(base, f, t, j.mode = "rewrite")
      /\ p \in Paths /\ t \in Transcripts /\ mem[r].ver \in Nat /\ mem[r].rw \in Nat /\ Depth(p) <= MaxDepth
      /\ f \in FileRecords /\ f.log = File(p).log /\ f.checkpoint = File(p).checkpoint /\ f.rev \in Nat
      /\ base \in Bases /\ k \in JobRecords /\ k.msgs = t /\ k.ver = mem[r].ver /\ k.rw = mem[r].rw
  BY <1>1 DEF Reads, Found
<1>3. Raw(f) = t
  <2>1. PICK w : w = (j.mode = "rewrite")
    OBVIOUS
  <2>2. w \in BOOLEAN /\ d = Decision(base, f, t, w)
    BY <1>2, <2>1
  <2> QED
    BY <1>2, <2>2, Decides
<1>4. PICK rev : rev = f.rev
  OBVIOUS
<1>5. PICK m : m = Marked(r, p, k, rev)
  OBVIOUS
<1>6. /\ m \in Sessions /\ m.path = mem[r].path /\ m.msgs = mem[r].msgs /\ m.ver = mem[r].ver /\ m.open = mem[r].open
      /\ m.rw = mem[r].rw /\ m.savedRw <= m.rw /\ m.base.ver <= m.ver
      /\ m.base.path = p /\ m.base.digest = k.msgs /\ m.base.rev = rev /\ m.base.ver = k.ver
      /\ Updated(r, m) = MarkPersisted(r, p, k, rev)
  <2>1. rev \in Nat /\ k.msgs \in Transcripts /\ k.ver <= mem[r].ver /\ k.rw <= mem[r].rw
    BY <1>2, <1>4
  <2>2. Marks(r, p, k, rev, m)
    BY <1>2, <1>5, <2>1 DEF Marks
  <2>3. Persists(r, p, k, rev, m)
    BY <2>2, Persisted
  <2> QED
    BY <2>3 DEF Persists
<1>7. PICK meta : meta = j.meta
  OBVIOUS
<1>8. mem' = [mem EXCEPT ![r] = m]
  BY <1>4, <1>6 DEF Updated
<1>9. Finish(r, p, meta) /\ m.base.digest = t /\ m.base.rev = f.rev
      /\ m.msgs = t /\ m.path = p /\ m.open
  BY <1>2, <1>4, <1>6, <1>7
<1>10. Returns(r, p, f, t, meta, m)
  BY <1>1, <1>2, <1>3, <1>6, <1>8, <1>9 DEF Returns
<1> QED
  BY <1>10

\* A save finds its transcript stored, or a conflict, or begins to write.
LEMMA CheckKeeps ==
  ASSUME IInv, NEW r \in Runtimes, mem[r].open, job[r].at \in {"idle", "save"},
         NEW j \in JobRecords, j.msgs \in Transcripts, Check(r, j)
  PROVE  IInv'
<1>1. PICK p : p = mem[r].path
  OBVIOUS
<1>2. PICK t : t = mem[r].msgs
  OBVIOUS
<1>3. PICK f : f = TailRepaired(File(p))
  OBVIOUS
<1>4. PICK base : base = Base(r, p)
  OBVIOUS
<1>5. PICK d : d = Decision(base, f, t, j.mode = "rewrite")
  OBVIOUS
<1>6. PICK k : k = [j EXCEPT !.path = p, !.msgs = t, !.ver = mem[r].ver, !.rw = mem[r].rw, !.rev = f.rev]
  OBVIOUS
<1>7. Placed(r) /\ Known(r) /\ Current(r)
  BY DEF IInv, Orderly
<1>0. Reads(r, j, p, t, f, base, d, k)
  BY <1>1, <1>2, <1>3, <1>4, <1>5, <1>6 DEF Reads
<1>14. Found(r, j, p, t, f, base, d, k) /\ Ending(r, j, p, t, f, d, k) /\ Free(p) /\ next' = next
  BY <1>0, Checks
<1>8. /\ mem[r] \in Sessions /\ mem[r].base \in Bases /\ p \in Paths /\ t \in Transcripts /\ t \in Optional
      /\ mem[r].ver \in Nat /\ mem[r].rw \in Nat /\ p \in DOMAIN disk /\ Depth(p) <= MaxDepth
      /\ p # Nothing
  BY <1>14 DEF Found
<1>9. /\ f \in FileRecords /\ f.log = File(p).log /\ f.checkpoint = File(p).checkpoint /\ f.rev = File(p).rev
      /\ ~f.torn /\ Raw(f) = Raw(File(p)) /\ Exists(f) = Exists(File(p)) /\ Loaded(f) = Loaded(File(p))
      /\ f.rev \in Nat
  BY <1>14 DEF Found
<1>10. base \in Bases /\ (base.path # Nothing => base = mem[r].base)
       /\ (mem[r].base.path = p => base = mem[r].base)
  BY <1>14 DEF Found
<1>11. /\ d \in {"full", "same", "heal", "append", "stale", "diverged"}
       /\ d \in {"same", "heal"} => Exists(f) /\ Raw(f) = t
       /\ d = "append" => Exists(f) /\ IsPrefix(Raw(f), t) /\ View(f, t) = Raw(f) /\ ~f.torn
       /\ d = "full" /\ Exists(f) =>
            \/ IsPrefix(Loaded(f), t) \/ IsPrefix(Raw(f), t)
            \/ base.path # Nothing /\ base.digest \in {Raw(f), Loaded(f)}
       /\ d \in {"stale", "diverged"} =>
            Exists(f) /\ ~(base.path # Nothing /\ base.rev = f.rev /\ base.digest \in {Raw(f), Loaded(f)})
  <2>1. PICK w : w = (j.mode = "rewrite")
    OBVIOUS
  <2>2. w \in BOOLEAN /\ d = Decision(base, f, t, w)
    BY <1>5, <2>1
  <2> QED
    BY <1>8, <1>9, <1>10, <2>2, Decides
<1>12. /\ k \in JobRecords /\ k.at = j.at /\ k.path = p /\ k.msgs = t /\ k.ver = mem[r].ver /\ k.rw = mem[r].rw
       /\ k.rev = f.rev
  BY <1>14 DEF Found
<1>13. Free(p) /\ next' = next
  BY <1>14
\* The transcript is saved already.
<1>15. CASE /\ UpToDate(r, p) /\ acked' = acked \cup Messages(t) /\ Done(r)
            /\ UNCHANGED <<disk, mem, removed, forced, cut, gone, foreign, slipped, unsure>>
  <2>1. Messages(t) \subseteq acked
    BY <1>2, <1>7, <1>15 DEF UpToDate, Known
  <2>2. disk' = disk /\ mem' = mem /\ removed' = removed /\ forced' = forced /\ foreign' = foreign
        /\ unsure' = unsure /\ acked' = acked /\ job' = [job EXCEPT ![r] = Idle]
    BY <1>15, <2>1 DEF Done
  <2>3. job' \in [Runtimes -> JobRecords] /\ job'[r] = Idle /\ \A s \in Runtimes : s # r => job'[s] = job[s]
    BY <2>2, IdleJob, Moved DEF IInv
  <2>4. TypedNext /\ Others(r)
    BY <1>13, <2>2, <2>3 DEF IInv, Types, TypedNext, Others
  <2>5. Locks(r)
    BY <2>3, IdleJob DEF Locks, Holds
  <2>6. Placed(r)'
    BY <1>7, <2>2, <2>3, IdleJob DEF Placed, Branching
  <2>7. Stage(r)'
    BY <2>3, IdleJob DEF Stage
  <2>8. Known(r)'
    BY <1>7, <2>2, <2>3, IdleJob DEF Known, Writing, Branching
  <2>9. Current(r)'
    <3>1. File(p)' = File(p)
      BY <2>2, SameFile
    <3> QED
      BY <1>1, <1>7, <2>2, <2>3, <3>1, IdleJob DEF Current, Between, Branching
  <2>10. Orderly(r)'
    BY <2>6, <2>7, <2>8, <2>9 DEF Orderly
  <2> QED
    BY <2>2, <2>4, <2>5, <2>10, QuietStep
\* It is stored, by an earlier save or by another runtime.
<1>16. CASE d = "same" /\ Acknowledge(r, p, f, t) /\ mem' = MarkPersisted(r, p, k, f.rev) /\ Finish(r, p, j.meta)
  <2>1. PICK meta, m : Returns(r, p, f, t, meta, m)
    BY <1>0, <1>16, SameReturns
  <2> QED
    BY <2>1, AcknowledgeKeeps
\* Another transcript is stored there.
<1>17. CASE /\ d \in {"stale", "diverged"} /\ Write(r, p, f)
            /\ job' = [job EXCEPT ![r] = [j EXCEPT !.at = "conflict", !.path = p, !.shape = d]]
            /\ UNCHANGED <<mem, acked, removed, forced, gone, slipped, unsure>>
  <2>1. PICK c : c = [j EXCEPT !.at = "conflict", !.path = p, !.shape = d]
    OBVIOUS
  <2>2. c \in JobRecords /\ c.at = "conflict" /\ c.path = p /\ c.msgs = j.msgs
    BY <1>8, <1>17, <2>1 DEF JobRecords, Steps
  <2>3. job' = [job EXCEPT ![r] = c] /\ mem' = mem /\ acked' = acked /\ removed' = removed /\ forced' = forced
        /\ unsure' = unsure /\ Write(r, p, f) /\ foreign' = Touched(r, p, f)
    BY <1>17, <2>1 DEF Write
  <2>4. foreign[r] \/ unsure[r]
    <3>1. ~(base.path # Nothing /\ base.rev = f.rev /\ base.digest \in {Raw(f), Loaded(f)})
      BY <1>11, <1>17
    <3>2. SUFFICES ASSUME ~foreign[r], ~unsure[r] PROVE FALSE
      OBVIOUS
    <3>3. /\ mem[r].base.path = p /\ mem[r].base.rev = File(p).rev
          /\ mem[r].base.digest \in {Raw(File(p)), Loaded(File(p))}
      BY <1>1, <1>7, <3>2 DEF Current, Between
    <3> QED
      BY <1>8, <1>9, <1>10, <3>1, <3>3
  <2>5. foreign'[r] \/ unsure'[r]
    BY <2>3, <2>4 DEF Touched
  <2>6. job'[r] = c
    BY <2>2, <2>3, Moved DEF IInv
  <2>7. Stage(r)'
    BY <2>2, <2>6 DEF Stage
  <2>8. c.msgs \in Transcripts /\ forced \subseteq forced'
    BY <2>2, <2>3
  <2> QED
    BY <1>1, <1>3, <1>13, <2>2, <2>3, <2>5, <2>7, <2>8, EnterKeeps
\* The transcript is to be written.
<1>18. CASE /\ d \in {"full", "append", "heal"} /\ Write(r, p, f)
            /\ job' = [job EXCEPT ![r] =
                         IF d = "heal" THEN [k EXCEPT !.at = "record"]
                         ELSE [k EXCEPT !.at = "log", !.shape = d, !.from = IF d = "append" THEN Len(View(f, t)) ELSE 0]]
            /\ UNCHANGED <<mem, acked, removed, forced, gone, slipped, unsure>>
  <2>1. PICK n : n = IF d = "append" THEN Len(View(f, t)) ELSE 0
    OBVIOUS
  <2>2. PICK c : c = IF d = "heal" THEN [k EXCEPT !.at = "record"] ELSE [k EXCEPT !.at = "log", !.shape = d, !.from = n]
    OBVIOUS
  <2>3. Exists(f) => /\ Raw(f) \in Transcripts /\ Loaded(f) \in Transcripts
                     /\ Messages(Raw(f)) \subseteq Messages(Loaded(f))
    BY <1>9, LoadsAll
  <2>4. n \in Nat /\ (d = "append" => n = Len(Raw(f)))
    BY <1>11, <2>1, <2>3 DEF Transcripts
  <2>5. /\ c \in JobRecords /\ c.path = p /\ c.msgs = t /\ c.ver = mem[r].ver /\ c.rw = mem[r].rw
        /\ d = "heal" => c.at = "record"
        /\ d # "heal" => c.at = "log" /\ c.shape = d /\ c.from = n
    <3>1. CASE d = "heal"
      BY <1>12, <2>2, <3>1 DEF JobRecords, Steps, Writing
    <3>2. CASE d # "heal"
      BY <1>12, <1>18, <2>2, <2>4, <3>2 DEF JobRecords, Steps, Writing
    <3> QED
      BY <3>1, <3>2
  <2>6. job' = [job EXCEPT ![r] = c] /\ mem' = mem /\ acked' = acked /\ removed' = removed /\ forced' = forced
        /\ unsure' = unsure /\ Write(r, p, f) /\ disk' = Put(p, f)
    BY <1>18, <2>1, <2>2 DEF Write
  <2>7. Covers(t, f)
    <3>1. SUFFICES ASSUME Exists(f) PROVE Messages(Raw(f)) \subseteq Messages(t) \cup removed
      BY DEF Covers
    <3>2. CASE IsPrefix(Raw(f), t)
      BY <1>8, <2>3, <3>1, <3>2, PrefixMessages
    <3>3. CASE IsPrefix(Loaded(f), t)
      BY <1>8, <2>3, <3>1, <3>3, PrefixMessages
    <3>4. CASE base.path # Nothing /\ base.digest \in {Raw(f), Loaded(f)}
      BY <1>2, <1>7, <1>10, <2>3, <3>1, <3>4 DEF Known
    <3>5. CASE Raw(f) = t
      BY <3>5
    <3> QED
      BY <1>11, <1>18, <3>1, <3>2, <3>3, <3>4, <3>5
  <2>8. job'[r] = c
    BY <2>5, <2>6, Moved DEF IInv
  <2>9. Stage(r)'
    <3>1. File(p)' = f
      BY <1>8, <1>9, <2>6, PutFile DEF IInv
    <3>2. Covers(t, f)'
      BY <2>6, <2>7 DEF Covers
    <3> QED
      <4>1. CASE d = "heal"
        BY <1>11, <2>5, <2>8, <3>1, <4>1 DEF Stage
      <4>2. CASE d # "heal"
        <5>1. /\ c.at = "log" /\ c.shape \in {"full", "append", "force"} /\ c.path = p /\ c.msgs = t /\ ~f.torn
              /\ c.shape = "append" => Exists(f) /\ IsPrefix(Raw(f), t) /\ c.from = Len(Raw(f))
          BY <1>9, <1>11, <1>18, <2>4, <2>5, <4>2
        <5> QED
          BY <2>8, <3>1, <3>2, <5>1 DEF Stage
      <4> QED
        BY <4>1, <4>2
  <2>10. forced \subseteq forced' /\ c.at \in {"conflict", "log", "record"} /\ c.at # "conflict" /\ c.msgs \in Transcripts
         /\ c.msgs = mem[r].msgs /\ job[r].at \in {"idle", "save", "force"}
    BY <1>2, <1>8, <1>18, <2>5, <2>6
  <2> QED
    BY <1>1, <1>3, <1>13, <2>5, <2>6, <2>9, <2>10, EnterKeeps
<1> QED
  BY <1>14, <1>15, <1>16, <1>17, <1>18 DEF Ending

\* Either kind of save begins with a check.
LEMMA SnapshotKeeps ==
  ASSUME IInv, NEW r \in Runtimes, Snapshot(r) \/ SaveRewrite(r)
  PROVE  IInv'
<1>1. Placed(r)
  BY DEF IInv, Orderly
<1>2. CASE Snapshot(r)
  <2>1. PICK j : j = [Idle EXCEPT !.meta = TRUE, !.mode = IF NeedsRewrite(r) THEN "rewrite" ELSE "snapshot"]
    OBVIOUS
  <2>2. j \in JobRecords /\ j.msgs \in Transcripts
    BY <2>1, IdleJob DEF Idle, JobRecords
  <2>3. Check(r, j) /\ mem[r].open /\ job[r].at \in {"idle", "save"}
    BY <1>2, <2>1 DEF Snapshot
  <2> QED
    BY <2>2, <2>3, CheckKeeps
<1>3. CASE SaveRewrite(r)
  <2>1. PICK j : j = job[r]
    OBVIOUS
  <2>2. j \in JobRecords /\ j.msgs \in Transcripts /\ mem[r].open /\ job[r].at \in {"idle", "save"}
    BY <1>1, <1>3, <2>1 DEF SaveRewrite, IInv, Types, Placed
  <2>3. Check(r, j)
    BY <1>3, <2>1 DEF SaveRewrite
  <2> QED
    BY <2>2, <2>3, CheckKeeps
<1> QED
  BY <1>2, <1>3

\* At the depth cap a save begins to write over whatever is there.
LEMMA ForceSaveKeeps ==
  ASSUME IInv, NEW r \in Runtimes, ForceSave(r)
  PROVE  IInv'
<1>1. PICK p : p = mem[r].path
  OBVIOUS
<1>2. PICK t : t = mem[r].msgs
  OBVIOUS
<1>3. PICK f : f = TailRepaired(File(p))
  OBVIOUS
<1>4. PICK j : j = [job[r] EXCEPT !.at = "log", !.shape = "force", !.msgs = t, !.ver = mem[r].ver, !.rw = mem[r].rw,
                                  !.rev = f.rev]
  OBVIOUS
<1>5. /\ job[r].at = "force" /\ Free(p) /\ Write(r, p, f) /\ mem' = mem /\ next' = next /\ removed' = removed
      /\ acked' = acked /\ unsure' = unsure
      /\ forced' = forced \cup (IF Exists(f) THEN Messages(Raw(f)) \ Messages(t) ELSE {})
  BY <1>1, <1>2, <1>3 DEF ForceSave, bounds
<1>6. Placed(r)
  BY DEF IInv, Orderly
<1>7. /\ mem[r] \in Sessions /\ t \in Transcripts /\ t \in Optional /\ mem[r].ver \in Nat /\ mem[r].rw \in Nat
      /\ p \in Paths /\ mem[r].open /\ job[r].path = p /\ job[r] \in JobRecords
  BY <1>1, <1>2, <1>5, <1>6 DEF IInv, Types, Sessions, Placed, Optional, Branching
<1>8. /\ f \in FileRecords /\ f.rev \in Nat /\ ~f.torn
  BY <1>3, FileIsRecord, Repaired DEF IInv, FileRecords
<1>9. /\ j \in JobRecords /\ j.at = "log" /\ j.shape = "force" /\ j.path = p /\ j.msgs = t /\ j.ver = mem[r].ver
      /\ j.rw = mem[r].rw
  BY <1>4, <1>7, <1>8 DEF JobRecords, Steps, Writing
<1>10. job' = [job EXCEPT ![r] = j]
  BY <1>1, <1>2, <1>3, <1>4 DEF ForceSave, IInv, Types
<1>11. job'[r] = j
  BY <1>9, <1>10, Moved DEF IInv
<1>12. File(p)' = f
  BY <1>5, <1>7, <1>8, PutFile DEF Write, IInv
<1>13. Covers(t, f)'
  BY <1>5 DEF Covers
<1>14. Stage(r)'
  BY <1>8, <1>9, <1>11, <1>12, <1>13 DEF Stage
<1>15. forced \subseteq forced' /\ j.msgs \in Transcripts /\ j.msgs = mem[r].msgs /\ j.at # "conflict"
       /\ j.at \in {"conflict", "log", "record"} /\ job[r].at \in {"idle", "save", "force"}
  BY <1>2, <1>5, <1>7, <1>9
<1> QED
  BY <1>1, <1>3, <1>5, <1>7, <1>9, <1>10, <1>14, <1>15, EnterKeeps

\* A session is opened, or its stored transcript adopted.
LEMMA LoadKeeps ==
  ASSUME IInv, NEW r \in Runtimes, AdoptDisk(r) \/ \E p \in DOMAIN disk : Open(r, p)
  PROVE  IInv'
<1>1. CASE AdoptDisk(r)
  <2>1. job[r].at = "conflict" /\ ReadTranscript(r, job[r].path)
    BY <1>1 DEF AdoptDisk, Conflicted
  <2>2. job[r].path \in DOMAIN disk
    BY <2>1 DEF IInv, Orderly, Placed, Branching
  <2> QED
    BY <2>1, <2>2, ReadTranscriptKeeps
<1>2. CASE \E p \in DOMAIN disk : Open(r, p)
  BY <1>2, ReadTranscriptKeeps DEF Open
<1> QED
  BY <1>1, <1>2

\* A crash may leave a torn tail in the log that was being written.
LEMMA CrashKeeps ==
  ASSUME IInv, NEW r \in Runtimes, Crash(r)
  PROVE  IInv'
<1>1. /\ mem' = [mem EXCEPT ![r] = Closed] /\ job' = [job EXCEPT ![r] = Idle] /\ next' = next
      /\ unsure' = [unsure EXCEPT ![r] = FALSE] /\ foreign' = [foreign EXCEPT ![r] = FALSE]
      /\ acked' = acked /\ removed' = removed /\ forced' = forced
  BY DEF Crash, Done
<1>2. Closed \in Sessions /\ Closed.path = Main /\ Closed.msgs = << >> /\ ~Closed.open /\ Closed.ver = 0
      /\ Closed.rw = 0 /\ Closed.savedRw = 0 /\ Closed.base = NoBase /\ NoBase.digest = << >> /\ NoBase.ver = 0
      /\ NoBase.verified = FALSE
  BY DEF Closed, NoBase, Sessions, Bases, Transcripts, Paths, Main
<1>3. job' \in [Runtimes -> JobRecords] /\ job'[r] = Idle /\ \A s \in Runtimes : s # r => job'[s] = job[s]
  BY <1>1, IdleJob, Moved DEF IInv
<1>4. mem' \in [Runtimes -> Sessions] /\ mem'[r] = Closed /\ \A s \in Runtimes : s # r => mem'[s] = mem[s]
  BY <1>1, <1>2, Changed DEF IInv
<1>5. /\ foreign' \in [Runtimes -> BOOLEAN] /\ unsure' \in [Runtimes -> BOOLEAN]
      /\ \A s \in Runtimes : s # r => foreign'[s] = foreign[s] /\ unsure'[s] = unsure[s]
  BY <1>1 DEF IInv, Types
<1>6. TypedNext /\ Others(r)
  BY <1>1, <1>3, <1>4, <1>5 DEF IInv, Types, TypedNext, Others
<1>7. Locks(r)
  BY <1>3, IdleJob DEF Locks, Holds
<1>8. Main \in DOMAIN disk' => Placed(r)'
  BY <1>2, <1>3, <1>4, IdleJob DEF Placed, Branching
<1>9. Stage(r)'
  BY <1>3, IdleJob DEF Stage
<1>10. Known(r)'
  <2>1. Messages(<< >>) = {}
    BY DEF Messages
  <2> QED
    BY <1>2, <1>3, <1>4, <2>1, IdleJob DEF Known, Writing, Branching
<1>11. Current(r)'
  BY <1>2, <1>3, <1>4, IdleJob DEF Current, Branching
<1>12. CASE disk' = disk
  <2>1. Orderly(r)'
    BY <1>8, <1>9, <1>10, <1>11, <1>12 DEF Orderly, IInv, Types
  <2> QED
    BY <1>1, <1>5, <1>6, <1>7, <1>12, <2>1, QuietStep
<1>13. CASE /\ job[r].at \in {"log", "branchLog"}
            /\ disk' = Put(job[r].path, [File(job[r].path) EXCEPT !.torn = TRUE])
  <2>1. PICK p : p = job[r].path
    OBVIOUS
  <2>2. PICK f : f = [File(p) EXCEPT !.torn = TRUE]
    OBVIOUS
  <2>3. p \in Paths /\ Depth(p) <= MaxDepth /\ Holds(r, p) /\ disk' = Put(p, f)
    BY <1>13, <2>1, <2>2, PathsAreShallow DEF Holds
  <2>4. File(p) \in FileRecords
    BY FileIsRecord DEF IInv
  <2>5. f \in FileRecords /\ f.log = File(p).log /\ f.checkpoint = File(p).checkpoint /\ f.rev = File(p).rev
        /\ f.digest = File(p).digest
    BY <2>2, <2>4 DEF FileRecords
  <2>6. Raw(f) = Raw(File(p)) /\ Exists(f) = Exists(File(p))
    BY <2>5 DEF Raw, Exists
  <2>7. \A s \in Runtimes : s # r => foreign'[s] = Touched(r, p, f)[s]
    BY <1>5, <2>5, <2>6 DEF IInv, Types, Touched
  <2>8. Main \in DOMAIN disk'
    BY <2>3, <2>5, PutFile DEF IInv
  <2>9. Orderly(r)'
    BY <1>8, <1>9, <1>10, <1>11, <2>8 DEF Orderly
  <2> QED
    BY <1>1, <1>6, <1>7, <2>3, <2>5, <2>6, <2>7, <2>9, WriteStep
<1>14. disk' = disk \/ /\ job[r].at \in {"log", "branchLog"}
                       /\ disk' = Put(job[r].path, [File(job[r].path) EXCEPT !.torn = TRUE])
  BY DEF Crash
<1> QED
  BY <1>12, <1>13, <1>14

\* A step that changes nothing keeps it.
LEMMA StutterKeeps == ASSUME IInv, UNCHANGED vars PROVE IInv'
<1>1. disk' = disk /\ mem' = mem /\ job' = job /\ next' = next /\ acked' = acked /\ removed' = removed
      /\ forced' = forced /\ foreign' = foreign /\ unsure' = unsure
  BY DEF vars, bounds, ghosts
<1>2. Types' /\ Shallow'
  BY <1>1 DEF IInv, Types, Shallow
<1>3. Locked'
  BY <1>1 DEF IInv, Locked, Holds
<1>4. NothingHidden'
  BY <1>1, QuietHidesNothing DEF IInv
<1>5. ASSUME NEW s \in Runtimes PROVE Orderly(s)'
  <2>1. Undisturbed(s)
    BY <1>1, QuietAside DEF IInv
  <2>2. Grows
    BY <1>1 DEF IInv, Types, Grows
  <2> QED
    BY <1>2, <2>1, <2>2, Bystander DEF IInv
<1> QED
  BY <1>2, <1>3, <1>4, <1>5 DEF IInv

-----------------------------------------------------------------------------
(* The first two theorems. *)

\* The invariant holds at first,
LEMMA InitIInv == Init => IInv
<1> SUFFICES ASSUME Init PROVE IInv
  OBVIOUS
<1>1. PICK g \in {Nothing, <<1>>} :
        disk = [p \in {Main} |-> [NoFile EXCEPT !.log = g, !.checkpoint = <<1>>, !.rev = 1, !.digest = <<1>>]]
  BY DEF Init
<1>2. PICK f : f = [NoFile EXCEPT !.log = g, !.checkpoint = <<1>>, !.rev = 1, !.digest = <<1>>]
  OBVIOUS
<1>3. <<1>> \in Transcripts /\ << >> \in Transcripts /\ Main \in Paths
  BY DEF Transcripts, Paths, Main
<1>4. f \in FileRecords /\ f.log = g /\ f.checkpoint = <<1>>
  BY <1>2, <1>3 DEF NoFile, FileRecords, Optional
<1>5. DOMAIN disk = {Main} /\ disk[Main] = f /\ disk = [p \in {Main} |-> f]
  BY <1>1, <1>2
<1>6. Closed \in Sessions /\ Closed.path = Main /\ Closed.msgs = << >> /\ ~Closed.open /\ Closed.ver = 0
      /\ Closed.rw = 0 /\ Closed.savedRw = 0 /\ Closed.base = NoBase /\ NoBase.digest = << >> /\ NoBase.ver = 0
      /\ NoBase.verified = FALSE
  BY DEF Closed, NoBase, Sessions, Bases, Transcripts, Paths, Main
<1>7. Types
  BY <1>3, <1>4, <1>5, <1>6, IdleJob DEF Init, Types
<1>8. Shallow
  BY <1>5, BoundsAssumption DEF Shallow, Depth, Main
<1>9. Locked
  BY IdleJob DEF Init, Locked, Holds
<1>10. NothingHidden
  <2>1. Raw(f) = <<1>>
    BY <1>1, <1>3, <1>4, NothingIsApart DEF Raw
  <2>2. 1 \in Messages(<<1>>)
    BY DEF Messages
  <2>3. Stored(Main) = Messages(<<1>>)
    BY <1>3, <1>5, <2>1, NothingIsApart DEF Stored, Exists, File
  <2> QED
    BY <1>5, <2>2, <2>3 DEF Init, NothingHidden, Loadable
<1>11. ASSUME NEW r \in Runtimes PROVE Orderly(r)
  <2>1. mem[r] = Closed /\ job[r] = Idle
    BY DEF Init
  <2>2. Placed(r)
    BY <1>5, <1>6, <2>1, IdleJob DEF Placed, Branching
  <2>3. Stage(r)
    BY <2>1, IdleJob DEF Stage
  <2>4. Known(r)
    <3>1. Messages(<< >>) = {}
      BY DEF Messages
    <3> QED
      BY <1>6, <2>1, <3>1, IdleJob DEF Known, Writing, Branching
  <2>5. Current(r)
    BY <1>6, <2>1, IdleJob DEF Current, Branching
  <2> QED
    BY <2>2, <2>3, <2>4, <2>5 DEF Orderly
<1> QED
  BY <1>7, <1>8, <1>9, <1>10, <1>11 DEF IInv

\* every step keeps it while forks stay apart,
LEMMA NextKeeps == IInv /\ ForksApart /\ [Next]_vars => IInv'
<1> SUFFICES ASSUME IInv, ForksApart, [Next]_vars PROVE IInv'
  OBVIOUS
<1>1. CASE UNCHANGED vars
  BY <1>1, StutterKeeps
<1>2. ASSUME NEW r \in Runtimes,
             \/ \E p \in DOMAIN disk : Open(r, p)
             \/ Add(r) \/ Prune(r) \/ Snapshot(r)
             \/ \E n \in 1..MaxMessages : Rewind(r, n) \/ CancelTurn(r, n)
             \/ Step(r)
             \/ WriteLogFails(r) \/ WriteFails(r) \/ WriteBranchLogFails(r)
             \/ Crash(r)
      PROVE  IInv'
  <2>1. CASE Step(r)
    BY <2>1, ReadLedgerKeeps, SnapshotKeeps, WriteLogKeeps, WriteCheckpointKeeps, RecordKeeps, ReadMetaKeeps,
       WriteMetaKeeps, RetryKeeps, LoadKeeps, ForkKeeps, ForceSaveKeeps, TakeBranchKeeps, WriteBranchLogKeeps,
       WriteBranchCheckpointKeeps, WriteBranchMetaKeeps DEF Step
  <2>2. CASE Add(r) \/ Prune(r) \/ \E n \in 1..MaxMessages : Rewind(r, n) \/ CancelTurn(r, n)
    BY <2>2, TurnKeeps
  <2>3. CASE WriteLogFails(r) \/ WriteFails(r) \/ WriteBranchLogFails(r) \/ Crash(r)
    BY <2>3, WriteLogFailsKeeps, WriteFailsKeeps, WriteBranchLogKeeps, CrashKeeps
  <2>4. CASE Snapshot(r) \/ \E p \in DOMAIN disk : Open(r, p)
    BY <2>4, SnapshotKeeps, LoadKeeps
  <2> QED
    BY <1>2, <2>1, <2>2, <2>3, <2>4
<1> QED
  BY <1>1, <1>2 DEF Next

\* and so it always holds.
LEMMA Inductive == Spec /\ []ForksApart => []IInv
<1>1. Init => IInv
  BY InitIInv
<1>2. IInv /\ ForksApart /\ [Next]_vars => IInv'
  BY NextKeeps
<1> QED
  BY <1>1, <1>2, PTL DEF Spec

\* Saves are kept: what a save acknowledged can be loaded from some path, whatever
\* saves, forks, failures and crashes come after, until a runtime takes it out of
\* its own transcript or a save is forced over it at the depth cap; and one runtime
\* at a time writes a path, none of them deeper than a recovery may be.
THEOREM SavesKept == Spec /\ []ForksApart => []SavesAreKept
<1>1. IInv => SavesAreKept
  <2> SUFFICES ASSUME IInv PROVE SavesAreKept
    OBVIOUS
  <2>1. \A r \in Runtimes : Placed(r)
    BY DEF IInv, Orderly
  <2>2. TypeOK
    BY <2>1 DEF IInv, Types, Placed, Shallow, Locked, TypeOK, Branching
  <2> QED
    BY <2>2 DEF IInv, SavesAreKept
<1> QED
  BY <1>1, Inductive, PTL

\* Conflicts are foreign: the check of a save reports that the session was changed
\* elsewhere only if another runtime wrote its path since this one last loaded or
\* saved it, or a save of its own failed since and may have written.
THEOREM ConflictsAreForeign == Spec /\ []ForksApart => []ConflictIsForeign
<1>1. IInv => ConflictIsForeign
  BY DEF IInv, Orderly, Current, ConflictIsForeign
<1> QED
  BY <1>1, Inductive, PTL

-----------------------------------------------------------------------------
(* Rewrites stand: the invariant. *)

Saving(r) == job[r].at \in Writing \cup Branching

\* The messages a runtime has: in its session, in what that builds on, and in
\* what it saves or loads.
InMem(r) == Messages(mem[r].msgs)
InBase(r) == Messages(mem[r].base.digest)
InJob(r) == IF Saving(r) \/ job[r].at = "ledger" THEN Messages(job[r].msgs) ELSE {}
Seen(r) == InMem(r) \cup InJob(r)

\* What it added itself since it last loaded or saved.
Mine(r) == (InMem(r) \ InBase(r)) \cap Written

Gone(p) == IF p \in DOMAIN gone THEN gone[p] ELSE {}

\* A message written later is a new one.
Fresh ==
    /\ next \in 1..MaxMessages
    /\ acked \cap Written \subseteq 0..next
    /\ \A p : Stored(p) \cap Written \subseteq 0..next
    /\ \A r \in Runtimes : (Seen(r) \cup InBase(r)) \cap Written \subseteq 0..next

\* What is gone was acknowledged once, and its file is there.
GoneFits == \A p : Gone(p) \subseteq acked \cap Written /\ (Gone(p) # {} => Exists(File(p)))
CutFits == \A p \in DOMAIN cut : cut[p] \subseteq Written

\* A session builds on what is at its path, and only saves at the depth cap are forced.
Rooted(r) ==
    /\ mem[r].open => mem[r].base.path = mem[r].path
    /\ ~mem[r].open => mem[r] = Closed
    /\ job[r].at = "force" => Depth(job[r].path) >= MaxDepth

\* A save stores all of the transcript but for what came to it since.
Carried(r) == Saving(r) => InBase(r) \cap InMem(r) \cap Written \subseteq InJob(r)

\* Runtime v can do nothing with the transcript it loaded before the lock of p is free.
Waits(v, p) ==
    \/ job[v].at \in {"idle", "save", "meta", "metaWrite"} /\ mem[v].path = p
    \/ job[v].at = "ledger" /\ job[v].path = p

\* A message that only s has, and whoever reads it while s saves it.
Secret(s, m) ==
    /\ m \notin acked
    /\ \A q : m \in Stored(q) => Holds(s, q) /\ m \in InJob(s)
    /\ \A v \in Runtimes : v # s /\ m \in Seen(v) =>
          m \in InJob(s) /\ Holds(s, job[s].path) /\ Waits(v, job[s].path)

\* Such are those of a runtime no save of which failed, and those that come to it
\* while it saves.
Sealed(r) == \A m \in Mine(r) :
    (~unsure[r] /\ job[r].at # "ledger") \/ (Saving(r) /\ m \notin InJob(r)) => Secret(r, m)

\* No rewrite took out what a runtime has not stored yet.
Spared(r) == job[r].at # "ledger" => \A q : Gone(q) \cap Mine(r) = {}

Own(r) == Rooted(r) /\ Carried(r) /\ Sealed(r) /\ Spared(r)

\* A runtime that builds on what is gone by now can see so by the revision,
Ahead(r) == mem[r].open =>
    /\ mem[r].base.rev <= File(mem[r].path).rev
    /\ Depth(mem[r].path) < MaxDepth /\ Gone(mem[r].path) \cap InBase(r) # {} =>
         mem[r].base.rev < File(mem[r].path).rev

\* so that nothing that it writes is gone.
Clear(r) == job[r].at \in {"log", "checkpoint", "branchCheckpoint"} /\ Depth(job[r].path) < MaxDepth =>
    Gone(job[r].path) \cap InJob(r) = {}

Timely(r) == Ahead(r) /\ Clear(r)

Stand == \A p : Depth(p) < MaxDepth => Gone(p) \cap Stored(p) = {}

Standing ==
    /\ Fresh /\ GoneFits /\ CutFits
    /\ \A r \in Runtimes : Own(r)
    /\ ~slipped => Stand /\ \A r \in Runtimes : Timely(r)

-----------------------------------------------------------------------------
(* Transcripts, again: what they hold and no more. *)

\* A message appended or put in the place of another is the only new one,
LEMMA AppendAdds ==
  ASSUME NEW t \in Transcripts, NEW m \in Nat
  PROVE  Messages(Append(t, m)) \subseteq Messages(t) \cup {m}
<1>1. ASSUME NEW i \in DOMAIN Append(t, m) PROVE Append(t, m)[i] = m \/ (i \in DOMAIN t /\ Append(t, m)[i] = t[i])
  BY DEF Transcripts
<1> QED
  BY <1>1 DEF Messages

LEMMA ReplaceAdds ==
  ASSUME NEW t \in Transcripts, NEW m \in Nat
  PROVE  Messages([t EXCEPT ![1] = m]) \subseteq Messages(t) \cup {m}
<1>1. DOMAIN [t EXCEPT ![1] = m] = DOMAIN t
  BY DEF Transcripts
<1>2. ASSUME NEW i \in DOMAIN t PROVE [t EXCEPT ![1] = m][i] = m \/ [t EXCEPT ![1] = m][i] = t[i]
  BY <1>2
<1> QED
  BY <1>1, <1>2 DEF Messages

\* and a cut adds none.
LEMMA CutAdds ==
  ASSUME NEW t \in Transcripts, NEW n \in 1 .. (Len(t) - 1)
  PROVE  SubSeq(t, 1, n) \in Transcripts /\ Messages(SubSeq(t, 1, n)) \subseteq Messages(t)
<1>1. Len(t) \in Nat /\ n \in Nat /\ n < Len(t)
  BY DEF Transcripts
<1>2. SubSeq(t, 1, n) \in Transcripts /\ Len(SubSeq(t, 1, n)) = n
  BY <1>1 DEF Transcripts
<1>3. ASSUME NEW i \in DOMAIN SubSeq(t, 1, n) PROVE i \in DOMAIN t /\ SubSeq(t, 1, n)[i] = t[i]
  BY <1>1, <1>2, <1>3 DEF Transcripts
<1> QED
  BY <1>2, <1>3 DEF Messages

\* A load adds no message that was ever written.
LEMMA LoadsOnly ==
  ASSUME NEW f \in FileRecords, Exists(f)
  PROVE  Messages(Loaded(f)) \cap Written \subseteq Messages(Raw(f))
<1>1. Raw(f) \in Transcripts
  BY DEF Exists, Raw, FileRecords, Optional
<1>2. PICK t : t = Raw(f)
  OBVIOUS
<1>3. CASE Pending(t)
  <2>1. t # << >> /\ t[Len(t)] \in Nat
    BY <1>1, <1>2, <1>3 DEF Pending, Transcripts
  <2>2. PICK n : n = Placeholder(Last(t))
    OBVIOUS
  <2>3. n \in Nat /\ n \notin Written
    BY <2>1, <2>2, BoundsAssumption DEF Placeholder, Last, Written
  <2>4. Loaded(f) = Append(t, n)
    BY <1>2, <1>3, <2>2 DEF Loaded, Normalized
  <2>5. Messages(Append(t, n)) \subseteq Messages(t) \cup {n}
    BY <1>1, <1>2, <2>3, AppendAdds
  <2> QED
    BY <1>2, <2>3, <2>4, <2>5
<1>4. CASE ~Pending(t)
  BY <1>1, <1>2, <1>4 DEF Loaded, Normalized
<1> QED
  BY <1>3, <1>4

\* Of two prefixes the longer one holds the other's messages.
LEMMA LongerPrefix ==
  ASSUME NEW s \in Transcripts, NEW u \in Transcripts, NEW t \in Transcripts,
         IsPrefix(s, t), IsPrefix(u, t), Len(s) <= Len(u)
  PROVE  Messages(s) \subseteq Messages(u)
<1>1. Len(s) \in Nat /\ \A i \in 1 .. Len(s) : s[i] = t[i]
  BY PrefixAgrees
<1>2. Len(u) \in Nat /\ \A i \in 1 .. Len(u) : u[i] = t[i]
  BY PrefixAgrees
<1>3. DOMAIN s = 1 .. Len(s) /\ DOMAIN u = 1 .. Len(u)
  BY DEF Transcripts
<1>4. ASSUME NEW i \in DOMAIN s PROVE i \in DOMAIN u /\ s[i] = u[i]
  BY <1>1, <1>2, <1>3, <1>4
<1> QED
  BY <1>4 DEF Messages

-----------------------------------------------------------------------------
(* A step of one runtime and the invariant. *)

\* Nobody who waits for a lock goes on.
Meek(r) == \A p : Seen(r) # {} /\ Waits(r, p) /\ ~Free(p) =>
    /\ Waits(r, p)' \/ Seen(r)' = {}
    /\ acked' = acked /\ \A q : Stored(q)' = Stored(q)

\* What a step of runtime r does to all that the invariant is about.
Effects(r) ==
    /\ Others(r) /\ CutFits'
    /\ next' \in next..MaxMessages
    /\ acked \subseteq acked' /\ acked' \subseteq acked \cup Seen(r)
    /\ \A q : Stored(q)' \subseteq Stored(q) \cup InJob(r)
    /\ \A q : Exists(File(q)) => Exists(File(q))'
    /\ \A m \in (Seen(r)' \cup InBase(r)') \cap Written :
          m \in Seen(r) \cup InBase(r) \cup (next + 1)..next' \/ \E p : m \in Stored(p)
    /\ \A m \in Seen(r)' \cap Written :
          m \in Seen(r) \cup (next + 1)..next' \/ \E p : m \in Stored(p) /\ Waits(r, p)'
    /\ Meek(r)
    /\ \A q : Gone(q)' \subseteq Gone(q) \cup ((acked \cap Written) \ Unsettled)
    /\ \A q : Gone(q)' = Gone(q) \/ (Holds(r, q) /\ Exists(File(q)))
    /\ slipped => slipped'
    /\ ~slipped' => \A q : File(q).rev <= File(q)'.rev /\ (Gone(q)' = Gone(q) \/ File(q).rev < File(q)'.rev)

\* The others are as they were.
LEMMA Aside ==
  ASSUME NEW r \in Runtimes, Others(r), NEW s \in Runtimes, s # r
  PROVE  /\ mem'[s] = mem[s] /\ job'[s] = job[s] /\ unsure'[s] = unsure[s]
         /\ InMem(s)' = InMem(s) /\ InBase(s)' = InBase(s) /\ InJob(s)' = InJob(s) /\ Seen(s)' = Seen(s)
         /\ Mine(s)' = Mine(s) /\ Saving(s)' = Saving(s)
         /\ \A p : Holds(s, p)' = Holds(s, p) /\ Waits(s, p)' = Waits(s, p)
<1>1. mem'[s] = mem[s] /\ job'[s] = job[s] /\ unsure'[s] = unsure[s]
  BY DEF Others
<1>2. InMem(s)' = InMem(s) /\ InBase(s)' = InBase(s) /\ Saving(s)' = Saving(s)
  BY <1>1 DEF InMem, InBase, Saving
<1>3. InJob(s)' = InJob(s)
  BY <1>1, <1>2 DEF InJob
<1>4. \A p : Holds(s, p)' = Holds(s, p) /\ Waits(s, p)' = Waits(s, p)
  BY <1>1 DEF Holds, Waits
<1> QED
  BY <1>1, <1>2, <1>3, <1>4 DEF Seen, Mine

\* A secret of another runtime stays one.
LEMMA SecretKept ==
  ASSUME Fresh, NEW r \in Runtimes, Effects(r), NEW s \in Runtimes, s # r,
         NEW m \in Written, m \in Mine(s), Secret(s, m)
  PROVE  Secret(s, m)'
<1>1. /\ job'[s] = job[s] /\ InJob(s)' = InJob(s) /\ \A p : Holds(s, p)' = Holds(s, p)
  BY Aside DEF Effects
<1> PICK l : l = job[s].path
  OBVIOUS
<1>2. /\ m \notin acked /\ m <= next /\ next \in Nat
      /\ \A q : m \in Stored(q) => Holds(s, q) /\ m \in InJob(s)
      /\ \A v \in Runtimes : v # s /\ m \in Seen(v) =>
            m \in InJob(s) /\ Holds(s, l) /\ Waits(v, l)
  BY DEF Secret, Fresh, Mine, Seen
<1>3. m \notin acked'
  <2>1. CASE m \in Seen(r)
    <3>1. Waits(r, l) /\ ~Free(l)
      BY <1>2, <2>1 DEF Free
    <3> QED
      BY <1>2, <2>1, <3>1 DEF Effects, Meek
  <2>2. CASE m \notin Seen(r)
    BY <1>2, <2>2 DEF Effects
  <2> QED
    BY <2>1, <2>2
<1>4. ASSUME NEW q, m \in Stored(q)' PROVE m \in Stored(q)
  <2>1. CASE m \in Seen(r)
    <3>1. Waits(r, l) /\ ~Free(l)
      BY <1>2, <2>1 DEF Free
    <3> QED
      BY <1>4, <2>1, <3>1 DEF Effects, Meek
  <2>2. CASE m \notin Seen(r)
    BY <1>4, <2>2 DEF Effects, Seen
  <2> QED
    BY <2>1, <2>2
<1>5. ASSUME m \in Seen(r)' PROVE m \in InJob(s) /\ Holds(s, l) /\ Waits(r, l)'
  <2>1. CASE m \in Seen(r)
    <3>1. m \in InJob(s) /\ Holds(s, l) /\ Waits(r, l) /\ ~Free(l)
      BY <1>2, <2>1 DEF Free
    <3> QED
      BY <1>5, <2>1, <3>1 DEF Effects, Meek
  <2>2. CASE m \notin Seen(r)
    <3>1. PICK p : m \in Stored(p) /\ Waits(r, p)'
      <4>1. m \notin (next + 1)..next'
        BY <1>2
      <4> QED
        BY <1>5, <2>2, <4>1 DEF Effects
    <3>2. Holds(s, p) /\ m \in InJob(s) /\ p = l
      BY <1>2, <3>1 DEF Holds
    <3> QED
      BY <3>1, <3>2
  <2> QED
    BY <2>1, <2>2
<1>6. ASSUME NEW v \in Runtimes, v # s, m \in Seen(v)'
      PROVE  m \in InJob(s) /\ Holds(s, l) /\ Waits(v, l)'
  <2>1. CASE v = r
    BY <1>5, <1>6, <2>1
  <2>2. CASE v # r
    <3>1. Seen(v)' = Seen(v) /\ \A p : Waits(v, p)' = Waits(v, p)
      BY <2>2, Aside DEF Effects
    <3> QED
      BY <1>2, <1>6, <3>1
  <2> QED
    BY <2>1, <2>2
<1>7. \A v \in Runtimes : v # s /\ m \in Seen(v)' =>
         m \in InJob(s) /\ Holds(s, l) /\ job'[s].path = l /\ Waits(v, l)'
  BY <1>1, <1>6
<1>8. \A q : m \in Stored(q)' => Holds(s, q)' /\ m \in InJob(s)'
  BY <1>1, <1>2, <1>4
<1>9. \A v \in Runtimes : v # s /\ m \in Seen(v)' =>
         m \in InJob(s)' /\ Holds(s, job[s].path)' /\ Waits(v, job[s].path)'
  BY <1>1, <1>7 DEF Holds, Waits
<1> QED
  BY <1>3, <1>8, <1>9 DEF Secret

\* A step of r keeps the invariant if it does so for r.
LEMMA StandingStep ==
  ASSUME IInv, IInv', Standing, NEW r \in Runtimes, Effects(r), Own(r)', ~slipped' => Stand' /\ Timely(r)'
  PROVE  Standing'
<1>1. /\ Others(r) /\ next' \in next..MaxMessages /\ next \in 1..MaxMessages /\ MaxMessages \in Nat
      /\ Fresh /\ GoneFits
  BY BoundsAssumption DEF Effects, Standing, Fresh
<1>2. Fresh'
  <2>1. next' \in 1..MaxMessages /\ next <= next' /\ next \in Nat /\ next' \in Nat
    BY <1>1
  <2>2. acked' \cap Written \subseteq 0..next'
    BY <1>1, <2>1 DEF Effects, Fresh
  <2>3. \A p : Stored(p)' \cap Written \subseteq 0..next'
    BY <1>1, <2>1 DEF Effects, Fresh, Seen
  <2>4. (Seen(r)' \cup InBase(r)') \cap Written \subseteq 0..next'
    BY <1>1, <2>1 DEF Effects, Fresh
  <2>5. ASSUME NEW s \in Runtimes, s # r PROVE (Seen(s)' \cup InBase(s)') \cap Written \subseteq 0..next'
    <3>1. Seen(s)' = Seen(s) /\ InBase(s)' = InBase(s)
      BY <1>1, <2>5, Aside
    <3> QED
      BY <1>1, <2>1, <3>1 DEF Fresh
  <2> QED
    BY <2>1, <2>2, <2>3, <2>4, <2>5 DEF Fresh, Written
<1>3. GoneFits'
  BY <1>1 DEF Effects, GoneFits, Written
<1>4. ASSUME NEW s \in Runtimes, s # r PROVE Own(s)'
  <2>1. /\ mem'[s] = mem[s] /\ job'[s] = job[s] /\ unsure'[s] = unsure[s]
        /\ InMem(s)' = InMem(s) /\ InBase(s)' = InBase(s) /\ InJob(s)' = InJob(s)
        /\ Mine(s)' = Mine(s) /\ Saving(s)' = Saving(s)
    BY <1>1, <1>4, Aside
  <2>2. Rooted(s) /\ Carried(s) /\ Sealed(s) /\ Spared(s)
    BY DEF Standing, Own
  <2>3. Rooted(s)'
    BY <2>1, <2>2 DEF Rooted
  <2>4. Carried(s)'
    BY <2>1, <2>2 DEF Carried, Written
  <2>5. Sealed(s)'
    <3>1. SUFFICES ASSUME NEW m \in Mine(s),
                          (~unsure[s] /\ job[s].at # "ledger") \/ (Saving(s) /\ m \notin InJob(s))
                   PROVE  Secret(s, m)'
      BY <2>1 DEF Sealed
    <3>2. Secret(s, m) /\ m \in Written
      BY <2>2, <3>1 DEF Sealed, Mine
    <3> QED
      BY <1>1, <1>4, <3>1, <3>2, SecretKept
  <2>6. Spared(s)'
    <3>1. SUFFICES ASSUME job[s].at # "ledger", NEW q, NEW m \in Mine(s), m \in Gone(q)' PROVE FALSE
      BY <2>1 DEF Spared
    <3>2. m \notin Gone(q)
      BY <2>2, <3>1 DEF Spared
    <3>3. m \in acked /\ m \notin Unsettled
      BY <3>1, <3>2 DEF Effects
    <3>4. ~unsure[s]
      BY <3>1, <3>3 DEF Unsettled, Mine, InMem
    <3>5. Secret(s, m)
      BY <2>2, <3>1, <3>4 DEF Sealed
    <3> QED
      BY <3>3, <3>5 DEF Secret
  <2> QED
    BY <2>3, <2>4, <2>5, <2>6 DEF Own
<1>5. ASSUME NEW s \in Runtimes, s # r, ~slipped' PROVE Timely(s)'
  <2>1. /\ mem'[s] = mem[s] /\ job'[s] = job[s]
        /\ InBase(s)' = InBase(s) /\ InJob(s)' = InJob(s)
    BY <1>1, <1>5, Aside
  <2>2. Ahead(s) /\ Clear(s)
    BY <1>5 DEF Standing, Effects, Timely
  <2>3. Ahead(s)'
    <3>1. SUFFICES ASSUME mem[s].open
                   PROVE  /\ mem[s].base.rev <= File(mem[s].path)'.rev
                          /\ Depth(mem[s].path) < MaxDepth /\ Gone(mem[s].path)' \cap InBase(s) # {} =>
                               mem[s].base.rev < File(mem[s].path)'.rev
      BY <2>1 DEF Ahead
    <3>2. PICK p : p = mem[s].path
      OBVIOUS
    <3>3. PICK b : b = mem[s].base.rev
      OBVIOUS
    <3>4. PICK n : n = File(p).rev
      OBVIOUS
    <3>5. PICK k : k = File(p)'.rev
      OBVIOUS
    <3>6. b \in Nat /\ n \in Nat /\ k \in Nat
      <4>1. File(p) \in FileRecords
        BY FileIsRecord DEF IInv
      <4>2. File(p)' \in FileRecords
        <5>1. Types'
          BY DEF IInv
        <5>2. NoFile \in FileRecords
          BY DEF NoFile, FileRecords, Optional
        <5> QED
          BY <5>1, <5>2 DEF Types, File
      <4>3. mem[s] \in Sessions
        BY DEF IInv, Types
      <4> QED
        BY <3>3, <3>4, <3>5, <4>1, <4>2, <4>3 DEF FileRecords, Sessions, Bases
    <3>7. n <= k /\ (Gone(p)' = Gone(p) \/ n < k)
      BY <1>5, <3>4, <3>5 DEF Effects
    <3>8. b <= n /\ (Depth(p) < MaxDepth /\ Gone(p) \cap InBase(s) # {} => b < n)
      BY <2>2, <3>1, <3>2, <3>3, <3>4 DEF Ahead
    <3>9. b <= k /\ (Depth(p) < MaxDepth /\ Gone(p)' \cap InBase(s) # {} => b < k)
      BY <3>6, <3>7, <3>8
    <3> QED
      BY <2>1, <3>2, <3>3, <3>5, <3>9 DEF File, Gone
  <2>4. Clear(s)'
    <3>1. PICK p : p = job[s].path
      OBVIOUS
    <3>2. job[s].at \in {"log", "checkpoint", "branchCheckpoint"} => Gone(p)' = Gone(p)
      <4>1. SUFFICES ASSUME job[s].at \in {"log", "checkpoint", "branchCheckpoint"}, Holds(r, p) PROVE FALSE
        BY DEF Effects
      <4>2. Holds(s, p) /\ p \in Paths
        BY <3>1, <4>1, PathsAreShallow DEF Holds
      <4> QED
        BY <1>5, <4>1, <4>2 DEF IInv, Locked
    <3> QED
      BY <2>1, <2>2, <3>1, <3>2 DEF Clear
  <2> QED
    BY <2>3, <2>4 DEF Timely
<1> QED
  BY <1>2, <1>3, <1>4, <1>5 DEF Standing, Effects

\* A step that writes no file.
Quiet(r) ==
    /\ Others(r) /\ disk' = disk /\ gone' = gone /\ cut' = cut /\ acked' = acked
    /\ next' \in next..MaxMessages /\ (slipped => slipped')

LEMMA QuietIs ==
  ASSUME Standing, NEW r \in Runtimes, Quiet(r)
  PROVE  /\ \A q : /\ File(q)' = File(q) /\ Stored(q)' = Stored(q) /\ Gone(q)' = Gone(q)
                   /\ Exists(File(q))' = Exists(File(q))
         /\ CutFits' /\ (Stand => Stand')
<1>1. ASSUME NEW q PROVE File(q)' = File(q) /\ Gone(q)' = Gone(q)
  BY DEF Quiet, File, Gone
<1>2. ASSUME NEW q PROVE Stored(q)' = Stored(q) /\ Exists(File(q))' = Exists(File(q))
  BY <1>1 DEF Stored, Exists, Raw
<1>3. CutFits'
  BY DEF Quiet, Standing, CutFits, Written
<1>4. Stand => Stand'
  BY <1>1, <1>2 DEF Stand
<1> QED
  BY <1>1, <1>2, <1>3, <1>4

LEMMA QuietEffects ==
  ASSUME IInv, Standing, NEW r \in Runtimes, Quiet(r),
         \A m \in (Seen(r)' \cup InBase(r)') \cap Written :
            m \in Seen(r) \cup InBase(r) \cup (next + 1)..next' \/ \E p : m \in Stored(p),
         \A m \in Seen(r)' \cap Written :
            m \in Seen(r) \cup (next + 1)..next' \/ \E p : m \in Stored(p) /\ Waits(r, p)',
         \A p : Seen(r) # {} /\ Waits(r, p) /\ ~Free(p) => Waits(r, p)' \/ Seen(r)' = {}
  PROVE  Effects(r)
<1>1. /\ \A q : /\ File(q)' = File(q) /\ Stored(q)' = Stored(q) /\ Gone(q)' = Gone(q)
                /\ Exists(File(q))' = Exists(File(q))
      /\ CutFits'
  BY QuietIs
<1>2. Meek(r)
  BY <1>1 DEF Meek, Quiet
<1>3. \A q : /\ Stored(q)' \subseteq Stored(q) \cup InJob(r)
             /\ Exists(File(q)) => Exists(File(q))'
             /\ Gone(q)' \subseteq Gone(q) \cup ((acked \cap Written) \ Unsettled)
             /\ Gone(q)' = Gone(q) \/ (Holds(r, q) /\ Exists(File(q)))
  BY <1>1
<1>4. \A q : File(q).rev <= File(q)'.rev /\ (Gone(q)' = Gone(q) \/ File(q).rev < File(q)'.rev)
  <2>1. ASSUME NEW q PROVE File(q).rev \in Nat
    BY FileIsRecord DEF IInv, FileRecords
  <2> QED
    BY <1>1, <2>1
<1> QED
  BY <1>1, <1>2, <1>3, <1>4 DEF Effects, Quiet

-----------------------------------------------------------------------------
(* The turn. *)

LEMMA TurnStands ==
  ASSUME IInv, IInv', Standing, NEW r \in Runtimes, Quiet(r), mem[r].open, slipped' = slipped,
         mem'[r].open = mem[r].open, mem'[r].path = mem[r].path, mem'[r].base = mem[r].base,
         InMem(r)' \subseteq InMem(r) \cup (next + 1)..next', unsure'[r] = unsure[r],
         job'[r] = job[r] \/ (job[r].at = "idle" /\ job'[r].at = "save" /\ job'[r].path = job[r].path)
  PROVE  Standing'
<1>1. /\ InBase(r)' = InBase(r) /\ Saving(r)' = Saving(r)
      /\ \A q : Holds(r, q)' = Holds(r, q) /\ Waits(r, q)' = Waits(r, q)
  BY DEF InBase, Saving, Holds, Waits, Writing, Branching
<1>2. InJob(r)' = InJob(r)
  BY <1>1 DEF InJob, Saving, Writing, Branching
<1>3. Seen(r)' \subseteq Seen(r) \cup (next + 1)..next'
  BY <1>2 DEF Seen
<1>4. Effects(r)
  BY <1>1, <1>3, QuietEffects
<1>5. /\ \A q : /\ File(q)' = File(q) /\ Stored(q)' = Stored(q) /\ Gone(q)' = Gone(q)
                /\ Exists(File(q))' = Exists(File(q))
      /\ Stand => Stand'
  BY QuietIs
<1>6. Own(r) /\ Fresh /\ GoneFits /\ (~slipped => Stand /\ Timely(r)) /\ next \in Nat /\ next' \in Nat
  BY BoundsAssumption DEF Standing, Fresh, Quiet
<1>7. ASSUME NEW m \in Mine(r)' PROVE m \in Mine(r) \/ (m \in (next + 1)..next' /\ m \in Written)
  BY <1>1, <1>7 DEF Mine, Written
<1>8. ASSUME NEW m \in (next + 1)..next', m \in Written
      PROVE  m \notin acked /\ (\A q : m \notin Stored(q)) /\ (\A v \in Runtimes : m \notin Seen(v) \cup InBase(v))
  BY <1>6, <1>8 DEF Fresh
<1>9. Rooted(r)'
  BY <1>6 DEF Own, Rooted
<1>10. Carried(r)'
  <2>1. SUFFICES ASSUME Saving(r), NEW m \in InBase(r), m \in InMem(r)', m \in Written PROVE m \in InJob(r)
    BY <1>1, <1>2 DEF Carried, Written
  <2>2. m \in InMem(r)
    BY <1>8, <2>1
  <2> QED
    BY <1>6, <2>1, <2>2 DEF Own, Carried
<1>11. Sealed(r)'
  <2>1. SUFFICES ASSUME NEW m \in Mine(r)',
                        (~unsure[r] /\ job[r].at # "ledger") \/ (Saving(r) /\ m \notin InJob(r))
                 PROVE  Secret(r, m)'
    BY <1>1, <1>2 DEF Sealed
  <2>2. Secret(r, m)
    <3>1. CASE m \in Mine(r)
      BY <1>6, <2>1, <3>1 DEF Own, Sealed
    <3>2. CASE m \in (next + 1)..next' /\ m \in Written
      BY <1>8, <3>2 DEF Secret
    <3> QED
      BY <1>7, <3>1, <3>2
  <2>3. job'[r].path = job[r].path
    OBVIOUS
  <2>4. ASSUME NEW v \in Runtimes, v # r, m \in Seen(v)'
        PROVE  m \in InJob(r)' /\ Holds(r, job[r].path)' /\ Waits(v, job[r].path)'
    <3>1. /\ m \in Seen(v) /\ \A q : Waits(v, q)' = Waits(v, q)
      BY <2>4, Aside DEF Quiet
    <3>2. PICK l : l = job[r].path
      OBVIOUS
    <3>3. m \in InJob(r) /\ Holds(r, l) /\ Waits(v, l)
      BY <2>2, <2>4, <3>1, <3>2 DEF Secret
    <3>4. m \in InJob(r)' /\ Holds(r, l)' /\ Waits(v, l)' /\ job'[r].path = l
      BY <1>1, <1>2, <2>3, <3>1, <3>2, <3>3
    <3> QED
      BY <3>4 DEF Holds, Waits
  <2>5. m \notin acked' /\ \A q : m \in Stored(q)' => Holds(r, q)' /\ m \in InJob(r)'
    BY <1>1, <1>2, <1>5, <2>2 DEF Secret, Quiet
  <2> QED
    BY <2>4, <2>5 DEF Secret
<1>12. Spared(r)'
  <2>1. ASSUME job'[r].at # "ledger", NEW q, NEW m \in Mine(r)', m \in Gone(q) PROVE FALSE
    <3>1. m \in acked /\ job[r].at # "ledger"
      BY <1>6, <2>1 DEF GoneFits
    <3>2. m \in Mine(r)
      BY <1>7, <1>8, <3>1
    <3> QED
      BY <1>6, <2>1, <3>1, <3>2 DEF Own, Spared
  <2> QED
    BY <1>5, <2>1 DEF Spared
<1>13. ~slipped' => Timely(r)'
  <2>1. SUFFICES ASSUME Ahead(r), Clear(r) PROVE Ahead(r)' /\ Clear(r)'
    BY <1>6 DEF Timely
  <2>2. Ahead(r)'
    BY <1>1, <1>5, <2>1 DEF Ahead
  <2>3. Clear(r)'
    BY <1>2, <1>5, <2>1 DEF Clear
  <2> QED
    BY <2>2, <2>3
<1> QED
  BY <1>4, <1>5, <1>6, <1>9, <1>10, <1>11, <1>12, <1>13, StandingStep DEF Own

LEMMA ChangeStands ==
  ASSUME IInv, IInv', Standing, NEW r \in Runtimes, mem[r].open, NEW t \in Transcripts, NEW rewrite \in BOOLEAN,
         Change(r, t, rewrite), disk' = disk,
         job' = job \/ (job[r].at = "idle" /\ job' = [job EXCEPT ![r].at = "save", ![r].mode = "rewrite"]),
         unsure' = unsure, acked' = acked, gone' = gone, cut' = cut, slipped' = slipped,
         next' \in next..MaxMessages, Messages(t) \subseteq Messages(mem[r].msgs) \cup (next + 1)..next'
  PROVE  Standing'
<1>1. mem[r] \in Sessions /\ job[r] \in JobRecords /\ mem \in [Runtimes -> Sessions] /\ job \in [Runtimes -> JobRecords]
  BY DEF IInv, Types
<1>2. PICK m : m = [mem[r] EXCEPT !.msgs = t, !.ver = mem[r].ver + 1, !.rw = IF rewrite THEN mem[r].rw + 1 ELSE mem[r].rw]
  OBVIOUS
<1>3. m.msgs = t /\ m.path = mem[r].path /\ m.open = mem[r].open /\ m.base = mem[r].base
  BY <1>1, <1>2 DEF Sessions
<1>4. mem' = [mem EXCEPT ![r] = m]
  BY <1>1, <1>2 DEF Change
<1>5. mem'[r] = m /\ \A s \in Runtimes : s # r => mem'[s] = mem[s]
  BY <1>1, <1>4
<1>6. /\ job'[r] = job[r] \/ (job[r].at = "idle" /\ job'[r].at = "save" /\ job'[r].path = job[r].path)
      /\ \A s \in Runtimes : s # r => job'[s] = job[s]
  <2>1. CASE job' = job
    BY <2>1
  <2>2. CASE job[r].at = "idle" /\ job' = [job EXCEPT ![r].at = "save", ![r].mode = "rewrite"]
    <3>1. PICK k : k = [job[r] EXCEPT !.at = "save", !.mode = "rewrite"]
      OBVIOUS
    <3>2. k.at = "save" /\ k.path = job[r].path
      BY <1>1, <3>1 DEF JobRecords
    <3>3. job' = [job EXCEPT ![r] = k]
      BY <1>1, <2>2, <3>1
    <3> QED
      BY <1>1, <2>2, <3>2, <3>3
  <2> QED
    BY <2>1, <2>2
<1>7. Quiet(r)
  BY <1>5, <1>6 DEF Quiet, Others
<1>8. InMem(r)' \subseteq InMem(r) \cup (next + 1)..next'
  BY <1>3, <1>5 DEF InMem
<1> QED
  BY <1>3, <1>5, <1>6, <1>7, <1>8, TurnStands

LEMMA TurnsStand ==
  ASSUME IInv, IInv', Standing, NEW r \in Runtimes,
         Add(r) \/ Prune(r) \/ \E n \in 1..MaxMessages : Rewind(r, n) \/ CancelTurn(r, n)
  PROVE  Standing'
<1>1. PICK t : t = mem[r].msgs
  OBVIOUS
<1>2. t \in Transcripts /\ next \in 1..MaxMessages /\ MaxMessages \in Nat
  BY <1>1, BoundsAssumption DEF IInv, Types, Sessions, Standing, Fresh
<1>3. CASE Add(r)
  <2>1. next' = next + 1 /\ next < MaxMessages /\ mem[r].open /\ Change(r, Append(t, next'), FALSE)
        /\ disk' = disk /\ job' = job /\ unsure' = unsure /\ acked' = acked /\ gone' = gone /\ cut' = cut
        /\ slipped' = slipped
    BY <1>1, <1>3 DEF Add, ghosts
  <2>2. next' \in Nat /\ next' \in next..MaxMessages /\ (next + 1)..next' = {next'}
    BY <1>2, <2>1
  <2>3. Append(t, next') \in Transcripts
    BY <1>2, <2>2, AppendMessages
  <2>4. Messages(Append(t, next')) \subseteq Messages(t) \cup {next'}
    BY <1>2, <2>2, AppendAdds
  <2> QED
    BY <1>1, <2>1, <2>2, <2>3, <2>4, ChangeStands
<1>4. CASE Prune(r)
  <2>1. next' = next + 1 /\ next < MaxMessages /\ mem[r].open /\ t # << >> /\ Change(r, [t EXCEPT ![1] = next'], TRUE)
        /\ disk' = disk /\ job' = job /\ unsure' = unsure /\ acked' = acked /\ gone' = gone /\ cut' = cut
        /\ slipped' = slipped
    BY <1>1, <1>4 DEF Prune
  <2>2. next' \in Nat /\ next' \in next..MaxMessages /\ (next + 1)..next' = {next'}
    BY <1>2, <2>1
  <2>3. [t EXCEPT ![1] = next'] \in Transcripts
    BY <1>2, <2>1, <2>2, ReplaceMessages
  <2>4. Messages([t EXCEPT ![1] = next']) \subseteq Messages(t) \cup {next'}
    BY <1>2, <2>2, ReplaceAdds
  <2> QED
    BY <1>1, <2>1, <2>2, <2>3, <2>4, ChangeStands
<1>5. ASSUME NEW n \in 1..MaxMessages, Rewind(r, n) \/ CancelTurn(r, n) PROVE Standing'
  <2>1. n \in 1 .. (Len(t) - 1)
    BY <1>1, <1>5 DEF Rewind, CancelTurn, Boundaries
  <2>2. PICK u : u = SubSeq(t, 1, n)
    OBVIOUS
  <2>3. u \in Transcripts /\ Messages(u) \subseteq Messages(t)
    BY <1>2, <2>1, <2>2, CutAdds
  <2>4. next' = next /\ mem[r].open /\ (Change(r, u, TRUE) \/ Change(r, u, FALSE))
        /\ disk' = disk /\ unsure' = unsure /\ acked' = acked /\ gone' = gone /\ cut' = cut /\ slipped' = slipped
    BY <1>1, <1>5, <2>2 DEF Rewind, CancelTurn
  <2>5. job' = job \/ (job[r].at = "idle" /\ job' = [job EXCEPT ![r].at = "save", ![r].mode = "rewrite"])
    BY <1>5 DEF Rewind, CancelTurn
  <2>6. next' \in next..MaxMessages
    BY <1>2, <2>4
  <2> QED
    BY <1>1, <1>2, <2>3, <2>4, <2>5, <2>6, ChangeStands
<1> QED
  BY <1>3, <1>4, <1>5

-----------------------------------------------------------------------------
(* Loading. *)

LEMMA ReadTranscriptStands ==
  ASSUME IInv, IInv', Standing, NEW r \in Runtimes, NEW p \in DOMAIN disk, ReadTranscript(r, p),
         job[r].at = "conflict" \/ (job[r].at = "idle" /\ ~mem[r].open)
  PROVE  Standing'
<1>1. /\ disk' = disk /\ mem' = mem /\ next' = next /\ acked' = acked /\ gone' = gone /\ cut' = cut
      /\ slipped' = slipped /\ unsure' = [unsure EXCEPT ![r] = FALSE] /\ Exists(File(p))
  BY DEF ReadTranscript, bounds
<1>2. PICK t : t = Loaded(File(p))
  OBVIOUS
<1>3. PICK j : j = [job[r] EXCEPT !.at = "ledger", !.path = p, !.msgs = t]
  OBVIOUS
<1>4. j.at = "ledger" /\ j.path = p /\ j.msgs = t
  BY <1>3 DEF IInv, Types, JobRecords
<1>5. job' = [job EXCEPT ![r] = j]
  BY <1>2, <1>3 DEF ReadTranscript, IInv, Types
<1>6. job'[r] = j /\ unsure'[r] = FALSE /\ Others(r)
  BY <1>1, <1>5 DEF IInv, Types, Others
<1>7. Quiet(r) /\ Own(r) /\ Fresh /\ (~slipped => Stand /\ Timely(r))
  BY <1>1, <1>6, BoundsAssumption DEF Quiet, Standing, Fresh
<1>8. InJob(r) = {} /\ InMem(r)' = InMem(r) /\ InBase(r)' = InBase(r) /\ ~Saving(r)' /\ InJob(r)' = Messages(t)
  BY <1>1, <1>4, <1>6 DEF InJob, Saving, InMem, InBase, Writing, Branching
<1>9. Messages(t) \cap Written \subseteq Stored(p)
  BY <1>1, <1>2, FileIsRecord, LoadsOnly DEF IInv, Stored
<1>10. Waits(r, p)'
  BY <1>4, <1>6 DEF Waits
<1>11. ASSUME NEW q, Seen(r) # {}, Waits(r, q) PROVE FALSE
  <2>1. mem[r].msgs # << >>
    BY <1>8, <1>11 DEF Seen, InMem, Messages
  <2>2. mem[r].open
    BY <1>7, <2>1 DEF Own, Rooted, Closed
  <2> QED
    BY <1>11, <2>2 DEF Waits
<1>12. Effects(r)
  BY <1>7, <1>8, <1>9, <1>10, <1>11, QuietEffects DEF Seen
<1>13. Own(r)'
  <2>1. Rooted(r)'
    BY <1>1, <1>4, <1>6, <1>7 DEF Own, Rooted
  <2>2. Carried(r)' /\ Sealed(r)' /\ Spared(r)'
    BY <1>4, <1>6, <1>8 DEF Carried, Sealed, Spared
  <2> QED
    BY <2>1, <2>2 DEF Own
<1>14. /\ \A q : File(q)' = File(q) /\ Gone(q)' = Gone(q)
       /\ Stand => Stand'
  BY <1>7, QuietIs
<1>15. ~slipped' => Timely(r)'
  <2>1. SUFFICES ASSUME Ahead(r) PROVE Ahead(r)' /\ Clear(r)'
    BY <1>1, <1>7 DEF Timely
  <2>2. Ahead(r)'
    BY <1>1, <1>8, <1>14, <2>1 DEF Ahead
  <2>3. Clear(r)'
    BY <1>4, <1>6 DEF Clear
  <2> QED
    BY <2>2, <2>3
<1> QED
  BY <1>1, <1>7, <1>12, <1>13, <1>14, <1>15, StandingStep

LEMMA ReadLedgerStands ==
  ASSUME IInv, IInv', Standing, NEW r \in Runtimes, ReadLedger(r)
  PROVE  Standing'
<1>1. /\ disk' = disk /\ next' = next /\ acked' = acked /\ gone' = gone /\ cut' = cut
      /\ slipped' = (slipped \/ foreign[r]) /\ unsure' = unsure /\ job[r].at = "ledger"
  BY DEF ReadLedger, bounds
<1>2. PICK p : p = job[r].path
  OBVIOUS
<1>3. PICK t : t = job[r].msgs
  OBVIOUS
<1>4. PICK b : b = [path |-> p, digest |-> t, ver |-> 0, rev |-> File(p).rev, verified |-> FALSE]
  OBVIOUS
<1>5. PICK m : m = [open |-> TRUE, path |-> p, msgs |-> t, ver |-> 0, rw |-> 0, savedRw |-> 0, base |-> b]
  OBVIOUS
<1>6. mem' = [mem EXCEPT ![r] = m]
  BY <1>2, <1>3, <1>4, <1>5 DEF ReadLedger
<1>7. PICK j : j = IF job[r].meta THEN [Idle EXCEPT !.at = "meta", !.path = p] ELSE Idle
  OBVIOUS
<1>8. j.at \in {"idle", "meta"}
  BY <1>7 DEF Idle
<1>9. job' = [job EXCEPT ![r] = j]
  BY <1>2, <1>7 DEF ReadLedger, Finish
<1>10. mem'[r] = m /\ job'[r] = j /\ Others(r)
  BY <1>1, <1>6, <1>9 DEF IInv, Types, Others
<1>11. Quiet(r) /\ GoneFits /\ (~slipped => Stand)
  <2>1. slipped => slipped'
    BY <1>1, Zenon
  <2>2. next' \in next..MaxMessages
    BY <1>1, BoundsAssumption DEF Standing, Fresh
  <2> QED
    BY <1>1, <1>10, <2>1, <2>2 DEF Quiet, Standing
<1>12. /\ InJob(r) = Messages(t) /\ InJob(r)' = {} /\ InMem(r)' = Messages(t) /\ InBase(r)' = Messages(t)
       /\ ~Saving(r)' /\ mem'[r].path = p /\ mem'[r].base.path = p /\ mem'[r].open /\ mem'[r].base.rev = File(p).rev
  BY <1>1, <1>3, <1>4, <1>5, <1>8, <1>10 DEF InJob, Saving, InMem, InBase, Writing, Branching
<1>13. \A q : Waits(r, q) => Waits(r, q)'
  BY <1>1, <1>2, <1>8, <1>10, <1>12 DEF Waits
<1>14. Effects(r)
  BY <1>11, <1>12, <1>13, QuietEffects DEF Seen
<1>15. Mine(r)' = {}
  BY <1>12 DEF Mine
<1>16. Own(r)'
  BY <1>8, <1>10, <1>12, <1>15 DEF Own, Rooted, Carried, Sealed, Spared
<1>17. /\ \A q : File(q)' = File(q) /\ Gone(q)' = Gone(q)
       /\ Stand => Stand'
  BY <1>11, QuietIs
<1>18. ASSUME ~slipped' PROVE Timely(r)'
  <2>1. Exists(File(p)) /\ t = Loaded(File(p)) /\ Stand
    BY <1>1, <1>2, <1>3, <1>11, <1>18 DEF IInv, Orderly, Current
  <2>2. Messages(t) \cap Written \subseteq Stored(p)
    BY <2>1, FileIsRecord, LoadsOnly DEF IInv, Stored
  <2>3. Depth(p) < MaxDepth => Gone(p) \cap Messages(t) = {}
    BY <1>11, <2>1, <2>2 DEF Stand, GoneFits
  <2>4. File(p).rev \in Nat
    BY FileIsRecord DEF IInv, FileRecords
  <2>5. PICK k : k = File(p).rev
    OBVIOUS
  <2>6. mem'[r].base.rev = k /\ File(p)'.rev = k /\ k \in Nat
    BY <1>12, <1>17, <2>4, <2>5
  <2>7. Gone(p)' = Gone(p)
    BY <1>17
  <2>8. Ahead(r)'
    BY <1>12, <2>3, <2>6, <2>7 DEF Ahead, File, Gone
  <2>9. Clear(r)'
    BY <1>8, <1>10 DEF Clear
  <2> QED
    BY <2>8, <2>9 DEF Timely
<1> QED
  BY <1>1, <1>11, <1>14, <1>16, <1>17, <1>18, StandingStep

-----------------------------------------------------------------------------
(* Steps that leave what is stored, and the steps of a save. *)

\* What a write takes out was a written message.
LEMMA CutStays ==
  ASSUME CutFits, NEW p, NEW f
  PROVE  /\ Cut(p, f)[p] \subseteq Written
         /\ Exists(f) => Cut(p, f)[p] \cap Messages(Raw(f)) = {}
         /\ cut' = Cut(p, f) => CutFits'
<1>1. PICK a : a = IF Exists(File(p)) THEN Messages(Raw(File(p))) \cap Written ELSE {}
  OBVIOUS
<1>2. PICK o : o = IF p \in DOMAIN cut THEN cut[p] ELSE {}
  OBVIOUS
<1>3. PICK n : n = IF Exists(f) THEN Messages(Raw(f)) \cap Written ELSE {}
  OBVIOUS
<1>4. a \subseteq Written /\ o \subseteq Written
  BY <1>1, <1>2 DEF CutFits
<1>5. Cut(p, f) = [q \in DOMAIN cut \cup {p} |-> IF q = p THEN (o \cup a) \ n ELSE cut[q]]
  BY <1>1, <1>2, <1>3 DEF Cut
<1>6. Cut(p, f)[p] = (o \cup a) \ n
  BY <1>5
<1>7. \A q \in DOMAIN Cut(p, f) : Cut(p, f)[q] \subseteq Written
  BY <1>4, <1>5 DEF CutFits
<1> QED
  BY <1>3, <1>4, <1>6, <1>7 DEF CutFits, Written

\* A step of r between two saves, that sees what is stored and leaves it so.
Passing(r) ==
    /\ Others(r) /\ CutFits' /\ mem'[r] = mem[r] /\ unsure'[r] = unsure[r]
    /\ acked' = acked /\ gone' = gone /\ next' = next /\ (slipped => slipped')
    /\ \A q : Raw(File(q)') = Raw(File(q))
    /\ ~Saving(r) /\ job[r].at # "ledger" /\ job'[r].at # "ledger"
    /\ Saving(r)' => job'[r].msgs = mem[r].msgs
    /\ job'[r].at \in Between \/ job[r].at \notin Between \/ Free(mem[r].path)
    /\ job'[r].at = "force" => Depth(job'[r].path) >= MaxDepth
    /\ ~slipped' => Clear(r)' /\ \A q : File(q).rev <= File(q)'.rev

LEMMA PassStands ==
  ASSUME IInv, IInv', Standing, NEW r \in Runtimes, Passing(r)
  PROVE  Standing'
<1>1. \A q : Stored(q)' = Stored(q) /\ Exists(File(q))' = Exists(File(q)) /\ Gone(q)' = Gone(q)
  BY DEF Passing, Stored, Exists, Raw, Gone
<1>2. Own(r) /\ (~slipped => Stand /\ Timely(r)) /\ next \in 1..MaxMessages /\ MaxMessages \in Nat
  BY BoundsAssumption DEF Standing, Fresh
<1>3. /\ InJob(r) = {} /\ InMem(r)' = InMem(r) /\ InBase(r)' = InBase(r) /\ Mine(r)' = Mine(r)
  BY DEF Passing, InJob, InMem, InBase, Mine, Written
<1>4. Saving(r)' => InJob(r)' = InMem(r)
  BY DEF Passing, InJob, InMem, Saving
<1>5. ~Saving(r)' => InJob(r)' = {}
  BY DEF Passing, InJob, Saving
<1>6. Seen(r)' = Seen(r)
  BY <1>3, <1>4, <1>5 DEF Seen
<1>7. Meek(r)
  <2>1. ASSUME NEW p, Waits(r, p), ~Free(p) PROVE Waits(r, p)'
    BY <2>1 DEF Waits, Passing, Between
  <2> QED
    BY <1>1, <2>1 DEF Meek, Passing
<1>8. Effects(r)
  BY <1>1, <1>2, <1>3, <1>6, <1>7 DEF Effects, Passing
<1>9. Rooted(r)' /\ Carried(r)'
  BY <1>2, <1>3, <1>4 DEF Own, Rooted, Carried, Passing
<1>10. Sealed(r)'
  <2>1. SUFFICES ASSUME NEW m \in Mine(r), (~unsure[r] /\ job'[r].at # "ledger") \/ (Saving(r)' /\ m \notin InJob(r)')
                 PROVE  Secret(r, m)'
    BY <1>3 DEF Sealed, Passing
  <2>2. Secret(r, m)
    BY <1>2, <1>4, <2>1 DEF Own, Sealed, Passing, Mine
  <2>3. m \notin acked' /\ \A q : m \notin Stored(q)'
    BY <1>1, <1>3, <2>2 DEF Secret, Passing
  <2>4. ASSUME NEW v \in Runtimes, v # r PROVE m \notin Seen(v)'
    BY <1>3, <2>2, <2>4, Aside DEF Secret, Passing
  <2> QED
    BY <2>3, <2>4 DEF Secret
<1>11. Spared(r)'
  BY <1>1, <1>2, <1>3 DEF Own, Spared, Passing
<1>12. ASSUME ~slipped' PROVE Stand' /\ Timely(r)'
  <2>1. Stand /\ Ahead(r) /\ ~slipped
    BY <1>2, <1>12 DEF Timely, Passing
  <2>2. Stand'
    BY <1>1, <2>1 DEF Stand
  <2>3. Ahead(r)'
    <3>1. PICK p : p = mem[r].path
      OBVIOUS
    <3>2. PICK b : b = mem[r].base.rev
      OBVIOUS
    <3>3. b \in Nat /\ File(p).rev \in Nat /\ File(p)'.rev \in Nat
      <4>1. mem[r] \in Sessions /\ File(p) \in FileRecords
        BY FileIsRecord DEF IInv, Types
      <4>2. File(p)' \in FileRecords
        <5>1. Types'
          BY DEF IInv
        <5>2. NoFile \in FileRecords
          BY DEF NoFile, FileRecords, Optional
        <5> QED
          BY <5>1, <5>2 DEF Types, File
      <4> QED
        BY <3>2, <4>1, <4>2 DEF Sessions, Bases, FileRecords
    <3>4. File(p).rev <= File(p)'.rev /\ Gone(p)' = Gone(p)
      BY <1>1, <1>12 DEF Passing
    <3>5. mem[r].open => b <= File(p).rev /\ (Depth(p) < MaxDepth /\ Gone(p) \cap InBase(r) # {} => b < File(p).rev)
      BY <2>1, <3>1, <3>2 DEF Ahead
    <3>6. mem[r].open => b <= File(p)'.rev /\ (Depth(p) < MaxDepth /\ Gone(p)' \cap InBase(r) # {} => b < File(p)'.rev)
      BY <3>3, <3>4, <3>5
    <3>7. mem'[r] = mem[r]
      BY DEF Passing
    <3> QED
      BY <1>3, <3>1, <3>2, <3>6, <3>7 DEF Ahead, File, Gone
  <2> QED
    BY <1>12, <2>2, <2>3 DEF Timely, Passing
<1> QED
  BY <1>8, <1>9, <1>10, <1>11, <1>12, StandingStep DEF Own

\* A write of r to the path of its save: of what is there, or of its own transcript.
Stores(r, p, f) ==
    /\ Others(r) /\ CutFits' /\ p = job[r].path
    /\ File(p)' = f /\ \A q : q # p => File(q)' = File(q)
    /\ acked' = acked /\ gone' = gone /\ next' = next /\ slipped' = slipped
    /\ f.rev = File(p).rev
    /\ \/ Raw(f) = Raw(File(p))
       \/ /\ Raw(f) = job[r].msgs /\ job[r].msgs \in Transcripts /\ Holds(r, p)
          /\ ~slipped /\ Depth(p) < MaxDepth => Gone(p) \cap InJob(r) = {}

LEMMA StoresIs ==
  ASSUME IInv, Standing, NEW r \in Runtimes, NEW p, NEW f, Stores(r, p, f)
  PROVE  /\ \A q : Gone(q)' = Gone(q) /\ File(q)'.rev = File(q).rev /\ File(q).rev \in Nat
         /\ \A q : Exists(File(q)) => Exists(File(q))'
         /\ \A q, m : m \in Stored(q)' => m \in Stored(q) \/ (Holds(r, q) /\ m \in InJob(r))
         /\ ~slipped' => Stand'
<1>1. \A q : Gone(q)' = Gone(q) /\ File(q)'.rev = File(q).rev /\ File(q).rev \in Nat
  <2>1. ASSUME NEW q PROVE Gone(q)' = Gone(q) /\ File(q)'.rev = File(q).rev /\ File(q).rev \in Nat
    <3>1. File(q).rev \in Nat
      BY FileIsRecord DEF IInv, FileRecords
    <3>2. Gone(q)' = Gone(q)
      BY DEF Stores, Gone
    <3>3. File(q)'.rev = File(q).rev
      <4>1. CASE q = p
        BY <4>1 DEF Stores
      <4>2. CASE q # p
        BY <4>2 DEF Stores
      <4> QED
        BY <4>1, <4>2
    <3> QED
      BY <3>1, <3>2, <3>3
  <2> QED
    BY <2>1
<1>2. ASSUME NEW q
      PROVE  \/ Raw(File(q))' = Raw(File(q))
             \/ /\ Raw(File(q))' = job[r].msgs /\ job[r].msgs \in Transcripts /\ Holds(r, q)
                /\ ~slipped /\ Depth(q) < MaxDepth => Gone(q) \cap InJob(r) = {}
  <2>1. CASE q = p
    <3>1. Raw(File(q))' = Raw(f)
      BY <2>1 DEF Stores, Raw
    <3> QED
      BY <2>1, <3>1 DEF Stores
  <2>2. CASE q # p
    BY <2>2 DEF Stores, Raw
  <2> QED
    BY <2>1, <2>2
<1>3. \A q : Holds(r, q) => InJob(r) = Messages(job[r].msgs)
  BY DEF Holds, InJob, Saving, Writing, Branching
<1>4. ASSUME NEW q
      PROVE  \/ Stored(q)' = Stored(q) /\ Exists(File(q))' = Exists(File(q))
             \/ /\ Stored(q)' = InJob(r) /\ Exists(File(q))' /\ Holds(r, q)
                /\ ~slipped /\ Depth(q) < MaxDepth => Gone(q) \cap InJob(r) = {}
  <2>1. CASE Raw(File(q))' = Raw(File(q))
    BY <2>1 DEF Stored, Exists
  <2>2. CASE /\ Raw(File(q))' = job[r].msgs /\ job[r].msgs \in Transcripts /\ Holds(r, q)
             /\ ~slipped /\ Depth(q) < MaxDepth => Gone(q) \cap InJob(r) = {}
    <3>1. Exists(File(q))'
      BY <2>2, NothingIsApart DEF Exists
    <3>2. Stored(q)' = InJob(r)
      BY <1>3, <2>2, <3>1 DEF Stored
    <3> QED
      BY <2>2, <3>1, <3>2
  <2> QED
    BY <1>2, <2>1, <2>2
<1>5. ~slipped' => Stand'
  <2>1. SUFFICES ASSUME ~slipped, NEW q, Depth(q) < MaxDepth PROVE Gone(q) \cap Stored(q)' = {}
    BY <1>1 DEF Stores, Stand
  <2>2. Gone(q) \cap Stored(q) = {}
    BY <2>1 DEF Standing, Stand
  <2> QED
    BY <1>4, <2>1, <2>2
<1> QED
  BY <1>1, <1>4, <1>5

LEMMA StoresEffects ==
  ASSUME IInv, Standing, NEW r \in Runtimes, NEW p, NEW f, Stores(r, p, f),
         Seen(r)' \subseteq Seen(r), InBase(r)' \subseteq InBase(r), Saving(r) \/ Seen(r)' = {}
  PROVE  Effects(r)
<1>1. /\ \A q : Gone(q)' = Gone(q) /\ File(q)'.rev = File(q).rev /\ File(q).rev \in Nat
      /\ \A q : Exists(File(q)) => Exists(File(q))'
      /\ \A q, m : m \in Stored(q)' => m \in Stored(q) \/ (Holds(r, q) /\ m \in InJob(r))
  BY StoresIs
<1>2. next' \in next..MaxMessages
  BY BoundsAssumption DEF Standing, Fresh, Stores
<1>3. Meek(r)
  <2>1. ASSUME Saving(r), NEW q PROVE ~Waits(r, q)
    BY <2>1 DEF Saving, Waits, Writing, Branching
  <2>2. CASE Saving(r)
    BY <2>1, <2>2 DEF Meek
  <2>3. CASE Seen(r)' = {} /\ ~Saving(r)
    <3>1. ASSUME NEW q PROVE Stored(q)' = Stored(q)
      <4>1. ~Holds(r, p)
        BY <2>3 DEF Holds, Saving, Writing, Branching
      <4>2. Raw(File(q))' = Raw(File(q))
        <5>1. CASE q = p
          BY <4>1, <5>1 DEF Stores, Raw
        <5>2. CASE q # p
          BY <5>2 DEF Stores, Raw
        <5> QED
          BY <5>1, <5>2
      <4> QED
        BY <4>2 DEF Stored, Exists
    <3> QED
      BY <2>3, <3>1 DEF Meek, Stores
  <2> QED
    BY <2>2, <2>3
<1>4. \A q : File(q).rev <= File(q)'.rev
  BY <1>1
<1> QED
  BY <1>1, <1>2, <1>3, <1>4 DEF Effects, Stores

\* A step of a save to the next.
LEMMA AdvanceStands ==
  ASSUME IInv, IInv', Standing, NEW r \in Runtimes, NEW p, NEW f, Stores(r, p, f),
         mem'[r] = mem[r], unsure'[r] = unsure[r], Saving(r), Saving(r)', Holds(r, p)',
         job'[r].msgs = job[r].msgs, job'[r].path = p,
         job'[r].at \in {"log", "checkpoint", "branchCheckpoint"} /\ ~slipped /\ Depth(p) < MaxDepth =>
             Gone(p) \cap InJob(r) = {}
  PROVE  Standing'
<1>1. /\ InMem(r)' = InMem(r) /\ InBase(r)' = InBase(r) /\ InJob(r)' = InJob(r)
      /\ Seen(r)' = Seen(r) /\ Mine(r)' = Mine(r)
  <2>1. InMem(r)' = InMem(r) /\ InBase(r)' = InBase(r) /\ InJob(r)' = InJob(r)
    BY DEF InMem, InBase, InJob, Saving
  <2> QED
    BY <2>1 DEF Seen, Mine, Written
<1>2. Effects(r)
  BY <1>1, StoresEffects
<1>3. /\ \A q : Gone(q)' = Gone(q) /\ File(q)'.rev = File(q).rev
      /\ \A q, m : m \in Stored(q)' => m \in Stored(q) \/ (Holds(r, q) /\ m \in InJob(r))
      /\ ~slipped' => Stand'
  BY StoresIs
<1>4. Own(r) /\ (~slipped => Ahead(r)) /\ p = job[r].path /\ job[r].at # "ledger" /\ job'[r].at \notin {"ledger", "force"}
      /\ slipped' = slipped /\ acked' = acked /\ Others(r)
  BY DEF Standing, Timely, Stores, Saving, Writing, Branching
<1>5. Rooted(r)' /\ Carried(r)' /\ Spared(r)'
  BY <1>1, <1>3, <1>4 DEF Own, Rooted, Carried, Spared, Written
<1>6. Sealed(r)'
  <2>1. SUFFICES ASSUME NEW m \in Mine(r), ~unsure[r] \/ m \notin InJob(r) PROVE Secret(r, m)'
    BY <1>1, <1>4 DEF Sealed
  <2>2. Secret(r, m)
    BY <1>4, <2>1 DEF Own, Sealed
  <2>3. \A q : Holds(r, q) => Holds(r, q)'
    BY <1>4 DEF Holds
  <2>4. m \notin acked' /\ \A q : m \in Stored(q)' => Holds(r, q)' /\ m \in InJob(r)'
    BY <1>1, <1>3, <1>4, <2>2, <2>3 DEF Secret
  <2>5. ASSUME NEW v \in Runtimes, v # r, m \in Seen(v)'
        PROVE  m \in InJob(r)' /\ Holds(r, job[r].path)' /\ Waits(v, job[r].path)'
    <3>1. m \in Seen(v) /\ \A q : Waits(v, q)' = Waits(v, q)
      BY <1>4, <2>5, Aside
    <3>2. m \in InJob(r)' /\ Holds(r, p)' /\ Waits(v, p)' /\ job'[r].path = p
      BY <1>1, <1>4, <2>2, <2>5, <3>1 DEF Secret
    <3> QED
      BY <3>2 DEF Holds, Waits
  <2> QED
    BY <2>4, <2>5 DEF Secret
<1>7. ~slipped' => Timely(r)'
  <2>1. SUFFICES ASSUME ~slipped, Ahead(r) PROVE Ahead(r)' /\ Clear(r)'
    BY <1>4 DEF Timely
  <2>2. Ahead(r)'
    BY <1>1, <1>3, <2>1 DEF Ahead, File, Gone
  <2>3. Clear(r)'
    <3>1. Gone(p)' = Gone(p)
      BY <1>3
    <3> QED
      BY <1>1, <1>4, <2>1, <3>1 DEF Clear, Gone
  <2> QED
    BY <2>2, <2>3
<1> QED
  BY <1>2, <1>3, <1>5, <1>6, <1>7, StandingStep DEF Own

\* Before its last write a save holds nothing that is gone from its path.
LEMMA Rightful ==
  ASSUME IInv, Standing, ForksApart, NEW r \in Runtimes, NEW p, p = job[r].path,
         job[r].at \in {"log", "checkpoint", "branchLog", "branchCheckpoint"}
  PROVE  /\ job[r].msgs \in Transcripts /\ Holds(r, p) /\ p \in Paths /\ Saving(r)
         /\ ~slipped /\ Depth(p) < MaxDepth => Gone(p) \cap InJob(r) = {}
<1>1. Holds(r, p) /\ Saving(r) /\ p \in Paths /\ InJob(r) = Messages(job[r].msgs)
  BY PathsAreShallow DEF Holds, Saving, Writing, Branching, InJob
<1>2. job[r].msgs \in Transcripts
  BY DEF IInv, Orderly, Placed
<1>3. ASSUME ~slipped, Depth(p) < MaxDepth PROVE Gone(p) \cap InJob(r) = {}
  <2>1. Stand /\ Clear(r) /\ GoneFits
    BY <1>3 DEF Standing, Timely
  <2>2. CASE job[r].at = "branchLog"
    <3>1. Raw(File(p)) \in {Nothing, job[r].msgs}
      BY <2>2 DEF ForksApart
    <3>2. CASE Raw(File(p)) = Nothing
      BY <2>1, <3>2 DEF GoneFits, Exists
    <3>3. CASE Raw(File(p)) = job[r].msgs
      <4>1. Stored(p) = InJob(r)
        BY <1>1, <1>2, <3>3, NothingIsApart DEF Stored, Exists
      <4> QED
        BY <1>3, <2>1, <4>1 DEF Stand
    <3> QED
      BY <3>1, <3>2, <3>3
  <2>3. CASE job[r].at # "branchLog"
    BY <1>3, <2>1, <2>3 DEF Clear
  <2> QED
    BY <2>2, <2>3
<1> QED
  BY <1>1, <1>2, <1>3

LEMMA WriteStores ==
  ASSUME IInv, Standing, ForksApart, NEW r \in Runtimes, NEW p, p = job[r].path, Holds(r, p),
         NEW f \in FileRecords, Write(r, p, f), Others(r),
         acked' = acked, gone' = gone, next' = next, slipped' = slipped, f.rev = File(p).rev,
         \/ Raw(f) = Raw(File(p))
         \/ Raw(f) = job[r].msgs /\ job[r].at \in {"log", "checkpoint", "branchLog", "branchCheckpoint"}
  PROVE  Stores(r, p, f)
<1>1. p \in Paths
  BY PathsAreShallow DEF Holds
<1>2. File(p)' = f /\ \A q : q # p => File(q)' = File(q)
  BY <1>1, PutFile DEF Write, IInv
<1>3. CutFits'
  BY CutStays DEF Write, Standing
<1>4. \/ Raw(f) = Raw(File(p))
      \/ /\ Raw(f) = job[r].msgs /\ job[r].msgs \in Transcripts /\ Holds(r, p)
         /\ ~slipped /\ Depth(p) < MaxDepth => Gone(p) \cap InJob(r) = {}
  BY Rightful
<1> QED
  BY <1>2, <1>3, <1>4 DEF Stores

\* A save writes and goes on.
LEMMA GoesOnStands ==
  ASSUME IInv, IInv', Standing, ForksApart, NEW r \in Runtimes, NEW p, p = job[r].path,
         job[r].at \in {"log", "checkpoint", "branchLog", "branchCheckpoint"},
         NEW f \in FileRecords, Write(r, p, f), mem' = mem, next' = next, acked' = acked, gone' = gone,
         unsure' = unsure, slipped' = slipped, f.rev = File(p).rev,
         Raw(f) = Raw(File(p)) \/ Raw(f) = job[r].msgs,
         NEW j \in JobRecords, job' = [job EXCEPT ![r] = j], j.path = p, j.msgs = job[r].msgs,
         j.at \in {"checkpoint", "record", "branchCheckpoint", "branchMeta"}
  PROVE  Standing'
<1>1. job'[r] = j /\ \A s \in Runtimes : s # r => job'[s] = job[s]
  BY Moved DEF IInv
<1>2. Others(r)
  BY <1>1 DEF Others
<1>3. /\ Holds(r, p) /\ p \in Paths /\ Saving(r)
      /\ ~slipped /\ Depth(p) < MaxDepth => Gone(p) \cap InJob(r) = {}
  BY Rightful
<1>4. Stores(r, p, f)
  BY <1>2, <1>3, WriteStores
<1>5. Saving(r)' /\ Holds(r, p)'
  BY <1>1 DEF Saving, Holds, Writing, Branching
<1>6. mem'[r] = mem[r] /\ unsure'[r] = unsure[r] /\ job'[r].msgs = job[r].msgs /\ job'[r].path = p
  BY <1>1
<1> QED
  BY <1>3, <1>4, <1>5, <1>6, AdvanceStands

LEMMA WriteLogStands ==
  ASSUME IInv, IInv', Standing, ForksApart, NEW r \in Runtimes, WriteLog(r)
  PROVE  Standing'
<1>1. PICK p : p = job[r].path
  OBVIOUS
<1>2. PICK a : a = IF job[r].shape = "append" THEN "record" ELSE "checkpoint"
  OBVIOUS
<1>3. PICK g \in LogWrites(job[r], File(p)) :
        /\ Write(r, p, g)
        /\ job' = [job EXCEPT ![r].at = a, ![r].shape = "none", ![r].from = 0]
  BY <1>1, <1>2 DEF WriteLog
<1>4. /\ job[r].at = "log" /\ mem' = mem /\ next' = next /\ acked' = acked
      /\ gone' = gone /\ unsure' = unsure /\ slipped' = slipped
  BY DEF WriteLog, bounds
<1>5. PICK t : t = job[r].msgs
  OBVIOUS
<1>6. File(p) \in FileRecords /\ job[r] \in JobRecords /\ t \in Transcripts /\ t # Nothing
  BY <1>4, <1>5, FileIsRecord, NothingIsApart DEF IInv, Types, Orderly, Placed
<1>7. /\ ~File(p).torn
      /\ job[r].shape = "append" =>
            Exists(File(p)) /\ IsPrefix(Raw(File(p)), t) /\ job[r].from = Len(Raw(File(p)))
  BY <1>1, <1>4, <1>5 DEF IInv, Orderly, Stage
<1>8. g \in FileRecords /\ (g.log = File(p).log \/ g.log = t) /\ g.checkpoint = File(p).checkpoint /\ g.rev = File(p).rev
  BY <1>3, <1>5, <1>6, <1>7, LogWritesAre DEF LogTorn
<1>9. Raw(g) = Raw(File(p)) \/ Raw(g) = t
  BY <1>6, <1>8 DEF Raw
<1>10. PICK j : j = [job[r] EXCEPT !.at = a, !.shape = "none", !.from = 0]
  OBVIOUS
<1>11. j \in JobRecords /\ j.at = a /\ j.path = p /\ j.msgs = t /\ a \in {"checkpoint", "record"}
  BY <1>1, <1>2, <1>5, <1>6, <1>10 DEF JobRecords, Steps, Writing
<1>12. job' = [job EXCEPT ![r] = j]
  BY <1>3, <1>10 DEF IInv, Types
<1>13. /\ p = job[r].path /\ job[r].at \in {"log", "checkpoint", "branchLog", "branchCheckpoint"}
       /\ Write(r, p, g) /\ j.msgs = job[r].msgs /\ j.at \in {"checkpoint", "record", "branchCheckpoint", "branchMeta"}
       /\ Raw(g) = Raw(File(p)) \/ Raw(g) = job[r].msgs
  BY <1>1, <1>3, <1>4, <1>5, <1>9, <1>11
<1> QED
  BY <1>4, <1>8, <1>11, <1>12, <1>13, GoesOnStands

\* So do the writes of a checkpoint and of a branch.
LEMMA OtherWritesStand ==
  ASSUME IInv, IInv', Standing, ForksApart, NEW r \in Runtimes,
         WriteCheckpoint(r) \/ WriteBranchLog(r) \/ WriteBranchCheckpoint(r)
  PROVE  Standing'
<1>1. PICK p : p = job[r].path
  OBVIOUS
<1>2. PICK t : t = job[r].msgs
  OBVIOUS
<1>3. job[r].at \in {"checkpoint", "branchLog", "branchCheckpoint"}
  BY DEF WriteCheckpoint, WriteBranchLog, WriteBranchCheckpoint
<1>4. PICK g : g = IF job[r].at = "branchLog" THEN LogReplace(File(p), t) ELSE [File(p) EXCEPT !.checkpoint = t]
  OBVIOUS
<1>5. PICK a : a = CASE job[r].at = "checkpoint" -> "record" [] job[r].at = "branchLog" -> "branchCheckpoint"
                     [] job[r].at = "branchCheckpoint" -> "branchMeta"
  OBVIOUS
<1>6. /\ mem' = mem /\ next' = next /\ acked' = acked
      /\ gone' = gone /\ unsure' = unsure /\ slipped' = slipped
  BY DEF WriteCheckpoint, WriteBranchLog, WriteBranchCheckpoint, bounds
<1>7. Write(r, p, g) /\ job' = [job EXCEPT ![r].at = a]
  BY <1>1, <1>2, <1>4, <1>5 DEF WriteCheckpoint, WriteBranchLog, WriteBranchCheckpoint, Go
<1>8. File(p) \in FileRecords /\ job[r] \in JobRecords /\ t \in Transcripts /\ t # Nothing /\ t \in Optional
  BY <1>2, <1>3, FileIsRecord, NothingIsApart DEF IInv, Types, Orderly, Placed, Optional
<1>9. g \in FileRecords /\ g.rev = File(p).rev /\ (Raw(g) = Raw(File(p)) \/ Raw(g) = t)
  <2>1. CASE job[r].at = "branchLog"
    <3>1. g = File(p) \/ g = [File(p) EXCEPT !.log = t]
      BY <1>4, <2>1 DEF LogReplace
    <3> QED
      BY <1>8, <3>1 DEF FileRecords, Raw
  <2>2. CASE job[r].at # "branchLog"
    <3>1. g = [File(p) EXCEPT !.checkpoint = t]
      BY <1>4, <2>2
    <3> QED
      BY <1>8, <3>1 DEF FileRecords, Raw
  <2> QED
    BY <2>1, <2>2
<1>10. PICK j : j = [job[r] EXCEPT !.at = a]
  OBVIOUS
<1>11. a \in {"record", "branchCheckpoint", "branchMeta"}
  BY <1>3, <1>5
<1>12. j \in JobRecords /\ j.at = a /\ j.path = p /\ j.msgs = t
  BY <1>1, <1>2, <1>8, <1>10, <1>11 DEF JobRecords, Steps, Writing, Branching
<1>13. job' = [job EXCEPT ![r] = j]
  BY <1>7, <1>10 DEF IInv, Types
<1>14. /\ p = job[r].path /\ job[r].at \in {"log", "checkpoint", "branchLog", "branchCheckpoint"}
       /\ Write(r, p, g) /\ j.msgs = job[r].msgs /\ j.at \in {"checkpoint", "record", "branchCheckpoint", "branchMeta"}
       /\ Raw(g) = Raw(File(p)) \/ Raw(g) = job[r].msgs
  BY <1>1, <1>2, <1>3, <1>7, <1>9, <1>11, <1>12
<1> QED
  BY <1>6, <1>9, <1>12, <1>13, <1>14, GoesOnStands

\* and taking the lock of a branch.
LEMMA TakeBranchStands ==
  ASSUME IInv, IInv', Standing, NEW r \in Runtimes, TakeBranch(r)
  PROVE  Standing'
<1>1. PICK p : p = job[r].path
  OBVIOUS
<1>2. PICK a : a = IF Exists(File(p)) /\ Loaded(File(p)) = job[r].msgs THEN "branchMeta" ELSE "branchLog"
  OBVIOUS
<1>3. PICK j : j = [job[r] EXCEPT !.at = a]
  OBVIOUS
<1>4. /\ disk' = disk /\ mem' = mem /\ next' = next /\ acked' = acked /\ gone' = gone /\ cut' = cut
      /\ unsure' = unsure /\ slipped' = slipped /\ job[r].at = "fork" /\ job' = [job EXCEPT ![r].at = a]
  BY <1>1, <1>2 DEF TakeBranch, bounds, ghosts, Go
<1>5. j.at = a /\ j.path = p /\ j.msgs = job[r].msgs /\ a \in {"branchMeta", "branchLog"}
  BY <1>1, <1>2, <1>3 DEF IInv, Types, JobRecords
<1>6. job'[r] = j /\ \A s \in Runtimes : s # r => job'[s] = job[s]
  BY <1>3, <1>4 DEF IInv, Types
<1>7. Others(r)
  BY <1>4, <1>6 DEF Others
<1>8. CutFits' /\ \A q : File(q)' = File(q)
  BY <1>4, SameFile DEF Standing, CutFits, Written
<1>9. PICK f : f = File(p)
  OBVIOUS
<1>10. Stores(r, p, f)
  BY <1>1, <1>4, <1>7, <1>8, <1>9 DEF Stores
<1>11. Saving(r) /\ Saving(r)' /\ Holds(r, p)'
  BY <1>4, <1>5, <1>6 DEF Saving, Holds, Writing, Branching
<1> QED
  BY <1>4, <1>5, <1>6, <1>10, <1>11, AdvanceStands

\* A save that fails leaves its runtime unsure of what it stored,
LEMMA FailStands ==
  ASSUME IInv, IInv', Standing, ForksApart, NEW r \in Runtimes, NEW p, p = job[r].path, Holds(r, p),
         NEW f \in FileRecords, Fail(r, p, f), f.rev = File(p).rev,
         \/ Raw(f) = Raw(File(p))
         \/ Raw(f) = job[r].msgs /\ job[r].at \in {"log", "checkpoint", "branchLog", "branchCheckpoint"}
  PROVE  Standing'
<1>1. /\ Write(r, p, f) /\ mem' = mem /\ next' = next /\ acked' = acked /\ gone' = gone /\ slipped' = slipped
      /\ unsure' = [unsure EXCEPT ![r] = TRUE] /\ job' = [job EXCEPT ![r] = Idle]
  BY DEF Fail, Done
<1>2. unsure'[r] /\ job'[r].at = "idle" /\ Others(r)
  BY <1>1, IdleJob DEF IInv, Types, Others
<1>3. Stores(r, p, f)
  BY <1>1, <1>2, WriteStores
<1>4. Saving(r) /\ ~Saving(r)' /\ job[r].at # "ledger"
  BY <1>2 DEF Holds, Saving, Writing, Branching
<1>5. InMem(r)' = InMem(r) /\ InBase(r)' = InBase(r) /\ InJob(r)' = {}
  BY <1>1, <1>2, <1>4 DEF InMem, InBase, InJob
<1>6. Seen(r)' \subseteq Seen(r) /\ Mine(r)' = Mine(r)
  BY <1>5 DEF Seen, Mine, Written
<1>7. Effects(r)
  BY <1>3, <1>4, <1>5, <1>6, StoresEffects
<1>8. /\ \A q : Gone(q)' = Gone(q) /\ File(q)'.rev = File(q).rev
      /\ ~slipped' => Stand'
  BY <1>3, StoresIs
<1>9. Own(r) /\ (~slipped => Ahead(r))
  BY DEF Standing, Timely
<1>10. Rooted(r)' /\ Carried(r)' /\ Sealed(r)'
  BY <1>1, <1>2, <1>4, <1>9 DEF Own, Rooted, Carried, Sealed
<1>11. Spared(r)'
  BY <1>4, <1>6, <1>8, <1>9 DEF Own, Spared
<1>12. ~slipped' => Timely(r)'
  <2>1. SUFFICES ASSUME Ahead(r) PROVE Ahead(r)' /\ Clear(r)'
    BY <1>1, <1>9 DEF Timely
  <2>2. mem'[r] = mem[r]
    BY <1>1
  <2>3. Ahead(r)'
    BY <1>5, <1>8, <2>1, <2>2 DEF Ahead, File, Gone
  <2>4. Clear(r)'
    BY <1>2 DEF Clear
  <2> QED
    BY <2>3, <2>4
<1> QED
  BY <1>7, <1>8, <1>10, <1>11, <1>12, StandingStep DEF Own

LEMMA WritesFailStand ==
  ASSUME IInv, IInv', Standing, ForksApart, NEW r \in Runtimes,
         WriteLogFails(r) \/ WriteFails(r) \/ WriteBranchLogFails(r)
  PROVE  Standing'
<1>1. PICK p : p = job[r].path
  OBVIOUS
<1>2. PICK t : t = job[r].msgs
  OBVIOUS
<1>3. File(p) \in FileRecords /\ job[r] \in JobRecords /\ (job[r].at # "metaWrite" => t \in Transcripts)
  BY <1>2, FileIsRecord DEF IInv, Types, Orderly, Placed
<1>4. CASE WriteLogFails(r)
  <2>1. PICK g \in LogTorn(job[r], File(p)) : Fail(r, p, g)
    BY <1>1, <1>4 DEF WriteLogFails
  <2>2. job[r].at = "log" /\ Holds(r, p) /\ t \in Transcripts /\ t # Nothing
    BY <1>1, <1>3, <1>4, NothingIsApart DEF WriteLogFails, Holds
  <2>3. /\ ~File(p).torn
        /\ job[r].shape = "append" =>
              Exists(File(p)) /\ IsPrefix(Raw(File(p)), t) /\ job[r].from = Len(Raw(File(p)))
    BY <1>1, <1>2, <2>2 DEF IInv, Orderly, Stage
  <2>4. g \in FileRecords /\ (g.log = File(p).log \/ g.log = t) /\ g.checkpoint = File(p).checkpoint /\ g.rev = File(p).rev
    BY <1>2, <1>3, <2>1, <2>2, <2>3, LogWritesAre
  <2>5. Raw(g) = Raw(File(p)) \/ Raw(g) = t
    BY <2>2, <2>4 DEF Raw
  <2> QED
    BY <1>1, <1>2, <2>1, <2>2, <2>4, <2>5, FailStands
<1>5. CASE WriteFails(r)
  <2>1. PICK g : g = File(p)
    OBVIOUS
  <2>2. Fail(r, p, g) /\ Holds(r, p) /\ g \in FileRecords /\ Raw(g) = Raw(File(p)) /\ g.rev = File(p).rev
    BY <1>1, <1>3, <1>5, <2>1 DEF WriteFails, Holds
  <2> QED
    BY <1>1, <2>2, FailStands
<1>6. CASE WriteBranchLogFails(r)
  <2>1. PICK g \in {File(p), [File(p) EXCEPT !.torn = TRUE], LogReplace(File(p), t)} : Fail(r, p, g)
    BY <1>1, <1>2, <1>6 DEF WriteBranchLogFails
  <2>2. job[r].at = "branchLog" /\ Holds(r, p) /\ t \in Transcripts /\ t # Nothing
    BY <1>1, <1>3, <1>6, NothingIsApart DEF WriteBranchLogFails, Holds
  <2>3. t \in Optional
    BY <2>2 DEF Optional
  <2>4. g \in FileRecords /\ (g.log = File(p).log \/ g.log = t) /\ g.checkpoint = File(p).checkpoint /\ g.rev = File(p).rev
    BY <1>3, <2>1, <2>3 DEF LogReplace, FileRecords
  <2>5. Raw(g) = Raw(File(p)) \/ Raw(g) = t
    BY <2>2, <2>4 DEF Raw
  <2> QED
    BY <1>1, <1>2, <2>1, <2>2, <2>4, <2>5, FailStands
<1> QED
  BY <1>4, <1>5, <1>6

\* and a crash leaves nothing of the runtime.
LEMMA CrashStands ==
  ASSUME IInv, IInv', Standing, NEW r \in Runtimes, Crash(r)
  PROVE  Standing'
<1>1. /\ mem' = [mem EXCEPT ![r] = Closed] /\ job' = [job EXCEPT ![r] = Idle] /\ next' = next
      /\ unsure' = [unsure EXCEPT ![r] = FALSE] /\ acked' = acked /\ gone' = gone /\ cut' = cut /\ slipped' = slipped
  BY DEF Crash, Done
<1>2. mem'[r] = Closed /\ job'[r].at = "idle" /\ Others(r)
  BY <1>1, IdleJob DEF IInv, Types, Others
<1>3. InMem(r)' = {} /\ InBase(r)' = {} /\ InJob(r)' = {} /\ ~Saving(r)'
  BY <1>2 DEF InMem, InBase, InJob, Saving, Writing, Branching, Closed, NoBase, Messages
<1>4. Seen(r)' = {} /\ Mine(r)' = {}
  BY <1>3 DEF Seen, Mine
<1>5. PICK p : p = job[r].path
  OBVIOUS
<1>6. PICK f : f = File(p)'
  OBVIOUS
<1>7. f.rev = File(p).rev /\ Raw(f) = Raw(File(p)) /\ \A q : q # p => File(q)' = File(q)
  <2>1. CASE disk' = disk
    BY <1>6, <2>1, SameFile
  <2>2. CASE job[r].at \in {"log", "branchLog"} /\ disk' = Put(p, [File(p) EXCEPT !.torn = TRUE])
    <3>1. PICK g : g = [File(p) EXCEPT !.torn = TRUE]
      OBVIOUS
    <3>2. p \in Paths /\ File(p) \in FileRecords
      BY <1>5, <2>2, PathsAreShallow, FileIsRecord DEF IInv
    <3>3. g \in FileRecords /\ g.log = File(p).log /\ g.checkpoint = File(p).checkpoint /\ g.rev = File(p).rev
      BY <3>1, <3>2 DEF FileRecords
    <3>4. File(p)' = g /\ \A q : q # p => File(q)' = File(q)
      BY <2>2, <3>1, <3>2, <3>3, PutFile DEF IInv
    <3> QED
      BY <1>6, <3>3, <3>4 DEF Raw
  <2> QED
    BY <1>5, <2>1, <2>2 DEF Crash
<1>8. CutFits'
  BY <1>1 DEF Standing, CutFits, Written
<1>9. Stores(r, p, f)
  BY <1>1, <1>2, <1>5, <1>6, <1>7, <1>8 DEF Stores
<1>10. Effects(r)
  BY <1>3, <1>4, <1>9, StoresEffects
<1>11. ~slipped' => Stand'
  BY <1>9, StoresIs
<1>12. Own(r)'
  BY <1>2, <1>3, <1>4 DEF Own, Rooted, Carried, Sealed, Spared, Closed
<1>13. Timely(r)'
  BY <1>2 DEF Timely, Ahead, Clear, Closed
<1> QED
  BY <1>10, <1>11, <1>12, <1>13, StandingStep

-----------------------------------------------------------------------------
(* The end of a save. *)

\* The save that wrote the transcript ends, or one that found it stored.
Concludes(r, p, f, t) ==
    /\ f.rev >= File(p).rev
    /\ \/ Holds(r, p) /\ t = job[r].msgs
       \/ /\ Free(p) /\ job[r].at \in {"idle", "save"} /\ mem[r].path = p /\ t = mem[r].msgs
          /\ f.rev = File(p).rev

LEMMA AcknowledgeStands ==
  ASSUME IInv, IInv', Standing, NEW r \in Runtimes, NEW p, NEW f, NEW t, NEW meta, NEW m,
         Returns(r, p, f, t, meta, m), Concludes(r, p, f, t)
  PROVE  Standing'
<1>1. /\ p \in Paths /\ f \in FileRecords /\ t \in Transcripts /\ m \in Sessions
      /\ Acknowledge(r, p, f, t) /\ Raw(f) = t /\ f.log = File(p).log /\ f.checkpoint = File(p).checkpoint
      /\ Finish(r, p, meta) /\ next' = next /\ mem' = [mem EXCEPT ![r] = m]
      /\ m.path = p /\ m.msgs = mem[r].msgs /\ m.open
      /\ m.base.path = p /\ m.base.digest = t /\ m.base.rev = f.rev
  BY DEF Returns
<1>2. PICK recorded \in BOOLEAN : recorded = (f.digest = t /\ f.rev > File(p).rev)
  OBVIOUS
<1>3. PICK c : c = Cut(p, f)[p]
  OBVIOUS
<1>4. PICK new : new = IF recorded THEN (c \cap acked) \ Unsettled ELSE {}
  OBVIOUS
<1>5. /\ disk' = Put(p, f) /\ acked' = acked \cup Messages(t) /\ slipped' = slipped
      /\ gone' = [q \in DOMAIN gone \cup {p} |-> IF q = p THEN Gone(p) \cup new ELSE gone[q]]
      /\ cut' = [Cut(p, f) EXCEPT ![p] = IF recorded THEN {} ELSE @]
      /\ unsure' = [unsure EXCEPT ![r] = FALSE]
  <2>1. /\ disk' = Put(p, f) /\ acked' = acked \cup Messages(t) /\ slipped' = slipped
        /\ unsure' = [unsure EXCEPT ![r] = FALSE]
    BY <1>1 DEF Acknowledge
  <2>2. new = IF f.digest = t /\ f.rev > File(p).rev THEN (Cut(p, f)[p] \cap acked) \ Unsettled ELSE {}
    BY <1>2, <1>3, <1>4
  <2>3. gone' = [q \in DOMAIN gone \cup {p} |-> IF q = p THEN Gone(p) \cup new ELSE gone[q]]
    BY <1>1, <2>2 DEF Acknowledge, Gone
  <2>4. cut' = [Cut(p, f) EXCEPT ![p] = IF recorded THEN {} ELSE @]
    BY <1>1, <1>2 DEF Acknowledge
  <2> QED
    BY <2>1, <2>3, <2>4
<1>6. /\ job' \in [Runtimes -> JobRecords] /\ \A s \in Runtimes : s # r => job'[s] = job[s]
      /\ job'[r].at \in {"idle", "meta"}
  BY <1>1, FinishedJob
<1>7. mem'[r] = m /\ ~unsure'[r] /\ Others(r)
  BY <1>1, <1>5, <1>6 DEF IInv, Types, Others
<1>8. Standing /\ Fresh /\ GoneFits /\ CutFits /\ Own(r) /\ (~slipped => Stand /\ Timely(r))
  BY DEF Standing
<1>9. t # Nothing /\ Exists(f) /\ Exists(File(p)) /\ Raw(File(p)) = t
  <2>1. t # Nothing
    BY <1>1, NothingIsApart
  <2> QED
    BY <1>1, <2>1 DEF Exists, Raw
<1>10. c \subseteq Written /\ c \cap Messages(t) = {}
  BY <1>1, <1>3, <1>8, <1>9, CutStays
<1>11. File(p)' = f /\ \A q : q # p => File(q)' = File(q)
  BY <1>1, <1>5, PutFile DEF IInv
<1>12. \A q : Stored(q)' = Stored(q) /\ Exists(File(q))' = Exists(File(q))
  <2>1. ASSUME NEW q PROVE Raw(File(q))' = Raw(File(q))
    <3>1. CASE q = p
      BY <1>1, <1>9, <1>11, <3>1 DEF Raw
    <3>2. CASE q # p
      BY <1>11, <3>2 DEF Raw
    <3> QED
      BY <3>1, <3>2
  <2> QED
    BY <2>1 DEF Stored, Exists
<1>13. Gone(p)' = Gone(p) \cup new /\ \A q : q # p => Gone(q)' = Gone(q)
  BY <1>5 DEF Gone
<1>14. new \subseteq (acked \cap Written) \ Unsettled /\ new \cap Messages(t) = {}
  BY <1>4, <1>10
<1>15. \A q : File(q).rev \in Nat
  BY FileIsRecord DEF IInv, FileRecords
<1>16. f.rev \in Nat
  BY <1>1 DEF FileRecords
<1>17. new # {} => Holds(r, p) /\ f.rev > File(p).rev
  <2>1. new # {} => f.rev > File(p).rev
    BY <1>2, <1>4
  <2>2. f.rev > File(p).rev => f.rev # File(p).rev
    BY <1>15, <1>16
  <2> QED
    BY <2>1, <2>2 DEF Concludes
<1>18. CutFits'
  <2>1. PICK g : g = Cut(p, f)
    OBVIOUS
  <2>2. \A q \in DOMAIN g : g[q] \subseteq Written
    <3>1. PICK a : a = IF Exists(File(p)) THEN Messages(Raw(File(p))) \cap Written ELSE {}
      OBVIOUS
    <3>2. PICK o : o = IF p \in DOMAIN cut THEN cut[p] ELSE {}
      OBVIOUS
    <3>3. PICK n : n = IF Exists(f) THEN Messages(Raw(f)) \cap Written ELSE {}
      OBVIOUS
    <3>4. g = [q \in DOMAIN cut \cup {p} |-> IF q = p THEN (o \cup a) \ n ELSE cut[q]]
      BY <2>1, <3>1, <3>2, <3>3 DEF Cut
    <3> QED
      BY <1>8, <3>1, <3>2, <3>4 DEF CutFits
  <2>3. cut' = [g EXCEPT ![p] = IF recorded THEN {} ELSE @]
    BY <1>5, <2>1
  <2>4. DOMAIN cut' = DOMAIN g /\ \A q \in DOMAIN g : cut'[q] \subseteq g[q]
    BY <2>3
  <2> QED
    BY <2>2, <2>4 DEF CutFits, Written
\* What the runtime has and what it builds on.
<1>19. /\ InMem(r)' = InMem(r) /\ InBase(r)' = Messages(t) /\ InJob(r)' = {} /\ ~Saving(r)'
       /\ Messages(t) \subseteq Seen(r)
  <2>1. InMem(r)' = InMem(r) /\ InBase(r)' = Messages(t)
    BY <1>1, <1>7 DEF InMem, InBase
  <2>2. InJob(r)' = {} /\ ~Saving(r)'
    BY <1>6 DEF InJob, Saving, Writing, Branching
  <2>3. Holds(r, p) => InJob(r) = Messages(job[r].msgs)
    BY DEF Holds, InJob, Saving, Writing, Branching
  <2> QED
    BY <2>1, <2>2, <2>3 DEF Concludes, Seen, InMem
<1>20. Seen(r)' \subseteq Seen(r)
  BY <1>19 DEF Seen
<1>21. Meek(r)
  <2>1. ASSUME NEW q, Waits(r, q), ~Free(q) PROVE FALSE
    <3>1. CASE Holds(r, p)
      BY <2>1, <3>1 DEF Holds, Waits
    <3>2. CASE Free(p) /\ job[r].at \in {"idle", "save"} /\ mem[r].path = p
      BY <2>1, <3>2 DEF Waits
    <3> QED
      BY <3>1, <3>2 DEF Concludes
  <2> QED
    BY <2>1 DEF Meek
<1>22. Effects(r)
  <2>1. next' \in next..MaxMessages
    BY <1>1, <1>8, BoundsAssumption DEF Fresh
  <2>2. ASSUME NEW q
        PROVE  /\ Gone(q)' \subseteq Gone(q) \cup ((acked \cap Written) \ Unsettled)
               /\ Gone(q)' = Gone(q) \/ (Holds(r, q) /\ Exists(File(q)))
               /\ File(q).rev <= File(q)'.rev /\ (Gone(q)' = Gone(q) \/ File(q).rev < File(q)'.rev)
    <3>1. CASE q = p
      <4>1. PICK a : a = File(p).rev
        OBVIOUS
      <4>2. PICK b : b = f.rev
        OBVIOUS
      <4>3. a \in Nat /\ b \in Nat /\ b >= a /\ (new # {} => b > a)
        BY <1>15, <1>16, <1>17, <4>1, <4>2 DEF Concludes
      <4>4. a <= b /\ (new = {} \/ a < b)
        BY <4>3
      <4>5. File(p)'.rev = b
        BY <1>11, <4>2
      <4> QED
        BY <1>9, <1>13, <1>14, <1>17, <3>1, <4>1, <4>4, <4>5
    <3>2. CASE q # p
      <4>1. File(q)' = File(q) /\ Gone(q)' = Gone(q) /\ File(q).rev \in Nat
        BY <1>11, <1>13, <1>15, <3>2
      <4>2. PICK a : a = File(q).rev
        OBVIOUS
      <4>3. File(q)'.rev = a /\ a <= a
        BY <4>1, <4>2
      <4> QED
        BY <4>1, <4>2, <4>3
    <3> QED
      BY <3>1, <3>2
  <2>3. \A q : Stored(q)' \subseteq Stored(q) \cup InJob(r) /\ (Exists(File(q)) => Exists(File(q))')
    BY <1>12
  <2>4. acked \subseteq acked' /\ acked' \subseteq acked \cup Seen(r) /\ (slipped => slipped')
    BY <1>5, <1>19
  <2>5. Seen(r)' \cup InBase(r)' \subseteq Seen(r)
    BY <1>19, <1>20
  <2> QED
    BY <1>7, <1>18, <1>20, <1>21, <2>1, <2>2, <2>3, <2>4, <2>5 DEF Effects
\* What it has not stored stays its own.
<1>23. ASSUME NEW x \in Mine(r)' PROVE Secret(r, x) /\ x \notin InJob(r) /\ x \notin Messages(t)
  <2>1. x \in InMem(r) /\ x \notin Messages(t) /\ x \in Written
    BY <1>19, <1>23 DEF Mine, Written
  <2>2. Holds(r, p) /\ t = job[r].msgs
    BY <2>1 DEF Concludes, InMem
  <2>3. Saving(r) /\ InJob(r) = Messages(t)
    BY <2>2 DEF Holds, InJob, Saving, Writing, Branching
  <2>4. x \in Mine(r)
    BY <1>8, <2>1, <2>3 DEF Own, Carried, Mine
  <2> QED
    BY <1>8, <2>1, <2>3, <2>4 DEF Own, Sealed
<1>24. Rooted(r)' /\ Carried(r)'
  BY <1>1, <1>6, <1>7, <1>19 DEF Rooted, Carried
<1>25. Sealed(r)'
  <2>1. ASSUME NEW x \in Mine(r)' PROVE Secret(r, x)'
    <3>1. x \notin acked' /\ \A q : x \notin Stored(q)'
      BY <1>5, <1>12, <1>23, <2>1 DEF Secret
    <3>2. \A v \in Runtimes : v # r => x \notin Seen(v)'
      BY <1>7, <1>23, <2>1, Aside DEF Secret
    <3> QED
      BY <3>1, <3>2 DEF Secret
  <2> QED
    BY <2>1 DEF Sealed
<1>26. Spared(r)'
  <2>1. ASSUME NEW q, NEW x \in Mine(r)', x \in Gone(q)' PROVE FALSE
    <3>1. x \in Gone(q) \/ x \in acked
      BY <1>13, <1>14, <2>1
    <3>2. x \in acked
      BY <1>8, <3>1 DEF GoneFits
    <3> QED
      BY <1>23, <2>1, <3>2 DEF Secret
  <2> QED
    BY <2>1 DEF Spared
\* Nothing that is gone is stored.
<1>27. ASSUME ~slipped' PROVE Stand' /\ Timely(r)'
  <2>1. Stored(p) = Messages(t)
    BY <1>9 DEF Stored
  <2>2. ASSUME NEW q, Depth(q) < MaxDepth PROVE Gone(q)' \cap Stored(q)' = {}
    <3>1. Gone(q) \cap Stored(q) = {}
      BY <1>5, <1>8, <1>27, <2>2 DEF Stand
    <3>2. CASE q = p
      BY <1>12, <1>13, <1>14, <2>1, <3>1, <3>2
    <3>3. CASE q # p
      BY <1>12, <1>13, <3>1, <3>3
    <3> QED
      BY <3>2, <3>3
  <2>3. Stand'
    BY <2>2 DEF Stand
  <2>4. Depth(p) < MaxDepth => Gone(p)' \cap InBase(r)' = {}
    BY <1>12, <1>19, <2>1, <2>2
  <2>5. mem'[r].path = p /\ mem'[r].base.rev = f.rev /\ f.rev <= f.rev
    BY <1>1, <1>7, <1>16
  <2>6. Ahead(r)'
    <3>1. mem'[r].base.rev <= File(p)'.rev
      BY <1>11, <2>5
    <3> QED
      BY <2>4, <2>5, <3>1 DEF Ahead, File, Gone
  <2>7. Clear(r)'
    BY <1>6 DEF Clear
  <2> QED
    BY <2>3, <2>6, <2>7 DEF Timely
<1> QED
  BY <1>22, <1>24, <1>25, <1>26, <1>27, StandingStep DEF Own

LEMMA ReturnsStand ==
  ASSUME IInv, IInv', Standing, ForksApart, NEW r \in Runtimes, Record(r) \/ WriteBranchMeta(r)
  PROVE  Standing'
<1>1. PICK p : p = job[r].path
  OBVIOUS
<1>2. PICK t : t = job[r].msgs
  OBVIOUS
<1>3. PICK f, meta, m : Returns(r, p, f, t, meta, m) /\ Ends(r, f)
  BY <1>1, <1>2, RecordReturns, WriteBranchMetaReturns
<1>4. Concludes(r, p, f, t)
  BY <1>1, <1>2, <1>3 DEF Concludes, Ends
<1> QED
  BY <1>3, <1>4, AcknowledgeStands

-----------------------------------------------------------------------------
(* The steps between saves, and the check. *)

LEMMA MetaAndRetryStand ==
  ASSUME IInv, IInv', Standing, NEW r \in Runtimes, ReadMeta(r) \/ Retry(r)
  PROVE  Standing'
<1>1. /\ disk' = disk /\ mem' = mem /\ next' = next /\ acked' = acked /\ gone' = gone /\ cut' = cut
      /\ unsure' = unsure /\ slipped' = slipped /\ job[r].at \in {"meta", "conflict"}
  BY DEF ReadMeta, Retry, bounds, ghosts
<1>2. job'[r].at \in {"metaWrite", "save"} /\ \A s \in Runtimes : s # r => job'[s] = job[s]
  <2>1. CASE ReadMeta(r)
    <3>1. PICK j : j = [job[r] EXCEPT !.at = "metaWrite", !.rev = File(job[r].path).rev, !.msgs = File(job[r].path).digest]
      OBVIOUS
    <3>2. job' = [job EXCEPT ![r] = j]
      BY <2>1, <3>1 DEF ReadMeta, IInv, Types
    <3>3. j.at = "metaWrite"
      BY <3>1 DEF IInv, Types, JobRecords
    <3> QED
      BY <3>2, <3>3 DEF IInv, Types
  <2>2. CASE Retry(r)
    <3>1. PICK j : j = [Idle EXCEPT !.at = "save", !.mode = "rewrite", !.meta = TRUE]
      OBVIOUS
    <3>2. job' = [job EXCEPT ![r] = j]
      BY <2>2, <3>1 DEF Retry
    <3>3. j.at = "save"
      BY <3>1 DEF Idle
    <3> QED
      BY <3>2, <3>3 DEF IInv, Types
  <2> QED
    BY <2>1, <2>2
<1>3. Others(r) /\ CutFits' /\ \A q : File(q)' = File(q)
  BY <1>1, <1>2, SameFile DEF Others, Standing, CutFits, Written
<1>4. ~Saving(r) /\ ~Saving(r)' /\ job[r].at # "ledger" /\ job'[r].at # "ledger"
  BY <1>1, <1>2 DEF Saving, Writing, Branching
<1>5. \A q : Raw(File(q)') = Raw(File(q)) /\ File(q).rev <= File(q)'.rev
  <2>1. ASSUME NEW q PROVE File(q).rev \in Nat
    BY FileIsRecord DEF IInv, FileRecords
  <2> QED
    BY <1>3, <2>1
<1>6. Clear(r)' /\ job'[r].at \in Between /\ job'[r].at # "force"
  BY <1>2 DEF Clear, Between
<1>7. Passing(r)
  BY <1>1, <1>3, <1>4, <1>5, <1>6 DEF Passing
<1> QED
  BY <1>7, PassStands

LEMMA ForkStands ==
  ASSUME IInv, IInv', Standing, NEW r \in Runtimes, Fork(r)
  PROVE  Standing'
<1>1. /\ disk' = disk /\ mem' = mem /\ next' = next /\ acked' = acked /\ gone' = gone /\ cut' = cut
      /\ unsure' = unsure /\ slipped' = slipped /\ job[r].at = "conflict"
  BY DEF Fork, Conflicted, bounds, ghosts
<1>2. PICK p : p = job[r].path
  OBVIOUS
<1>3. PICK t : t = mem[r].msgs
  OBVIOUS
<1>4. PICK q : q = RecoveryPath(p, t)
  OBVIOUS
<1>5. PICK j : j = IF Depth(p) >= MaxDepth THEN [job[r] EXCEPT !.at = "force", !.shape = "none"]
                   ELSE [job[r] EXCEPT !.at = "fork", !.shape = "none", !.path = q, !.msgs = t,
                                       !.ver = mem[r].ver, !.rw = mem[r].rw]
  OBVIOUS
<1>6. job' = [job EXCEPT ![r] = j]
  BY <1>2, <1>3, <1>4, <1>5 DEF Fork
<1>7. job'[r] = j /\ \A s \in Runtimes : s # r => job'[s] = job[s]
  BY <1>6 DEF IInv, Types
<1>8. \/ j.at = "force" /\ j.path = p /\ Depth(p) >= MaxDepth
      \/ j.at = "fork" /\ j.msgs = t
  <2>1. job[r] \in JobRecords
    BY DEF IInv, Types
  <2>2. CASE Depth(p) >= MaxDepth
    <3>1. j = [job[r] EXCEPT !.at = "force", !.shape = "none"]
      BY <1>5, <2>2
    <3> QED
      BY <1>2, <2>1, <2>2, <3>1 DEF JobRecords
  <2>3. CASE ~(Depth(p) >= MaxDepth)
    <3>1. j = [job[r] EXCEPT !.at = "fork", !.shape = "none", !.path = q, !.msgs = t,
                             !.ver = mem[r].ver, !.rw = mem[r].rw]
      BY <1>5, <2>3
    <3> QED
      BY <2>1, <3>1 DEF JobRecords
  <2> QED
    BY <2>2, <2>3
<1>9. Others(r) /\ CutFits' /\ \A l : File(l)' = File(l)
  BY <1>1, <1>7, SameFile DEF Others, Standing, CutFits, Written
<1>10. /\ ~Saving(r) /\ job[r].at # "ledger" /\ job'[r].at # "ledger" /\ job[r].at \notin Between
       /\ Saving(r)' => job'[r].msgs = mem[r].msgs
       /\ job'[r].at = "force" => Depth(job'[r].path) >= MaxDepth
  BY <1>1, <1>3, <1>7, <1>8 DEF Saving, Writing, Branching, Between
<1>11. \A l : Raw(File(l)') = Raw(File(l)) /\ File(l).rev <= File(l)'.rev
  <2>1. ASSUME NEW l PROVE File(l).rev \in Nat
    BY FileIsRecord DEF IInv, FileRecords
  <2> QED
    BY <1>9, <2>1
<1>12. Clear(r)'
  BY <1>7, <1>8 DEF Clear
<1>13. Passing(r)
  BY <1>1, <1>9, <1>10, <1>11, <1>12 DEF Passing
<1> QED
  BY <1>13, PassStands

\* A write of the ledger alone, or of the repaired tail.
LEMMA SameTranscripts ==
  ASSUME IInv, NEW r \in Runtimes, NEW p \in Paths, NEW f \in FileRecords, Write(r, p, f), Standing,
         f.log = File(p).log, f.checkpoint = File(p).checkpoint
  PROVE  /\ CutFits' /\ \A q : Raw(File(q)') = Raw(File(q))
         /\ f.rev = File(p).rev => \A q : File(q).rev <= File(q)'.rev
<1>1. File(p)' = f /\ \A q : q # p => File(q)' = File(q)
  BY PutFile DEF Write, IInv
<1>2. CutFits'
  BY CutStays DEF Write, Standing
<1>3. ASSUME NEW q PROVE Raw(File(q)') = Raw(File(q)) /\ (f.rev = File(p).rev => File(q).rev <= File(q)'.rev)
  <2>1. File(q).rev \in Nat
    BY FileIsRecord DEF IInv, FileRecords
  <2>2. CASE q = p
    BY <1>1, <2>1, <2>2 DEF Raw
  <2>3. CASE q # p
    <3>1. File(q)' = File(q)
      BY <1>1, <2>3
    <3> QED
      BY <2>1, <3>1
  <2> QED
    BY <2>2, <2>3
<1> QED
  BY <1>2, <1>3

LEMMA WriteMetaStands ==
  ASSUME IInv, IInv', Standing, NEW r \in Runtimes, WriteMeta(r)
  PROVE  Standing'
<1>1. PICK p : p = job[r].path
  OBVIOUS
<1>2. PICK f : f = [File(p) EXCEPT !.rev = job[r].rev, !.digest = job[r].msgs]
  OBVIOUS
<1>3. /\ job[r].at = "metaWrite" /\ mem' = mem /\ next' = next /\ acked' = acked /\ gone' = gone
      /\ unsure' = unsure /\ Write(r, p, f) /\ job' = [job EXCEPT ![r] = Idle]
  BY <1>1, <1>2 DEF WriteMeta, Done, bounds
<1>4. (slipped => slipped') /\ (~slipped' => File(p).rev = job[r].rev)
  <2>1. slipped' = (slipped \/ File(p).rev # job[r].rev \/ File(p).digest # job[r].msgs)
    BY <1>1 DEF WriteMeta
  <2> QED
    BY <2>1, Zenon
<1>5. p \in Paths /\ File(p) \in FileRecords /\ job[r].rev \in Nat /\ job[r].msgs \in Optional
  BY <1>1, <1>3, PathsAreShallow, FileIsRecord DEF IInv, Types, JobRecords
<1>6. f \in FileRecords /\ f.log = File(p).log /\ f.checkpoint = File(p).checkpoint /\ f.rev = job[r].rev
  BY <1>2, <1>5 DEF FileRecords
<1>7. /\ CutFits' /\ \A q : Raw(File(q)') = Raw(File(q))
      /\ f.rev = File(p).rev => \A q : File(q).rev <= File(q)'.rev
  BY <1>3, <1>5, <1>6, SameTranscripts
<1>8. job'[r].at = "idle" /\ Others(r)
  BY <1>3, IdleJob DEF IInv, Types, Others
<1>9. /\ ~Saving(r) /\ ~Saving(r)' /\ job[r].at # "ledger" /\ job'[r].at \notin {"ledger", "force"}
      /\ job'[r].at \in Between /\ Clear(r)'
  BY <1>3, <1>8 DEF Saving, Writing, Branching, Between, Clear
<1>10. Passing(r)
  BY <1>3, <1>4, <1>6, <1>7, <1>8, <1>9 DEF Passing
<1> QED
  BY <1>10, PassStands

\* A forced save is at the depth cap.
LEMMA ForceSaveStands ==
  ASSUME IInv, IInv', Standing, NEW r \in Runtimes, ForceSave(r)
  PROVE  Standing'
<1>1. PICK p : p = mem[r].path
  OBVIOUS
<1>2. PICK t : t = mem[r].msgs
  OBVIOUS
<1>3. PICK f : f = TailRepaired(File(p))
  OBVIOUS
<1>4. PICK j : j = [job[r] EXCEPT !.at = "log", !.shape = "force", !.msgs = t, !.ver = mem[r].ver, !.rw = mem[r].rw,
                                  !.rev = f.rev]
  OBVIOUS
<1>5. /\ job[r].at = "force" /\ Free(p) /\ Write(r, p, f) /\ mem' = mem /\ next' = next
      /\ acked' = acked /\ gone' = gone /\ unsure' = unsure /\ slipped' = slipped
  BY <1>1, <1>2, <1>3 DEF ForceSave, bounds
<1>6. job[r].path = p /\ p \in Paths /\ job[r] \in JobRecords /\ Rooted(r)
  BY <1>1, <1>5 DEF IInv, Types, Sessions, Orderly, Placed, Branching, Standing, Own
<1>7. f \in FileRecords /\ f.log = File(p).log /\ f.checkpoint = File(p).checkpoint /\ f.rev = File(p).rev
  BY <1>3, FileIsRecord, Repaired DEF IInv
<1>8. j.at = "log" /\ j.path = p /\ j.msgs = t
  BY <1>4, <1>6 DEF JobRecords
<1>9. job' = [job EXCEPT ![r] = j]
  BY <1>1, <1>2, <1>3, <1>4 DEF ForceSave, IInv, Types
<1>10. job'[r] = j /\ Others(r)
  BY <1>5, <1>9 DEF IInv, Types, Others
<1>11. CutFits' /\ \A q : Raw(File(q)') = Raw(File(q)) /\ File(q).rev <= File(q)'.rev
  BY <1>5, <1>6, <1>7, SameTranscripts
<1>12. Depth(p) >= MaxDepth
  BY <1>5, <1>6 DEF Rooted
<1>13. Clear(r)'
  <2>1. ~(Depth(p) < MaxDepth)
    BY <1>6, <1>12, BoundsAssumption DEF Depth, Paths
  <2> QED
    BY <1>8, <1>10, <2>1 DEF Clear
<1>14. /\ ~Saving(r) /\ job[r].at # "ledger" /\ job'[r].at \notin {"ledger", "force"} /\ job[r].at \notin Between
       /\ job'[r].msgs = mem[r].msgs
  BY <1>2, <1>5, <1>8, <1>10 DEF Saving, Writing, Branching, Between
<1>15. Passing(r)
  BY <1>5, <1>10, <1>11, <1>13, <1>14 DEF Passing
<1> QED
  BY <1>15, PassStands

\* Over a file that has moved on a save writes only if what it keeps of its base is still there.
LEMMA KeepsStored ==
  ASSUME NEW base \in Bases, NEW f \in FileRecords, NEW t \in Transcripts, NEW rewrite \in BOOLEAN,
         NEW d \in {"full", "append"}, d = Decision(base, f, t, rewrite),
         Exists(f), base.path # Nothing, base.rev # f.rev
  PROVE  Messages(base.digest) \cap Messages(t) \cap Written \subseteq Messages(Raw(f))
<1>1. PICK u : u = base.digest
  OBVIOUS
<1>2. PICK v : v = View(f, t)
  OBVIOUS
<1>3. v \in {Raw(f), Loaded(f)}
  BY <1>2 DEF View
<1>4. /\ Raw(f) \in Transcripts /\ Loaded(f) \in Transcripts /\ u \in Transcripts
      /\ Messages(Loaded(f)) \cap Written \subseteq Messages(Raw(f))
  BY <1>1, LoadsAll, LoadsOnly DEF Bases
<1>5. \/ v = t
      \/ IsPrefix(v, t) /\ CoversBase(base, v, t)
      \/ u \in {Raw(f), Loaded(f)}
  <2>1. OwnsEither(base, f) => u \in {Raw(f), Loaded(f)}
    BY <1>1 DEF OwnsEither, Owns
  <2>2. PICK e : e = IsPrefix(v, t)
    OBVIOUS
  <2>3. PICK w : w = (/\ base.path # Nothing /\ base.rev # f.rev /\ ~(v = t) /\ ~CoversBase(base, v, t))
    OBVIOUS
  <2>4. e /\ w => d = "diverged"
    BY <1>2, <2>2, <2>3 DEF Decision
  <2>5. ~e => d \in {"stale", "diverged"} \/ OwnsEither(base, f)
    BY <1>2, <2>2 DEF Decision
  <2> QED
    BY <2>1, <2>2, <2>3, <2>4, <2>5
<1>6. CASE v = t
  BY <1>3, <1>4, <1>6
<1>7. CASE IsPrefix(v, t) /\ CoversBase(base, v, t)
  <2>1. IsPrefix(u, t) /\ Len(v) >= Len(u)
    BY <1>1, <1>7 DEF CoversBase
  <2>2. v \in Transcripts
    BY <1>3, <1>4
  <2>3. Len(u) <= Len(v)
    BY <1>4, <2>1, <2>2 DEF Transcripts
  <2>4. Messages(u) \subseteq Messages(v)
    BY <1>4, <1>7, <2>1, <2>2, <2>3, LongerPrefix
  <2> QED
    BY <1>1, <1>3, <1>4, <2>4
<1>8. CASE u \in {Raw(f), Loaded(f)}
  BY <1>1, <1>4, <1>8
<1> QED
  BY <1>5, <1>6, <1>7, <1>8

LEMMA CheckStands ==
  ASSUME IInv, IInv', Standing, NEW r \in Runtimes, mem[r].open, job[r].at \in {"idle", "save"},
         NEW j \in JobRecords, Check(r, j)
  PROVE  Standing'
<1>1. PICK p : p = mem[r].path
  OBVIOUS
<1>2. PICK t : t = mem[r].msgs
  OBVIOUS
<1>3. PICK f : f = TailRepaired(File(p))
  OBVIOUS
<1>4. PICK base : base = Base(r, p)
  OBVIOUS
<1>5. PICK d : d = Decision(base, f, t, j.mode = "rewrite")
  OBVIOUS
<1>6. PICK k : k = [j EXCEPT !.path = p, !.msgs = t, !.ver = mem[r].ver, !.rw = mem[r].rw, !.rev = f.rev]
  OBVIOUS
<1>7. Reads(r, j, p, t, f, base, d, k)
  BY <1>1, <1>2, <1>3, <1>4, <1>5, <1>6 DEF Reads
<1>8. Found(r, j, p, t, f, base, d, k) /\ Ending(r, j, p, t, f, d, k) /\ Free(p) /\ next' = next
  BY <1>7, Checks
<1>9. /\ p \in Paths /\ p # Nothing /\ t \in Transcripts /\ f \in FileRecords /\ base \in Bases
      /\ f.log = File(p).log /\ f.checkpoint = File(p).checkpoint /\ f.rev = File(p).rev
      /\ Raw(f) = Raw(File(p)) /\ Exists(f) = Exists(File(p)) /\ f.digest = File(p).digest
      /\ mem[r].base.path = p => base = mem[r].base
      /\ k \in JobRecords /\ k.path = p /\ k.msgs = t
  BY <1>8 DEF Found
<1>10. /\ Own(r) /\ GoneFits /\ (~slipped => Stand /\ Ahead(r))
       /\ mem[r].base.path = p /\ base = mem[r].base
  BY <1>1, <1>9 DEF Standing, Timely, Own, Rooted
<1>11. ~Saving(r) /\ job[r].at \notin {"ledger", "force"} /\ job[r].at \in Between
  BY DEF Saving, Writing, Branching, Between
\* The save ends.
<1>12. CASE d = "same" /\ Acknowledge(r, p, f, t) /\ mem' = MarkPersisted(r, p, k, f.rev) /\ Finish(r, p, j.meta)
  <2>1. PICK meta, m : Returns(r, p, f, t, meta, m)
    BY <1>7, <1>12, SameReturns
  <2>2. f.rev >= File(p).rev
    BY <1>9 DEF FileRecords
  <2>3. Concludes(r, p, f, t)
    BY <1>1, <1>2, <1>8, <1>9, <2>2 DEF Concludes
  <2> QED
    BY <2>1, <2>3, AcknowledgeStands
<1>13. CASE /\ UpToDate(r, p) /\ acked' = acked \cup Messages(t) /\ Done(r)
            /\ UNCHANGED <<disk, mem, removed, forced, cut, gone, foreign, slipped, unsure>>
  <2>1. Messages(t) \subseteq acked
    BY <1>2, <1>13 DEF UpToDate, IInv, Orderly, Known
  <2>2. /\ disk' = disk /\ mem' = mem /\ acked' = acked /\ gone' = gone /\ cut' = cut /\ unsure' = unsure
        /\ slipped' = slipped /\ job' = [job EXCEPT ![r] = Idle]
    BY <1>13, <2>1 DEF Done
  <2>3. job'[r].at = "idle" /\ Others(r)
    BY <2>2, IdleJob DEF IInv, Types, Others
  <2>4. CutFits' /\ \A q : File(q)' = File(q)
    BY <2>2, SameFile DEF Standing, CutFits, Written
  <2>5. \A q : Raw(File(q)') = Raw(File(q)) /\ File(q).rev <= File(q)'.rev
    <3>1. ASSUME NEW q PROVE File(q).rev \in Nat
      BY FileIsRecord DEF IInv, FileRecords
    <3> QED
      BY <2>4, <3>1
  <2>6. ~Saving(r)' /\ Clear(r)' /\ job'[r].at \notin {"ledger", "force"} /\ job'[r].at \in Between
    BY <2>3 DEF Saving, Writing, Branching, Between, Clear
  <2>7. Passing(r)
    BY <1>8, <1>11, <2>2, <2>3, <2>4, <2>5, <2>6 DEF Passing
  <2> QED
    BY <2>7, PassStands
\* It goes on, with a conflict or a write.
<1>14. ASSUME NEW c, job' = [job EXCEPT ![r] = c], Write(r, p, f), UNCHANGED <<mem, acked, gone, slipped, unsure>>,
              c.at \in {"conflict", "log", "record"}, c.path = p, c.at # "conflict" => c.msgs = t,
              c.at = "log" /\ ~slipped /\ Depth(p) < MaxDepth => Gone(p) \cap Messages(t) = {}
       PROVE  Standing'
  <2>1. job'[r] = c /\ Others(r)
    BY <1>14 DEF IInv, Types, Others
  <2>2. CutFits' /\ \A q : Raw(File(q)') = Raw(File(q)) /\ File(q).rev <= File(q)'.rev
    BY <1>9, <1>14, SameTranscripts
  <2>3. Gone(p)' = Gone(p)
    BY <1>14 DEF Gone
  <2>4. ~slipped' => Clear(r)'
    <3>1. SUFFICES ASSUME ~slipped, c.at = "log", Depth(p) < MaxDepth PROVE (Gone(p) \cap InJob(r)' = {})
      BY <1>14, <2>1, <2>3 DEF Clear, Gone
    <3>2. InJob(r)' = Messages(t)
      BY <1>14, <2>1, <3>1 DEF InJob, Saving, Writing
    <3> QED
      BY <1>14, <3>1, <3>2
  <2>5. Saving(r)' => job'[r].msgs = mem[r].msgs
    BY <1>2, <1>14, <2>1 DEF Saving, Writing, Branching
  <2>6. Free(mem[r].path) /\ job'[r].at \notin {"ledger", "force"}
    BY <1>1, <1>8, <1>14, <2>1
  <2>7. Passing(r)
    BY <1>8, <1>11, <1>14, <2>1, <2>2, <2>4, <2>5, <2>6 DEF Passing
  <2> QED
    BY <2>7, PassStands
<1>15. CASE /\ d \in {"stale", "diverged"} /\ Write(r, p, f)
            /\ job' = [job EXCEPT ![r] = [j EXCEPT !.at = "conflict", !.path = p, !.shape = d]]
            /\ UNCHANGED <<mem, acked, removed, forced, gone, slipped, unsure>>
  <2>1. PICK c : c = [j EXCEPT !.at = "conflict", !.path = p, !.shape = d]
    OBVIOUS
  <2>2. c.at = "conflict" /\ c.path = p
    BY <2>1 DEF JobRecords
  <2>3. job' = [job EXCEPT ![r] = c]
    BY <1>15, <2>1
  <2> QED
    BY <1>14, <1>15, <2>2, <2>3
<1>16. CASE /\ d \in {"full", "append", "heal"} /\ Write(r, p, f)
            /\ job' = [job EXCEPT ![r] =
                         IF d = "heal" THEN [k EXCEPT !.at = "record"]
                         ELSE [k EXCEPT !.at = "log", !.shape = d, !.from = IF d = "append" THEN Len(View(f, t)) ELSE 0]]
            /\ UNCHANGED <<mem, acked, removed, forced, gone, slipped, unsure>>
  <2>1. PICK n : n = IF d = "append" THEN Len(View(f, t)) ELSE 0
    OBVIOUS
  <2>2. PICK c : c = IF d = "heal" THEN [k EXCEPT !.at = "record"] ELSE [k EXCEPT !.at = "log", !.shape = d, !.from = n]
    OBVIOUS
  <2>3. /\ c.path = p /\ c.msgs = t /\ (d = "heal" => c.at = "record") /\ (d # "heal" => c.at = "log")
    BY <1>9, <2>2 DEF JobRecords
  <2>4. job' = [job EXCEPT ![r] = c]
    BY <1>16, <2>1, <2>2
  <2>5. ASSUME d # "heal", ~slipped, Depth(p) < MaxDepth, NEW x \in Gone(p), x \in Messages(t) PROVE FALSE
    <3>1. x \in Written /\ Exists(f)
      BY <1>9, <1>10, <2>5 DEF GoneFits
    <3>2. x \in InBase(r)
      BY <1>2, <1>10, <1>11, <2>5, <3>1 DEF Own, Spared, Mine, InMem
    <3>3. mem[r].base.rev < File(p).rev
      BY <1>1, <1>10, <2>5, <3>2 DEF Ahead
    <3>4. base.rev \in Nat /\ f.rev \in Nat
      BY <1>9 DEF Bases, FileRecords
    <3>5. base.rev # f.rev /\ base.path # Nothing
      BY <1>9, <1>10, <3>3, <3>4
    <3>6. PICK w \in BOOLEAN : w = (j.mode = "rewrite")
      OBVIOUS
    <3>7. d \in {"full", "append"} /\ d = Decision(base, f, t, w)
      BY <1>5, <1>16, <2>5, <3>6
    <3>8. x \in Messages(Raw(f))
      <4>1. x \in Messages(base.digest)
        BY <1>10, <3>2 DEF InBase
      <4> QED
        BY <1>9, <2>5, <3>1, <3>5, <3>7, <4>1, KeepsStored
    <3>9. x \in Stored(p)
      BY <1>9, <3>1, <3>8 DEF Stored
    <3> QED
      BY <1>10, <2>5, <3>9 DEF Stand
  <2> QED
    BY <1>14, <1>16, <2>3, <2>4, <2>5
<1> QED
  BY <1>8, <1>12, <1>13, <1>15, <1>16 DEF Ending

\* Either kind of save begins with a check.
LEMMA SnapshotStands ==
  ASSUME IInv, IInv', Standing, NEW r \in Runtimes, Snapshot(r) \/ SaveRewrite(r)
  PROVE  Standing'
<1>1. CASE Snapshot(r)
  <2>1. PICK j : j = [Idle EXCEPT !.meta = TRUE, !.mode = IF NeedsRewrite(r) THEN "rewrite" ELSE "snapshot"]
    OBVIOUS
  <2>2. j \in JobRecords
    BY <2>1, IdleJob DEF Idle, JobRecords
  <2>3. Check(r, j) /\ mem[r].open /\ job[r].at \in {"idle", "save"}
    BY <1>1, <2>1 DEF Snapshot
  <2> QED
    BY <2>2, <2>3, CheckStands
<1>2. CASE SaveRewrite(r)
  <2>1. PICK j : j = job[r]
    OBVIOUS
  <2>2. j \in JobRecords /\ mem[r].open /\ job[r].at \in {"idle", "save"}
    BY <1>2, <2>1 DEF SaveRewrite, IInv, Types, Orderly, Placed
  <2>3. Check(r, j)
    BY <1>2, <2>1 DEF SaveRewrite
  <2> QED
    BY <2>2, <2>3, CheckStands
<1> QED
  BY <1>1, <1>2

\* A session is opened, or its stored transcript adopted.
LEMMA LoadStands ==
  ASSUME IInv, IInv', Standing, NEW r \in Runtimes, AdoptDisk(r) \/ \E p \in DOMAIN disk : Open(r, p)
  PROVE  Standing'
<1>1. CASE AdoptDisk(r)
  <2>1. PICK p : p = job[r].path
    OBVIOUS
  <2>2. job[r].at = "conflict" /\ ReadTranscript(r, p)
    BY <1>1, <2>1 DEF AdoptDisk, Conflicted
  <2>3. p \in DOMAIN disk
    BY <2>1, <2>2 DEF IInv, Orderly, Placed, Branching
  <2> QED
    BY <2>2, <2>3, ReadTranscriptStands
<1>2. CASE \E p \in DOMAIN disk : Open(r, p)
  BY <1>2, ReadTranscriptStands DEF Open
<1> QED
  BY <1>1, <1>2

-----------------------------------------------------------------------------
(* Rewrites stand: the induction. *)

\* A step that changes nothing keeps it,
LEMMA StutterStands == ASSUME Standing, UNCHANGED vars PROVE Standing'
<1>1. disk' = disk /\ mem' = mem /\ job' = job /\ next' = next /\ acked' = acked
      /\ gone' = gone /\ cut' = cut /\ unsure' = unsure /\ slipped' = slipped
  BY DEF vars, bounds, ghosts
<1>2. ASSUME NEW q PROVE File(q)' = File(q) /\ Gone(q)' = Gone(q)
  BY <1>1 DEF File, Gone
<1>3. ASSUME NEW q PROVE Stored(q)' = Stored(q) /\ Exists(File(q))' = Exists(File(q))
  BY <1>2 DEF Stored, Exists, Raw
<1>4. \A r : Saving(r)' = Saving(r) /\ \A q : Holds(r, q)' = Holds(r, q) /\ Waits(r, q)' = Waits(r, q)
  BY <1>1 DEF Saving, Holds, Waits
<1>5. \A r : InMem(r)' = InMem(r) /\ InBase(r)' = InBase(r) /\ InJob(r)' = InJob(r)
  BY <1>1, <1>4 DEF InMem, InBase, InJob
<1>6. \A r : Seen(r)' = Seen(r) /\ Mine(r)' = Mine(r)
  BY <1>5 DEF Seen, Mine
<1>7. Fresh'
  BY <1>1, <1>3, <1>5, <1>6 DEF Standing, Fresh
<1>8. GoneFits' /\ CutFits'
  BY <1>1, <1>2, <1>3 DEF Standing, GoneFits, CutFits, Written
<1>9. ASSUME NEW r \in Runtimes PROVE Own(r)'
  <2>1. Own(r)
    BY DEF Standing
  <2>2. Rooted(r)' /\ Carried(r)' /\ Spared(r)'
    BY <1>1, <1>2, <1>4, <1>5, <1>6, <2>1 DEF Own, Rooted, Carried, Spared
  <2>3. ASSUME NEW m, Secret(r, m) PROVE Secret(r, m)'
    <3>1. PICK l : l = job[r].path
      OBVIOUS
    <3>2. m \notin acked' /\ \A q : m \in Stored(q)' => Holds(r, q)' /\ m \in InJob(r)'
      BY <1>1, <1>3, <1>4, <1>5, <2>3 DEF Secret
    <3>3. ASSUME NEW v \in Runtimes, v # r, m \in Seen(v)'
          PROVE  m \in InJob(r)' /\ Holds(r, job[r].path)' /\ Waits(v, job[r].path)'
      <4>1. m \in InJob(r) /\ Holds(r, l) /\ Waits(v, l)
        BY <1>6, <2>3, <3>1, <3>3 DEF Secret
      <4>2. job[r].path' = l
        BY <1>1, <3>1
      <4> QED
        BY <1>1, <1>5, <4>1, <4>2 DEF Holds, Waits
    <3> QED
      BY <3>2, <3>3 DEF Secret
  <2>4. Sealed(r)'
    BY <1>1, <1>4, <1>5, <1>6, <2>1, <2>3 DEF Own, Sealed
  <2> QED
    BY <2>2, <2>4 DEF Own
<1>10. Stand => Stand'
  BY <1>2, <1>3 DEF Stand
<1>11. ASSUME NEW r \in Runtimes, Timely(r) PROVE Timely(r)'
  <2>1. PICK p : p = mem[r].path
    OBVIOUS
  <2>2. PICK q : q = job[r].path
    OBVIOUS
  <2>3. mem[r].path' = p /\ job[r].path' = q
    BY <1>1, <2>1, <2>2
  <2>4. File(mem[r].path)' = File(p) /\ Gone(mem[r].path)' = Gone(p) /\ Gone(job[r].path)' = Gone(q)
    BY <1>1, <2>1, <2>2 DEF File, Gone
  <2>5. Ahead(r)'
    BY <1>1, <1>5, <1>11, <2>1, <2>3, <2>4 DEF Timely, Ahead
  <2>6. Clear(r)'
    BY <1>1, <1>5, <1>11, <2>2, <2>3, <2>4 DEF Timely, Clear
  <2> QED
    BY <2>5, <2>6 DEF Timely
<1> QED
  BY <1>1, <1>7, <1>8, <1>9, <1>10, <1>11 DEF Standing

\* it holds at first,
LEMMA InitStanding == Init => Standing
<1> SUFFICES ASSUME Init PROVE Standing
  OBVIOUS
<1>1. PICK g \in {Nothing, <<1>>} :
        disk = [p \in {Main} |-> [NoFile EXCEPT !.log = g, !.checkpoint = <<1>>, !.rev = 1, !.digest = <<1>>]]
  BY DEF Init
<1>2. PICK f : f = [NoFile EXCEPT !.log = g, !.checkpoint = <<1>>, !.rev = 1, !.digest = <<1>>]
  OBVIOUS
<1>3. f.log = g /\ f.checkpoint = <<1>> /\ <<1>> \in Transcripts
  BY <1>2 DEF NoFile, Transcripts
<1>4. Raw(f) = <<1>>
  BY <1>1, <1>3, NothingIsApart DEF Raw
<1>5. Messages(<<1>>) = {1} /\ Messages(<< >>) = {}
  BY DEF Messages
<1>6. \A p : Stored(p) \subseteq {1}
  <2>1. ASSUME NEW p PROVE Raw(File(p)) \in {Nothing, <<1>>}
    BY <1>1, <1>2, <1>4 DEF File, NoFile, Raw
  <2> QED
    BY <1>5, <2>1 DEF Stored, Exists
<1>7. MaxMessages \in Nat \ {0} /\ next = 1 /\ acked = {1}
  BY BoundsAssumption DEF Init
<1>8. \A r \in Runtimes : mem[r] = Closed /\ job[r] = Idle
  BY DEF Init
<1>9. \A r \in Runtimes : InMem(r) = {} /\ InBase(r) = {} /\ InJob(r) = {} /\ ~Saving(r)
  BY <1>5, <1>8, IdleJob DEF InMem, InBase, InJob, Saving, Writing, Branching, Closed, NoBase
<1>10. \A r \in Runtimes : Seen(r) = {} /\ Mine(r) = {}
  BY <1>9 DEF Seen, Mine
<1>11. Fresh
  BY <1>6, <1>7, <1>9, <1>10 DEF Fresh
<1>12. \A p : Gone(p) = {}
  BY DEF Init, Gone
<1>13. GoneFits /\ CutFits /\ Stand
  BY <1>12 DEF Init, GoneFits, CutFits, Stand
<1>14. ASSUME NEW r \in Runtimes PROVE Own(r) /\ Timely(r)
  <2>1. ~mem[r].open /\ job[r].at = "idle" /\ Rooted(r)
    <3>1. ~Closed.open /\ Idle.at = "idle"
      BY IdleJob DEF Closed
    <3>2. ~mem[r].open /\ job[r].at = "idle" /\ mem[r] = Closed
      BY <1>8, <3>1
    <3> QED
      BY <3>2 DEF Rooted
  <2>2. Carried(r) /\ Sealed(r) /\ Spared(r)
    BY <1>9, <1>10 DEF Carried, Sealed, Spared
  <2>3. Timely(r)
    BY <2>1 DEF Timely, Ahead, Clear
  <2> QED
    BY <2>1, <2>2, <2>3 DEF Own
<1> QED
  BY <1>11, <1>13, <1>14 DEF Standing

\* every step keeps it while forks stay apart,
LEMMA NextStands == IInv /\ IInv' /\ Standing /\ ForksApart /\ [Next]_vars => Standing'
<1> SUFFICES ASSUME IInv, IInv', Standing, ForksApart, [Next]_vars PROVE Standing'
  OBVIOUS
<1>1. CASE UNCHANGED vars
  BY <1>1, StutterStands
<1>2. ASSUME NEW r \in Runtimes,
             \/ \E p \in DOMAIN disk : Open(r, p)
             \/ Add(r) \/ Prune(r) \/ Snapshot(r)
             \/ \E n \in 1..MaxMessages : Rewind(r, n) \/ CancelTurn(r, n)
             \/ Step(r)
             \/ WriteLogFails(r) \/ WriteFails(r) \/ WriteBranchLogFails(r)
             \/ Crash(r)
      PROVE  Standing'
  <2>1. CASE Step(r)
    BY <2>1, ReadLedgerStands, SnapshotStands, WriteLogStands, OtherWritesStand, ReturnsStand,
       MetaAndRetryStand, WriteMetaStands, LoadStands, ForkStands, ForceSaveStands, TakeBranchStands DEF Step
  <2>2. CASE Add(r) \/ Prune(r) \/ \E n \in 1..MaxMessages : Rewind(r, n) \/ CancelTurn(r, n)
    BY <2>2, TurnsStand
  <2>3. CASE WriteLogFails(r) \/ WriteFails(r) \/ WriteBranchLogFails(r) \/ Crash(r)
    BY <2>3, WritesFailStand, CrashStands
  <2>4. CASE Snapshot(r) \/ \E p \in DOMAIN disk : Open(r, p)
    BY <2>4, SnapshotStands, LoadStands
  <2> QED
    BY <1>2, <2>1, <2>2, <2>3, <2>4
<1> QED
  BY <1>1, <1>2 DEF Next

\* Rewrites stand: what a rewind, a cancel or a prune took out of a transcript that
\* the ledger records does not come back into that path with the save of a runtime
\* which still has it, however saves, loads, forks, failures and crashes interleave
\* (a save forced at the depth cap, and a ledger read or written around a record
\* under way, are left out).
THEOREM RewritesHold == Spec /\ []ForksApart => []NoResurrection
<1>1. Init => IInv /\ Standing
  BY InitIInv, InitStanding
<1>2. IInv /\ Standing /\ ForksApart /\ [Next]_vars => (IInv /\ Standing)'
  BY NextKeeps, NextStands
<1>3. IInv /\ Standing => NoResurrection
  BY DEF Standing, Stand, Gone, NoResurrection, RewritesStand
<1> QED
  BY <1>1, <1>2, <1>3, PTL DEF Spec
=============================================================================
