----------------------- MODULE RepairTransactionProofs -----------------------
(***************************************************************************)
(* Proofs about RepairTransaction, for any files, processes and plans and  *)
(* any number of operations, writes by others, failures and crashes.       *)
(*                                                                         *)
(* The proofs speak of Disk, the content of every path, rather than of the *)
(* files there happen to be: a move, a creation or a removal then changes  *)
(* one or two of its values.  Each action has a lemma, its View, that says *)
(* what it does in these terms; the rest of the proof uses the View only.  *)
(*                                                                         *)
(* The invariant has four parts.  Types is about the single variables,     *)
(* Ledger about the undo state and the journal together, Accounts relates  *)
(* them to the disk, and Progress says what an operation knows at each of  *)
(* its stages.  An undo copies a backup to its target and records the      *)
(* change as undone before it drops the backup; Spare is what makes that   *)
(* drop lose nothing: whatever the backup holds and others still count on  *)
(* is also on a path that no undo of the same transaction drops.           *)
(*                                                                         *)
(* Restores, on top of it, relates the disk to what it was when operations *)
(* began; it is what makes a completed undo a return.                      *)
(***************************************************************************)
EXTENDS RepairTransaction, SequenceTheorems, TLAPS

-----------------------------------------------------------------------------
(* The invariant. *)

\* The content of every path, Nothing where there is no file.
Disk == [p \in Paths |-> IF p \in DOMAIN files THEN files[p] ELSE Nothing]

Written == {Good} \union (Targets \X (0 .. edits))
Actions == [target : Targets, kind : {"quarantine", "repair", "restore"}]
Distinct(plan) == \A i, k \in DOMAIN plan : i # k => plan[i].target # plan[k].target

Asked ==
    [kind : {"repair", "undo"}, plan : Seq(Actions), seen : [Targets -> Contents \union {Nothing}],
     last : Transactions \union {Nothing}, pending : Journals \union {Nothing}]

FilesTyped == DOMAIN files \subseteq Paths /\ files \in [DOMAIN files -> Written]

FileTypes ==
    /\ edits \in Nat /\ serial \in Nat
    /\ FilesTyped
    /\ kept \subseteq Contents

RecordTypes ==
    /\ last \in Transactions \union {Nothing}
    /\ pending \in Journals \union {Nothing}
    /\ op \in Operations \union {Nothing}
    /\ waiting \in [Invokers -> Asked \union {Nothing}]
    /\ \A p \in Invokers : waiting[p] # Nothing =>
         Distinct(waiting[p].plan) /\ \A t \in Targets : waiting[p].seen[t] \in Written \union {Nothing}

HistoryTypes ==
    /\ origin \in Seq([Targets -> Contents \union {Nothing}]) /\ Len(origin) = serial
    /\ touched \in Seq(SUBSET Targets) /\ Len(touched) = serial
    /\ \A m, n \in 1 .. serial : m <= n => touched[n] \subseteq touched[m]

\* Each change of a transaction is to a target of its own, and names its backup.
WellFormed(tx) ==
    /\ \A i \in DOMAIN tx.changes :
         LET c == tx.changes[i]
         IN IF c.create THEN c.prev = Nothing /\ c.state = Good
            ELSE c.prev = Previous(c.target, tx.id)
    /\ Distinct(tx.changes)

\* Nothing of it is undone.
Standing(tx) == ~tx.undone /\ \A i \in DOMAIN tx.changes : ~tx.changes[i].undone

\* tx is the next thing to be recorded after l.
Follows(tx, l) ==
    IF Len(tx.changes) = 1 THEN l # Nothing => l.id < tx.id
    ELSE l # Nothing /\ l.id = tx.id /\ tx.changes = Append(l.changes, Last(tx.changes))

Ledger ==
    /\ last # Nothing =>
         /\ last.id \in 1 .. serial /\ last.changes # <<>> /\ WellFormed(last)
         /\ last.undone => \A i \in DOMAIN last.changes : last.changes[i].undone
    /\ pending # Nothing =>
         /\ pending.tx.id \in 1 .. serial /\ pending.tx.changes # <<>>
         /\ WellFormed(pending.tx) /\ Standing(pending.tx)
         /\ Follows(pending.tx, pending.bound)
         /\ last \in {pending.bound, pending.tx}

Journaled == Last(pending.tx.changes)
\* The journal's change is not recorded yet.
InFlight == pending # Nothing /\ last = pending.bound

Apart(tx, plan) ==
    \A i \in DOMAIN tx.changes, k \in DOMAIN plan : tx.changes[i].target # plan[k].target

Older(l, n) == l # Nothing => l.id < n

(* What an operation knows at each of its stages. *)

Starts ==
    op # Nothing /\ op.at \in {"reconcile", "promote", "settle"} =>
        /\ op.tx.changes = <<>> /\ op.tx.id = op.n /\ ~op.tx.undone /\ op.i = 0
        /\ Older(last, op.n)
        /\ pending # Nothing => pending.tx.id < op.n
        /\ op.at = "promote" =>
             /\ InFlight
             /\ ~Journaled.create => Disk[Journaled.prev] # Nothing /\ Disk[Journaled.prev] = Journaled.state
        /\ op.at = "settle" =>
             /\ pending # Nothing
             /\ InFlight =>
                  /\ ~Journaled.create => Disk[Journaled.prev] = Nothing
                  /\ Journaled.target \notin touched[pending.tx.id] =>
                       Disk[Journaled.target] = IF Journaled.create THEN Nothing ELSE Journaled.state

Verifying ==
    op # Nothing /\ op.at \in {"verify", "prepare"} =>
        /\ op.kind = "repair" /\ pending = Nothing /\ op.i = 0
        /\ op.tx.id = op.n /\ WellFormed(op.tx) /\ Standing(op.tx) /\ Apart(op.tx, op.plan)
        /\ IF op.tx.changes = <<>> THEN Older(last, op.n) ELSE op.tx = last
        /\ op.at = "prepare" =>
             /\ op.plan # <<>>
             /\ Kind # "restore" =>
                  op.seen[Target] # Nothing /\ (Disk[Target] # Nothing \/ Target \in touched[op.n])

Moves ==
    op # Nothing /\ op.at \in {"rename", "check", "publish", "own", "commit", "clear"} =>
        /\ op.kind = "repair" /\ op.i = 0 /\ op.tx.id = op.n
        /\ pending # Nothing /\ pending.tx = op.tx
        /\ last = IF op.at = "clear" THEN op.tx ELSE pending.bound
        /\ op.plan # <<>> /\ Change.target = Target /\ Apart(op.tx, Tail(op.plan))
        /\ op.at \in {"rename", "check"} => ~Change.create
        /\ op.at \in {"publish", "own"} => Change.create
        /\ op.at = "publish" => Disk[Target] = Nothing \/ Target \in touched[op.n]
        /\ op.at = "rename" /\ Kind # "restore" =>
             op.seen[Target] # Nothing /\ (Disk[Target] = op.seen[Target] => Change.state = op.seen[Target])
        /\ op.at = "check" =>
             /\ Disk[Change.prev] # Nothing
             /\ Kind # "restore" /\ Disk[Change.prev] = op.seen[Target] => Change.state = op.seen[Target]
        /\ op.at = "commit" /\ ~Change.create =>
             Disk[Change.prev] # Nothing /\ Disk[Change.prev] = Change.state

Replacements ==
    op # Nothing /\ op.at \in {"look", "create"} =>
        /\ op.kind = "repair" /\ op.i = 0 /\ op.tx.id = op.n /\ pending = Nothing
        /\ op.tx = last /\ op.tx.changes # <<>> /\ Standing(op.tx)
        /\ op.plan # <<>> /\ Change.target = Target /\ Apart(op.tx, Tail(op.plan))

\* The copy of a backup that has been restored: not one an undo of last drops.
Spare(c) ==
    Disk[c.prev] \in kept =>
        \E p \in Paths : Disk[p] = Disk[c.prev] /\ \A t \in Targets : p # Previous(t, last.id)

Undos ==
    op # Nothing /\ op.at \in {"begin", "undo", "aside", "restore", "mark", "drop", "finish"} =>
        /\ op.kind = "undo" /\ pending = Nothing /\ Older(last, op.n)
        /\ op.at = "begin" => op.i = 0
        /\ op.at # "begin" =>
             /\ last # Nothing /\ op.tx = last /\ ~last.undone
             /\ op.i <= Len(last.changes)
             /\ \A k \in op.i + 1 .. Len(last.changes) : last.changes[k].undone
        /\ op.at = "finish" => op.i = 0
        /\ op.at \in {"aside", "restore", "mark"} => op.i > 0 /\ ~Undoing.undone
        /\ op.at = "restore" => ~Undoing.create
        /\ op.at = "mark" /\ ~Undoing.create => Spare(Undoing)
        /\ op.at = "drop" => op.i > 0 /\ ~Undoing.create /\ Undoing.undone

Knows ==
    op # Nothing =>
        /\ op.n = serial /\ serial > 0 /\ Distinct(op.plan)
        /\ \A t \in Targets : op.seen[t] \in Written \union {Nothing}

(* What is on the disk. *)

Rescued == \A k \in kept : \E p \in Paths : Disk[p] = k

BackedUp(c) == c.create \/ c.undone \/ (Disk[c.prev] # Nothing /\ Disk[c.prev] = c.state)
HaveBackups == last # Nothing => \A i \in DOMAIN last.changes : BackedUp(last.changes[i])

Names(tx, p) == \E i \in DOMAIN tx.changes : tx.changes[i].prev = p
Named ==
    \A t \in Targets, n \in Nat : Disk[Previous(t, n)] # Nothing =>
        \/ last # Nothing /\ (last.id > n \/ Names(last, Previous(t, n)))
        \/ pending # Nothing /\ Names(pending.tx, Previous(t, n))

Spares ==
    last # Nothing =>
        \A i \in DOMAIN last.changes :
            last.changes[i].undone /\ ~last.changes[i].create => Spare(last.changes[i])

\* The change in the journal is to come or made, and can be told which.
Traces ==
    InFlight /\ ~Journaled.create =>
        /\ Journaled.state \in Written \union {Nothing}
        /\ Disk[Journaled.prev] # Nothing /\ Disk[Journaled.target] # Nothing =>
             Disk[Journaled.target] # Journaled.state
        /\ Journaled.target \notin touched[pending.tx.id] =>
             /\ Journaled.state # Nothing
             /\ \/ Disk[Journaled.target] = Journaled.state /\ Disk[Journaled.prev] = Nothing
                \/ Disk[Journaled.target] = Nothing /\ Disk[Journaled.prev] = Journaled.state

-----------------------------------------------------------------------------
(* Paths, and what steps do to the disk. *)

LEMMA PathsDiffer ==
    ASSUME NEW t \in Targets, NEW n \in Nat, NEW u \in Targets, NEW m \in Nat
    PROVE  /\ Previous(t, n) \in Paths \ Targets /\ Redo(t, n) \in Paths \ Targets
           /\ Previous(t, n) \in Aparts
           /\ Previous(t, n) = Previous(u, m) => t = u /\ n = m
           /\ Redo(t, n) = Redo(u, m) => t = u /\ n = m
           /\ Previous(t, n) # Redo(u, m)
  BY NamesAssumption DEF Previous, Redo, Paths, Aparts

LEMMA NoText == Nothing \notin Written /\ Good \in Written /\ Written \subseteq Contents
  BY NamesAssumption, SMT DEF Written, Contents

Shift(d, from, to) ==
    [p \in Paths |-> IF p = to THEN d[from] ELSE IF p = from THEN Nothing ELSE d[p]]
Back(d, from, to) == IF d[from] # Nothing /\ d[to] = Nothing THEN Shift(d, from, to) ELSE d

LEMMA DiskType == FilesTyped => Disk \in [Paths -> Written \union {Nothing}]
  BY DEF FilesTyped, Disk

LEMMA AtDisk == \A p \in Paths : At(p) = Disk[p]
  BY DEF At, Disk

LEMMA MovedDisk ==
    ASSUME FilesTyped, NEW from \in Paths, NEW to \in Paths, CanMove(from, to),
           files' = Moved(from, to), edits' = edits
    PROVE  FilesTyped' /\ Disk' = Shift(Disk, from, to)
  BY NoText DEF FilesTyped, CanMove, At, Moved, Disk, Shift, Written

LEMMA MovedBackDisk ==
    ASSUME FilesTyped, NEW from \in Paths, NEW to \in Paths,
           files' = MovedBack(from, to), edits' = edits
    PROVE  FilesTyped' /\ Disk' = Back(Disk, from, to)
<1>1. CASE CanMove(from, to)
  BY <1>1, MovedDisk, AtDisk DEF MovedBack, CanMove, Back
<1>2. CASE ~CanMove(from, to)
  <2>1. files' = files /\ ~(Disk[from] # Nothing /\ Disk[to] = Nothing)
    BY <1>2, AtDisk DEF MovedBack, CanMove
  <2> QED
    BY <2>1 DEF FilesTyped, Disk, Back, Written
<1> QED
  BY <1>1, <1>2

LEMMA WithDisk ==
    ASSUME FilesTyped, NEW p \in Paths, NEW c \in Written', files' = With(p, c),
           Written \subseteq Written'
    PROVE  FilesTyped' /\ Disk' = [Disk EXCEPT ![p] = c]
  BY DEF FilesTyped, With, Disk

LEMMA WithoutDisk ==
    ASSUME FilesTyped, NEW p \in Paths, files' = Without(p), Written \subseteq Written'
    PROVE  FilesTyped' /\ Disk' = [Disk EXCEPT ![p] = Nothing]
  BY DEF FilesTyped, Without, Disk

LEMMA SameDisk ==
    ASSUME FilesTyped, files' = files, edits' = edits
    PROVE  FilesTyped' /\ Disk' = Disk
  BY DEF FilesTyped, Disk, Written

(* How an operation goes on. *)

Step(at, plan, i, tx) ==
    /\ op' \in Operations /\ op'.at = at /\ op'.plan = plan /\ op'.i = i /\ op'.tx = tx
    /\ op'.kind = op.kind /\ op'.seen = op.seen /\ op'.n = op.n

LEMMA ToStep ==
    ASSUME NEW at \in Stages, op \in Operations, To(at)
    PROVE  Step(at, op.plan, op.i, op.tx)
  BY DEF To, Go, Step, Operations

LEMMA NextActionStep ==
    ASSUME op \in Operations, op.plan # <<>>, NextAction
    PROVE  Step("verify", Tail(op.plan), op.i, op.tx)
<1>1. Tail(op.plan) \in Seq(Actions)
  BY HeadTailProperties DEF Operations, Actions
<1>2. [op EXCEPT !.plan = Tail(op.plan)] \in Operations
  BY <1>1 DEF Operations, Actions
<1> QED
  BY <1>1, <1>2 DEF NextAction, Go, Step, Operations, Stages, Actions

LEMMA NextChangeStep ==
    ASSUME NEW o \in Operations, op \in Operations, o.i > 0, NextChange(o),
           o.plan = op.plan, o.kind = op.kind, o.seen = op.seen, o.n = op.n
    PROVE  Step("undo", op.plan, o.i - 1, o.tx)
<1>1. o.i - 1 \in Nat
  BY DEF Operations
<1>2. [o EXCEPT !.i = o.i - 1] \in Operations
  BY <1>1 DEF Operations
<1>3. op' = [[o EXCEPT !.i = o.i - 1] EXCEPT !.at = "undo"]
  BY DEF NextChange, Go
<1> QED
  BY <1>2, <1>3 DEF Step, Operations, Stages

(* What the records hold. *)

LEMMA ChangeFacts ==
    ASSUME NEW c \in ChangeRecords
    PROVE  /\ c.target \in Targets /\ c.prev \in Aparts \union {Nothing}
           /\ c.state \in Contents \union {Nothing} /\ c.create \in BOOLEAN /\ c.undone \in BOOLEAN
  BY DEF ChangeRecords

LEMMA TransactionFacts ==
    ASSUME NEW tx \in Transactions
    PROVE  /\ tx # Nothing /\ tx.id \in Nat /\ tx.undone \in BOOLEAN
           /\ tx.changes \in Seq(ChangeRecords)
           /\ Len(tx.changes) \in Nat /\ DOMAIN tx.changes = 1 .. Len(tx.changes)
           /\ \A i \in 1 .. Len(tx.changes) : tx.changes[i] \in ChangeRecords
           /\ tx.changes # <<>> <=> Len(tx.changes) > 0
           /\ tx.changes # <<>> => /\ Last(tx.changes) = tx.changes[Len(tx.changes)]
                                  /\ Last(tx.changes) \in ChangeRecords
<1>1. tx # Nothing /\ tx.id \in Nat /\ tx.undone \in BOOLEAN /\ tx.changes \in Seq(ChangeRecords)
  BY NamesAssumption DEF Transactions
<1>2. /\ Len(tx.changes) \in Nat /\ DOMAIN tx.changes = 1 .. Len(tx.changes)
      /\ \A i \in 1 .. Len(tx.changes) : tx.changes[i] \in ChangeRecords
      /\ tx.changes # <<>> <=> Len(tx.changes) > 0
  BY <1>1, LenProperties, ElementOfSeq, EmptySeq
<1> QED
  BY <1>1, <1>2 DEF Last

LEMMA OperationFacts ==
    ASSUME NEW o \in Operations
    PROVE  /\ o # Nothing /\ o.at \in Stages /\ o.kind \in {"repair", "undo"}
           /\ o.plan \in Seq(Actions) /\ o.seen \in [Targets -> Contents \union {Nothing}]
           /\ o.n \in Nat /\ o.i \in Nat /\ o.tx \in Transactions
  BY NamesAssumption DEF Operations, Actions

LEMMA PlanFacts ==
    ASSUME NEW plan \in Seq(Actions)
    PROVE  /\ Len(plan) \in Nat /\ DOMAIN plan = 1 .. Len(plan)
           /\ \A i \in 1 .. Len(plan) : plan[i].target \in Targets
           /\ plan # <<>> =>
                /\ Len(plan) > 0 /\ Head(plan) = plan[1]
                /\ Tail(plan) \in Seq(Actions) /\ DOMAIN Tail(plan) = 1 .. Len(plan) - 1
                /\ \A i \in 1 .. Len(plan) - 1 : Tail(plan)[i] = plan[i + 1]
                /\ Distinct(plan) =>
                     /\ Distinct(Tail(plan))
                     /\ \A i \in DOMAIN Tail(plan) : Tail(plan)[i].target # Head(plan).target
<1>1. /\ Len(plan) \in Nat /\ DOMAIN plan = 1 .. Len(plan)
      /\ \A i \in 1 .. Len(plan) : plan[i] \in Actions
  BY LenProperties, ElementOfSeq
<1>2. ASSUME plan # <<>>
      PROVE  /\ Len(plan) > 0 /\ Head(plan) = plan[1]
             /\ Tail(plan) \in Seq(Actions) /\ DOMAIN Tail(plan) = 1 .. Len(plan) - 1
             /\ \A i \in 1 .. Len(plan) - 1 : Tail(plan)[i] = plan[i + 1]
  <2>1. Tail(plan) \in Seq(Actions) /\ Len(Tail(plan)) = Len(plan) - 1
        /\ \A i \in 1 .. Len(Tail(plan)) : Tail(plan)[i] = plan[i + 1]
    BY <1>2, HeadTailProperties
  <2> QED
    BY <1>2, <2>1, LenProperties, EmptySeq
<1>3. ASSUME plan # <<>>, Distinct(plan)
      PROVE  /\ Distinct(Tail(plan))
             /\ \A i \in DOMAIN Tail(plan) : Tail(plan)[i].target # Head(plan).target
  <2>1. \A i \in DOMAIN Tail(plan) : i + 1 \in DOMAIN plan /\ 1 \in DOMAIN plan /\ i + 1 # 1
                                   /\ Tail(plan)[i] = plan[i + 1] /\ Head(plan) = plan[1]
    BY <1>1, <1>2, <1>3
  <2> QED
    BY <1>1, <1>2, <1>3, <2>1 DEF Distinct
<1> QED
  BY <1>1, <1>2, <1>3 DEF Actions

LEMMA TargetFacts ==
    ASSUME op \in Operations, op.plan # <<>>
    PROVE  Target \in Targets /\ Kind \in {"quarantine", "repair", "restore"}
<1>1. op.plan \in Seq(Actions)
  BY OperationFacts
<1>2. Head(op.plan) \in Actions
  BY <1>1, HeadTailProperties
<1> QED
  BY <1>2 DEF Target, Kind, Actions

\* The journal: its change, the one before it, and the undo state it follows.
LEMMA JournalFacts ==
    ASSUME RecordTypes, Ledger, pending # Nothing
    PROVE  /\ pending.tx \in Transactions /\ pending.bound \in Transactions \union {Nothing}
           /\ pending.tx.id \in 1 .. serial /\ Len(pending.tx.changes) > 0
           /\ Journaled \in ChangeRecords /\ Journaled = pending.tx.changes[Len(pending.tx.changes)]
           /\ ~Journaled.undone
           /\ Journaled.create => Journaled.prev = Nothing /\ Journaled.state = Good
           /\ ~Journaled.create => Journaled.prev = Previous(Journaled.target, pending.tx.id)
           /\ \A i \in 1 .. Len(pending.tx.changes) - 1 :
                pending.tx.changes[i].target # Journaled.target
<1>1. pending.tx \in Transactions /\ pending.bound \in Transactions \union {Nothing}
  BY DEF RecordTypes, Journals
<1>2. pending.tx.id \in 1 .. serial /\ pending.tx.changes # <<>> /\ WellFormed(pending.tx) /\ Standing(pending.tx)
  BY DEF Ledger
<1>3. /\ Len(pending.tx.changes) \in Nat /\ Len(pending.tx.changes) > 0
      /\ DOMAIN pending.tx.changes = 1 .. Len(pending.tx.changes)
      /\ Journaled \in ChangeRecords /\ Journaled = pending.tx.changes[Len(pending.tx.changes)]
  BY <1>1, <1>2, TransactionFacts DEF Journaled
<1>4. Len(pending.tx.changes) \in DOMAIN pending.tx.changes
  BY <1>3
<1> QED
  BY <1>1, <1>2, <1>3, <1>4 DEF WellFormed, Standing, Distinct

LEMMA InFlightFacts ==
    ASSUME RecordTypes, Ledger, InFlight
    PROVE  /\ last # pending.tx
           /\ last # Nothing =>
                \/ last.id < pending.tx.id
                \/ /\ last.id = pending.tx.id /\ Standing(last)
                   /\ Len(pending.tx.changes) = Len(last.changes) + 1
                   /\ \A i \in 1 .. Len(last.changes) : pending.tx.changes[i] = last.changes[i]
           /\ Len(pending.tx.changes) > 1 => last # Nothing /\ last.id = pending.tx.id
<1> DEFINE tx == pending.tx
<1>1. /\ tx \in Transactions /\ last = pending.bound /\ Follows(tx, last) /\ Standing(tx)
      /\ last \in Transactions \union {Nothing} /\ tx.changes # <<>>
      /\ last # Nothing => ~last.undone \/ \A i \in DOMAIN last.changes : last.changes[i].undone
      /\ last # Nothing => last.changes # <<>>
  BY DEF InFlight, Ledger, RecordTypes, Journals
<1>2. Len(tx.changes) \in Nat /\ Len(tx.changes) > 0 /\ tx.id \in Nat /\ tx # Nothing
  BY <1>1, TransactionFacts
<1>3. CASE Len(tx.changes) = 1
  BY <1>1, <1>2, <1>3 DEF Follows
<1>4. CASE Len(tx.changes) # 1
  <2>1. last \in Transactions /\ last # Nothing /\ last.id = tx.id
        /\ tx.changes = Append(last.changes, Last(tx.changes))
    BY <1>1, <1>2, <1>4 DEF Follows
  <2>2. /\ Len(tx.changes) = Len(last.changes) + 1
        /\ \A i \in 1 .. Len(last.changes) : tx.changes[i] = last.changes[i]
    BY <1>1, <2>1, AppendProperties, TransactionFacts
  <2>3. Len(last.changes) \in Nat /\ Len(last.changes) > 0 /\ DOMAIN last.changes = 1 .. Len(last.changes)
        /\ DOMAIN tx.changes = 1 .. Len(tx.changes)
    BY <1>1, <2>1, TransactionFacts
  <2>4. \A i \in DOMAIN last.changes : ~last.changes[i].undone
    BY <1>1, <2>2, <2>3 DEF Standing
  <2>5. 1 \in DOMAIN last.changes
    BY <2>3
  <2>6. ~last.undone
    BY <1>1, <2>1, <2>4, <2>5
  <2>7. Standing(last)
    BY <2>4, <2>6 DEF Standing
  <2> QED
    BY <1>1, <1>2, <2>1, <2>2, <2>3, <2>7
<1> QED
  BY <1>3, <1>4

LEMMA LastFacts ==
    ASSUME RecordTypes, Ledger, last # Nothing
    PROVE  /\ last \in Transactions /\ last.id \in 1 .. serial /\ last.id \in Nat
           /\ Len(last.changes) \in Nat /\ Len(last.changes) > 0
           /\ DOMAIN last.changes = 1 .. Len(last.changes)
           /\ \A i \in 1 .. Len(last.changes) :
                /\ last.changes[i] \in ChangeRecords
                /\ last.changes[i].target \in Targets
                /\ ~last.changes[i].create =>
                     last.changes[i].prev = Previous(last.changes[i].target, last.id)
           /\ \A i, k \in 1 .. Len(last.changes) : i # k => last.changes[i].target # last.changes[k].target
<1>1. last \in Transactions /\ last.id \in 1 .. serial /\ last.changes # <<>> /\ WellFormed(last)
  BY DEF RecordTypes, Ledger
<1> QED
  BY <1>1, TransactionFacts, ChangeFacts DEF WellFormed, Distinct

-----------------------------------------------------------------------------
(* The steps, in terms of the disk. *)

Types == FileTypes /\ RecordTypes /\ HistoryTypes

\* What no step of an operation changes.
Quiet == UNCHANGED <<waiting, serial, edits, kept, origin, touched>>
\* What a step that only decides leaves as it was.
Decides == Quiet /\ UNCHANGED <<Disk, last, pending>> /\ FilesTyped'

LEMMA JournalPaths ==
    ASSUME RecordTypes, Ledger, pending # Nothing
    PROVE  /\ Journaled.target \in Paths
           /\ ~Journaled.create => Journaled.prev \in Paths
  BY JournalFacts, ChangeFacts, PathsDiffer DEF Paths

LEMMA ReconcileView ==
    ASSUME FileTypes, RecordTypes, Ledger, Reconcile
    PROVE  /\ op \in Operations /\ op.at = "reconcile" /\ Decides
           /\ \/ pending = Nothing /\ Step(Begun, op.plan, op.i, op.tx)
              \/ pending # Nothing /\ last = pending.tx /\ Step("settle", op.plan, op.i, op.tx)
              \/ op' = Nothing
              \/ /\ InFlight /\ Step("promote", op.plan, op.i, op.tx)
                 /\ IF Journaled.create THEN Disk[Journaled.target] # Nothing
                    ELSE Disk[Journaled.prev] # Nothing /\ Disk[Journaled.prev] = Journaled.state
              \/ /\ InFlight /\ Step("settle", op.plan, op.i, op.tx)
                 /\ IF Journaled.create THEN Disk[Journaled.target] = Nothing
                    ELSE Disk[Journaled.target] # Nothing /\ Disk[Journaled.target] = Journaled.state
<1>1. op \in Operations /\ op.at = "reconcile" /\ Decides
  BY SameDisk DEF Reconcile, Running, RecordTypes, Decides, Quiet, idle, bounds, ghosts, FileTypes
<1>2. CASE pending = Nothing
  <2>1. Begun \in Stages /\ To(Begun)
    BY <1>2 DEF Begun, Stages, Reconcile
  <2> QED
    BY <1>1, <1>2, <2>1, ToStep
<1>3. CASE pending # Nothing
  <2>1. CASE last = pending.tx
    BY <1>1, <1>3, <2>1, ToStep DEF Stages, Reconcile
  <2>2. CASE last # pending.tx
    <3> DEFINE c == Journaled
    <3>1. \/ op' = Nothing
          \/ InFlight /\ Resolvable(c) /\ Applied(c) /\ To("promote")
          \/ InFlight /\ Resolvable(c) /\ ~Applied(c) /\ To("settle")
      BY <1>3, <2>2 DEF Reconcile, End, InFlight, Journaled
    <3>2. c.target \in Paths /\ (~c.create => c.prev \in Paths)
      BY <1>3, JournalPaths
    <3>3. At(c.target) = Disk[c.target] /\ (~c.create => At(c.prev) = Disk[c.prev])
      BY <3>2, AtDisk
    <3>4. InFlight /\ Applied(c) /\ To("promote") =>
             /\ Step("promote", op.plan, op.i, op.tx)
             /\ IF c.create THEN Disk[c.target] # Nothing
                ELSE Disk[c.prev] # Nothing /\ Disk[c.prev] = c.state
      BY <1>1, <3>3, ToStep DEF Applied, Stages
    <3>5. Resolvable(c) /\ ~Applied(c) /\ To("settle") =>
             /\ Step("settle", op.plan, op.i, op.tx)
             /\ IF c.create THEN Disk[c.target] = Nothing
                ELSE Disk[c.target] # Nothing /\ Disk[c.target] = c.state
      BY <1>1, <3>3, ToStep DEF Applied, Resolvable, NotYet, Stages
    <3> QED
      BY <1>1, <3>1, <3>4, <3>5
  <2> QED
    BY <2>1, <2>2
<1> QED
  BY <1>2, <1>3

LEMMA VerifyView ==
    ASSUME FileTypes, RecordTypes, Verify
    PROVE  /\ op \in Operations /\ op.at = "verify" /\ Decides
           /\ \/ op' = Nothing
              \/ op.plan # <<>> /\ Step("verify", Tail(op.plan), op.i, op.tx)
              \/ /\ op.plan # <<>> /\ Step("prepare", op.plan, op.i, op.tx)
                 /\ Disk[Target] = op.seen[Target]
                 /\ Disk[Target] # Nothing \/ Kind = "restore"
<1>1. op \in Operations /\ op.at = "verify" /\ Decides
  BY SameDisk DEF Verify, Running, RecordTypes, Decides, Quiet, idle, bounds, ghosts, FileTypes
<1>2. op.plan # <<>> => At(Target) = Disk[Target]
  BY <1>1, TargetFacts, AtDisk DEF Paths
<1> QED
  BY <1>1, <1>2, ToStep, NextActionStep DEF Verify, End, Stages

LEMMA PrepareView ==
    ASSUME FileTypes, RecordTypes, Verifying, Prepare
    PROVE  /\ op \in Operations /\ op.at = "prepare" /\ Quiet /\ UNCHANGED <<Disk, last>> /\ FilesTyped'
           /\ pending = Nothing /\ op.plan # <<>> /\ Target \in Targets
           /\ \E c \in ChangeRecords, tx \in Transactions :
                /\ c.target = Target /\ ~c.undone
                /\ IF c.create THEN c.prev = Nothing /\ c.state = Good /\ Disk[Target] = Nothing
                   ELSE /\ c.prev = Previous(Target, op.n) /\ c.state = Disk[Target]
                        /\ Kind = "restore" => Disk[Target] # Nothing
                /\ tx.id = op.tx.id /\ tx.undone = op.tx.undone /\ tx.changes = Append(op.tx.changes, c)
                /\ pending' = [tx |-> tx, bound |-> last]
                /\ Step(IF c.create THEN "publish" ELSE "rename", op.plan, op.i, tx)
<1>1. /\ op \in Operations /\ op.at = "prepare" /\ Quiet /\ UNCHANGED <<Disk, last>> /\ FilesTyped'
      /\ op # Nothing
  BY SameDisk DEF Prepare, Running, RecordTypes, Quiet, idle, bounds, ghosts, FileTypes
<1>2. pending = Nothing /\ op.plan # <<>>
  BY <1>1 DEF Verifying
<1>3. Target \in Targets /\ At(Target) = Disk[Target] /\ Disk[Target] \in Contents \union {Nothing}
  BY <1>1, <1>2, TargetFacts, AtDisk, DiskType, NoText DEF Paths, FileTypes
<1> DEFINE c == IF Kind = "restore" /\ At(Target) = Nothing
                THEN NewCreate(Target) ELSE NewChange(Target, op.n)
           tx == [op.tx EXCEPT !.changes = Append(op.tx.changes, c)]
<1>4. /\ c \in ChangeRecords /\ c.target = Target /\ ~c.undone
      /\ IF c.create THEN c.prev = Nothing /\ c.state = Good /\ Disk[Target] = Nothing
         ELSE /\ c.prev = Previous(Target, op.n) /\ c.state = Disk[Target]
              /\ Kind = "restore" => Disk[Target] # Nothing
  <2>1. Previous(Target, op.n) \in Aparts /\ Good \in Contents
    BY <1>1, <1>3, PathsDiffer, OperationFacts DEF Contents
  <2> QED
    BY <1>3, <2>1 DEF NewCreate, NewChange, ChangeRecords
<1> HIDE DEF c
<1>5. tx \in Transactions /\ tx.id = op.tx.id /\ tx.undone = op.tx.undone
      /\ tx.changes = Append(op.tx.changes, c)
  <2>1. op.tx \in Transactions /\ op.tx.changes \in Seq(ChangeRecords)
    BY <1>1, OperationFacts, TransactionFacts
  <2>2. Append(op.tx.changes, c) \in Seq(ChangeRecords)
    BY <1>4, <2>1, AppendProperties
  <2> QED
    BY <2>1, <2>2 DEF Transactions
<1>6. pending' = [tx |-> tx, bound |-> last]
      /\ Go([op EXCEPT !.tx = tx], IF c.create THEN "publish" ELSE "rename")
  BY <1>2 DEF Prepare, c
<1> HIDE DEF tx
<1>7. Step(IF c.create THEN "publish" ELSE "rename", op.plan, op.i, tx)
  BY <1>1, <1>5, <1>6 DEF Go, Step, Operations, Stages
<1> QED
  BY <1>1, <1>2, <1>3, <1>4, <1>5, <1>6, <1>7

\* While the journal is the operation's own.
LEMMA ChangeIsJournaled ==
    ASSUME RecordTypes, Ledger, Moves, op # Nothing,
           op.at \in {"rename", "check", "publish", "own", "commit", "clear"}
    PROVE  /\ pending # Nothing /\ pending.tx = op.tx /\ Journaled = Change
           /\ op.plan # <<>> /\ Change.target = Target /\ Target \in Targets /\ Target \in Paths
           /\ pending.tx.id = op.n /\ op.n \in Nat
           /\ ~Change.create => Change.prev = Previous(Target, op.n) /\ Change.prev \in Paths \ Targets
<1>1. /\ pending # Nothing /\ pending.tx = op.tx /\ op.plan # <<>> /\ Change.target = Target
      /\ op.tx.id = op.n
  BY DEF Moves
<1>2. op \in Operations /\ op.n \in Nat
  BY OperationFacts DEF RecordTypes
<1>3. Target \in Targets
  BY <1>1, <1>2, TargetFacts
<1> QED
  BY <1>1, <1>2, <1>3, JournalFacts, PathsDiffer DEF Journaled, Change, Paths

LEMMA RenameView ==
    ASSUME FileTypes, RecordTypes, Ledger, Moves, Rename
    PROVE  /\ op \in Operations /\ op.at = "rename" /\ Quiet /\ UNCHANGED <<last, pending>> /\ FilesTyped'
           /\ \/ /\ Disk[Target] # Nothing /\ Disk[Change.prev] = Nothing
                 /\ Disk' = Shift(Disk, Target, Change.prev)
                 /\ Step("check", op.plan, op.i, op.tx)
              \/ Disk' = Disk /\ op' = Nothing
<1>1. /\ op \in Operations /\ op.at = "rename" /\ Quiet /\ UNCHANGED <<last, pending>> /\ FilesTyped
      /\ op # Nothing
  BY DEF Rename, Running, RecordTypes, Quiet, idle, bounds, ghosts, FileTypes
<1>2. Target \in Paths /\ Change.prev \in Paths
  BY <1>1, ChangeIsJournaled DEF Moves
<1>3. CASE CanMove(Target, Change.prev)
  BY <1>1, <1>2, <1>3, MovedDisk, AtDisk, ToStep DEF Rename, CanMove, Stages, Quiet
<1>4. CASE ~CanMove(Target, Change.prev)
  BY <1>1, <1>4, SameDisk DEF Rename, End, Quiet
<1> QED
  BY <1>3, <1>4

LEMMA CheckView ==
    ASSUME FileTypes, RecordTypes, Ledger, Moves, Check
    PROVE  /\ op \in Operations /\ op.at = "check" /\ Quiet /\ UNCHANGED <<last, pending>> /\ FilesTyped'
           /\ \/ /\ Disk[Change.prev] = (IF Kind = "restore" THEN Change.state ELSE op.seen[Target])
                 /\ Disk' = Disk /\ Step("commit", op.plan, op.i, op.tx)
              \/ Disk' = Back(Disk, Change.prev, Target) /\ op' = Nothing
<1>1. /\ op \in Operations /\ op.at = "check" /\ Quiet /\ UNCHANGED <<last, pending>> /\ FilesTyped
      /\ op # Nothing
  BY DEF Check, Running, RecordTypes, Quiet, idle, bounds, ghosts, FileTypes
<1>2. Target \in Paths /\ Change.prev \in Paths
  BY <1>1, ChangeIsJournaled DEF Moves
<1>3. At(Change.prev) = Disk[Change.prev]
  BY <1>2, AtDisk
<1>4. CASE Disk[Change.prev] = (IF Kind = "restore" THEN Change.state ELSE op.seen[Target])
  BY <1>1, <1>3, <1>4, SameDisk, ToStep DEF Check, Stages, Quiet
<1>5. CASE Disk[Change.prev] # (IF Kind = "restore" THEN Change.state ELSE op.seen[Target])
  BY <1>1, <1>2, <1>3, <1>5, MovedBackDisk DEF Check, End, Quiet
<1> QED
  BY <1>4, <1>5

LEMMA CommitView ==
    ASSUME FileTypes, RecordTypes, Commit
    PROVE  /\ op \in Operations /\ op.at = "commit" /\ Quiet /\ UNCHANGED <<Disk, pending>> /\ FilesTyped'
           /\ last' = op.tx /\ Step("clear", op.plan, op.i, op.tx)
  BY SameDisk, ToStep
     DEF Commit, Running, RecordTypes, Quiet, idle, bounds, ghosts, FileTypes, Stages

LEMMA CommitFailsView ==
    ASSUME FileTypes, RecordTypes, Ledger, Moves, CommitFails
    PROVE  /\ op \in Operations /\ op.at = "commit" /\ Quiet /\ UNCHANGED <<last, pending>> /\ FilesTyped'
           /\ Disk' = (IF Change.create THEN Disk ELSE Back(Disk, Change.prev, Target))
           /\ op' = Nothing
<1>1. /\ op \in Operations /\ op.at = "commit" /\ Quiet /\ UNCHANGED <<last, pending>> /\ FilesTyped
      /\ op # Nothing /\ op' = Nothing
  BY DEF CommitFails, Running, RecordTypes, Quiet, ghosts, FileTypes, End
<1>2. Target \in Paths /\ (~Change.create => Change.prev \in Paths)
  BY <1>1, ChangeIsJournaled
<1> QED
  BY <1>1, <1>2, SameDisk, MovedBackDisk DEF CommitFails, Quiet

LEMMA ClearView ==
    ASSUME FileTypes, RecordTypes, Moves, Clear
    PROVE  /\ op \in Operations /\ op.at = "clear" /\ Quiet /\ UNCHANGED <<Disk, last>> /\ FilesTyped'
           /\ pending' = Nothing /\ op.plan # <<>>
           /\ IF Change.create THEN Step("verify", Tail(op.plan), op.i, op.tx)
              ELSE Step("look", op.plan, op.i, op.tx)
<1>1. /\ op \in Operations /\ op.at = "clear" /\ Quiet /\ UNCHANGED <<Disk, last>> /\ FilesTyped'
      /\ op # Nothing /\ pending' = Nothing
  BY SameDisk DEF Clear, Running, RecordTypes, Quiet, idle, bounds, ghosts, FileTypes
<1>2. op.plan # <<>>
  BY <1>1 DEF Moves
<1> QED
  BY <1>1, <1>2, ToStep, NextActionStep DEF Clear, Stages

LEMMA LookView ==
    ASSUME FileTypes, RecordTypes, Replacements, Look
    PROVE  /\ op \in Operations /\ op.at = "look" /\ Decides /\ op.plan # <<>>
           /\ \/ op' = Nothing
              \/ Step("verify", Tail(op.plan), op.i, op.tx)
              \/ Step("create", op.plan, op.i, op.tx)
<1>1. op \in Operations /\ op.at = "look" /\ Decides /\ op # Nothing
  BY SameDisk DEF Look, Running, RecordTypes, Decides, Quiet, idle, bounds, ghosts, FileTypes
<1>2. op.plan # <<>>
  BY <1>1 DEF Replacements
<1> QED
  BY <1>1, <1>2, ToStep, NextActionStep DEF Look, End, Stages

LEMMA CreateView ==
    ASSUME FileTypes, RecordTypes, Replacements, Create
    PROVE  /\ op \in Operations /\ op.at = "create" /\ Quiet /\ UNCHANGED <<last, pending>> /\ FilesTyped'
           /\ op.plan # <<>> /\ Target \in Targets
           /\ \/ /\ Disk[Target] = Nothing /\ Disk' = [Disk EXCEPT ![Target] = Good]
                 /\ Step("verify", Tail(op.plan), op.i, op.tx)
              \/ Disk' = Disk /\ op' = Nothing
<1>1. /\ op \in Operations /\ op.at = "create" /\ Quiet /\ UNCHANGED <<last, pending>> /\ FilesTyped
      /\ op # Nothing /\ Written' = Written
  BY DEF Create, Running, RecordTypes, Quiet, idle, bounds, ghosts, FileTypes, Written
<1>2. op.plan # <<>>
  BY <1>1 DEF Replacements
<1>3. Target \in Targets /\ Target \in Paths /\ At(Target) = Disk[Target]
  BY <1>1, <1>2, TargetFacts, AtDisk DEF Paths
<1>4. CASE At(Target) = Nothing
  BY <1>1, <1>2, <1>3, <1>4, WithDisk, NoText, NextActionStep DEF Create
<1>5. CASE At(Target) # Nothing
  BY <1>1, <1>2, <1>3, <1>5, SameDisk DEF Create, End, Quiet
<1> QED
  BY <1>4, <1>5

LEMMA PublishView ==
    ASSUME FileTypes, RecordTypes, Moves, Publish
    PROVE  /\ op \in Operations /\ op.at = "publish" /\ Quiet /\ UNCHANGED last /\ FilesTyped'
           /\ \/ /\ Disk[Target] = Nothing /\ Disk' = [Disk EXCEPT ![Target] = Good]
                 /\ pending' = pending /\ Step("own", op.plan, op.i, op.tx)
              \/ Disk[Target] # Nothing /\ Disk' = Disk /\ pending' = Nothing /\ op' = Nothing
<1>1. /\ op \in Operations /\ op.at = "publish" /\ Quiet /\ UNCHANGED last /\ FilesTyped
      /\ op # Nothing /\ Written' = Written
  BY DEF Publish, Running, RecordTypes, Quiet, idle, bounds, ghosts, FileTypes, Written
<1>2. op.plan # <<>>
  BY <1>1 DEF Moves
<1>3. Target \in Targets /\ Target \in Paths /\ At(Target) = Disk[Target]
  BY <1>1, <1>2, TargetFacts, AtDisk DEF Paths
<1>4. CASE At(Target) = Nothing
  BY <1>1, <1>2, <1>3, <1>4, WithDisk, NoText, ToStep DEF Publish, Stages
<1>5. CASE At(Target) # Nothing
  BY <1>1, <1>2, <1>3, <1>5, SameDisk DEF Publish, End, Quiet
<1> QED
  BY <1>4, <1>5

LEMMA OwnView ==
    ASSUME FileTypes, RecordTypes, Moves, Own
    PROVE  /\ op \in Operations /\ op.at = "own" /\ Decides
           /\ \/ op' = Nothing
              \/ Step("commit", op.plan, op.i, op.tx)
<1>1. op \in Operations /\ op.at = "own" /\ Decides /\ op # Nothing
  BY SameDisk DEF Own, Running, RecordTypes, Decides, Quiet, idle, bounds, ghosts, FileTypes
<1> QED
  BY <1>1, ToStep DEF Own, End, Stages

LEMMA PromoteView ==
    ASSUME FileTypes, RecordTypes, Promote
    PROVE  /\ op \in Operations /\ op.at = "promote" /\ Quiet /\ UNCHANGED <<Disk, pending>> /\ FilesTyped'
           /\ last' = pending.tx /\ Step("settle", op.plan, op.i, op.tx)
  BY SameDisk, ToStep
     DEF Promote, Running, RecordTypes, Quiet, idle, bounds, ghosts, FileTypes, Stages

LEMMA SettleView ==
    ASSUME FileTypes, RecordTypes, Settle
    PROVE  /\ op \in Operations /\ op.at = "settle" /\ Quiet /\ UNCHANGED <<Disk, last>> /\ FilesTyped'
           /\ pending' = Nothing /\ Step(Begun, op.plan, op.i, op.tx)
<1>1. Begun \in Stages /\ To(Begun)
  BY DEF Begun, Stages, Settle
<1> QED
  BY <1>1, SameDisk, ToStep DEF Settle, Running, RecordTypes, Quiet, idle, bounds, ghosts, FileTypes

LEMMA BeginView ==
    ASSUME FileTypes, RecordTypes, Ledger, Begin
    PROVE  /\ op \in Operations /\ op.at = "begin" /\ Decides
           /\ \/ op' = Nothing
              \/ /\ last # Nothing /\ ~last.undone
                 /\ Step("undo", op.plan, Len(last.changes), last)
<1>1. op \in Operations /\ op.at = "begin" /\ Decides /\ op # Nothing
  BY SameDisk DEF Begin, Running, RecordTypes, Decides, Quiet, idle, bounds, ghosts, FileTypes
<1>2. ASSUME last # Nothing, Go([[op EXCEPT !.tx = last] EXCEPT !.i = Len(last.changes)], "undo")
      PROVE  Step("undo", op.plan, Len(last.changes), last)
  <2>1. last \in Transactions /\ Len(last.changes) \in Nat
    BY <1>2, LastFacts DEF FileTypes
  <2>2. [op EXCEPT !.tx = last] \in Operations
    BY <1>1, <2>1 DEF Operations
  <2> QED
    BY <1>1, <1>2, <2>1, <2>2 DEF Go, Step, Operations, Stages
<1> QED
  BY <1>1, <1>2 DEF Begin, End

\* While an undo is at one of its changes.
LEMMA UndoingFacts ==
    ASSUME RecordTypes, Ledger, Undos, op # Nothing,
           op.at \in {"undo", "aside", "restore", "mark", "drop"}, op.i > 0
    PROVE  /\ last # Nothing /\ op.tx = last /\ last.id < op.n /\ op.n \in Nat /\ pending = Nothing
           /\ op.i \in 1 .. Len(last.changes)
           /\ Undoing \in ChangeRecords /\ Undoing = last.changes[op.i]
           /\ Undoing.target \in Targets /\ Undoing.target \in Paths
           /\ Redo(Undoing.target, op.n) \in Paths \ Targets
           /\ ~Undoing.create => /\ Undoing.prev = Previous(Undoing.target, last.id)
                                /\ Undoing.prev \in Paths \ Targets
<1>1. /\ last # Nothing /\ op.tx = last /\ last.id < op.n /\ pending = Nothing
      /\ op.i <= Len(last.changes)
  BY DEF Undos, Older
<1>2. op \in Operations /\ op.n \in Nat /\ op.i \in Nat
  BY OperationFacts DEF RecordTypes
<1>3. op.i \in 1 .. Len(last.changes)
  BY <1>1, <1>2, LastFacts
<1> QED
  BY <1>1, <1>2, <1>3, LastFacts, PathsDiffer DEF Undoing, Paths

LEMMA UndoChangeView ==
    ASSUME FileTypes, RecordTypes, Ledger, Undos, UndoChange
    PROVE  /\ op \in Operations /\ op.at = "undo" /\ Quiet /\ UNCHANGED <<last, pending>> /\ FilesTyped'
           /\ \/ op.i = 0 /\ Disk' = Disk /\ Step("finish", op.plan, op.i, op.tx)
              \/ /\ op.i > 0 /\ Undoing.undone
                 /\ Disk' = (IF Undoing.create THEN Disk ELSE [Disk EXCEPT ![Undoing.prev] = Nothing])
                 /\ Step("undo", op.plan, op.i - 1, op.tx)
              \/ /\ op.i > 0 /\ ~Undoing.undone /\ Disk' = Disk
                 /\ Undoing.create /\ Disk[Undoing.target] # Good
                 /\ Step("mark", op.plan, op.i, op.tx)
              \/ /\ op.i > 0 /\ ~Undoing.undone /\ Disk' = Disk
                 /\ Step("aside", op.plan, op.i, op.tx)
<1>1. /\ op \in Operations /\ op.at = "undo" /\ Quiet /\ UNCHANGED <<last, pending>> /\ FilesTyped
      /\ op # Nothing /\ Written' = Written /\ op.i \in Nat
  BY OperationFacts DEF UndoChange, Running, RecordTypes, Quiet, idle, bounds, ghosts, FileTypes, Written
<1>2. CASE op.i = 0
  BY <1>1, <1>2, SameDisk, ToStep DEF UndoChange, Stages, Quiet
<1>3. CASE op.i > 0
  <2>1. /\ Undoing.target \in Paths /\ At(Undoing.target) = Disk[Undoing.target]
        /\ Undoing.create \in BOOLEAN /\ (~Undoing.create => Undoing.prev \in Paths)
    BY <1>1, <1>3, UndoingFacts, AtDisk, ChangeFacts
  <2>2. CASE Undoing.undone
    <3>1. /\ files' = (IF Undoing.create THEN files ELSE Without(Undoing.prev)) /\ NextChange(op)
      BY <1>3, <2>2 DEF UndoChange
    <3>2. Disk' = (IF Undoing.create THEN Disk ELSE [Disk EXCEPT ![Undoing.prev] = Nothing]) /\ FilesTyped'
      BY <1>1, <2>1, <3>1, SameDisk, WithoutDisk DEF Quiet
    <3> QED
      BY <1>1, <1>3, <2>2, <3>1, <3>2, NextChangeStep
  <2>3. CASE ~Undoing.undone
    BY <1>1, <1>3, <2>1, <2>3, SameDisk, ToStep DEF UndoChange, Stages, Quiet
  <2> QED
    BY <2>2, <2>3
<1> QED
  BY <1>1, <1>2, <1>3

LEMMA AsideView ==
    ASSUME FileTypes, RecordTypes, Ledger, Undos, Aside
    PROVE  /\ op \in Operations /\ op.at = "aside" /\ Quiet /\ UNCHANGED <<last, pending>> /\ FilesTyped'
           /\ Disk' = Back(Disk, Undoing.target, Redo(Undoing.target, op.n))
           /\ Step(IF Undoing.create THEN "mark" ELSE "restore", op.plan, op.i, op.tx)
<1>1. /\ op \in Operations /\ op.at = "aside" /\ Quiet /\ UNCHANGED <<last, pending>> /\ FilesTyped
      /\ op # Nothing
  BY DEF Aside, Running, RecordTypes, Quiet, idle, bounds, ghosts, FileTypes
<1>2. op.i > 0
  BY <1>1 DEF Undos
<1>3. Undoing.target \in Paths /\ Redo(Undoing.target, op.n) \in Paths
  BY <1>1, <1>2, UndoingFacts
<1>4. files' = MovedBack(Undoing.target, Redo(Undoing.target, op.n))
      /\ To(IF Undoing.create THEN "mark" ELSE "restore")
  BY DEF Aside
<1> QED
  BY <1>1, <1>3, <1>4, MovedBackDisk, ToStep DEF Stages, Quiet

LEMMA RestoreView ==
    ASSUME FileTypes, RecordTypes, Ledger, Undos, Restore
    PROVE  /\ op \in Operations /\ op.at = "restore" /\ Quiet /\ UNCHANGED <<last, pending>>
           /\ \/ /\ Disk[Undoing.prev] = Undoing.state /\ Disk[Undoing.target] = Nothing
                 /\ Disk' = [Disk EXCEPT ![Undoing.target] = Undoing.state]
                 /\ Disk[Undoing.prev] # Nothing => FilesTyped'
                 /\ Step("mark", op.plan, op.i, op.tx)
              \/ /\ Disk' = Back(Disk, Redo(Undoing.target, op.n), Undoing.target) /\ FilesTyped'
                 /\ op' = Nothing
<1>1. /\ op \in Operations /\ op.at = "restore" /\ Quiet /\ UNCHANGED <<last, pending>> /\ FilesTyped
      /\ op # Nothing /\ Written' = Written
  BY DEF Restore, Running, RecordTypes, Quiet, idle, bounds, ghosts, FileTypes, Written
<1>2. op.i > 0 /\ ~Undoing.create
  BY <1>1 DEF Undos
<1>3. Undoing.target \in Paths /\ Redo(Undoing.target, op.n) \in Paths /\ Undoing.prev \in Paths
      /\ At(Undoing.target) = Disk[Undoing.target] /\ At(Undoing.prev) = Disk[Undoing.prev]
  BY <1>1, <1>2, UndoingFacts, AtDisk
<1>4. CASE Disk[Undoing.prev] = Undoing.state /\ Disk[Undoing.target] = Nothing
  <2>1. files' = With(Undoing.target, Undoing.state) /\ To("mark")
    BY <1>3, <1>4 DEF Restore
  <2>2. Disk' = [Disk EXCEPT ![Undoing.target] = Undoing.state]
    BY <1>3, <2>1 DEF Disk, With
  <2>3. Disk[Undoing.prev] # Nothing => FilesTyped'
    BY <1>1, <1>3, <1>4, <2>1, DiskType, WithDisk
  <2> QED
    BY <1>1, <1>4, <2>1, <2>2, <2>3, ToStep DEF Stages
<1>5. CASE ~(Disk[Undoing.prev] = Undoing.state /\ Disk[Undoing.target] = Nothing)
  BY <1>1, <1>3, <1>5, MovedBackDisk DEF Restore, End, Quiet
<1> QED
  BY <1>1, <1>4, <1>5

LEMMA RestoreFailsView ==
    ASSUME FileTypes, RecordTypes, Ledger, Undos, RestoreFails
    PROVE  /\ op \in Operations /\ op.at = "restore" /\ Quiet /\ UNCHANGED <<last, pending>> /\ FilesTyped'
           /\ Disk' = Back(Disk, Redo(Undoing.target, op.n), Undoing.target)
           /\ op' = Nothing
<1>1. /\ op \in Operations /\ op.at = "restore" /\ Quiet /\ UNCHANGED <<last, pending>> /\ FilesTyped
      /\ op # Nothing /\ op' = Nothing
      /\ files' = MovedBack(Redo(Undoing.target, op.n), Undoing.target)
  BY DEF RestoreFails, Running, RecordTypes, Quiet, ghosts, FileTypes, End
<1>2. op.i > 0
  BY <1>1 DEF Undos
<1>3. Undoing.target \in Paths /\ Redo(Undoing.target, op.n) \in Paths
  BY <1>1, <1>2, UndoingFacts
<1> QED
  BY <1>1, <1>3, MovedBackDisk DEF Quiet

LEMMA MarkView ==
    ASSUME FileTypes, RecordTypes, Ledger, Undos, Mark
    PROVE  /\ op \in Operations /\ op.at = "mark" /\ Quiet /\ UNCHANGED <<Disk, pending>> /\ FilesTyped'
           /\ last # Nothing /\ last' \in Transactions /\ last'.id = last.id /\ last'.undone = last.undone
           /\ Len(last'.changes) = Len(last.changes)
           /\ \A k \in 1 .. Len(last.changes) : k # op.i => last'.changes[k] = last.changes[k]
           /\ LET c == last'.changes[op.i]
              IN /\ c.target = Undoing.target /\ c.prev = Undoing.prev /\ c.state = Undoing.state
                 /\ c.create = Undoing.create /\ c.undone
           /\ IF Undoing.create THEN Step("undo", op.plan, op.i - 1, last')
              ELSE Step("drop", op.plan, op.i, last')
<1>1. /\ op \in Operations /\ op.at = "mark" /\ Quiet /\ UNCHANGED <<Disk, pending>> /\ FilesTyped'
      /\ op # Nothing
  BY SameDisk DEF Mark, Running, RecordTypes, Quiet, idle, bounds, ghosts, FileTypes
<1>2. op.i > 0
  BY <1>1 DEF Undos
<1>3. /\ last # Nothing /\ op.tx = last /\ op.i \in 1 .. Len(last.changes)
      /\ Undoing \in ChangeRecords /\ Undoing = last.changes[op.i]
  BY <1>1, <1>2, UndoingFacts
<1> DEFINE done == [Undoing EXCEPT !.undone = TRUE]
           tx == [op.tx EXCEPT !.changes = [op.tx.changes EXCEPT ![op.i] = done]]
<1>4. /\ done \in ChangeRecords /\ done.undone
      /\ done.target = Undoing.target /\ done.prev = Undoing.prev /\ done.state = Undoing.state
      /\ done.create = Undoing.create
  BY <1>3 DEF ChangeRecords
<1> HIDE DEF done
<1>5. last \in Transactions /\ last.changes \in Seq(ChangeRecords)
  BY <1>3, LastFacts, TransactionFacts
<1>6. /\ [last.changes EXCEPT ![op.i] = done] \in Seq(ChangeRecords)
      /\ Len([last.changes EXCEPT ![op.i] = done]) = Len(last.changes)
      /\ \A k \in 1 .. Len(last.changes) :
            [last.changes EXCEPT ![op.i] = done][k] = IF k = op.i THEN done ELSE last.changes[k]
  BY <1>3, <1>4, <1>5, ExceptSeq
<1>7. /\ tx \in Transactions /\ tx.id = last.id /\ tx.undone = last.undone
      /\ tx.changes = [last.changes EXCEPT ![op.i] = done]
  BY <1>3, <1>5, <1>6 DEF Transactions
<1>8. /\ last' = tx
      /\ IF Undoing.create THEN NextChange([op EXCEPT !.tx = tx]) ELSE Go([op EXCEPT !.tx = tx], "drop")
  BY DEF Mark, done
<1> HIDE DEF tx
<1>9. [op EXCEPT !.tx = tx] \in Operations
  BY <1>1, <1>7 DEF Operations
<1>10. CASE Undoing.create
  <2>1. Step("undo", op.plan, op.i - 1, tx)
    <3> DEFINE o == [op EXCEPT !.tx = tx]
    <3>1. /\ o \in Operations /\ o.i = op.i /\ o.tx = tx /\ NextChange(o)
          /\ o.plan = op.plan /\ o.kind = op.kind /\ o.seen = op.seen /\ o.n = op.n
      BY <1>1, <1>8, <1>9, <1>10 DEF Operations
    <3> HIDE DEF o
    <3> QED
      BY <1>1, <1>2, <3>1, NextChangeStep
  <2> QED
    BY <1>1, <1>3, <1>4, <1>6, <1>7, <1>8, <1>10, <2>1
<1>11. CASE ~Undoing.create
  <2>1. Step("drop", op.plan, op.i, tx)
    BY <1>1, <1>8, <1>9, <1>11, ZenonT(60) DEF Go, Step, Operations, Stages
  <2> QED
    BY <1>1, <1>3, <1>4, <1>6, <1>7, <1>8, <1>11, <2>1
<1> QED
  BY <1>10, <1>11

LEMMA DropView ==
    ASSUME FileTypes, RecordTypes, Ledger, Undos, Drop
    PROVE  /\ op \in Operations /\ op.at = "drop" /\ Quiet /\ UNCHANGED <<last, pending>> /\ FilesTyped'
           /\ op.i > 0 /\ Undoing.undone /\ ~Undoing.create
           /\ Disk' = [Disk EXCEPT ![Undoing.prev] = Nothing]
           /\ Step("undo", op.plan, op.i - 1, op.tx)
<1>1. /\ op \in Operations /\ op.at = "drop" /\ Quiet /\ UNCHANGED <<last, pending>> /\ FilesTyped
      /\ op # Nothing /\ Written' = Written /\ files' = Without(Undoing.prev) /\ NextChange(op)
  BY DEF Drop, Running, RecordTypes, Quiet, idle, bounds, ghosts, FileTypes, Written
<1>2. op.i > 0 /\ Undoing.undone /\ ~Undoing.create
  BY <1>1 DEF Undos
<1>3. Undoing.prev \in Paths
  BY <1>1, <1>2, UndoingFacts
<1> QED
  BY <1>1, <1>2, <1>3, WithoutDisk, NextChangeStep

LEMMA FinishView ==
    ASSUME FileTypes, RecordTypes, Ledger, Undos, Finish
    PROVE  /\ op \in Operations /\ op.at = "finish" /\ Quiet /\ UNCHANGED <<Disk, pending>> /\ FilesTyped'
           /\ last # Nothing /\ last' \in Transactions /\ last'.undone
           /\ last'.id = last.id /\ last'.changes = last.changes
           /\ op' = Nothing
<1>1. /\ op \in Operations /\ op.at = "finish" /\ Quiet /\ UNCHANGED <<Disk, pending>> /\ FilesTyped'
      /\ op # Nothing /\ op' = Nothing /\ last' = [op.tx EXCEPT !.undone = TRUE]
  BY SameDisk DEF Finish, Running, RecordTypes, Quiet, idle, bounds, ghosts, FileTypes, End
<1>2. last # Nothing /\ op.tx = last
  BY <1>1 DEF Undos
<1>3. last \in Transactions
  BY <1>2 DEF RecordTypes
<1> QED
  BY <1>1, <1>2, <1>3 DEF Transactions

LEMMA StopView ==
    ASSUME FileTypes, RecordTypes, StepFails \/ Crash
    PROVE  Decides /\ op' = Nothing
  BY SameDisk DEF StepFails, Crash, End, Decides, Quiet, ghosts, FileTypes

-----------------------------------------------------------------------------
(* What is on the disk is accounted for. *)

Accounts == Rescued /\ HaveBackups /\ Named /\ Spares /\ Traces

LEMMA NoName == \A t \in Targets, n \in Nat : Previous(t, n) # Nothing
  BY NamesAssumption, PathsDiffer

\* No file is lost when one is moved.
LEMMA ShiftRescues ==
    ASSUME Rescued, FileTypes, NEW from \in Paths, NEW to \in Paths, Disk[to] = Nothing,
           Disk' = Shift(Disk, from, to), kept' = kept
    PROVE  Rescued'
<1>1. Nothing \notin kept
  BY NamesAssumption DEF FileTypes
<1>2. ASSUME NEW k \in kept PROVE \E p \in Paths : Disk'[p] = k
  <2>1. PICK p \in Paths : Disk[p] = k
    BY DEF Rescued
  <2>2. p # to
    BY <1>1, <2>1
  <2>3. CASE p = from
    BY <2>1, <2>3 DEF Shift
  <2>4. CASE p # from
    BY <2>1, <2>2, <2>4 DEF Shift
  <2> QED
    BY <2>3, <2>4
<1> QED
  BY <1>2 DEF Rescued

LEMMA ShiftSpares ==
    ASSUME FileTypes, RecordTypes, Ledger, Spares, NEW from \in Paths, NEW to \in Paths,
           Disk[to] = Nothing, Disk' = Shift(Disk, from, to), kept' = kept, last' = last,
           \A i \in 1 .. Len(last.changes) : last # Nothing /\ ~last.changes[i].create /\ last.changes[i].undone =>
              /\ last.changes[i].prev # from /\ last.changes[i].prev # to
              /\ \A t \in Targets : to # Previous(t, last.id)
    PROVE  Spares'
<1>1. SUFFICES ASSUME last # Nothing, NEW i \in 1 .. Len(last.changes),
                      last.changes[i].undone, ~last.changes[i].create,
                      Disk'[last.changes[i].prev] \in kept
               PROVE  \E p \in Paths : /\ Disk'[p] = Disk'[last.changes[i].prev]
                                       /\ \A t \in Targets : p # Previous(t, last.id)
  BY LastFacts DEF Spares, Spare
<1> DEFINE b == last.changes[i].prev
<1>2. b \in Paths /\ b # from /\ b # to /\ Disk'[b] = Disk[b]
  <2>1. b \in Paths
    BY <1>1, LastFacts, PathsDiffer
  <2> QED
    BY <1>1, <2>1 DEF Shift
<1>3. PICK p \in Paths : Disk[p] = Disk[b] /\ \A t \in Targets : p # Previous(t, last.id)
  BY <1>1, <1>2, LastFacts DEF Spares, Spare
<1>4. p # to
  BY <1>1, <1>2, <1>3, NamesAssumption DEF FileTypes
<1>5. CASE p = from
  BY <1>1, <1>2, <1>3, <1>5 DEF Shift
<1>6. CASE p # from
  BY <1>1, <1>2, <1>3, <1>4, <1>6 DEF Shift
<1> QED
  BY <1>5, <1>6

LEMMA DecidesAccounts ==
    ASSUME Accounts, Decides PROVE Accounts'
<1> USE DEF Decides, Quiet
<1>1. Rescued'
  BY DEF Accounts, Rescued
<1>2. HaveBackups'
  BY DEF Accounts, HaveBackups, BackedUp
<1>3. Named'
  BY DEF Accounts, Named, Names
<1>4. Spares'
  BY DEF Accounts, Spares, Spare
<1>5. Traces'
  BY DEF Accounts, Traces, InFlight, Journaled, Written
<1> QED
  BY <1>1, <1>2, <1>3, <1>4, <1>5 DEF Accounts

\* What the undo state names is not what the journal is about.
LEMMA OthersNamed ==
    ASSUME RecordTypes, Ledger, InFlight, ~Journaled.create, last # Nothing,
           NEW i \in 1 .. Len(last.changes)
    PROVE  /\ ~last.changes[i].create => last.changes[i].prev # Journaled.prev
           /\ last.changes[i].undone => \A t \in Targets : Journaled.prev # Previous(t, last.id)
<1>1. pending # Nothing
  BY DEF InFlight
<1>2. /\ last.id \in Nat /\ pending.tx.id \in Nat /\ Journaled.target \in Targets
      /\ Journaled.prev = Previous(Journaled.target, pending.tx.id)
      /\ last.changes[i].target \in Targets
      /\ ~last.changes[i].create => last.changes[i].prev = Previous(last.changes[i].target, last.id)
      /\ Len(last.changes) \in Nat /\ DOMAIN last.changes = 1 .. Len(last.changes)
  BY <1>1, JournalFacts, LastFacts, ChangeFacts, TransactionFacts
<1>3. CASE last.id < pending.tx.id
  BY <1>2, <1>3, PathsDiffer
<1>4. CASE /\ last.id = pending.tx.id /\ Standing(last)
           /\ Len(pending.tx.changes) = Len(last.changes) + 1
           /\ \A k \in 1 .. Len(last.changes) : pending.tx.changes[k] = last.changes[k]
  <2>1. last.changes[i].target # Journaled.target
    BY <1>1, <1>2, <1>4, JournalFacts
  <2> QED
    BY <1>2, <1>4, <2>1, PathsDiffer DEF Standing
<1> QED
  BY <1>3, <1>4, InFlightFacts

\* The journal's change is made.
LEMMA MadeAccounts ==
    ASSUME Types, Ledger, Accounts, InFlight, ~Journaled.create, Quiet, UNCHANGED <<last, pending>>,
           Disk[Journaled.target] # Nothing, Disk[Journaled.prev] = Nothing,
           Disk' = Shift(Disk, Journaled.target, Journaled.prev)
    PROVE  Accounts'
<1> DEFINE t == Journaled.target
           b == Journaled.prev
<1>1. /\ pending # Nothing /\ t \in Targets /\ t \in Paths /\ b \in Paths \ Targets
      /\ b = Previous(t, pending.tx.id) /\ pending.tx.id \in Nat
  BY JournalFacts, ChangeFacts, PathsDiffer, TransactionFacts DEF Types, InFlight, Paths
<1>2. \A p \in Paths : Disk'[p] = IF p = b THEN Disk[t] ELSE IF p = t THEN Nothing ELSE Disk[p]
  BY DEF Shift
<1>3. ASSUME last # Nothing, NEW i \in 1 .. Len(last.changes), ~last.changes[i].create
      PROVE  last.changes[i].prev \in Paths \ {b, t}
  BY <1>1, <1>3, OthersNamed, LastFacts, PathsDiffer DEF Types
<1>4. Rescued'
  BY <1>1, ShiftRescues DEF Types, Accounts, Quiet
<1>5. HaveBackups'
  BY <1>2, <1>3, LastFacts DEF Types, Accounts, HaveBackups, BackedUp
<1>6. Named'
  <2>1. Names(pending.tx, b)
    BY <1>1, JournalFacts, TransactionFacts DEF Types, Names
  <2>2. \A u \in Targets, n \in Nat :
          Disk'[Previous(u, n)] # Nothing => Previous(u, n) = b \/ Disk[Previous(u, n)] # Nothing
    BY <1>1, <1>2, PathsDiffer
  <2> HIDE DEF b
  <2> QED
    BY <1>1, <2>1, <2>2 DEF Accounts, Named, Names
<1>7. Spares'
  BY <1>1, <1>3, OthersNamed, ShiftSpares DEF Types, Accounts, Quiet
<1>8. Traces'
  <2>1. Journaled' = Journaled /\ Written' = Written /\ touched' = touched /\ pending' = pending
    BY DEF Journaled, Quiet, Written
  <2>2. Disk'[t] = Nothing /\ Disk'[b] = Disk[t]
    BY <1>1, <1>2
  <2> QED
    BY <1>1, <2>1, <2>2 DEF Accounts, Traces
<1> QED
  BY <1>4, <1>5, <1>6, <1>7, <1>8 DEF Accounts

\* It is taken back.
LEMMA TakenBackAccounts ==
    ASSUME Types, Ledger, Accounts, InFlight, ~Journaled.create, Quiet, UNCHANGED <<last, pending>>,
           Disk' = Back(Disk, Journaled.prev, Journaled.target)
    PROVE  Accounts'
<1> DEFINE t == Journaled.target
           b == Journaled.prev
<1>1. /\ pending # Nothing /\ t \in Targets /\ t \in Paths /\ b \in Paths \ Targets
      /\ b = Previous(t, pending.tx.id) /\ pending.tx.id \in Nat
  BY JournalFacts, ChangeFacts, PathsDiffer, TransactionFacts DEF Types, InFlight, Paths
<1>a. CASE Disk' = Disk
  <2>1. /\ Rescued' /\ HaveBackups' /\ Named' /\ Spares'
    BY <1>a DEF Accounts, Rescued, HaveBackups, BackedUp, Named, Names, Spares, Spare, Quiet
  <2>2. Traces'
    BY <1>a DEF Accounts, Traces, InFlight, Journaled, Written, Quiet
  <2> QED
    BY <2>1, <2>2 DEF Accounts
<1>b. CASE Disk' # Disk
  <2>1. Disk' = Shift(Disk, b, t) /\ Disk[b] # Nothing /\ Disk[t] = Nothing
    BY <1>b DEF Back
  <2>2. \A p \in Paths : Disk'[p] = IF p = t THEN Disk[b] ELSE IF p = b THEN Nothing ELSE Disk[p]
    BY <2>1 DEF Shift
  <2>3. ASSUME last # Nothing, NEW i \in 1 .. Len(last.changes), ~last.changes[i].create
        PROVE  last.changes[i].prev \in Paths \ {b, t}
    BY <1>1, <2>3, OthersNamed, LastFacts, PathsDiffer DEF Types
  <2>4. Rescued'
    BY <1>1, <2>1, ShiftRescues DEF Types, Accounts, Quiet
  <2>5. HaveBackups'
    BY <2>2, <2>3, LastFacts DEF Types, Accounts, HaveBackups, BackedUp
  <2>6. Named'
    <3>1. \A u \in Targets, n \in Nat :
            Disk'[Previous(u, n)] # Nothing => Disk[Previous(u, n)] # Nothing
      BY <1>1, <2>2, PathsDiffer
    <3> QED
      BY <3>1 DEF Accounts, Named, Names
  <2>7. Spares'
    <3>1. \A u \in Targets, n \in Nat : t # Previous(u, n)
      BY <1>1, PathsDiffer
    <3>2. last # Nothing => last.id \in Nat
      BY LastFacts DEF Types
    <3> QED
      BY <1>1, <2>1, <2>3, <3>1, <3>2, ShiftSpares DEF Types, Accounts, Quiet
  <2>8. Traces'
    <3>1. Journaled' = Journaled /\ Written' = Written /\ touched' = touched /\ pending' = pending
      BY DEF Journaled, Quiet, Written
    <3>2. Disk'[b] = Nothing /\ Disk'[t] = Disk[b]
      BY <1>1, <2>2
    <3> QED
      BY <1>1, <2>1, <3>1, <3>2 DEF Accounts, Traces
  <2> QED
    BY <2>4, <2>5, <2>6, <2>7, <2>8 DEF Accounts
<1> QED
  BY <1>a, <1>b

\* It is recorded, by the repair itself or by a later operation that promotes it.
LEMMA RecordedAccounts ==
    ASSUME Types, Ledger, Accounts, InFlight, Quiet, UNCHANGED <<Disk, pending>>, last' = pending.tx,
           ~Journaled.create => Disk[Journaled.prev] # Nothing /\ Disk[Journaled.prev] = Journaled.state
    PROVE  Ledger' /\ Accounts'
<1> DEFINE tx == pending.tx
<1>1. /\ pending # Nothing /\ tx \in Transactions /\ tx.id \in 1 .. serial /\ tx.changes # <<>>
      /\ WellFormed(tx) /\ Standing(tx) /\ Follows(tx, pending.bound)
      /\ Len(tx.changes) \in Nat /\ DOMAIN tx.changes = 1 .. Len(tx.changes) /\ tx # Nothing
      /\ Journaled = tx.changes[Len(tx.changes)]
  BY JournalFacts, TransactionFacts DEF Types, InFlight, Ledger
<1>2. Ledger'
  BY <1>1 DEF Ledger, Quiet, Standing, WellFormed, Distinct, Follows
<1>3. Rescued'
  BY DEF Accounts, Rescued, Quiet
<1>4. ASSUME NEW i \in 1 .. Len(tx.changes) - 1
      PROVE  /\ last # Nothing /\ last.id = tx.id /\ i \in 1 .. Len(last.changes)
             /\ tx.changes[i] = last.changes[i]
  <2>1. last # Nothing /\ last.id = tx.id
    BY <1>1, InFlightFacts DEF Types
  <2>2. tx.id \in Nat /\ Len(last.changes) \in Nat
    BY <1>1, <2>1, TransactionFacts, LastFacts DEF Types
  <2> QED
    BY <1>1, <2>1, <2>2, InFlightFacts DEF Types
<1>5. HaveBackups'
  <2>1. ASSUME NEW i \in 1 .. Len(tx.changes) PROVE BackedUp(tx.changes[i])'
    <3>1. CASE i = Len(tx.changes)
      BY <1>1, <3>1 DEF BackedUp, Quiet
    <3>2. CASE i # Len(tx.changes)
      <4>1. i \in 1 .. Len(tx.changes) - 1
        BY <1>1, <3>2
      <4>2. BackedUp(tx.changes[i])
        BY <1>4, <4>1, LastFacts DEF Types, Accounts, HaveBackups
      <4> QED
        BY <4>2 DEF BackedUp
    <3> QED
      BY <3>1, <3>2
  <2> QED
    BY <1>1, <2>1 DEF HaveBackups
<1>6. Named'
  <2>1. SUFFICES ASSUME NEW t \in Targets, NEW n \in Nat, Disk[Previous(t, n)] # Nothing
                 PROVE  tx.id > n \/ Names(tx, Previous(t, n))
    BY <1>1 DEF Named, Names
  <2>2. CASE Names(tx, Previous(t, n))
    BY <2>2
  <2>3. CASE ~Names(tx, Previous(t, n))
    <3>1. last # Nothing /\ (last.id > n \/ Names(last, Previous(t, n)))
      BY <2>1, <2>3 DEF Accounts, Named
    <3>2. /\ last.id \in Nat /\ tx.id \in Nat /\ Len(last.changes) \in Nat
          /\ DOMAIN last.changes = 1 .. Len(last.changes)
          /\ last.id < tx.id \/ last.id = tx.id
      BY <1>1, <3>1, LastFacts, TransactionFacts, InFlightFacts DEF Types
    <3>3. CASE last.id > n
      BY <3>2, <3>3
    <3>4. ASSUME Names(last, Previous(t, n)) PROVE last.id = n
      <4>1. PICK i \in 1 .. Len(last.changes) : last.changes[i].prev = Previous(t, n)
        BY <3>2, <3>4 DEF Names
      <4>2. CASE last.changes[i].create
        <5>1. last.changes[i].prev = Nothing
          BY <3>1, <3>2, <4>2 DEF Ledger, WellFormed
        <5> QED
          BY <4>1, <5>1, NoName
      <4>3. CASE ~last.changes[i].create
        BY <3>1, <3>2, <4>1, <4>3, LastFacts, PathsDiffer DEF Types
      <4> QED
        BY <4>2, <4>3
    <3>5. CASE last.id < tx.id
      BY <3>1, <3>2, <3>4, <3>5
    <3>6. CASE last.id = tx.id /\ ~(last.id > n)
      <4>1. /\ Len(tx.changes) = Len(last.changes) + 1
            /\ \A i \in 1 .. Len(last.changes) : tx.changes[i] = last.changes[i]
        BY <3>1, <3>2, <3>6, InFlightFacts DEF Types
      <4>2. PICK i \in 1 .. Len(last.changes) : last.changes[i].prev = Previous(t, n)
        BY <3>1, <3>2, <3>6 DEF Names
      <4>3. i \in DOMAIN tx.changes /\ tx.changes[i] = last.changes[i]
        BY <1>1, <3>2, <4>1
      <4> QED
        BY <4>2, <4>3 DEF Names
    <3> QED
      BY <3>2, <3>3, <3>5, <3>6
  <2> QED
    BY <2>2, <2>3
<1>7. Spares'
  BY <1>1 DEF Spares, Standing
<1>8. Traces'
  BY <1>1, InFlightFacts DEF Traces, InFlight, Types
<1> QED
  BY <1>2, <1>3, <1>5, <1>6, <1>7, <1>8 DEF Accounts

\* The journal goes: its change is recorded, or was not made.
LEMMA ForgottenAccounts ==
    ASSUME Types, Ledger, Accounts, Quiet, UNCHANGED <<Disk, last>>, pending # Nothing, pending' = Nothing,
           InFlight /\ ~Journaled.create => Disk[Journaled.prev] = Nothing
    PROVE  Ledger' /\ Accounts'
<1>1. Ledger'
  BY DEF Ledger, Quiet, WellFormed, Distinct
<1>2. Rescued' /\ HaveBackups' /\ Spares'
  BY DEF Accounts, Rescued, HaveBackups, BackedUp, Spares, Spare, Quiet
<1>3. Traces'
  BY DEF Traces, InFlight
<1>4. Named'
  <2>1. SUFFICES ASSUME NEW t \in Targets, NEW n \in Nat, Disk[Previous(t, n)] # Nothing,
                        Names(pending.tx, Previous(t, n))
                 PROVE  last # Nothing /\ Names(last, Previous(t, n))
    BY DEF Accounts, Named, Names
  <2>2. CASE last = pending.tx
    <3>1. last # Nothing
      BY <2>2, JournalFacts, TransactionFacts DEF Types
    <3> QED
      BY <2>1, <2>2, <3>1
  <2>3. CASE InFlight
    <3>1. /\ Len(pending.tx.changes) \in Nat /\ DOMAIN pending.tx.changes = 1 .. Len(pending.tx.changes)
          /\ Journaled = pending.tx.changes[Len(pending.tx.changes)] /\ pending.tx.id \in Nat
      BY JournalFacts, TransactionFacts DEF Types
    <3>2. PICK i \in 1 .. Len(pending.tx.changes) : pending.tx.changes[i].prev = Previous(t, n)
      BY <2>1, <3>1 DEF Names
    <3>3. i # Len(pending.tx.changes)
      BY <2>1, <2>3, <3>1, <3>2, JournalFacts, NoName DEF Types
    <3>4. last # Nothing /\ last.id = pending.tx.id
      BY <2>3, <3>1, <3>2, <3>3, InFlightFacts DEF Types
    <3>5. Len(last.changes) \in Nat /\ DOMAIN last.changes = 1 .. Len(last.changes)
      BY <3>4, LastFacts DEF Types
    <3>6. i \in 1 .. Len(last.changes) /\ last.changes[i] = pending.tx.changes[i]
      BY <2>3, <3>1, <3>2, <3>3, <3>4, <3>5, InFlightFacts DEF Types
    <3> QED
      BY <3>2, <3>4, <3>5, <3>6 DEF Names
  <2> QED
    BY <2>2, <2>3 DEF Ledger, InFlight
<1> QED
  BY <1>1, <1>2, <1>3, <1>4 DEF Accounts

\* A content is put where there was no file.
LEMMA PutAccounts ==
    ASSUME Types, Ledger, Accounts, Quiet, UNCHANGED <<last, pending>>,
           NEW t \in Targets, NEW c \in Written, Disk[t] = Nothing, Disk' = [Disk EXCEPT ![t] = c],
           InFlight => Journaled.create
    PROVE  Accounts'
<1>1. t \in Paths /\ \A p \in Paths : Disk'[p] = IF p = t THEN c ELSE Disk[p]
  BY DEF Paths, Disk
<1>2. \A u \in Targets, n \in Nat : Previous(u, n) \in Paths /\ Previous(u, n) # t
  BY PathsDiffer
<1>3. Nothing \notin kept
  BY NamesAssumption DEF Types, FileTypes
<1>4. Rescued'
  BY <1>1, <1>3 DEF Accounts, Rescued, Quiet
<1>5. HaveBackups'
  BY <1>1, <1>2, LastFacts DEF Types, Accounts, HaveBackups, BackedUp
<1>6. Named'
  BY <1>1, <1>2 DEF Accounts, Named, Names
<1>7. Spares'
  BY <1>1, <1>2, <1>3, LastFacts DEF Types, Accounts, Spares, Spare, Quiet
<1>8. Traces'
  BY DEF Traces, InFlight, Journaled
<1> QED
  BY <1>4, <1>5, <1>6, <1>7, <1>8 DEF Accounts

\* An undo moves a file, none of them a backup.
LEMMA AsideAccounts ==
    ASSUME Types, Ledger, Accounts, Quiet, UNCHANGED <<last, pending>>, pending = Nothing,
           NEW from \in Paths, NEW to \in Paths, Disk' = Back(Disk, from, to),
           \A t \in Targets, n \in Nat : Previous(t, n) # from /\ Previous(t, n) # to
    PROVE  Accounts'
<1>1. Traces'
  BY DEF Traces, InFlight
<1>2. CASE Disk' = Disk
  BY <1>1, <1>2 DEF Accounts, Rescued, HaveBackups, BackedUp, Named, Names, Spares, Spare, Quiet
<1>3. CASE Disk' # Disk
  <2>1. Disk' = Shift(Disk, from, to) /\ Disk[to] = Nothing
    BY <1>3 DEF Back
  <2>2. \A t \in Targets, n \in Nat : Disk'[Previous(t, n)] = Disk[Previous(t, n)]
    BY <2>1, PathsDiffer DEF Shift
  <2>3. Rescued'
    BY <2>1, ShiftRescues DEF Types, Accounts, Quiet
  <2>4. HaveBackups'
    BY <2>2, LastFacts DEF Types, Accounts, HaveBackups, BackedUp
  <2>5. Named'
    BY <2>2 DEF Accounts, Named, Names
  <2>6. Spares'
    <3>1. last # Nothing => last.id \in Nat
      BY LastFacts DEF Types
    <3> QED
      BY <2>1, <3>1, LastFacts, ShiftSpares DEF Types, Accounts, Quiet
  <2> QED
    BY <1>1, <2>3, <2>4, <2>5, <2>6 DEF Accounts
<1> QED
  BY <1>2, <1>3

\* An undo drops a backup that it has restored.
LEMMA DroppedAccounts ==
    ASSUME Types, Ledger, Accounts, Quiet, UNCHANGED <<last, pending>>, pending = Nothing, last # Nothing,
           NEW i \in 1 .. Len(last.changes), last.changes[i].undone, ~last.changes[i].create,
           Disk' = [Disk EXCEPT ![last.changes[i].prev] = Nothing]
    PROVE  Accounts'
<1> DEFINE b == last.changes[i].prev
<1>1. /\ b \in Paths /\ b = Previous(last.changes[i].target, last.id) /\ last.changes[i].target \in Targets
      /\ last.id \in Nat
  BY LastFacts, PathsDiffer DEF Types
<1>2. \A p \in Paths : Disk'[p] = IF p = b THEN Nothing ELSE Disk[p]
  BY <1>1 DEF Disk
<1>3. Nothing \notin kept
  BY NamesAssumption DEF Types, FileTypes
<1>4. Disk[b] \in kept => \E p \in Paths : p # b /\ Disk[p] = Disk[b]
  BY <1>1, LastFacts DEF Types, Accounts, Spares, Spare
<1> HIDE DEF b
<1>5. Rescued'
  <2>1. ASSUME NEW k \in kept PROVE \E p \in Paths : Disk'[p] = k
    <3>1. PICK p \in Paths : Disk[p] = k
      BY DEF Accounts, Rescued
    <3>2. CASE p = b
      BY <1>2, <1>4, <3>1, <3>2
    <3>3. CASE p # b
      BY <1>2, <3>1, <3>3
    <3> QED
      BY <3>2, <3>3
  <2> QED
    BY <2>1 DEF Rescued, Quiet
<1>6. HaveBackups'
  <2>1. ASSUME NEW k \in 1 .. Len(last.changes), ~last.changes[k].create, ~last.changes[k].undone
        PROVE  last.changes[k].prev \in Paths /\ last.changes[k].prev # b
    BY <1>1, <2>1, LastFacts, PathsDiffer DEF Types
  <2> QED
    BY <1>2, <2>1, LastFacts DEF Types, Accounts, HaveBackups, BackedUp
<1>7. Named'
  BY <1>2, PathsDiffer DEF Accounts, Named, Names
<1>8. Spares'
  <2>1. SUFFICES ASSUME NEW k \in 1 .. Len(last.changes),
                        last.changes[k].undone, ~last.changes[k].create,
                        Disk'[last.changes[k].prev] \in kept
                 PROVE  \E p \in Paths : /\ Disk'[p] = Disk'[last.changes[k].prev]
                                         /\ \A t \in Targets : p # Previous(t, last.id)
    BY LastFacts DEF Types, Spares, Spare, Quiet
  <2>2. last.changes[k].prev \in Paths
    BY <2>1, LastFacts, PathsDiffer DEF Types
  <2>3. Disk'[last.changes[k].prev] = Disk[last.changes[k].prev]
    BY <1>2, <1>3, <2>1, <2>2
  <2>4. PICK p \in Paths : Disk[p] = Disk[last.changes[k].prev] /\ \A t \in Targets : p # Previous(t, last.id)
    BY <2>1, <2>3, LastFacts DEF Types, Accounts, Spares, Spare
  <2>5. p # b
    BY <1>1, <2>4
  <2> QED
    BY <1>2, <2>3, <2>4, <2>5
<1>9. Traces'
  BY DEF Traces, InFlight
<1> QED
  BY <1>5, <1>6, <1>7, <1>8, <1>9 DEF Accounts

\* An undo records that a change is undone: what is restored is in two places.
LEMMA MarkedAccounts ==
    ASSUME Types, Ledger, Accounts, Undos, Mark
    PROVE  Ledger' /\ Accounts'
<1>1. /\ op # Nothing /\ op.at = "mark" /\ Quiet /\ UNCHANGED <<Disk, pending>>
      /\ last # Nothing /\ last' \in Transactions /\ last'.id = last.id /\ last'.undone = last.undone
      /\ Len(last'.changes) = Len(last.changes)
      /\ \A k \in 1 .. Len(last.changes) : k # op.i => last'.changes[k] = last.changes[k]
      /\ last'.changes[op.i].target = Undoing.target /\ last'.changes[op.i].prev = Undoing.prev
      /\ last'.changes[op.i].state = Undoing.state /\ last'.changes[op.i].create = Undoing.create
      /\ last'.changes[op.i].undone
  BY MarkView, OperationFacts DEF Types
<1>2. /\ op.i > 0 /\ ~last.undone /\ pending = Nothing /\ ~Undoing.undone
      /\ (~Undoing.create => Spare(Undoing))
  BY <1>1 DEF Undos
<1>3. /\ op.i \in 1 .. Len(last.changes) /\ Undoing = last.changes[op.i]
  BY <1>1, <1>2, UndoingFacts DEF Types
<1>4. /\ Len(last.changes) > 0 /\ Len(last.changes) \in Nat /\ DOMAIN last.changes = 1 .. Len(last.changes)
      /\ DOMAIN last'.changes = 1 .. Len(last.changes) /\ last'.changes # <<>> /\ last' # Nothing
      /\ last.id \in 1 .. serial /\ WellFormed(last)
  BY <1>1, LastFacts, TransactionFacts DEF Types, Ledger
<1>5. \A k \in 1 .. Len(last.changes) :
         /\ last'.changes[k].target = last.changes[k].target /\ last'.changes[k].prev = last.changes[k].prev
         /\ last'.changes[k].state = last.changes[k].state /\ last'.changes[k].create = last.changes[k].create
  BY <1>1, <1>3
<1>6. WellFormed(last')
  BY <1>1, <1>4, <1>5 DEF WellFormed, Distinct
<1>7. Ledger'
  BY <1>1, <1>2, <1>4, <1>6 DEF Ledger, Quiet, WellFormed, Distinct
<1>8. Rescued'
  BY <1>1 DEF Accounts, Rescued, Quiet
<1>9. HaveBackups'
  BY <1>1, <1>3, <1>4 DEF Accounts, HaveBackups, BackedUp
<1>10. Named'
  BY <1>1, <1>2, <1>4, <1>5 DEF Accounts, Named, Names
<1>11. Spares'
  BY <1>1, <1>2, <1>3, <1>4 DEF Accounts, Spares, Spare, Quiet
<1>12. Traces'
  BY <1>1, <1>2 DEF Traces, InFlight
<1> QED
  BY <1>7, <1>8, <1>9, <1>10, <1>11, <1>12 DEF Accounts

LEMMA FinishedAccounts ==
    ASSUME Types, Ledger, Accounts, Undos, Finish
    PROVE  Ledger' /\ Accounts'
<1>1. /\ op \in Operations /\ op # Nothing /\ op.at = "finish" /\ Quiet /\ UNCHANGED <<Disk, pending>>
      /\ last # Nothing /\ last' \in Transactions /\ last'.id = last.id /\ last'.changes = last.changes
      /\ last' # Nothing
  BY FinishView, OperationFacts, TransactionFacts DEF Types
<1>2. pending = Nothing /\ op.i = 0 /\ \A k \in op.i + 1 .. Len(last.changes) : last.changes[k].undone
  BY <1>1 DEF Undos
<1>3. \A k \in DOMAIN last.changes : last.changes[k].undone
  BY <1>1, <1>2, LastFacts DEF Types
<1>4. Ledger'
  BY <1>1, <1>2, <1>3 DEF Ledger, Quiet, WellFormed, Distinct
<1>5. Rescued' /\ HaveBackups' /\ Named' /\ Spares'
  BY <1>1 DEF Accounts, Rescued, HaveBackups, BackedUp, Named, Names, Spares, Spare, Quiet
<1>6. Traces'
  BY <1>1, <1>2 DEF Traces, InFlight
<1> QED
  BY <1>4, <1>5, <1>6 DEF Accounts

\* A repair writes the journal of the change to come.
LEMMA PreparedAccounts ==
    ASSUME Types, Ledger, Accounts, Verifying, Knows, Prepare
    PROVE  Ledger' /\ Accounts'
<1>1. /\ op \in Operations /\ op # Nothing /\ op.at = "prepare" /\ Quiet /\ UNCHANGED <<Disk, last>>
      /\ pending = Nothing /\ op.plan # <<>> /\ Target \in Targets
  BY PrepareView, OperationFacts DEF Types
<1>2. PICK c \in ChangeRecords, tx \in Transactions :
         /\ c.target = Target /\ ~c.undone
         /\ IF c.create THEN c.prev = Nothing /\ c.state = Good /\ Disk[Target] = Nothing
            ELSE /\ c.prev = Previous(Target, op.n) /\ c.state = Disk[Target]
                 /\ Kind = "restore" => Disk[Target] # Nothing
         /\ tx.id = op.tx.id /\ tx.undone = op.tx.undone /\ tx.changes = Append(op.tx.changes, c)
         /\ pending' = [tx |-> tx, bound |-> last]
  BY PrepareView DEF Types
<1>3. /\ op.tx.id = op.n /\ WellFormed(op.tx) /\ Standing(op.tx) /\ Apart(op.tx, op.plan)
      /\ IF op.tx.changes = <<>> THEN Older(last, op.n) ELSE op.tx = last
      /\ Kind # "restore" =>
            op.seen[Target] # Nothing /\ (Disk[Target] # Nothing \/ Target \in touched[op.n])
  BY <1>1 DEF Verifying
<1>4. op.n \in 1 .. serial /\ op.n \in Nat /\ op.n = serial
  BY <1>1 DEF Knows, Types, FileTypes
<1>5. /\ op.tx \in Transactions /\ op.tx.changes \in Seq(ChangeRecords)
      /\ Len(op.tx.changes) \in Nat /\ DOMAIN op.tx.changes = 1 .. Len(op.tx.changes)
      /\ op.tx.changes = <<>> <=> Len(op.tx.changes) = 0
  BY <1>1, OperationFacts, TransactionFacts
<1>6. /\ Len(tx.changes) = Len(op.tx.changes) + 1 /\ tx.changes # <<>>
      /\ DOMAIN tx.changes = 1 .. Len(op.tx.changes) + 1
      /\ \A i \in 1 .. Len(op.tx.changes) : tx.changes[i] = op.tx.changes[i]
      /\ tx.changes[Len(op.tx.changes) + 1] = c /\ Last(tx.changes) = c
  <2>1. /\ Len(tx.changes) = Len(op.tx.changes) + 1
        /\ \A i \in 1 .. Len(op.tx.changes) : tx.changes[i] = op.tx.changes[i]
        /\ tx.changes[Len(op.tx.changes) + 1] = c
    BY <1>2, <1>5, AppendProperties
  <2>2. DOMAIN tx.changes = 1 .. Len(tx.changes) /\ (Len(tx.changes) > 0 => tx.changes # <<>>)
    BY TransactionFacts
  <2> QED
    BY <1>5, <2>1, <2>2 DEF Last
<1>7. \A i \in 1 .. Len(op.tx.changes) : op.tx.changes[i].target # Target
  <2>1. 1 \in DOMAIN op.plan /\ op.plan[1].target = Target
    BY <1>1, OperationFacts, PlanFacts DEF Target
  <2> QED
    BY <1>3, <1>5, <2>1 DEF Apart
<1>8. WellFormed(tx)
  <2>1. \A i \in DOMAIN tx.changes :
          IF tx.changes[i].create THEN tx.changes[i].prev = Nothing /\ tx.changes[i].state = Good
          ELSE tx.changes[i].prev = Previous(tx.changes[i].target, tx.id)
    <3>1. ASSUME NEW i \in 1 .. Len(op.tx.changes)
          PROVE  IF tx.changes[i].create THEN tx.changes[i].prev = Nothing /\ tx.changes[i].state = Good
                 ELSE tx.changes[i].prev = Previous(tx.changes[i].target, tx.id)
      BY <1>2, <1>3, <1>5, <1>6, SMTT(60) DEF WellFormed
    <3> QED
      BY <1>2, <1>3, <1>5, <1>6, <3>1
  <2>2. Distinct(tx.changes)
    BY <1>2, <1>3, <1>5, <1>6, <1>7 DEF WellFormed, Distinct
  <2> QED
    BY <2>1, <2>2 DEF WellFormed
<1>9. Standing(tx)
  BY <1>2, <1>3, <1>5, <1>6 DEF Standing
<1>10. Follows(tx, last)
  <2>1. CASE op.tx.changes = <<>>
    BY <1>2, <1>3, <1>5, <1>6, <2>1 DEF Follows, Older
  <2>2. CASE op.tx.changes # <<>>
    <3>1. op.tx = last /\ last # Nothing /\ Len(tx.changes) # 1
      BY <1>3, <1>5, <1>6, <2>2, TransactionFacts
    <3> QED
      BY <1>2, <1>6, <3>1 DEF Follows
  <2> QED
    BY <2>1, <2>2
<1>11. /\ pending' # Nothing /\ pending'.tx = tx /\ pending'.bound = last /\ Journaled' = c /\ InFlight'
  <2>1. pending' \in Journals
    BY <1>2 DEF Types, RecordTypes, Journals
  <2>2. pending' # Nothing /\ pending'.tx = tx /\ pending'.bound = last
    BY <1>2, <2>1, NamesAssumption
  <2> QED
    BY <1>1, <1>6, <2>2 DEF Journaled, InFlight
<1>12. Ledger'
  <2>1. tx.id \in 1 .. serial' /\ last' = last
    BY <1>1, <1>2, <1>3, <1>4 DEF Quiet
  <2>2. last' # Nothing =>
           /\ last'.id \in 1 .. serial' /\ last'.changes # <<>> /\ WellFormed(last')
           /\ last'.undone => \A i \in DOMAIN last'.changes : last'.changes[i].undone
    BY <1>1, <2>1 DEF Ledger, Quiet
  <2> QED
    BY <1>6, <1>8, <1>9, <1>10, <1>11, <2>1, <2>2, ZenonT(60) DEF Ledger, WellFormed, Standing, Follows, Distinct
<1>13. Rescued' /\ HaveBackups' /\ Spares'
  BY <1>1 DEF Accounts, Rescued, HaveBackups, BackedUp, Spares, Spare, Quiet
<1>14. Named'
  BY <1>1 DEF Accounts, Named, Names
<1>15. Disk[Previous(Target, op.n)] = Nothing
  <2>1. SUFFICES ASSUME Disk[Previous(Target, op.n)] # Nothing PROVE FALSE
    OBVIOUS
  <2>2. last # Nothing /\ (last.id > op.n \/ Names(last, Previous(Target, op.n)))
    BY <1>1, <1>4, <2>1 DEF Accounts, Named
  <2>3. last.id <= op.n /\ last.id \in Nat
    BY <1>4, <2>2, LastFacts DEF Types
  <2>4. Names(last, Previous(Target, op.n))
    BY <1>4, <2>2, <2>3
  <2>5. PICK i \in 1 .. Len(last.changes) : last.changes[i].prev = Previous(Target, op.n)
    BY <2>2, <2>4, LastFacts DEF Names, Types
  <2>6. ~last.changes[i].create
    BY <1>1, <1>4, <2>2, <2>5, NoName, LastFacts DEF Ledger, WellFormed, Types
  <2>7. last.changes[i].target = Target /\ last.id = op.n
    BY <1>1, <1>4, <2>2, <2>3, <2>5, <2>6, LastFacts, PathsDiffer DEF Types
  <2> QED
    BY <1>3, <1>4, <1>7, <2>2, <2>5, <2>7 DEF Older
<1>16. Traces'
  <2>1. Written' = Written /\ touched' = touched /\ Disk' = Disk
    BY <1>1 DEF Quiet, Written
  <2>2. Disk[Target] \in Written \union {Nothing}
    BY <1>1, DiskType DEF Types, FileTypes, Paths
  <2> QED
    BY <1>2, <1>3, <1>11, <1>15, <2>1, <2>2 DEF Traces
<1> QED
  BY <1>12, <1>13, <1>14, <1>16 DEF Accounts

(* Steps that are not an operation's. *)

LEMMA EditView ==
    ASSUME Types, NEW t \in Targets, Edit(t)
    PROVE  /\ UNCHANGED <<last, pending, waiting, op, serial, origin>>
           /\ FilesTyped' /\ edits' \in Nat /\ kept' \subseteq Contents
           /\ Written \subseteq Written'
           /\ Len(touched') = serial /\ touched' \in Seq(SUBSET Targets)
           /\ \A n \in 1 .. serial : touched'[n] = touched[n] \union {t}
           /\ \/ Disk' = [Disk EXCEPT ![t] = Nothing] /\ kept' = kept \ {Disk[t]}
              \/ \E c \in Contents \ Written :
                   Disk' = [Disk EXCEPT ![t] = c] /\ kept' = (kept \ {Disk[t]}) \union {c}
<1>1. /\ UNCHANGED <<last, pending, waiting, op, serial, origin>>
      /\ edits \in Nat /\ edits' = edits + 1 /\ edits' \in Nat /\ FilesTyped
  BY DEF Edit, Types, FileTypes
<1> DEFINE c == <<t, edits'>>
<1>2. Written \subseteq Written' /\ c \in Written' /\ c \notin Written /\ c \in Contents
  BY <1>1, NamesAssumption DEF Written, Contents
<1> HIDE DEF c
<1>3. t \in Paths /\ At(t) = Disk[t]
  BY AtDisk DEF Paths
<1>4. /\ Len(touched') = serial /\ touched' \in Seq(SUBSET Targets)
      /\ \A n \in 1 .. serial : touched'[n] = touched[n] \union {t}
  <2>1. /\ touched \in Seq(SUBSET Targets) /\ Len(touched) = serial /\ serial \in Nat
        /\ DOMAIN touched = 1 .. serial
    BY LenProperties DEF Types, HistoryTypes, FileTypes
  <2>2. touched' = [n \in 1 .. serial |-> touched[n] \union {t}]
    BY <2>1 DEF Edit
  <2>3. \A n \in 1 .. serial : touched[n] \union {t} \in SUBSET Targets
    BY <2>1, ElementOfSeq
  <2>4. touched' \in [1 .. serial -> SUBSET Targets]
    BY <2>2, <2>3
  <2>5. touched' \in Seq(SUBSET Targets) /\ Len(touched') = serial
    BY <2>1, <2>4, SeqDef
  <2> QED
    BY <2>2, <2>5
<1>5. \/ files' = With(t, c) /\ kept' = (kept \ {At(t)}) \union {c}
      \/ files' = Without(t) /\ kept' = kept \ {At(t)}
  BY DEF Edit, c
<1>6. CASE files' = With(t, c) /\ kept' = (kept \ {At(t)}) \union {c}
  <2>1. FilesTyped' /\ Disk' = [Disk EXCEPT ![t] = c]
    BY <1>1, <1>2, <1>3, <1>6, WithDisk
  <2> QED
    BY <1>1, <1>2, <1>3, <1>4, <1>6, <2>1 DEF Types, FileTypes
<1>7. CASE files' = Without(t) /\ kept' = kept \ {At(t)}
  <2>1. FilesTyped' /\ Disk' = [Disk EXCEPT ![t] = Nothing]
    BY <1>1, <1>2, <1>3, <1>7, WithoutDisk
  <2> QED
    BY <1>1, <1>2, <1>3, <1>4, <1>7, <2>1 DEF Types, FileTypes
<1> QED
  BY <1>5, <1>6, <1>7

\* Others write a target: not a backup, and nothing that was there before.
LEMMA EditedAccounts ==
    ASSUME Types, Ledger, Accounts, NEW t \in Targets, Edit(t)
    PROVE  Ledger' /\ Accounts'
<1>1. /\ UNCHANGED <<last, pending, serial>>
      /\ \A n \in 1 .. serial : touched'[n] = touched[n] \union {t}
      /\ Written \subseteq Written'
  BY EditView
<1>2. PICK c \in (Contents \ Written) \union {Nothing} :
         /\ Disk' = [Disk EXCEPT ![t] = c]
         /\ kept' = (kept \ {Disk[t]}) \union ({c} \ {Nothing})
  <2>1. CASE Disk' = [Disk EXCEPT ![t] = Nothing] /\ kept' = kept \ {Disk[t]}
    BY <2>1
  <2>2. CASE \E c \in Contents \ Written :
               Disk' = [Disk EXCEPT ![t] = c] /\ kept' = (kept \ {Disk[t]}) \union {c}
    BY <2>2, NamesAssumption
  <2> QED
    BY <2>1, <2>2, EditView
<1>3. /\ t \in Paths /\ \A p \in Paths : Disk'[p] = IF p = t THEN c ELSE Disk[p]
      /\ \A p \in Paths : Disk[p] \in Written \union {Nothing}
  BY <1>2, DiskType DEF Paths, Disk, Types, FileTypes
<1>4. \A u \in Targets, n \in Nat : Previous(u, n) \in Paths /\ Previous(u, n) # t
  BY PathsDiffer
<1>5. Nothing \notin kept
  BY NamesAssumption DEF Types, FileTypes
<1>6. Ledger'
  BY <1>1 DEF Ledger
<1>7. Rescued'
  <2>1. ASSUME NEW k \in kept' PROVE \E p \in Paths : Disk'[p] = k
    <3>1. CASE k = c
      BY <1>3, <3>1
    <3>2. CASE k # c
      <4>1. k \in kept /\ k # Disk[t]
        BY <1>2, <3>2
      <4> QED
        BY <1>3, <4>1 DEF Accounts, Rescued
    <3> QED
      BY <3>1, <3>2
  <2> QED
    BY <2>1 DEF Rescued
<1>8. HaveBackups'
  BY <1>1, <1>3, <1>4, LastFacts DEF Types, Accounts, HaveBackups, BackedUp
<1>9. Named'
  BY <1>1, <1>3, <1>4 DEF Accounts, Named, Names
<1>10. Spares'
  <2>1. SUFFICES ASSUME last # Nothing, NEW i \in 1 .. Len(last.changes),
                        last.changes[i].undone, ~last.changes[i].create,
                        Disk'[last.changes[i].prev] \in kept'
                 PROVE  \E p \in Paths : /\ Disk'[p] = Disk'[last.changes[i].prev]
                                         /\ \A u \in Targets : p # Previous(u, last.id)
    BY <1>1, LastFacts DEF Types, Spares, Spare
  <2>2. last.changes[i].prev \in Paths /\ last.changes[i].prev # t
    BY <1>4, <2>1, LastFacts DEF Types
  <2>3. /\ Disk'[last.changes[i].prev] = Disk[last.changes[i].prev]
        /\ Disk[last.changes[i].prev] \in Written \union {Nothing}
    BY <1>3, <2>2
  <2>4. Disk[last.changes[i].prev] \in kept \ {Disk[t]}
    BY <1>2, <2>1, <2>3
  <2>5. PICK p \in Paths : /\ Disk[p] = Disk[last.changes[i].prev]
                           /\ \A u \in Targets : p # Previous(u, last.id)
    BY <2>1, <2>4, LastFacts DEF Types, Accounts, Spares, Spare
  <2> QED
    BY <1>3, <2>3, <2>4, <2>5
<1>11. Traces'
  <2>1. SUFFICES ASSUME InFlight, ~Journaled.create PROVE Traces'
    BY <1>1 DEF Traces, InFlight, Journaled
  <2>2. /\ pending # Nothing /\ Journaled.target \in Targets /\ pending.tx.id \in 1 .. serial
        /\ Journaled.prev \in Paths \ Targets /\ Journaled' = Journaled /\ Journaled.target \in Paths
    BY <1>1, <2>1, JournalFacts, ChangeFacts, PathsDiffer, TransactionFacts
       DEF Types, InFlight, Journaled, Paths
  <2>3. Disk'[Journaled.prev] = Disk[Journaled.prev]
    BY <1>3, <2>2
  <2>4. Journaled.state \in Written \union {Nothing} /\ c \notin Written
    BY <2>1, <1>2, NamesAssumption, NoText DEF Accounts, Traces, Contents
  <2>5. CASE Journaled.target = t
    BY <1>1, <1>3, <2>1, <2>2, <2>3, <2>4, <2>5 DEF Accounts, Traces
  <2>6. CASE Journaled.target # t
    <3>1. Disk'[Journaled.target] = Disk[Journaled.target]
      BY <1>3, <2>2, <2>6
    <3> QED
      BY <1>1, <2>1, <2>2, <2>3, <2>4, <2>6, <3>1 DEF Accounts, Traces
  <2> QED
    BY <2>5, <2>6
<1> QED
  BY <1>6, <1>7, <1>8, <1>9, <1>10, <1>11 DEF Accounts

-----------------------------------------------------------------------------
(* What an operation knows at each stage stays true. *)

Progress == Starts /\ Verifying /\ Moves /\ Replacements /\ Undos /\ Knows

LEMMA GoneProgress == op' = Nothing => Progress'
  BY DEF Progress, Starts, Verifying, Moves, Replacements, Undos, Knows

LEMMA Elsewhere ==
    /\ op'.at \notin {"reconcile", "promote", "settle"} => Starts'
    /\ op'.at \notin {"verify", "prepare"} => Verifying'
    /\ op'.at \notin {"rename", "check", "publish", "own", "commit", "clear"} => Moves'
    /\ op'.at \notin {"look", "create"} => Replacements'
    /\ op'.at \notin {"begin", "undo", "aside", "restore", "mark", "drop", "finish"} => Undos'
<1>1. op'.at \notin {"reconcile", "promote", "settle"} => Starts'
  BY DEF Starts
<1>2. op'.at \notin {"verify", "prepare"} => Verifying'
  BY DEF Verifying
<1>3. op'.at \notin {"rename", "check", "publish", "own", "commit", "clear"} => Moves'
  BY DEF Moves
<1>4. op'.at \notin {"look", "create"} => Replacements'
  BY DEF Replacements
<1>5. op'.at \notin {"begin", "undo", "aside", "restore", "mark", "drop", "finish"} => Undos'
  BY DEF Undos
<1> QED
  BY <1>1, <1>2, <1>3, <1>4, <1>5

LEMMA StillKnows ==
    ASSUME Knows, op \in Operations, Quiet, NEW at, NEW i, NEW tx,
           \/ Step(at, op.plan, i, tx)
           \/ op.plan # <<>> /\ Step(at, Tail(op.plan), i, tx)
    PROVE  Knows'
<1>1. /\ op # Nothing /\ op'.n = op.n /\ op'.seen = op.seen /\ serial' = serial /\ Written' = Written
      /\ op'.plan = op.plan \/ (op.plan # <<>> /\ op'.plan = Tail(op.plan))
  BY OperationFacts DEF Step, Quiet, Written
<1>2. Distinct(op.plan) /\ (op.plan # <<>> => Distinct(Tail(op.plan)))
  BY <1>1, OperationFacts, PlanFacts DEF Knows
<1> QED
  BY <1>1, <1>2 DEF Knows, Distinct

\* A repair goes on with its next target.
LEMMA NextProgress ==
    ASSUME Types, Knows, op \in Operations, op.kind = "repair", op.i = 0, op.tx.id = op.n, Quiet,
           WellFormed(op.tx), Standing(op.tx), op.plan # <<>>, Apart(op.tx, Tail(op.plan)),
           IF op.tx.changes = <<>> THEN Older(last', op.n) ELSE op.tx = last',
           pending' = Nothing, Step("verify", Tail(op.plan), op.i, op.tx)
    PROVE  Progress'
<1>1. Knows'
  BY StillKnows
<1>2. /\ op'.at = "verify" /\ op'.plan = Tail(op.plan) /\ op'.tx = op.tx /\ op'.i = 0
      /\ op'.kind = "repair" /\ op'.n = op.n
  BY DEF Step
<1>3. Verifying'
  BY <1>2 DEF Verifying, WellFormed, Distinct, Standing, Apart, Older
<1> QED
  BY <1>1, <1>2, <1>3, Elsewhere DEF Progress

LEMMA BegunProgress ==
    ASSUME Types, Ledger, Progress, op \in Operations, op.at \in {"reconcile", "settle"}, Quiet,
           UNCHANGED last, pending' = Nothing, Step(Begun, op.plan, op.i, op.tx)
    PROVE  Progress'
<1>1. Knows'
  BY StillKnows DEF Progress
<1>2. op.tx.changes = <<>> /\ op.tx.id = op.n /\ ~op.tx.undone /\ op.i = 0 /\ Older(last, op.n)
  BY OperationFacts DEF Progress, Starts
<1>3. /\ op'.at = Begun /\ op'.plan = op.plan /\ op'.tx = op.tx /\ op'.i = 0
      /\ op'.kind = op.kind /\ op'.n = op.n /\ op.kind \in {"repair", "undo"} /\ last' = last
  BY <1>2, OperationFacts DEF Step
<1>4. DOMAIN op.tx.changes = {}
  BY <1>2
<1>5. CASE op.kind = "undo"
  <2>1. op'.at = "begin"
    BY <1>3, <1>5 DEF Begun
  <2>2. Undos'
    BY <1>2, <1>3, <1>5, <2>1 DEF Undos, Older
  <2> QED
    BY <1>1, <2>1, <2>2, Elsewhere DEF Progress
<1>6. CASE op.kind = "repair"
  <2>1. op'.at = "verify"
    BY <1>3, <1>6 DEF Begun
  <2>2. WellFormed(op.tx) /\ Standing(op.tx) /\ Apart(op.tx, op.plan)
    BY <1>2, <1>4 DEF WellFormed, Standing, Apart, Distinct
  <2>3. Verifying'
    BY <1>2, <1>3, <1>6, <2>1, <2>2 DEF Verifying, Older, WellFormed, Standing, Apart, Distinct
  <2> QED
    BY <1>1, <2>1, <2>3, Elsewhere DEF Progress
<1> QED
  BY <1>3, <1>5, <1>6

LEMMA ReconcileProgress ==
    ASSUME Types, Ledger, Accounts, Progress, Reconcile
    PROVE  Progress'
<1>1. op \in Operations /\ op # Nothing /\ op.at = "reconcile" /\ Decides /\ Quiet
      /\ UNCHANGED <<Disk, last, pending>>
  BY ReconcileView, OperationFacts DEF Types, Decides
<1>2. /\ op.tx.changes = <<>> /\ op.tx.id = op.n /\ ~op.tx.undone /\ op.i = 0 /\ Older(last, op.n)
      /\ pending # Nothing => pending.tx.id < op.n
  BY <1>1 DEF Progress, Starts
<1>3. CASE pending = Nothing /\ Step(Begun, op.plan, op.i, op.tx)
  BY <1>1, <1>3, BegunProgress
<1>4. CASE op' = Nothing
  BY <1>4, GoneProgress
<1>5. ASSUME NEW at \in {"promote", "settle"}, Step(at, op.plan, op.i, op.tx), pending # Nothing,
             at = "promote" =>
               InFlight /\ (~Journaled.create => Disk[Journaled.prev] # Nothing /\ Disk[Journaled.prev] = Journaled.state),
             at = "settle" /\ InFlight =>
                  /\ ~Journaled.create => Disk[Journaled.prev] = Nothing
                  /\ Journaled.target \notin touched[pending.tx.id] =>
                       Disk[Journaled.target] = IF Journaled.create THEN Nothing ELSE Journaled.state
      PROVE  Progress'
  <2>1. Knows'
    BY <1>1, <1>5, StillKnows DEF Progress
  <2>2. /\ op'.at = at /\ op'.tx = op.tx /\ op'.i = op.i /\ op'.n = op.n
        /\ last' = last /\ pending' = pending /\ Disk' = Disk /\ touched' = touched
        /\ Journaled' = Journaled /\ InFlight' = InFlight
    BY <1>1, <1>5 DEF Step, Quiet, Journaled, InFlight
  <2>3. Starts'
    BY <1>2, <1>5, <2>2 DEF Starts, Older
  <2> QED
    BY <2>1, <2>2, <2>3, Elsewhere DEF Progress
<1>6. CASE pending # Nothing /\ last = pending.tx /\ Step("settle", op.plan, op.i, op.tx)
  BY <1>5, <1>6, InFlightFacts DEF Types
<1>7. CASE /\ InFlight /\ Step("promote", op.plan, op.i, op.tx)
           /\ IF Journaled.create THEN Disk[Journaled.target] # Nothing
              ELSE Disk[Journaled.prev] # Nothing /\ Disk[Journaled.prev] = Journaled.state
  BY <1>5, <1>7 DEF InFlight
<1>8. CASE /\ InFlight /\ Step("settle", op.plan, op.i, op.tx)
           /\ IF Journaled.create THEN Disk[Journaled.target] = Nothing
              ELSE Disk[Journaled.target] # Nothing /\ Disk[Journaled.target] = Journaled.state
  <2>1. ~Journaled.create => Disk[Journaled.prev] = Nothing
    BY <1>8 DEF Accounts, Traces
  <2> QED
    BY <1>5, <1>8, <2>1 DEF InFlight
<1> QED
  BY <1>3, <1>4, <1>6, <1>7, <1>8, ReconcileView DEF Types

LEMMA PromoteProgress ==
    ASSUME Types, Ledger, Progress, Promote
    PROVE  Progress'
<1>1. /\ op \in Operations /\ op # Nothing /\ op.at = "promote" /\ Quiet /\ UNCHANGED <<Disk, pending>>
      /\ last' = pending.tx /\ Step("settle", op.plan, op.i, op.tx)
  BY PromoteView, OperationFacts DEF Types
<1>2. /\ op.tx.changes = <<>> /\ op.tx.id = op.n /\ ~op.tx.undone /\ op.i = 0
      /\ InFlight /\ pending # Nothing /\ pending.tx.id < op.n
  BY <1>1 DEF Progress, Starts, InFlight
<1>3. ~InFlight'
  BY <1>1, <1>2, InFlightFacts DEF Types, InFlight
<1>4. op'.at = "settle" /\ op'.tx = op.tx /\ op'.i = op.i /\ op'.n = op.n
  BY <1>1 DEF Step
<1>5. Starts'
  BY <1>1, <1>2, <1>3, <1>4 DEF Starts, Older
<1>6. Knows'
  BY <1>1, StillKnows DEF Progress
<1> QED
  BY <1>4, <1>5, <1>6, Elsewhere DEF Progress

LEMMA SettleProgress ==
    ASSUME Types, Ledger, Progress, Settle
    PROVE  Progress'
  BY SettleView, BegunProgress DEF Types

LEMMA VerifyProgress ==
    ASSUME Types, Ledger, Progress, Verify
    PROVE  Progress'
<1>1. op \in Operations /\ op # Nothing /\ op.at = "verify" /\ Quiet /\ UNCHANGED <<Disk, last, pending>>
  BY VerifyView, OperationFacts DEF Types, Decides
<1>2. /\ op.kind = "repair" /\ pending = Nothing /\ op.i = 0
      /\ op.tx.id = op.n /\ WellFormed(op.tx) /\ Standing(op.tx) /\ Apart(op.tx, op.plan)
      /\ IF op.tx.changes = <<>> THEN Older(last, op.n) ELSE op.tx = last
  BY <1>1 DEF Progress, Verifying
<1>3. CASE op' = Nothing
  BY <1>3, GoneProgress
<1>4. CASE op.plan # <<>> /\ Step("verify", Tail(op.plan), op.i, op.tx)
  <2>1. Apart(op.tx, Tail(op.plan))
    <3>1. \A k \in DOMAIN Tail(op.plan) : k + 1 \in DOMAIN op.plan /\ Tail(op.plan)[k] = op.plan[k + 1]
      BY <1>1, <1>4, OperationFacts, PlanFacts
    <3> QED
      BY <1>2, <3>1 DEF Apart
  <2> QED
    BY <1>1, <1>2, <1>4, <2>1, NextProgress DEF Progress
<1>5. CASE /\ op.plan # <<>> /\ Step("prepare", op.plan, op.i, op.tx)
           /\ Disk[Target] = op.seen[Target] /\ (Disk[Target] # Nothing \/ Kind = "restore")
  <2>1. Knows'
    BY <1>1, <1>5, StillKnows DEF Progress
  <2>2. /\ op'.at = "prepare" /\ op'.plan = op.plan /\ op'.tx = op.tx /\ op'.i = 0
        /\ op'.kind = "repair" /\ op'.n = op.n /\ op'.seen = op.seen
        /\ last' = last /\ pending' = pending /\ Disk' = Disk /\ Target' = Target /\ Kind' = Kind
    BY <1>1, <1>2, <1>5 DEF Step, Target, Kind
  <2>3. Verifying'
    BY <1>2, <1>5, <2>2 DEF Verifying, WellFormed, Distinct, Standing, Apart, Older
  <2> QED
    BY <2>1, <2>2, <2>3, Elsewhere DEF Progress
<1> QED
  BY <1>3, <1>4, <1>5, VerifyView DEF Types

LEMMA PrepareProgress ==
    ASSUME Types, Ledger, Progress, Prepare
    PROVE  Progress'
<1>1. /\ op \in Operations /\ op # Nothing /\ op.at = "prepare" /\ Quiet /\ UNCHANGED <<Disk, last>>
      /\ pending = Nothing /\ op.plan # <<>> /\ Target \in Targets
  BY PrepareView, OperationFacts DEF Types, Progress
<1>2. PICK c \in ChangeRecords, tx \in Transactions :
         /\ c.target = Target /\ ~c.undone
         /\ IF c.create THEN c.prev = Nothing /\ c.state = Good /\ Disk[Target] = Nothing
            ELSE /\ c.prev = Previous(Target, op.n) /\ c.state = Disk[Target]
                 /\ Kind = "restore" => Disk[Target] # Nothing
         /\ tx.id = op.tx.id /\ tx.undone = op.tx.undone /\ tx.changes = Append(op.tx.changes, c)
         /\ pending' = [tx |-> tx, bound |-> last]
         /\ Step(IF c.create THEN "publish" ELSE "rename", op.plan, op.i, tx)
  BY PrepareView DEF Types, Progress
<1>3. /\ op.kind = "repair" /\ op.i = 0 /\ op.tx.id = op.n /\ Apart(op.tx, op.plan)
      /\ Kind # "restore" => op.seen[Target] # Nothing
  BY <1>1 DEF Progress, Verifying
<1>4. /\ Len(tx.changes) = Len(op.tx.changes) + 1
      /\ \A i \in 1 .. Len(op.tx.changes) : tx.changes[i] = op.tx.changes[i]
      /\ tx.changes[Len(op.tx.changes) + 1] = c
      /\ Len(op.tx.changes) \in Nat /\ DOMAIN op.tx.changes = 1 .. Len(op.tx.changes)
      /\ DOMAIN tx.changes = 1 .. Len(tx.changes) /\ Last(tx.changes) = c
  <2>1. op.tx.changes \in Seq(ChangeRecords)
    BY <1>1, OperationFacts, TransactionFacts
  <2>2. /\ Len(tx.changes) = Len(op.tx.changes) + 1
        /\ \A i \in 1 .. Len(op.tx.changes) : tx.changes[i] = op.tx.changes[i]
        /\ tx.changes[Len(op.tx.changes) + 1] = c
    BY <1>2, <2>1, AppendProperties
  <2>3. /\ Len(op.tx.changes) \in Nat /\ DOMAIN op.tx.changes = 1 .. Len(op.tx.changes)
        /\ DOMAIN tx.changes = 1 .. Len(tx.changes)
    BY <1>1, OperationFacts, TransactionFacts
  <2> QED
    BY <2>2, <2>3 DEF Last
<1>5. Apart(tx, Tail(op.plan))
  <2>1. \A k \in DOMAIN Tail(op.plan) :
          /\ k + 1 \in DOMAIN op.plan /\ Tail(op.plan)[k] = op.plan[k + 1]
          /\ Tail(op.plan)[k].target # Target
    <3>1. Distinct(op.plan)
      BY <1>1 DEF Progress, Knows
    <3> QED
      BY <1>1, <3>1, OperationFacts, PlanFacts DEF Target
  <2>2. \A i \in DOMAIN tx.changes : i \in DOMAIN op.tx.changes \/ tx.changes[i] = c
    BY <1>4
  <2> QED
    BY <1>2, <1>3, <1>4, <2>1, <2>2 DEF Apart
<1>6. Knows'
  <2>1. PICK at : Step(at, op.plan, op.i, tx)
    BY <1>2
  <2> QED
    BY <1>1, <2>1, StillKnows DEF Progress
<1>7. pending' # Nothing /\ pending'.tx = tx /\ pending'.bound = last
  <2>1. pending' \in Journals
    BY <1>1, <1>2 DEF Types, RecordTypes, Journals
  <2> QED
    BY <1>2, <2>1, NamesAssumption
<1>8. /\ op'.at = (IF c.create THEN "publish" ELSE "rename") /\ op'.plan = op.plan /\ op'.i = op.i
      /\ op'.tx = tx /\ op'.kind = "repair" /\ op'.seen = op.seen /\ op'.n = op.n
      /\ Target' = Target /\ Kind' = Kind /\ Change' = c /\ Disk' = Disk /\ last' = last
      /\ touched' = touched
  BY <1>1, <1>2, <1>3, <1>4 DEF Step, Target, Kind, Change, Quiet
<1>9. Moves'
  <2>1. CASE c.create
    <3>1. op'.at = "publish" /\ Disk'[Target'] = Nothing /\ Change'.create
      BY <1>2, <1>8, <2>1
    <3>2. /\ op'.kind = "repair" /\ op'.i = 0 /\ op'.tx.id = op'.n /\ pending' # Nothing
          /\ pending'.tx = op'.tx /\ last' = pending'.bound
          /\ op'.plan # <<>> /\ Change'.target = Target'
      BY <1>1, <1>2, <1>3, <1>7, <1>8
    <3>3. Apart(op'.tx, Tail(op'.plan))
      BY <1>5, <1>8
    <3> QED
      BY <3>1, <3>2, <3>3 DEF Moves, Apart
  <2>2. CASE ~c.create
    BY <1>1, <1>2, <1>3, <1>5, <1>7, <1>8, <2>2, SMTT(60) DEF Moves, Apart
  <2> QED
    BY <2>1, <2>2
<1> QED
  BY <1>6, <1>8, <1>9, Elsewhere DEF Progress

\* A repair goes on with the change in its journal.
LEMMA JournaledProgress ==
    ASSUME Types, Progress, op \in Operations, op.at \in {"rename", "check", "publish", "own"},
           Quiet, UNCHANGED <<last, pending>>,
           NEW at \in {"check", "own", "commit"}, Step(at, op.plan, op.i, op.tx),
           at = "check" =>
             /\ ~Change.create /\ Disk'[Change.prev] # Nothing
             /\ Kind # "restore" /\ Disk'[Change.prev] = op.seen[Target] => Change.state = op.seen[Target],
           at = "own" => Change.create,
           at = "commit" /\ ~Change.create =>
             Disk'[Change.prev] # Nothing /\ Disk'[Change.prev] = Change.state
    PROVE  Progress'
<1>1. /\ op.kind = "repair" /\ op.i = 0 /\ op.tx.id = op.n
      /\ pending # Nothing /\ pending.tx = op.tx /\ last = pending.bound
      /\ op.plan # <<>> /\ Change.target = Target /\ Apart(op.tx, Tail(op.plan))
  BY OperationFacts DEF Progress, Moves
<1>2. Knows'
  BY StillKnows DEF Progress
<1>3. /\ op'.at = at /\ op'.plan = op.plan /\ op'.i = op.i /\ op'.tx = op.tx /\ op'.kind = op.kind
      /\ op'.seen = op.seen /\ op'.n = op.n
      /\ Target' = Target /\ Kind' = Kind /\ Change' = Change /\ last' = last /\ pending' = pending
  BY DEF Step, Target, Kind, Change
<1>4. Moves'
  <2>1. /\ op'.kind = "repair" /\ op'.i = 0 /\ op'.tx.id = op'.n /\ pending' # Nothing
        /\ pending'.tx = op'.tx /\ last' = pending'.bound
        /\ op'.plan # <<>> /\ Change'.target = Target'
    BY <1>1, <1>3
  <2>2. Apart(op'.tx, Tail(op'.plan))
    BY <1>1, <1>3
  <2>3. CASE at = "check"
    BY <1>3, <2>1, <2>2, <2>3 DEF Moves, Apart
  <2>4. CASE at = "own"
    BY <1>3, <2>1, <2>2, <2>4 DEF Moves, Apart
  <2>5. CASE at = "commit"
    BY <1>3, <2>1, <2>2, <2>5 DEF Moves, Apart
  <2> QED
    BY <2>3, <2>4, <2>5
<1> QED
  BY <1>2, <1>3, <1>4, Elsewhere DEF Progress

LEMMA RenameProgress ==
    ASSUME Types, Ledger, Progress, Rename PROVE Progress'
<1>1. /\ op \in Operations /\ op # Nothing /\ op.at = "rename" /\ Quiet /\ UNCHANGED <<last, pending>>
      /\ Moves
  BY RenameView, OperationFacts DEF Types, Progress
<1>2. CASE op' = Nothing
  BY <1>2, GoneProgress
<1>3. CASE /\ Disk[Target] # Nothing /\ Disk[Change.prev] = Nothing
           /\ Disk' = Shift(Disk, Target, Change.prev) /\ Step("check", op.plan, op.i, op.tx)
  <2>1. /\ ~Change.create
        /\ Kind # "restore" => (Disk[Target] = op.seen[Target] => Change.state = op.seen[Target])
    BY <1>1 DEF Moves
  <2>2. Disk'[Change.prev] = Disk[Target]
    BY <1>1, <1>3, <2>1, ChangeIsJournaled DEF Types, Shift
  <2> QED
    BY <1>1, <1>3, <2>1, <2>2, JournaledProgress
<1> QED
  BY <1>2, <1>3, RenameView DEF Types, Progress

LEMMA CheckProgress ==
    ASSUME Types, Ledger, Progress, Check PROVE Progress'
<1>1. /\ op \in Operations /\ op # Nothing /\ op.at = "check" /\ Quiet /\ UNCHANGED <<last, pending>>
  BY CheckView, OperationFacts DEF Types, Progress
<1>2. CASE op' = Nothing
  BY <1>2, GoneProgress
<1>3. CASE /\ Disk[Change.prev] = (IF Kind = "restore" THEN Change.state ELSE op.seen[Target])
           /\ Disk' = Disk /\ Step("commit", op.plan, op.i, op.tx)
  <2>1. /\ Disk[Change.prev] # Nothing
        /\ Kind # "restore" /\ Disk[Change.prev] = op.seen[Target] => Change.state = op.seen[Target]
    BY <1>1 DEF Progress, Moves
  <2>2. Disk'[Change.prev] # Nothing /\ Disk'[Change.prev] = Change.state
    BY <1>3, <2>1
  <2> QED
    BY <1>1, <1>3, <2>2, JournaledProgress
<1> QED
  BY <1>2, <1>3, CheckView DEF Types, Progress

LEMMA PublishProgress ==
    ASSUME Types, Ledger, Progress, Publish PROVE Progress'
<1>1. /\ op \in Operations /\ op # Nothing /\ op.at = "publish" /\ Quiet /\ UNCHANGED last
  BY PublishView, OperationFacts DEF Types, Progress
<1>2. Change.create
  BY <1>1 DEF Progress, Moves
<1>3. CASE op' = Nothing
  BY <1>3, GoneProgress
<1>4. CASE pending' = pending /\ Step("own", op.plan, op.i, op.tx)
  BY <1>1, <1>2, <1>4, JournaledProgress
<1> QED
  BY <1>3, <1>4, PublishView DEF Types, Progress

LEMMA OwnProgress ==
    ASSUME Types, Ledger, Progress, Own PROVE Progress'
<1>1. /\ op \in Operations /\ op # Nothing /\ op.at = "own" /\ Quiet /\ UNCHANGED <<Disk, last, pending>>
  BY OwnView, OperationFacts DEF Types, Progress, Decides
<1>2. Change.create
  BY <1>1 DEF Progress, Moves
<1>3. CASE op' = Nothing
  BY <1>3, GoneProgress
<1>4. CASE Step("commit", op.plan, op.i, op.tx)
  BY <1>1, <1>2, <1>4, JournaledProgress
<1> QED
  BY <1>3, <1>4, OwnView DEF Types, Progress

LEMMA CommitProgress ==
    ASSUME Types, Ledger, Progress, Commit PROVE Progress'
<1>1. /\ op \in Operations /\ op # Nothing /\ op.at = "commit" /\ Quiet /\ UNCHANGED <<Disk, pending>>
      /\ last' = op.tx /\ Step("clear", op.plan, op.i, op.tx)
  BY CommitView, OperationFacts DEF Types
<1>2. /\ op.kind = "repair" /\ op.i = 0 /\ op.tx.id = op.n
      /\ pending # Nothing /\ pending.tx = op.tx
      /\ op.plan # <<>> /\ Change.target = Target /\ Apart(op.tx, Tail(op.plan))
  BY <1>1 DEF Progress, Moves
<1>3. Knows'
  BY <1>1, StillKnows DEF Progress
<1>4. /\ op'.at = "clear" /\ op'.plan = op.plan /\ op'.i = op.i /\ op'.tx = op.tx /\ op'.kind = op.kind
      /\ op'.n = op.n /\ Target' = Target /\ Change' = Change /\ pending' = pending
  BY <1>1 DEF Step, Target, Change
<1>5. Moves'
  BY <1>1, <1>2, <1>4 DEF Moves, Apart
<1> QED
  BY <1>3, <1>4, <1>5, Elsewhere DEF Progress

LEMMA ClearProgress ==
    ASSUME Types, Ledger, Progress, Clear PROVE Progress'
<1>1. /\ op \in Operations /\ op # Nothing /\ op.at = "clear" /\ Quiet /\ UNCHANGED <<Disk, last>>
      /\ pending' = Nothing /\ op.plan # <<>>
  BY ClearView, OperationFacts DEF Types, Progress
<1>2. /\ op.kind = "repair" /\ op.i = 0 /\ op.tx.id = op.n
      /\ pending # Nothing /\ pending.tx = op.tx /\ last = op.tx
      /\ Change.target = Target /\ Apart(op.tx, Tail(op.plan))
  BY <1>1 DEF Progress, Moves
<1>3. WellFormed(op.tx) /\ Standing(op.tx) /\ op.tx.changes # <<>>
  BY <1>2 DEF Ledger
<1>4. CASE Step("verify", Tail(op.plan), op.i, op.tx)
  BY <1>1, <1>2, <1>3, <1>4, NextProgress DEF Progress
<1>5. CASE Step("look", op.plan, op.i, op.tx)
  <2>1. Knows'
    BY <1>1, <1>5, StillKnows DEF Progress
  <2>2. /\ op'.at = "look" /\ op'.plan = op.plan /\ op'.i = op.i /\ op'.tx = op.tx /\ op'.kind = op.kind
        /\ op'.n = op.n /\ Target' = Target /\ Change' = Change /\ last' = last
    BY <1>1, <1>5 DEF Step, Target, Change
  <2>3. Replacements'
    BY <1>1, <1>2, <1>3, <2>2 DEF Replacements, Standing, Apart
  <2> QED
    BY <2>1, <2>2, <2>3, Elsewhere DEF Progress
<1> QED
  BY <1>4, <1>5, ClearView DEF Types, Progress

LEMMA ReplacementsFacts ==
    ASSUME Types, Ledger, Progress, op \in Operations, op.at \in {"look", "create"}
    PROVE  /\ op.kind = "repair" /\ op.i = 0 /\ op.tx.id = op.n /\ pending = Nothing
           /\ op.tx = last /\ last # Nothing /\ op.tx.changes # <<>>
           /\ Standing(op.tx) /\ WellFormed(op.tx)
           /\ op.plan # <<>> /\ Change.target = Target /\ Apart(op.tx, Tail(op.plan))
<1>1. /\ op.kind = "repair" /\ op.i = 0 /\ op.tx.id = op.n /\ pending = Nothing
      /\ op.tx = last /\ op.tx.changes # <<>> /\ Standing(op.tx)
      /\ op.plan # <<>> /\ Change.target = Target /\ Apart(op.tx, Tail(op.plan))
  BY OperationFacts DEF Progress, Replacements
<1>2. last # Nothing
  BY <1>1, OperationFacts, TransactionFacts
<1> QED
  BY <1>1, <1>2 DEF Ledger

LEMMA LookProgress ==
    ASSUME Types, Ledger, Progress, Look PROVE Progress'
<1>1. /\ op \in Operations /\ op # Nothing /\ op.at = "look" /\ Quiet /\ UNCHANGED <<Disk, last, pending>>
      /\ op.plan # <<>>
  BY LookView, OperationFacts DEF Types, Progress, Decides
<1>2. /\ op.kind = "repair" /\ op.i = 0 /\ op.tx.id = op.n /\ pending = Nothing
      /\ op.tx = last /\ op.tx.changes # <<>> /\ Standing(op.tx) /\ WellFormed(op.tx)
      /\ Change.target = Target /\ Apart(op.tx, Tail(op.plan))
  BY <1>1, ReplacementsFacts
<1>3. CASE op' = Nothing
  BY <1>3, GoneProgress
<1>4. CASE Step("verify", Tail(op.plan), op.i, op.tx)
  BY <1>1, <1>2, <1>4, NextProgress DEF Progress
<1>5. CASE Step("create", op.plan, op.i, op.tx)
  <2>1. Knows'
    BY <1>1, <1>5, StillKnows DEF Progress
  <2>2. /\ op'.at = "create" /\ op'.plan = op.plan /\ op'.i = op.i /\ op'.tx = op.tx /\ op'.kind = op.kind
        /\ op'.n = op.n /\ Target' = Target /\ Change' = Change /\ last' = last /\ pending' = pending
    BY <1>1, <1>5 DEF Step, Target, Change
  <2>3. Replacements'
    BY <1>1, <1>2, <2>2 DEF Replacements, Standing, Apart
  <2> QED
    BY <2>1, <2>2, <2>3, Elsewhere DEF Progress
<1> QED
  BY <1>3, <1>4, <1>5, LookView DEF Types, Progress

LEMMA CreateProgress ==
    ASSUME Types, Ledger, Progress, Create PROVE Progress'
<1>1. /\ op \in Operations /\ op # Nothing /\ op.at = "create" /\ Quiet /\ UNCHANGED <<last, pending>>
      /\ op.plan # <<>>
  BY CreateView, OperationFacts DEF Types, Progress
<1>2. /\ op.kind = "repair" /\ op.i = 0 /\ op.tx.id = op.n /\ pending = Nothing
      /\ op.tx = last /\ op.tx.changes # <<>> /\ Standing(op.tx) /\ WellFormed(op.tx)
      /\ Apart(op.tx, Tail(op.plan))
  BY <1>1, ReplacementsFacts
<1>3. CASE op' = Nothing
  BY <1>3, GoneProgress
<1>4. CASE Step("verify", Tail(op.plan), op.i, op.tx)
  BY <1>1, <1>2, <1>4, NextProgress DEF Progress
<1> QED
  BY <1>3, <1>4, CreateView DEF Types, Progress

(* The stages of an undo. *)

LEMMA UndosFacts ==
    ASSUME Types, Ledger, Progress, op \in Operations,
           op.at \in {"undo", "aside", "restore", "mark", "drop", "finish"}
    PROVE  /\ op.kind = "undo" /\ pending = Nothing /\ Older(last, op.n)
           /\ last # Nothing /\ op.tx = last /\ ~last.undone /\ op.i \in Nat
           /\ op.i <= Len(last.changes) /\ Len(last.changes) \in Nat
           /\ \A k \in op.i + 1 .. Len(last.changes) : last.changes[k].undone
           /\ op.at \in {"aside", "restore", "mark"} => op.i > 0 /\ ~Undoing.undone
           /\ op.at = "restore" => ~Undoing.create
           /\ op.at = "mark" /\ ~Undoing.create => Spare(Undoing)
           /\ op.at = "drop" => op.i > 0 /\ ~Undoing.create /\ Undoing.undone
  BY OperationFacts, LastFacts DEF Types, Progress, Undos

\* An undo goes on, with the same change or the one before it.
LEMMA UndoProgress ==
    ASSUME Types, Ledger, Progress, op \in Operations,
           op.at \in {"undo", "aside", "restore", "drop"},
           Quiet, UNCHANGED <<last, pending>>,
           NEW at \in {"undo", "aside", "restore", "mark", "finish"}, NEW i \in Nat,
           Step(at, op.plan, i, op.tx),
           i = op.i \/ (op.i > 0 /\ i = op.i - 1 /\ Undoing.undone),
           at = "finish" => i = 0,
           at \in {"aside", "restore", "mark"} => i = op.i /\ i > 0 /\ ~Undoing.undone,
           at = "restore" => ~Undoing.create,
           at = "mark" /\ ~Undoing.create =>
             (Disk'[Undoing.prev] \in kept =>
                \E p \in Paths : /\ Disk'[p] = Disk'[Undoing.prev]
                                 /\ \A t \in Targets : p # Previous(t, last.id))
    PROVE  Progress'
<1>1. /\ op.kind = "undo" /\ pending = Nothing /\ Older(last, op.n)
      /\ last # Nothing /\ op.tx = last /\ ~last.undone /\ op.i \in Nat
      /\ op.i <= Len(last.changes) /\ Len(last.changes) \in Nat
      /\ \A k \in op.i + 1 .. Len(last.changes) : last.changes[k].undone
  BY UndosFacts
<1>2. Knows'
  BY StillKnows DEF Progress
<1>3. /\ op'.at = at /\ op'.i = i /\ op'.tx = op.tx /\ op'.kind = op.kind /\ op'.n = op.n
      /\ last' = last /\ pending' = pending /\ kept' = kept
  BY DEF Step, Quiet
<1>4. i <= Len(last.changes) /\ \A k \in i + 1 .. Len(last.changes) : last.changes[k].undone
  <2>1. CASE i = op.i
    BY <1>1, <2>1
  <2>2. CASE op.i > 0 /\ i = op.i - 1 /\ Undoing.undone
    <3>1. Undoing = last.changes[op.i]
      BY <1>1 DEF Undoing
    <3> QED
      BY <1>1, <2>2, <3>1
  <2> QED
    BY <2>1, <2>2
<1>5. at \in {"aside", "restore", "mark"} => Undoing' = Undoing
  BY <1>3 DEF Undoing
<1>6. Undos'
  <2>1. /\ op'.kind = "undo" /\ pending' = Nothing /\ Older(last', op'.n)
        /\ last' # Nothing /\ op'.tx = last' /\ ~last'.undone
        /\ op'.i <= Len(last'.changes)
        /\ \A k \in op'.i + 1 .. Len(last'.changes) : last'.changes[k].undone
        /\ op'.at # "begin" /\ op'.at # "drop"
    BY <1>1, <1>3, <1>4 DEF Older
  <2>2. /\ op'.at = "finish" => op'.i = 0
        /\ op'.at \in {"aside", "restore", "mark"} => op'.i > 0 /\ ~Undoing'.undone
        /\ op'.at = "restore" => ~Undoing'.create
    BY <1>3, <1>5
  <2>3. op'.at = "mark" /\ ~Undoing'.create => Spare(Undoing)'
    BY <1>3, <1>5 DEF Spare
  <2> QED
    BY <2>1, <2>2, <2>3 DEF Undos, Older
<1> QED
  BY <1>2, <1>3, <1>6, Elsewhere DEF Progress

LEMMA BeginProgress ==
    ASSUME Types, Ledger, Progress, Begin PROVE Progress'
<1>1. /\ op \in Operations /\ op # Nothing /\ op.at = "begin" /\ Quiet /\ UNCHANGED <<Disk, last, pending>>
  BY BeginView, OperationFacts DEF Types, Decides
<1>2. op.kind = "undo" /\ pending = Nothing /\ Older(last, op.n)
  BY <1>1 DEF Progress, Undos
<1>3. CASE op' = Nothing
  BY <1>3, GoneProgress
<1>4. CASE last # Nothing /\ ~last.undone /\ Step("undo", op.plan, Len(last.changes), last)
  <2>1. Knows'
    BY <1>1, <1>4, StillKnows DEF Progress
  <2>2. /\ op'.at = "undo" /\ op'.i = Len(last.changes) /\ op'.tx = last /\ op'.kind = op.kind
        /\ op'.n = op.n /\ last' = last /\ pending' = pending /\ Len(last.changes) \in Nat
    BY <1>1, <1>4, LastFacts DEF Step, Types
  <2>3. Undos'
    BY <1>2, <1>4, <2>2 DEF Undos, Older
  <2> QED
    BY <2>1, <2>2, <2>3, Elsewhere DEF Progress
<1> QED
  BY <1>3, <1>4, BeginView DEF Types

LEMMA UndoChangeProgress ==
    ASSUME Types, Ledger, Progress, UndoChange PROVE Progress'
<1>1. /\ op \in Operations /\ op.at = "undo" /\ Quiet /\ UNCHANGED <<last, pending>> /\ op.i \in Nat
  BY UndoChangeView, OperationFacts DEF Types, Progress
<1>2. CASE op.i = 0 /\ Step("finish", op.plan, op.i, op.tx)
  BY <1>1, <1>2, UndoProgress
<1>3. CASE op.i > 0 /\ Undoing.undone /\ Step("undo", op.plan, op.i - 1, op.tx)
  <2>1. op.i - 1 \in Nat
    BY <1>1, <1>3
  <2> QED
    BY <1>1, <1>3, <2>1, UndoProgress
<1>4. CASE op.i > 0 /\ ~Undoing.undone /\ Undoing.create /\ Step("mark", op.plan, op.i, op.tx)
  BY <1>1, <1>4, UndoProgress
<1>5. CASE op.i > 0 /\ ~Undoing.undone /\ Step("aside", op.plan, op.i, op.tx)
  BY <1>1, <1>5, UndoProgress
<1> QED
  BY <1>2, <1>3, <1>4, <1>5, UndoChangeView DEF Types, Progress

LEMMA AsideProgress ==
    ASSUME Types, Ledger, Progress, Aside PROVE Progress'
<1>1. /\ op \in Operations /\ op.at = "aside" /\ Quiet /\ UNCHANGED <<last, pending>> /\ op.i \in Nat
      /\ Step(IF Undoing.create THEN "mark" ELSE "restore", op.plan, op.i, op.tx)
  BY AsideView, OperationFacts DEF Types, Progress
<1>2. op.i > 0 /\ ~Undoing.undone
  BY <1>1, UndosFacts
<1>3. CASE Undoing.create
  BY <1>1, <1>2, <1>3, UndoProgress
<1>4. CASE ~Undoing.create
  BY <1>1, <1>2, <1>4, UndoProgress
<1> QED
  BY <1>3, <1>4

LEMMA RestoreProgress ==
    ASSUME Types, Ledger, Progress, Restore PROVE Progress'
<1>1. /\ op \in Operations /\ op # Nothing /\ op.at = "restore" /\ Quiet /\ UNCHANGED <<last, pending>>
      /\ op.i \in Nat
  BY RestoreView, OperationFacts DEF Types, Progress
<1>2. op.i > 0 /\ ~Undoing.undone /\ ~Undoing.create
  BY <1>1, UndosFacts
<1>3. CASE op' = Nothing
  BY <1>3, GoneProgress
<1>4. CASE /\ Disk[Undoing.prev] = Undoing.state /\ Disk[Undoing.target] = Nothing
           /\ Disk' = [Disk EXCEPT ![Undoing.target] = Undoing.state]
           /\ Step("mark", op.plan, op.i, op.tx)
  <2>1. /\ Undoing.target \in Paths /\ Undoing.target \in Targets
        /\ Undoing.prev \in Paths \ Targets /\ last.id \in Nat
    BY <1>1, <1>2, UndoingFacts, LastFacts DEF Types, Progress
  <2>2. Disk'[Undoing.target] = Undoing.state /\ Disk'[Undoing.prev] = Disk[Undoing.prev]
    BY <1>4, <2>1 DEF Disk
  <2>3. \A t \in Targets : Undoing.target # Previous(t, last.id)
    BY <2>1, PathsDiffer
  <2> QED
    BY <1>1, <1>2, <1>4, <2>1, <2>2, <2>3, UndoProgress
<1> QED
  BY <1>3, <1>4, RestoreView DEF Types, Progress

LEMMA DropProgress ==
    ASSUME Types, Ledger, Progress, Drop PROVE Progress'
<1>1. /\ op \in Operations /\ op.at = "drop" /\ Quiet /\ UNCHANGED <<last, pending>>
      /\ op.i > 0 /\ Undoing.undone /\ op.i \in Nat
      /\ Step("undo", op.plan, op.i - 1, op.tx)
  BY DropView, OperationFacts DEF Types, Progress
<1>2. op.i - 1 \in Nat
  BY <1>1
<1> QED
  BY <1>1, <1>2, UndoProgress

LEMMA MarkProgress ==
    ASSUME Types, Ledger, Progress, Mark PROVE Progress'
<1>1. /\ op \in Operations /\ op.at = "mark" /\ Quiet /\ UNCHANGED <<Disk, pending>>
      /\ last' \in Transactions /\ last'.id = last.id /\ last'.undone = last.undone
      /\ Len(last'.changes) = Len(last.changes)
      /\ \A k \in 1 .. Len(last.changes) : k # op.i => last'.changes[k] = last.changes[k]
      /\ last'.changes[op.i].create = Undoing.create /\ last'.changes[op.i].undone
      /\ IF Undoing.create THEN Step("undo", op.plan, op.i - 1, last')
         ELSE Step("drop", op.plan, op.i, last')
  BY MarkView DEF Types, Progress
<1>2. /\ op.kind = "undo" /\ pending = Nothing /\ Older(last, op.n)
      /\ last # Nothing /\ op.tx = last /\ ~last.undone /\ op.i \in Nat /\ op.i > 0
      /\ op.i <= Len(last.changes) /\ Len(last.changes) \in Nat
      /\ \A k \in op.i + 1 .. Len(last.changes) : last.changes[k].undone
  BY <1>1, UndosFacts
<1>3. \A k \in op.i .. Len(last.changes) : last'.changes[k].undone
  BY <1>1, <1>2
<1>4. Knows' /\ last' # Nothing /\ pending' = pending
  BY <1>1, StillKnows, TransactionFacts DEF Progress
<1>5. CASE Undoing.create
  <2>1. /\ op'.at = "undo" /\ op'.i = op.i - 1 /\ op'.tx = last' /\ op'.kind = "undo" /\ op'.n = op.n
    BY <1>1, <1>2, <1>5 DEF Step
  <2>2. Undos'
    BY <1>1, <1>2, <1>3, <1>4, <2>1 DEF Undos, Older
  <2> QED
    BY <1>4, <2>1, <2>2, Elsewhere DEF Progress
<1>6. CASE ~Undoing.create
  <2>1. /\ op'.at = "drop" /\ op'.i = op.i /\ op'.tx = last' /\ op'.kind = "undo" /\ op'.n = op.n
    BY <1>1, <1>2, <1>6 DEF Step
  <2>2. Undoing' = last'.changes[op.i]
    BY <2>1 DEF Undoing
  <2>3. \A k \in op.i + 1 .. Len(last'.changes) : last'.changes[k].undone
    BY <1>1, <1>2, <1>3
  <2>4. Undos'
    BY <1>1, <1>2, <1>4, <1>6, <2>1, <2>2, <2>3 DEF Undos, Older
  <2> QED
    BY <1>4, <2>1, <2>4, Elsewhere DEF Progress
<1> QED
  BY <1>5, <1>6

\* Others write a target while an operation runs.
LEMMA EditedProgress ==
    ASSUME Types, Ledger, Accounts, Progress, NEW t \in Targets, Edit(t)
    PROVE  Progress'
<1>1. CASE op = Nothing
  BY <1>1, GoneProgress, EditView
<1> SUFFICES ASSUME op # Nothing PROVE Progress'
  BY <1>1
<1>2. /\ op \in Operations /\ op.n \in Nat
      /\ op.plan \in Seq(Actions) /\ op.i \in Nat
  BY OperationFacts DEF Types, RecordTypes
<1>3. /\ UNCHANGED <<last, pending, op, serial>> /\ Written \subseteq Written'
      /\ \A n \in 1 .. serial : touched'[n] = touched[n] \union {t}
  BY EditView
<1>4. PICK c \in (Contents \ Written) \union {Nothing} :
         /\ Disk' = [Disk EXCEPT ![t] = c]
         /\ kept' = (kept \ {Disk[t]}) \union ({c} \ {Nothing})
  <2>1. CASE Disk' = [Disk EXCEPT ![t] = Nothing] /\ kept' = kept \ {Disk[t]}
    BY <2>1
  <2>2. CASE \E c \in Contents \ Written :
               Disk' = [Disk EXCEPT ![t] = c] /\ kept' = (kept \ {Disk[t]}) \union {c}
    BY <2>2, NamesAssumption
  <2> QED
    BY <2>1, <2>2, EditView
<1>5. /\ t \in Paths /\ \A p \in Paths : Disk'[p] = IF p = t THEN c ELSE Disk[p]
      /\ \A p \in Paths : Disk[p] \in Written \union {Nothing}
  BY <1>4, DiskType DEF Paths, Disk, Types, FileTypes
<1>6. Target' = Target /\ Kind' = Kind /\ Change' = Change /\ Undoing' = Undoing
      /\ Journaled' = Journaled /\ InFlight' = InFlight
  BY <1>3 DEF Target, Kind, Change, Undoing, Journaled, InFlight
<1>7. op.n \in 1 .. serial
  BY <1>2 DEF Progress, Knows, Types, FileTypes
<1>8. Knows'
  BY <1>3 DEF Progress, Knows, Distinct
<1>9. Starts'
  <2>1. ASSUME pending # Nothing
        PROVE  /\ pending.tx.id \in 1 .. serial /\ Journaled.target \in Paths
               /\ ~Journaled.create => Journaled.prev \in Paths \ {t}
    BY <2>1, JournalFacts, ChangeFacts, PathsDiffer, TransactionFacts DEF Types, Paths
  <2>2. CASE op.at = "promote"
    BY <1>3, <1>5, <1>6, <2>1, <2>2 DEF Progress, Starts, InFlight, Older
  <2>3. CASE op.at = "settle"
    BY <1>3, <1>5, <1>6, <2>1, <2>3 DEF Progress, Starts, InFlight, Older
  <2>4. CASE op.at \notin {"promote", "settle"}
    BY <1>3, <2>4 DEF Progress, Starts, Older
  <2> QED
    BY <2>2, <2>3, <2>4
<1>10. Verifying'
  <2>1. op.plan # <<>> => Target \in Paths
    BY <1>2, TargetFacts DEF Paths
  <2>2. CASE op.at = "prepare"
    <3>1. Kind # "restore" => Disk'[Target] # Nothing \/ Target \in touched'[op.n]
      BY <1>3, <1>5, <1>7, <2>1, <2>2 DEF Progress, Verifying
    <3> QED
      BY <1>3, <1>6, <2>2, <3>1
         DEF Progress, Verifying, Older, WellFormed, Standing, Apart, Distinct
  <2>3. CASE op.at # "prepare"
    BY <1>3, <2>3 DEF Progress, Verifying, Older, WellFormed, Standing, Apart, Distinct
  <2> QED
    BY <2>2, <2>3
<1>11. Moves'
  <2>1. SUFFICES ASSUME op.at \in {"rename", "check", "publish", "own", "commit", "clear"}
                 PROVE  Moves'
    BY <1>3, Elsewhere
  <2>2. /\ Target \in Paths /\ Target \in Targets
        /\ ~Change.create => Change.prev \in Paths \ {t}
        /\ Moves
    BY <2>1, ChangeIsJournaled DEF Types, Progress
  <2>3. op.seen[Target] \in Written \union {Nothing}
    BY <2>2 DEF Progress, Knows
  <2>4. c # Nothing => c # op.seen[Target]
    BY <2>3, NoText
  <2>5. CASE op.at = "rename"
    BY <1>3, <1>5, <1>6, <2>2, <2>4, <2>5 DEF Moves, Apart
  <2>6. CASE op.at = "check"
    BY <1>3, <1>5, <1>6, <2>2, <2>6 DEF Moves, Apart
  <2>7. CASE op.at = "publish"
    BY <1>3, <1>5, <1>6, <1>7, <2>2, <2>7 DEF Moves, Apart
  <2>8. CASE op.at \in {"own", "clear"}
    BY <1>3, <1>6, <2>2, <2>8 DEF Moves, Apart
  <2>9. CASE op.at = "commit"
    BY <1>3, <1>5, <1>6, <2>2, <2>9 DEF Moves, Apart
  <2> QED
    BY <2>1, <2>5, <2>6, <2>7, <2>8, <2>9
<1>12. Replacements'
  BY <1>3, <1>6 DEF Progress, Replacements, Standing, Apart
<1>13. Undos'
  <2>1. CASE op.at # "mark"
    BY <1>3, <1>6, <2>1 DEF Progress, Undos, Older
  <2>2. CASE op.at = "mark"
    <3>1. ASSUME ~Undoing.create PROVE Spare(Undoing)'
      <4>1. /\ Undoing.prev \in Paths \ {t} /\ Spare(Undoing) /\ last' = last
        BY <1>3, <2>2, <3>1, UndoingFacts, UndosFacts, <1>2 DEF Types, Progress
      <4>2. SUFFICES ASSUME Disk[Undoing.prev] \in kept'
                     PROVE  \E p \in Paths : /\ Disk'[p] = Disk[Undoing.prev]
                                             /\ \A u \in Targets : p # Previous(u, last.id)
        BY <1>5, <1>6, <4>1 DEF Spare
      <4>3. Disk[Undoing.prev] \in kept \ {Disk[t]}
        BY <1>4, <1>5, <4>1, <4>2
      <4>4. PICK p \in Paths : /\ Disk[p] = Disk[Undoing.prev]
                               /\ \A u \in Targets : p # Previous(u, last.id)
        BY <4>1, <4>3 DEF Spare
      <4> QED
        BY <1>5, <4>3, <4>4
    <3> QED
      BY <1>3, <1>6, <2>2, <3>1 DEF Progress, Undos, Older
  <2> QED
    BY <2>1, <2>2
<1> QED
  BY <1>8, <1>9, <1>10, <1>11, <1>12, <1>13 DEF Progress

\* An operation gets the lock.
LEMMA EnterView ==
    ASSUME Types, op = Nothing, NEW p \in Invokers, Enter(p)
    PROVE  /\ UNCHANGED <<Disk, last, pending, edits, kept>> /\ FilesTyped'
           /\ serial' = serial + 1 /\ serial' \in Nat
           /\ waiting[p] \in Asked /\ waiting[p] # Nothing /\ waiting' = [waiting EXCEPT ![p] = Nothing]
           /\ op' \in Operations /\ op' # Nothing /\ op'.at = "reconcile" /\ op'.n = serial'
           /\ op'.kind = waiting[p].kind /\ op'.plan = waiting[p].plan /\ op'.seen = waiting[p].seen
           /\ op'.i = 0 /\ op'.tx.id = serial' /\ op'.tx.changes = <<>> /\ ~op'.tx.undone
           /\ origin' \in Seq([Targets -> Contents \union {Nothing}]) /\ Len(origin') = serial'
           /\ \A n \in 1 .. serial : origin'[n] = origin[n]
           /\ origin'[serial'] = [t \in Targets |-> Disk[t]]
           /\ touched' \in Seq(SUBSET Targets) /\ Len(touched') = serial'
           /\ \A n \in 1 .. serial : touched'[n] = touched[n]
           /\ touched'[serial'] = {}
<1>1. /\ serial \in Nat /\ serial' = serial + 1 /\ serial' \in Nat
      /\ UNCHANGED <<files, last, pending, edits, kept>> /\ FilesTyped
  BY DEF Enter, Types, FileTypes
<1>2. UNCHANGED Disk /\ FilesTyped'
  BY <1>1, SameDisk
<1>3. waiting[p] \in Asked /\ waiting[p] # Nothing /\ waiting' = [waiting EXCEPT ![p] = Nothing]
  BY DEF Enter, Types, RecordTypes
<1> DEFINE tx == [id |-> serial', changes |-> <<>>, undone |-> FALSE]
<1>4. tx \in Transactions /\ tx.id = serial' /\ tx.changes = <<>> /\ ~tx.undone
  <2>1. <<>> \in Seq(ChangeRecords)
    BY EmptySeq
  <2> QED
    BY <1>1, <2>1 DEF Transactions
<1> DEFINE o == [at |-> "reconcile", kind |-> waiting[p].kind, plan |-> waiting[p].plan,
                 seen |-> waiting[p].seen, n |-> serial', i |-> 0, tx |-> tx]
<1>5. op' = o
  BY DEF Enter
<1> HIDE DEF tx
<1>6. o \in Operations
  BY <1>1, <1>3, <1>4 DEF Operations, Asked, Actions, Stages
<1>7. /\ op' \in Operations /\ op' # Nothing /\ op'.at = "reconcile" /\ op'.n = serial'
      /\ op'.kind = waiting[p].kind /\ op'.plan = waiting[p].plan /\ op'.seen = waiting[p].seen
      /\ op'.i = 0 /\ op'.tx.id = serial' /\ op'.tx.changes = <<>> /\ ~op'.tx.undone
  BY <1>4, <1>5, <1>6, NamesAssumption
<1>8. Present = [t \in Targets |-> Disk[t]] /\ Present \in [Targets -> Contents \union {Nothing}]
  BY <1>1, AtDisk, DiskType, NoText DEF Present, Paths
<1>9. /\ origin' \in Seq([Targets -> Contents \union {Nothing}]) /\ Len(origin') = serial'
      /\ \A n \in 1 .. serial : origin'[n] = origin[n]
      /\ origin'[serial'] = [t \in Targets |-> Disk[t]]
  <2>1. origin' = Append(origin, Present)
    BY DEF Enter
  <2>2. origin \in Seq([Targets -> Contents \union {Nothing}]) /\ Len(origin) = serial
    BY DEF Types, HistoryTypes
  <2> QED
    BY <1>1, <1>8, <2>1, <2>2, AppendProperties
<1>10. /\ touched' \in Seq(SUBSET Targets) /\ Len(touched') = serial'
       /\ \A n \in 1 .. serial : touched'[n] = touched[n]
       /\ touched'[serial'] = {}
  <2>1. touched' = Append(touched, {})
    BY DEF Enter
  <2>2. touched \in Seq(SUBSET Targets) /\ Len(touched) = serial /\ {} \in SUBSET Targets
    BY DEF Types, HistoryTypes
  <2> QED
    BY <1>1, <2>1, <2>2, AppendProperties
<1> QED
  BY <1>1, <1>2, <1>3, <1>7, <1>9, <1>10

LEMMA EnteredInv ==
    ASSUME Types, Ledger, Accounts, NEW p \in Invokers, Enter(p)
    PROVE  Types' /\ Ledger' /\ Accounts' /\ Progress'
<1>1. op = Nothing
  BY DEF Enter
<1>2. /\ UNCHANGED <<Disk, last, pending, edits, kept>> /\ FilesTyped'
      /\ serial' = serial + 1 /\ serial' \in Nat /\ serial \in Nat
      /\ waiting[p] \in Asked /\ waiting[p] # Nothing /\ waiting' = [waiting EXCEPT ![p] = Nothing]
      /\ op' \in Operations /\ op' # Nothing /\ op'.at = "reconcile" /\ op'.n = serial'
      /\ op'.kind = waiting[p].kind /\ op'.plan = waiting[p].plan /\ op'.seen = waiting[p].seen
      /\ op'.i = 0 /\ op'.tx.id = serial' /\ op'.tx.changes = <<>> /\ ~op'.tx.undone
      /\ Written' = Written
  BY <1>1, EnterView DEF Types, FileTypes, Written
<1>3. /\ touched' \in Seq(SUBSET Targets) /\ Len(touched') = serial'
      /\ \A n \in 1 .. serial : touched'[n] = touched[n]
      /\ touched'[serial'] = {}
      /\ origin' \in Seq([Targets -> Contents \union {Nothing}]) /\ Len(origin') = serial'
  BY <1>1, EnterView
<1>4. FileTypes'
  BY <1>2 DEF Types, FileTypes
<1>5. RecordTypes'
  BY <1>2 DEF Types, RecordTypes
<1>6. HistoryTypes'
  <2>1. \A m, n \in 1 .. serial' : m <= n => touched'[n] \subseteq touched'[m]
    <3>1. ASSUME NEW m \in 1 .. serial', NEW n \in 1 .. serial', m <= n
          PROVE  touched'[n] \subseteq touched'[m]
      <4>1. CASE n = serial'
        BY <1>3, <4>1
      <4>2. CASE n # serial'
        <5>1. m \in 1 .. serial /\ n \in 1 .. serial
          BY <1>2, <3>1, <4>2
        <5> QED
          BY <1>3, <3>1, <5>1 DEF Types, HistoryTypes
      <4> QED
        BY <4>1, <4>2
    <3> QED
      BY <3>1
  <2> QED
    BY <1>3, <2>1 DEF HistoryTypes
<1>7. Ledger'
  <2>1. \A n \in 1 .. serial : n \in 1 .. serial'
    BY <1>2
  <2> QED
    BY <1>2, <2>1 DEF Ledger
<1>8. Rescued' /\ HaveBackups' /\ Named' /\ Spares'
  BY <1>2 DEF Accounts, Rescued, HaveBackups, BackedUp, Named, Names, Spares, Spare
<1>9. Traces'
  <2>1. pending # Nothing => pending.tx.id \in 1 .. serial
    BY DEF Ledger
  <2> QED
    BY <1>2, <1>3, <2>1 DEF Accounts, Traces, InFlight, Journaled
<1>10. Knows'
  BY <1>2 DEF Types, RecordTypes, Knows
<1>11. Starts'
  <2>1. Older(last, serial') /\ (pending # Nothing => pending.tx.id < serial')
    BY <1>2 DEF Ledger, Older
  <2> QED
    BY <1>2, <2>1 DEF Starts, Older
<1> QED
  BY <1>2, <1>4, <1>5, <1>6, <1>7, <1>8, <1>9, <1>10, <1>11, Elsewhere DEF Types, Accounts, Progress

-----------------------------------------------------------------------------
(* The invariant is kept by every step. *)

IInv == Types /\ Ledger /\ Accounts /\ Progress

LEMMA QuietTypes ==
    ASSUME Types, Quiet, FilesTyped',
           last' \in Transactions \union {Nothing}, pending' \in Journals \union {Nothing},
           op' \in Operations \union {Nothing}
    PROVE  Types'
<1>1. FileTypes'
  BY DEF Types, FileTypes, Quiet
<1>2. RecordTypes'
  BY DEF Types, RecordTypes, Quiet, Written
<1>3. HistoryTypes'
  BY DEF Types, HistoryTypes, Quiet
<1> QED
  BY <1>1, <1>2, <1>3 DEF Types

LEMMA SameLedger ==
    ASSUME Ledger, UNCHANGED <<last, pending, serial>> PROVE Ledger'
  BY DEF Ledger

LEMMA StepTypes ==
    ASSUME Types, Quiet, FilesTyped', UNCHANGED <<last, pending>>,
           op' = Nothing \/ op' \in Operations
    PROVE  Types'
  BY QuietTypes DEF Types, RecordTypes

LEMMA ReconcileInv == ASSUME IInv, Reconcile PROVE IInv'
<1>1. Decides /\ (op' = Nothing \/ op' \in Operations)
  BY ReconcileView DEF IInv, Types, Step
<1> QED
  BY <1>1, StepTypes, SameLedger, DecidesAccounts, ReconcileProgress DEF IInv, Decides, Quiet

LEMMA PromoteInv == ASSUME IInv, Promote PROVE IInv'
<1>1. /\ op \in Operations /\ op # Nothing /\ op.at = "promote" /\ Quiet
      /\ UNCHANGED <<Disk, pending>> /\ FilesTyped'
      /\ last' = pending.tx /\ op' \in Operations
  BY PromoteView, OperationFacts DEF IInv, Types, Step
<1>2. /\ InFlight
      /\ ~Journaled.create => Disk[Journaled.prev] # Nothing /\ Disk[Journaled.prev] = Journaled.state
  BY <1>1 DEF IInv, Progress, Starts
<1>3. pending.tx \in Transactions
  BY <1>2 DEF IInv, Types, RecordTypes, InFlight, Journals
<1>4. Types'
  BY <1>1, <1>3, QuietTypes DEF IInv, Types, RecordTypes
<1> QED
  BY <1>1, <1>2, <1>4, RecordedAccounts, PromoteProgress DEF IInv

LEMMA SettleInv == ASSUME IInv, Settle PROVE IInv'
<1>1. /\ op \in Operations /\ op # Nothing /\ op.at = "settle" /\ Quiet
      /\ UNCHANGED <<Disk, last>> /\ FilesTyped'
      /\ pending' = Nothing /\ op' \in Operations
  BY SettleView, OperationFacts DEF IInv, Types, Step
<1>2. pending # Nothing /\ (InFlight /\ ~Journaled.create => Disk[Journaled.prev] = Nothing)
  BY <1>1 DEF IInv, Progress, Starts
<1>3. Types'
  BY <1>1, QuietTypes DEF IInv, Types, RecordTypes
<1> QED
  BY <1>1, <1>2, <1>3, ForgottenAccounts, SettleProgress DEF IInv

LEMMA VerifyInv == ASSUME IInv, Verify PROVE IInv'
<1>1. Decides /\ (op' = Nothing \/ op' \in Operations)
  BY VerifyView DEF IInv, Types, Step
<1> QED
  BY <1>1, StepTypes, SameLedger, DecidesAccounts, VerifyProgress DEF IInv, Decides, Quiet

LEMMA PrepareInv == ASSUME IInv, Prepare PROVE IInv'
<1>1. /\ op \in Operations /\ Quiet /\ UNCHANGED <<Disk, last>> /\ FilesTyped'
      /\ op' \in Operations /\ pending' \in Journals
  BY PrepareView DEF IInv, Types, Progress, Step, Journals, RecordTypes
<1>2. Types'
  BY <1>1, QuietTypes DEF IInv, Types, RecordTypes
<1> QED
  BY <1>2, PreparedAccounts, PrepareProgress DEF IInv, Progress

\* While a repair moves a file its journal is in flight.
LEMMA MovesInFlight ==
    ASSUME IInv, op \in Operations, op.at \in {"rename", "check", "publish", "own", "commit"}
    PROVE  InFlight /\ Journaled = Change /\ Journaled.target = Target /\ pending.tx = op.tx
<1>1. op # Nothing
  BY OperationFacts
<1>2. pending # Nothing /\ last = pending.bound
  BY <1>1 DEF IInv, Progress, Moves
<1> QED
  BY <1>1, <1>2, ChangeIsJournaled DEF IInv, Types, Progress, InFlight

LEMMA RenameInv == ASSUME IInv, Rename PROVE IInv'
<1>1. /\ op \in Operations /\ op # Nothing /\ op.at = "rename" /\ Quiet
      /\ UNCHANGED <<last, pending>> /\ FilesTyped'
      /\ op' = Nothing \/ op' \in Operations
      /\ \/ /\ Disk[Target] # Nothing /\ Disk[Change.prev] = Nothing
            /\ Disk' = Shift(Disk, Target, Change.prev)
         \/ Disk' = Disk
  BY RenameView, OperationFacts DEF IInv, Types, Progress, Step
<1>2. InFlight /\ Journaled = Change /\ Journaled.target = Target /\ ~Journaled.create
  BY <1>1, MovesInFlight DEF IInv, Progress, Moves
<1>3. Accounts'
  BY <1>1, <1>2, MadeAccounts, DecidesAccounts DEF IInv, Decides
<1> QED
  BY <1>1, <1>3, StepTypes, SameLedger, RenameProgress DEF IInv, Quiet

LEMMA CheckInv == ASSUME IInv, Check PROVE IInv'
<1>1. /\ op \in Operations /\ op # Nothing /\ op.at = "check" /\ Quiet
      /\ UNCHANGED <<last, pending>> /\ FilesTyped'
      /\ op' = Nothing \/ op' \in Operations
      /\ Disk' = Disk \/ Disk' = Back(Disk, Change.prev, Target)
  BY CheckView, OperationFacts DEF IInv, Types, Progress, Step
<1>2. InFlight /\ Journaled = Change /\ Journaled.target = Target /\ ~Journaled.create
  BY <1>1, MovesInFlight DEF IInv, Progress, Moves
<1>3. Accounts'
  BY <1>1, <1>2, TakenBackAccounts, DecidesAccounts DEF IInv, Decides
<1> QED
  BY <1>1, <1>3, StepTypes, SameLedger, CheckProgress DEF IInv, Quiet

LEMMA CommitInv == ASSUME IInv, Commit PROVE IInv'
<1>1. /\ op \in Operations /\ op # Nothing /\ op.at = "commit" /\ Quiet
      /\ UNCHANGED <<Disk, pending>> /\ FilesTyped'
      /\ last' = op.tx /\ op' \in Operations
  BY CommitView, OperationFacts DEF IInv, Types, Step
<1>2. InFlight /\ Journaled = Change /\ pending.tx = op.tx /\ op.tx \in Transactions
  BY <1>1, MovesInFlight, OperationFacts
<1>3. ~Journaled.create => Disk[Journaled.prev] # Nothing /\ Disk[Journaled.prev] = Journaled.state
  BY <1>1, <1>2 DEF IInv, Progress, Moves
<1>4. Types'
  BY <1>1, <1>2, QuietTypes DEF IInv, Types, RecordTypes
<1> QED
  BY <1>1, <1>2, <1>3, <1>4, RecordedAccounts, CommitProgress DEF IInv

LEMMA CommitFailsInv == ASSUME IInv, CommitFails PROVE IInv'
<1>1. /\ op \in Operations /\ op # Nothing /\ op.at = "commit" /\ Quiet
      /\ UNCHANGED <<last, pending>> /\ FilesTyped' /\ op' = Nothing
      /\ Disk' = (IF Change.create THEN Disk ELSE Back(Disk, Change.prev, Target))
  BY CommitFailsView, OperationFacts DEF IInv, Types, Progress
<1>2. InFlight /\ Journaled = Change /\ Journaled.target = Target
  BY <1>1, MovesInFlight
<1>3. Accounts'
  BY <1>1, <1>2, TakenBackAccounts, DecidesAccounts DEF IInv, Decides
<1> QED
  BY <1>1, <1>3, StepTypes, SameLedger, GoneProgress DEF IInv, Quiet

LEMMA ClearInv == ASSUME IInv, Clear PROVE IInv'
<1>1. /\ op \in Operations /\ op # Nothing /\ op.at = "clear" /\ Quiet
      /\ UNCHANGED <<Disk, last>> /\ FilesTyped' /\ pending' = Nothing
      /\ op' \in Operations
  BY ClearView, OperationFacts DEF IInv, Types, Progress, Step
<1>2. pending # Nothing /\ last = pending.tx
  BY <1>1 DEF IInv, Progress, Moves
<1>3. ~InFlight
  BY <1>2, InFlightFacts DEF IInv, Types
<1>4. Types'
  BY <1>1, QuietTypes DEF IInv, Types, RecordTypes
<1> QED
  BY <1>1, <1>2, <1>3, <1>4, ForgottenAccounts, ClearProgress DEF IInv

LEMMA LookInv == ASSUME IInv, Look PROVE IInv'
<1>1. Decides /\ (op' = Nothing \/ op' \in Operations)
  BY LookView DEF IInv, Types, Progress, Step
<1> QED
  BY <1>1, StepTypes, SameLedger, DecidesAccounts, LookProgress DEF IInv, Decides, Quiet

LEMMA CreateInv == ASSUME IInv, Create PROVE IInv'
<1>1. /\ op \in Operations /\ op # Nothing /\ op.at = "create" /\ Quiet
      /\ UNCHANGED <<last, pending>> /\ FilesTyped' /\ Target \in Targets
      /\ op' = Nothing \/ op' \in Operations
      /\ \/ Disk[Target] = Nothing /\ Disk' = [Disk EXCEPT ![Target] = Good]
         \/ Disk' = Disk
  BY CreateView, OperationFacts DEF IInv, Types, Progress, Step
<1>2. ~InFlight
  BY <1>1 DEF IInv, Progress, Replacements, InFlight
<1>3. Accounts'
  BY <1>1, <1>2, PutAccounts, NoText, DecidesAccounts DEF IInv, Decides
<1> QED
  BY <1>1, <1>3, StepTypes, SameLedger, CreateProgress DEF IInv, Quiet

LEMMA PublishInv == ASSUME IInv, Publish PROVE IInv'
<1>1. /\ op \in Operations /\ op # Nothing /\ op.at = "publish" /\ Quiet /\ UNCHANGED last /\ FilesTyped'
      /\ \/ /\ Disk[Target] = Nothing /\ Disk' = [Disk EXCEPT ![Target] = Good]
            /\ pending' = pending /\ op' \in Operations
         \/ Disk' = Disk /\ pending' = Nothing /\ op' = Nothing
  BY PublishView, OperationFacts DEF IInv, Types, Progress, Step
<1>2. InFlight /\ Journaled.create /\ Target \in Targets
  BY <1>1, MovesInFlight, ChangeIsJournaled DEF IInv, Types, Progress, Moves
<1>3. CASE pending' = pending /\ Disk[Target] = Nothing /\ Disk' = [Disk EXCEPT ![Target] = Good]
           /\ op' \in Operations
  BY <1>1, <1>2, <1>3, PutAccounts, NoText, StepTypes, SameLedger, PublishProgress DEF IInv, Quiet
<1>4. CASE Disk' = Disk /\ pending' = Nothing /\ op' = Nothing
  <2>1. Types'
    BY <1>1, <1>4, QuietTypes DEF IInv, Types, RecordTypes
  <2> QED
    BY <1>1, <1>2, <1>4, <2>1, ForgottenAccounts, PublishProgress DEF IInv, InFlight
<1> QED
  BY <1>1, <1>3, <1>4

LEMMA OwnInv == ASSUME IInv, Own PROVE IInv'
<1>1. Decides /\ (op' = Nothing \/ op' \in Operations)
  BY OwnView DEF IInv, Types, Progress, Step
<1> QED
  BY <1>1, StepTypes, SameLedger, DecidesAccounts, OwnProgress DEF IInv, Decides, Quiet

LEMMA BeginInv == ASSUME IInv, Begin PROVE IInv'
<1>1. Decides /\ (op' = Nothing \/ op' \in Operations)
  BY BeginView DEF IInv, Types, Step
<1> QED
  BY <1>1, StepTypes, SameLedger, DecidesAccounts, BeginProgress DEF IInv, Decides, Quiet

LEMMA UndoChangeInv == ASSUME IInv, UndoChange PROVE IInv'
<1>1. /\ op \in Operations /\ op # Nothing /\ op.at = "undo" /\ Quiet
      /\ UNCHANGED <<last, pending>> /\ FilesTyped' /\ op' \in Operations
      /\ \/ Disk' = Disk
         \/ /\ op.i > 0 /\ Undoing.undone /\ ~Undoing.create
            /\ Disk' = [Disk EXCEPT ![Undoing.prev] = Nothing]
  BY UndoChangeView, OperationFacts DEF IInv, Types, Progress, Step
<1>2. Accounts'
  <2>1. CASE Disk' = Disk
    BY <1>1, <2>1, DecidesAccounts DEF IInv, Decides
  <2>2. CASE /\ op.i > 0 /\ Undoing.undone /\ ~Undoing.create
             /\ Disk' = [Disk EXCEPT ![Undoing.prev] = Nothing]
    BY <1>1, <2>2, UndoingFacts, DroppedAccounts DEF IInv, Types, Progress
  <2> QED
    BY <1>1, <2>1, <2>2
<1> QED
  BY <1>1, <1>2, StepTypes, SameLedger, UndoChangeProgress DEF IInv, Quiet

\* A file moved to or from where an undo sets it aside.
LEMMA AsideIsApart ==
    ASSUME IInv, op \in Operations, op.at \in {"aside", "restore"}
    PROVE  /\ op.i > 0 /\ pending = Nothing /\ Undoing.target \in Targets
           /\ Undoing.target \in Paths /\ Redo(Undoing.target, op.n) \in Paths
           /\ \A t \in Targets, n \in Nat :
                Previous(t, n) # Undoing.target /\ Previous(t, n) # Redo(Undoing.target, op.n)
<1>1. op # Nothing /\ op.n \in Nat
  BY OperationFacts
<1>2. op.i > 0
  BY <1>1 DEF IInv, Progress, Undos
<1>3. pending = Nothing /\ Undoing.target \in Targets /\ Undoing.target \in Paths
      /\ Redo(Undoing.target, op.n) \in Paths
  BY <1>1, <1>2, UndoingFacts DEF IInv, Types, Progress
<1> QED
  BY <1>1, <1>2, <1>3, PathsDiffer

LEMMA AsideInv == ASSUME IInv, Aside PROVE IInv'
<1>1. /\ op \in Operations /\ op.at = "aside" /\ Quiet
      /\ UNCHANGED <<last, pending>> /\ FilesTyped' /\ op' \in Operations
      /\ Disk' = Back(Disk, Undoing.target, Redo(Undoing.target, op.n))
  BY AsideView DEF IInv, Types, Progress, Step
<1>2. Accounts'
  BY <1>1, AsideIsApart, AsideAccounts DEF IInv
<1> QED
  BY <1>1, <1>2, StepTypes, SameLedger, AsideProgress DEF IInv, Quiet

LEMMA RestoreInv == ASSUME IInv, Restore PROVE IInv'
<1>1. /\ op \in Operations /\ op # Nothing /\ op.at = "restore" /\ Quiet
      /\ UNCHANGED <<last, pending>>
      /\ \/ /\ Disk[Undoing.prev] = Undoing.state /\ Disk[Undoing.target] = Nothing
            /\ Disk' = [Disk EXCEPT ![Undoing.target] = Undoing.state]
            /\ Disk[Undoing.prev] # Nothing => FilesTyped'
            /\ op' \in Operations
         \/ /\ Disk' = Back(Disk, Redo(Undoing.target, op.n), Undoing.target) /\ FilesTyped'
            /\ op' = Nothing
  BY RestoreView, OperationFacts DEF IInv, Types, Progress, Step
<1>2. /\ op.i > 0 /\ ~Undoing.undone /\ ~Undoing.create
  BY <1>1 DEF IInv, Progress, Undos
<1>3. /\ last # Nothing /\ op.i \in 1 .. Len(last.changes) /\ Undoing = last.changes[op.i]
      /\ Undoing.target \in Targets /\ Undoing.prev \in Paths
  BY <1>1, <1>2, UndoingFacts DEF IInv, Types, Progress
<1>4. Disk[Undoing.prev] # Nothing
  BY <1>2, <1>3, LastFacts DEF IInv, Types, Accounts, HaveBackups, BackedUp
<1>5. CASE /\ Disk[Undoing.prev] = Undoing.state /\ Disk[Undoing.target] = Nothing
           /\ Disk' = [Disk EXCEPT ![Undoing.target] = Undoing.state]
           /\ FilesTyped' /\ op' \in Operations
  <2>1. Undoing.state \in Written
    BY <1>3, <1>4, <1>5, DiskType DEF IInv, Types, FileTypes
  <2>2. Accounts'
    BY <1>1, <1>3, <1>5, <2>1, AsideIsApart, PutAccounts DEF IInv, InFlight
  <2> QED
    BY <1>1, <1>5, <2>2, StepTypes, SameLedger, RestoreProgress DEF IInv, Quiet
<1>6. CASE /\ Disk' = Back(Disk, Redo(Undoing.target, op.n), Undoing.target) /\ FilesTyped'
           /\ op' = Nothing
  <2>1. Accounts'
    BY <1>1, <1>6, AsideIsApart, AsideAccounts DEF IInv
  <2> QED
    BY <1>1, <1>6, <2>1, StepTypes, SameLedger, RestoreProgress DEF IInv, Quiet
<1> QED
  BY <1>1, <1>4, <1>5, <1>6

LEMMA RestoreFailsInv == ASSUME IInv, RestoreFails PROVE IInv'
<1>1. /\ op \in Operations /\ op.at = "restore" /\ Quiet
      /\ UNCHANGED <<last, pending>> /\ FilesTyped' /\ op' = Nothing
      /\ Disk' = Back(Disk, Redo(Undoing.target, op.n), Undoing.target)
  BY RestoreFailsView DEF IInv, Types, Progress
<1>2. Accounts'
  BY <1>1, AsideIsApart, AsideAccounts DEF IInv
<1> QED
  BY <1>1, <1>2, StepTypes, SameLedger, GoneProgress DEF IInv, Quiet

LEMMA MarkInv == ASSUME IInv, Mark PROVE IInv'
<1>1. /\ Quiet /\ UNCHANGED pending /\ FilesTyped' /\ last' \in Transactions /\ op' \in Operations
  BY MarkView DEF IInv, Types, Progress, Step
<1>2. Types'
  BY <1>1, QuietTypes DEF IInv, Types, RecordTypes
<1> QED
  BY <1>2, MarkedAccounts, MarkProgress DEF IInv, Progress

LEMMA DropInv == ASSUME IInv, Drop PROVE IInv'
<1>1. /\ op \in Operations /\ op # Nothing /\ op.at = "drop" /\ Quiet
      /\ UNCHANGED <<last, pending>> /\ FilesTyped' /\ op' \in Operations
      /\ op.i > 0 /\ Undoing.undone /\ ~Undoing.create
      /\ Disk' = [Disk EXCEPT ![Undoing.prev] = Nothing]
  BY DropView, OperationFacts DEF IInv, Types, Progress, Step
<1>2. Accounts'
  BY <1>1, UndoingFacts, DroppedAccounts DEF IInv, Types, Progress
<1> QED
  BY <1>1, <1>2, StepTypes, SameLedger, DropProgress DEF IInv, Quiet

LEMMA FinishInv == ASSUME IInv, Finish PROVE IInv'
<1>1. /\ Quiet /\ UNCHANGED pending /\ FilesTyped' /\ last' \in Transactions /\ op' = Nothing
  BY FinishView DEF IInv, Types, Progress
<1>2. Types'
  BY <1>1, QuietTypes DEF IInv, Types, RecordTypes
<1> QED
  BY <1>1, <1>2, FinishedAccounts, GoneProgress DEF IInv, Progress

LEMMA StopInv == ASSUME IInv, StepFails \/ Crash PROVE IInv'
<1>1. Decides /\ op' = Nothing
  BY StopView DEF IInv, Types
<1> QED
  BY <1>1, StepTypes, SameLedger, DecidesAccounts, GoneProgress DEF IInv, Decides, Quiet

(* What others do. *)

LEMMA WaitingInv ==
    ASSUME IInv, UNCHANGED <<files, last, pending, op, serial, edits, kept, origin, touched>>,
           waiting' \in [Invokers -> Asked \union {Nothing}],
           \A p \in Invokers : waiting'[p] # Nothing =>
              /\ Distinct(waiting'[p].plan)
              /\ \A t \in Targets : waiting'[p].seen[t] \in Written \union {Nothing}
    PROVE  IInv'
<1>1. Disk' = Disk /\ Written' = Written /\ Asked' = Asked
  BY DEF Disk, Written, Asked
<1>2. Types'
  BY <1>1 DEF IInv, Types, FileTypes, RecordTypes, HistoryTypes, FilesTyped
<1>3. Ledger'
  BY SameLedger DEF IInv
<1>4. Rescued' /\ HaveBackups' /\ Named'
  BY <1>1 DEF IInv, Accounts, Rescued, HaveBackups, BackedUp, Named, Names
<1>5. Spares' /\ Traces'
  BY <1>1 DEF IInv, Accounts, Spares, Spare, Traces, InFlight, Journaled
<1>6. Starts' /\ Verifying'
  BY <1>1 DEF IInv, Progress, Starts, Verifying, InFlight, Journaled, Target, Kind
<1>7. Moves' /\ Replacements'
  BY <1>1 DEF IInv, Progress, Moves, Replacements, Target, Kind, Change
<1>8. Undos' /\ Knows'
  BY <1>1 DEF IInv, Progress, Undos, Spare, Undoing, Knows
<1> QED
  BY <1>2, <1>3, <1>4, <1>5, <1>6, <1>7, <1>8 DEF IInv, Accounts, Progress

LEMMA AskInv ==
    ASSUME IInv, NEW p \in Invokers, AskRepair(p) \/ AskUndo(p)
    PROVE  IInv'
<1>1. PICK kind \in {"repair", "undo"}, plan \in Seq(Actions) : Distinct(plan) /\ Ask(p, kind, plan)
  <2>1. CASE AskRepair(p)
    BY <2>1, PlansAssumption DEF AskRepair, Distinct, Actions
  <2>2. CASE AskUndo(p)
    <3>1. <<>> \in Seq(Actions) /\ Distinct(<<>>)
      BY EmptySeq DEF Distinct
    <3> QED
      BY <2>2, <3>1 DEF AskUndo
  <2> QED
    BY <2>1, <2>2
<1>2. Present \in [Targets -> Written \union {Nothing}]
  <2>1. \A t \in Targets : t \in Paths /\ At(t) = Disk[t] /\ Disk[t] \in Written \union {Nothing}
    BY AtDisk, DiskType DEF IInv, Types, FileTypes, Paths
  <2> QED
    BY <2>1 DEF Present
<1> DEFINE asked == [kind |-> kind, plan |-> plan, seen |-> Present, last |-> last, pending |-> pending]
<1>3. asked \in Asked /\ asked.plan = plan /\ asked.seen = Present
  <2>1. Present \in [Targets -> Contents \union {Nothing}]
    BY <1>2, NoText
  <2>2. last \in Transactions \union {Nothing} /\ pending \in Journals \union {Nothing}
    BY DEF IInv, Types, RecordTypes
  <2> QED
    BY <2>1, <2>2 DEF Asked
<1>4. /\ waiting' = [waiting EXCEPT ![p] = asked]
      /\ UNCHANGED <<files, last, pending, op, serial, edits, kept, origin, touched>>
  BY <1>1 DEF Ask, bounds, ghosts
<1> HIDE DEF asked
<1>5. /\ waiting \in [Invokers -> Asked \union {Nothing}]
      /\ \A q \in Invokers : waiting[q] # Nothing =>
           /\ Distinct(waiting[q].plan)
           /\ \A t \in Targets : waiting[q].seen[t] \in Written \union {Nothing}
  BY DEF IInv, Types, RecordTypes
<1>6. \A q \in Invokers : waiting'[q] = IF q = p THEN asked ELSE waiting[q]
  BY <1>4, <1>5
<1>7. waiting' \in [Invokers -> Asked \union {Nothing}]
  BY <1>3, <1>4, <1>5
<1>8. \A q \in Invokers : waiting'[q] # Nothing =>
         /\ Distinct(waiting'[q].plan)
         /\ \A t \in Targets : waiting'[q].seen[t] \in Written \union {Nothing}
  <2>1. Distinct(asked.plan) /\ \A t \in Targets : asked.seen[t] \in Written \union {Nothing}
    BY <1>1, <1>2, <1>3
  <2> QED
    BY <1>5, <1>6, <2>1
<1> QED
  BY <1>4, <1>7, <1>8, WaitingInv

LEMMA RefusedInv ==
    ASSUME IInv, NEW p \in Invokers, Refused(p)
    PROVE  IInv'
<1>1. /\ waiting' = [waiting EXCEPT ![p] = Nothing]
      /\ UNCHANGED <<files, last, pending, op, serial, edits, kept, origin, touched>>
  BY DEF Refused, Stop, bounds, ghosts
<1>2. /\ waiting \in [Invokers -> Asked \union {Nothing}]
      /\ \A q \in Invokers : waiting[q] # Nothing =>
           /\ Distinct(waiting[q].plan)
           /\ \A t \in Targets : waiting[q].seen[t] \in Written \union {Nothing}
  BY DEF IInv, Types, RecordTypes
<1> QED
  BY <1>1, <1>2, WaitingInv

LEMMA EditInv ==
    ASSUME IInv, NEW t \in Targets, Edit(t)
    PROVE  IInv'
<1>1. /\ UNCHANGED <<last, pending, waiting, op, serial, origin>>
      /\ FilesTyped' /\ edits' \in Nat /\ kept' \subseteq Contents
      /\ Written \subseteq Written'
      /\ Len(touched') = serial /\ touched' \in Seq(SUBSET Targets)
      /\ \A n \in 1 .. serial : touched'[n] = touched[n] \union {t}
  BY EditView DEF IInv
<1>2. FileTypes'
  BY <1>1 DEF IInv, Types, FileTypes
<1>3. RecordTypes'
  BY <1>1 DEF IInv, Types, RecordTypes, Asked
<1>4. HistoryTypes'
  BY <1>1 DEF IInv, Types, HistoryTypes, FileTypes
<1> QED
  BY <1>2, <1>3, <1>4, EditedAccounts, EditedProgress DEF IInv, Types

-----------------------------------------------------------------------------
(* What the invariant says of every run. *)

LEMMA InitInv == Init => IInv
<1> SUFFICES ASSUME Init PROVE IInv
  OBVIOUS
<1>1. /\ last = Nothing /\ pending = Nothing /\ op = Nothing
      /\ waiting = [p \in Invokers |-> Nothing] /\ serial = 0 /\ edits = 0
      /\ origin = <<>> /\ touched = <<>> /\ kept = {files[t] : t \in DOMAIN files}
  BY DEF Init
<1>2. PICK there \in SUBSET Targets : files = [t \in there |-> <<t, 0>>]
  BY DEF Init
<1>3. FilesTyped /\ kept \subseteq Contents
  BY <1>1, <1>2, NoText DEF FilesTyped, Paths, Written
<1>4. Types
  BY <1>1, <1>3, EmptySeq DEF Types, FileTypes, RecordTypes, HistoryTypes
<1>5. Ledger /\ Progress
  BY <1>1 DEF Ledger, Progress, Starts, Verifying, Moves, Replacements, Undos, Knows
<1>6. Rescued
  <2> SUFFICES ASSUME NEW k \in kept PROVE \E p \in Paths : Disk[p] = k
    BY DEF Rescued
  <2>1. PICK t \in there : k = files[t] /\ t \in DOMAIN files /\ t \in Paths
    BY <1>1, <1>2 DEF Paths
  <2> QED
    BY <2>1 DEF Disk
<1>7. Named
  <2> SUFFICES ASSUME NEW t \in Targets, NEW n \in Nat PROVE Disk[Previous(t, n)] = Nothing
    BY DEF Named
  <2>1. Previous(t, n) \in Paths \ Targets
    BY PathsDiffer
  <2> QED
    BY <1>2, <2>1 DEF Disk
<1>8. HaveBackups /\ Spares /\ Traces
  BY <1>1 DEF HaveBackups, Spares, Traces, InFlight
<1> QED
  BY <1>4, <1>5, <1>6, <1>7, <1>8 DEF IInv, Accounts

LEMMA NextInv == IInv /\ [Next]_vars => IInv'
<1> SUFFICES ASSUME IInv, [Next]_vars PROVE IInv'
  OBVIOUS
<1>1. CASE \E p \in Invokers : AskRepair(p) \/ AskUndo(p) \/ Refused(p) \/ Enter(p)
  BY <1>1, AskInv, RefusedInv, EnteredInv DEF IInv
<1>2. CASE Reconcile \/ Promote \/ Settle
  BY <1>2, ReconcileInv, PromoteInv, SettleInv
<1>3. CASE Verify \/ Prepare \/ Rename \/ Check \/ Commit \/ CommitFails \/ Clear \/ Look \/ Create
  BY <1>3, VerifyInv, PrepareInv, RenameInv, CheckInv, CommitInv, CommitFailsInv, ClearInv,
     LookInv, CreateInv
<1>4. CASE Publish \/ Own
  BY <1>4, PublishInv, OwnInv
<1>5. CASE Begin \/ UndoChange \/ Aside \/ Restore \/ RestoreFails \/ Mark \/ Drop \/ Finish
  BY <1>5, BeginInv, UndoChangeInv, AsideInv, RestoreInv, RestoreFailsInv, MarkInv, DropInv, FinishInv
<1>6. CASE StepFails \/ Crash
  BY <1>6, StopInv
<1>7. CASE \E t \in Targets : Edit(t)
  BY <1>7, EditInv
<1>8. CASE UNCHANGED vars
  <2>1. UNCHANGED <<files, last, pending, op, waiting, serial, edits, kept, origin, touched>>
    BY <1>8 DEF vars, bounds, ghosts
  <2> QED
    BY <2>1, WaitingInv DEF IInv, Types, RecordTypes
<1> QED
  BY <1>1, <1>2, <1>3, <1>4, <1>5, <1>6, <1>7, <1>8 DEF Next

\* What is written, recorded and on the disk fits together in every state.
THEOREM Invariance == Spec => []IInv
  BY InitInv, NextInv, PTL DEF Spec

LEMMA KeptIsThere == IInv => NothingLost
<1> SUFFICES ASSUME IInv, NEW k \in kept PROVE k \in {files[p] : p \in DOMAIN files}
  BY DEF NothingLost
<1>1. PICK p \in Paths : Disk[p] = k
  BY DEF IInv, Accounts, Rescued
<1>2. k # Nothing
  BY NamesAssumption DEF IInv, Types, FileTypes
<1> QED
  BY <1>1, <1>2 DEF Disk

\* Repairs and undos, however often steps fail, processes die and others write
\* to the same files, destroy nothing that others wrote and did not themselves
\* replace or remove: every rename and every creation of
\* applyRepairTransaction, its compensation and UndoLastRepair leaves it in
\* some file.
THEOREM NothingIsLost == Spec => []NothingLost
  BY Invariance, KeptIsThere, PTL

LEMMA SoundBackups == IInv => BackupsAreSound
<1> SUFFICES ASSUME IInv PROVE BackupsAreSound
  OBVIOUS
<1>1. /\ last # Nothing => last \in Transactions /\ last.id \in 1 .. serial /\ last.changes # <<>>
      /\ pending # Nothing => pending.tx \in Transactions /\ pending.tx.id \in 1 .. serial
      /\ op # Nothing => op \in Operations
  BY DEF IInv, Types, RecordTypes, Ledger, Journals
<1>2. last # Nothing /\ last.undone => \A c \in Changes(last) : c.undone
  BY DEF IInv, Ledger, Changes
<1>3. last # Nothing /\ pending # Nothing => last.id <= pending.tx.id
  <2> SUFFICES ASSUME last # Nothing, pending # Nothing PROVE last.id <= pending.tx.id
    OBVIOUS
  <2>1. last = pending.tx \/ InFlight
    BY DEF IInv, Ledger, InFlight
  <2>2. last.id \in Nat /\ pending.tx.id \in Nat
    BY <1>1, TransactionFacts
  <2> QED
    BY <2>1, <2>2, InFlightFacts DEF IInv, Types
<1>4. op # Nothing => op.i \in 0 .. Len(op.tx.changes)
  <2> SUFFICES ASSUME op # Nothing PROVE op.i \in 0 .. Len(op.tx.changes)
    OBVIOUS
  <2>1. op.i \in Nat /\ op.at \in Stages /\ Len(op.tx.changes) \in Nat
    BY <1>1, OperationFacts, TransactionFacts
  <2>2. op.i = 0 \/ op.i <= Len(op.tx.changes)
    BY <2>1 DEF IInv, Progress, Starts, Verifying, Moves, Replacements, Undos, Stages
  <2> QED
    BY <2>1, <2>2
<1>5. TypeOK
  BY <1>1, <1>2, <1>3, <1>4 DEF TypeOK
<1>6. BackupsAreNamed
  <2> SUFFICES ASSUME NEW p \in Backups
               PROVE  \/ last # Nothing /\ (last.id > p[3] \/ \E c \in Changes(last) : c.prev = p)
                      \/ pending # Nothing /\ \E c \in Changes(pending.tx) : c.prev = p
    BY DEF BackupsAreNamed
  <2>1. p \in DOMAIN files /\ p \in Aparts /\ p[1] = "previous"
    BY DEF Backups, IInv, Types, FileTypes, FilesTyped, Paths
  <2>2. PICK t \in Targets, n \in Nat : p = Previous(t, n) /\ p[3] = n
    BY <2>1 DEF Aparts, Previous
  <2>3. Disk[Previous(t, n)] # Nothing
    <3>1. p \in Paths /\ files[p] \in Written
      BY <2>1 DEF IInv, Types, FileTypes, FilesTyped
    <3> QED
      BY <2>1, <2>2, <3>1, NoText DEF Disk
  <2>4. \/ last # Nothing /\ (last.id > n \/ Names(last, p))
        \/ pending # Nothing /\ Names(pending.tx, p)
    BY <2>2, <2>3 DEF IInv, Accounts, Named
  <2> QED
    BY <2>2, <2>4 DEF Names, Changes
<1>7. BackupsAreKept
  <2> SUFFICES ASSUME last # Nothing, NEW i \in 1 .. Len(last.changes)
               PROVE  LET c == last.changes[i]
                      IN c.create \/ c.undone \/ (At(c.prev) # Nothing /\ At(c.prev) = c.state)
    BY LastFacts DEF BackupsAreKept, BackupsMatch, IInv, Types
  <2>1. BackedUp(last.changes[i])
    BY LastFacts DEF IInv, Types, Accounts, HaveBackups
  <2>2. ~last.changes[i].create => last.changes[i].prev \in Paths
    BY LastFacts, PathsDiffer DEF IInv, Types
  <2> QED
    BY <2>1, <2>2, AtDisk DEF BackedUp
<1> QED
  BY <1>5, <1>6, <1>7 DEF BackupsAreSound

\* A backup is named by the journal or the undo state until a later repair is
\* recorded, and the backup of a change that is not recorded as undone is
\* there as it was taken, so that UndoLastRepair's verifyUndoRepairBackups
\* never refuses for what repairs and undos themselves did.
THEOREM BackupsStaySound == Spec => []BackupsAreSound
  BY Invariance, SoundBackups, PTL

LEMMA SettledJournal == IInv => JournalSettles
<1> SUFFICES ASSUME IInv, pending # Nothing,
                    Journaled.target \notin touched[pending.tx.id], last # pending.tx
             PROVE  last = pending.bound /\ Resolvable(Journaled)
  BY DEF JournalSettles, Journaled
<1>1. InFlight
  BY DEF IInv, Ledger, InFlight
<1>2. CASE Journaled.create
  BY <1>1, <1>2 DEF InFlight, Resolvable
<1>3. CASE ~Journaled.create
  <2>1. Journaled.target \in Paths /\ Journaled.prev \in Paths
    BY <1>3, JournalPaths DEF IInv, Types
  <2>2. At(Journaled.target) = Disk[Journaled.target] /\ At(Journaled.prev) = Disk[Journaled.prev]
    BY <2>1, AtDisk
  <2>3. /\ Journaled.state # Nothing
        /\ \/ Disk[Journaled.target] = Journaled.state /\ Disk[Journaled.prev] = Nothing
           \/ Disk[Journaled.target] = Nothing /\ Disk[Journaled.prev] = Journaled.state
    BY <1>1, <1>3 DEF IInv, Accounts, Traces
  <2> QED
    BY <1>1, <1>3, <2>2, <2>3 DEF InFlight, Resolvable, NotYet, Applied
<1> QED
  BY <1>2, <1>3

\* A journal left by an operation that failed or died can always be
\* reconciled, so later repairs and undos go on, unless others wrote the file
\* in question: reconcilePreparedRepairTransaction can tell whether the move
\* it announces was made.
THEOREM JournalsSettle == Spec => []JournalSettles
  BY Invariance, SettledJournal, PTL

-----------------------------------------------------------------------------
(* What an undo returns.  The changes of a transaction name what was there *)
(* before it began, Origins, because a repair leaves the targets it has    *)
(* not come to as they were, Rest.  A change recorded as undone has its    *)
(* target back, Returned; a file that a repair created is there or gone,   *)
(* CreatedStands, and an undo finds no file where it sets one aside,       *)
(* RedoFresh, so that what it takes away is what it put.                   *)

Before(c) == IF c.create THEN Nothing ELSE c.state
Remembers(tx) ==
    \A i \in DOMAIN tx.changes :
        LET c == tx.changes[i]
        IN c.target \notin touched[tx.id] => origin[tx.id][c.target] = Before(c)
Origins ==
    /\ last # Nothing => Remembers(last)
    /\ pending # Nothing => Remembers(pending.tx)

Early == {"reconcile", "promote", "settle", "verify", "prepare"}
StillAs(plan) ==
    \A i \in DOMAIN plan :
        LET t == plan[i].target
        IN t \notin touched[op.n] => Disk[t] = origin[op.n][t]
Rest ==
    op # Nothing /\ op.kind = "repair" =>
        IF op.at \in Early THEN StillAs(op.plan) ELSE StillAs(Tail(op.plan))

\* Unless a later repair is moving it: then the journal has it.
IsBack(c) ==
    origin[last.id][c.target] =
        IF InFlight /\ Journaled.target = c.target THEN Before(Journaled) ELSE Disk[c.target]
Returned ==
    last # Nothing =>
        \A i \in DOMAIN last.changes :
            LET c == last.changes[i]
            IN c.undone /\ c.target \notin touched[last.id] => IsBack(c)

Stands(c) ==
    /\ Disk[c.target] \in {Good, Nothing}
    /\ InFlight /\ ~Journaled.create /\ Journaled.target = c.target => Journaled.state = Good
CreatedStands ==
    /\ last # Nothing =>
         \A i \in DOMAIN last.changes :
             LET c == last.changes[i]
             IN c.create /\ ~c.undone /\ c.target \notin touched[last.id] => Stands(c)
    /\ InFlight /\ Journaled.create /\ Journaled.target \notin touched[pending.tx.id] =>
         Disk[Journaled.target] \in {Good, Nothing}

UndoStages == {"undo", "aside", "restore", "mark", "drop", "finish"}
\* Only the undo under way, and only of the changes it has come to.
Passed(t) ==
    \/ \E k \in op.i + 1 .. Len(last.changes) : last.changes[k].target = t
    \/ op.at \in {"restore", "mark", "drop"} /\ Undoing.target = t
RedoFresh ==
    \A t \in Targets, n \in Nat :
        Disk[Redo(t, n)] # Nothing =>
            /\ n <= serial
            /\ op # Nothing /\ n = op.n => op.at \in UndoStages /\ Passed(t)

MarkReturned ==
    op # Nothing /\ op.at = "mark" /\ Undoing.target \notin touched[last.id] =>
        Disk[Undoing.target] = origin[last.id][Undoing.target]

Bearings == Origins /\ Returned /\ CreatedStands
Restores == Bearings /\ Rest /\ RedoFresh /\ MarkReturned

LEMMA TouchedFacts ==
    ASSUME Types
    PROVE  /\ serial \in Nat /\ Targets \subseteq Paths
           /\ \A m, n \in 1 .. serial : m <= n => touched[n] \subseteq touched[m]
  BY DEF Types, FileTypes, HistoryTypes, Paths

LEMMA JournalAge ==
    ASSUME Types, Ledger, InFlight
    PROVE  /\ last # Nothing => touched[pending.tx.id] \subseteq touched[last.id]
           /\ pending # Nothing /\ Journaled \in ChangeRecords /\ Journaled.target \in Targets
           /\ Journaled = pending.tx.changes[Len(pending.tx.changes)]
           /\ Len(pending.tx.changes) \in DOMAIN pending.tx.changes
           /\ pending.tx.id \in 1 .. serial
<1>1. pending # Nothing
  BY DEF InFlight
<1>2. /\ pending.tx.id \in 1 .. serial /\ Journaled \in ChangeRecords /\ pending.tx \in Transactions
      /\ Journaled = pending.tx.changes[Len(pending.tx.changes)] /\ Len(pending.tx.changes) > 0
  BY <1>1, JournalFacts DEF Types
<1>3. Len(pending.tx.changes) \in DOMAIN pending.tx.changes
  BY <1>2, TransactionFacts
<1>4. last # Nothing => last.id <= pending.tx.id /\ last.id \in 1 .. serial
  BY <1>1, <1>2, InFlightFacts, LastFacts DEF Types
<1> QED
  BY <1>1, <1>2, <1>3, <1>4, ChangeFacts, TouchedFacts

LEMMA SameTargets ==
    ASSUME Types, Ledger, Bearings, Quiet, UNCHANGED <<last, pending>>,
           \A t \in Targets : Disk'[t] = Disk[t]
    PROVE  Bearings'
<1>1. Origins'
  BY DEF Bearings, Origins, Remembers, Before, Quiet
<1>2. InFlight' = InFlight /\ Journaled' = Journaled
  BY DEF InFlight, Journaled
<1>3. last # Nothing => \A i \in DOMAIN last.changes : last.changes[i].target \in Targets
  BY LastFacts DEF Types
<1>4. Returned'
  BY <1>2, <1>3 DEF Bearings, Returned, IsBack, Before, Quiet
<1>5. InFlight => Journaled.target \in Targets
  BY JournalAge
<1>6. CreatedStands'
  BY <1>2, <1>3, <1>5 DEF Bearings, CreatedStands, Stands, Quiet
<1> QED
  BY <1>1, <1>4, <1>6 DEF Bearings

\* The target of a change that is not recorded as undone is moved, put or put back.
LEMMA StandingTarget ==
    ASSUME Types, Ledger, Bearings, Quiet, UNCHANGED <<last, pending>>, pending = Nothing, last # Nothing,
           NEW i \in 1 .. Len(last.changes), ~last.changes[i].undone,
           \A t \in Targets : t # last.changes[i].target => Disk'[t] = Disk[t],
           last.changes[i].create =>
              Disk'[last.changes[i].target] \in {Good, Nothing, Disk[last.changes[i].target]}
    PROVE  Bearings'
<1>1. Origins'
  BY DEF Bearings, Origins, Remembers, Before, Quiet
<1>2. ~InFlight /\ ~InFlight'
  BY DEF InFlight
<1>3. /\ \A k \in DOMAIN last.changes : last.changes[k].target \in Targets
      /\ \A k \in DOMAIN last.changes : k # i => last.changes[k].target # last.changes[i].target
  BY LastFacts DEF Types
<1>4. Returned'
  BY <1>2, <1>3 DEF Bearings, Returned, IsBack, Quiet
<1>5. CreatedStands'
  BY <1>2, <1>3 DEF Bearings, CreatedStands, Stands, Quiet
<1> QED
  BY <1>1, <1>4, <1>5 DEF Bearings

\* A repair moves the target of the change in flight, or puts a file there.
LEMMA JournaledTarget ==
    ASSUME Types, Ledger, Bearings, Quiet, UNCHANGED <<last, pending>>, InFlight,
           \A t \in Targets : t # Journaled.target => Disk'[t] = Disk[t],
           Journaled.target \notin touched[pending.tx.id] =>
              Disk'[Journaled.target] \in
                 {Nothing, Disk[Journaled.target], IF Journaled.create THEN Good ELSE Journaled.state}
    PROVE  Bearings'
<1>1. Origins'
  BY DEF Bearings, Origins, Remembers, Before, Quiet
<1>2. InFlight' /\ Journaled' = Journaled
  BY DEF InFlight, Journaled
<1>3. last # Nothing => \A k \in DOMAIN last.changes : last.changes[k].target \in Targets
  BY LastFacts DEF Types
<1>4. /\ pending # Nothing /\ Journaled.target \in Targets
      /\ last # Nothing => touched[pending.tx.id] \subseteq touched[last.id]
  BY JournalAge
<1>5. Returned'
  <2> SUFFICES ASSUME last # Nothing, NEW i \in DOMAIN last.changes, last.changes[i].undone,
                      last.changes[i].target \notin touched[last.id]
               PROVE  IsBack(last.changes[i])'
    BY DEF Returned, Quiet
  <2>1. IsBack(last.changes[i])
    BY DEF Bearings, Returned
  <2>2. CASE Journaled.target # last.changes[i].target
    BY <1>2, <1>3, <2>1, <2>2 DEF IsBack, Quiet
  <2>3. CASE Journaled.target = last.changes[i].target
    BY <1>2, <2>1, <2>3 DEF IsBack, Quiet, Before
  <2> QED
    BY <2>2, <2>3
<1>6. CreatedStands'
  BY <1>2, <1>3, <1>4 DEF Bearings, CreatedStands, Stands, Quiet
<1> QED
  BY <1>1, <1>5, <1>6 DEF Bearings

\* What the journal has is recorded.
LEMMA RecordedBearings ==
    ASSUME Types, Ledger, Bearings, Quiet, UNCHANGED <<Disk, pending>>, InFlight, last' = pending.tx
    PROVE  Bearings'
<1> DEFINE tx == pending.tx
           n == Len(tx.changes)
<1>1. /\ tx \in Transactions /\ Standing(tx) /\ tx # Nothing
      /\ n \in Nat /\ n > 0 /\ DOMAIN tx.changes = 1 .. n /\ Journaled = tx.changes[n]
      /\ pending # Nothing
  BY TransactionFacts, JournalFacts DEF InFlight, Types, Ledger
<1>2. ~InFlight'
  BY InFlightFacts DEF Types, InFlight
<1>3. Origins'
  BY <1>1 DEF Bearings, Origins, Remembers, Before, Quiet
<1>4. Returned'
  BY <1>1 DEF Returned, Standing
<1>5. ASSUME NEW i \in 1 .. n, tx.changes[i].create, tx.changes[i].target \notin touched[tx.id]
      PROVE  Disk[tx.changes[i].target] \in {Good, Nothing}
  <2>1. CASE i = n
    BY <1>1, <1>5, <2>1 DEF Bearings, CreatedStands
  <2>2. CASE i # n
    <3>1. n > 1 /\ i <= n - 1
      BY <1>1, <2>2
    <3>2. last # Nothing /\ last.id = tx.id /\ n > 1
      BY <3>1, InFlightFacts DEF Types
    <3>3. /\ tx.id \in Nat /\ Standing(last) /\ n = Len(last.changes) + 1
          /\ \A k \in 1 .. Len(last.changes) : tx.changes[k] = last.changes[k]
      BY <1>1, <3>2, InFlightFacts, TransactionFacts DEF Types
    <3>4. Len(last.changes) \in Nat /\ DOMAIN last.changes = 1 .. Len(last.changes)
      BY <3>2, LastFacts DEF Types
    <3>5. i \in DOMAIN last.changes /\ tx.changes[i] = last.changes[i] /\ ~last.changes[i].undone
      BY <3>1, <3>3, <3>4 DEF Standing
    <3> QED
      BY <1>5, <3>2, <3>5 DEF Bearings, CreatedStands, Stands
  <2> QED
    BY <2>1, <2>2
<1>6. CreatedStands'
  BY <1>1, <1>2, <1>5 DEF CreatedStands, Stands, Quiet
<1> QED
  BY <1>3, <1>4, <1>6 DEF Bearings

\* The journal is removed.
LEMMA ForgottenBearings ==
    ASSUME Types, Ledger, Bearings, Quiet, UNCHANGED <<Disk, last>>, pending' = Nothing,
           InFlight /\ Journaled.target \notin touched[pending.tx.id] =>
              Disk[Journaled.target] = Before(Journaled)
    PROVE  Bearings'
<1>1. ~InFlight'
  BY DEF InFlight
<1>2. Origins'
  BY DEF Bearings, Origins, Remembers, Before, Quiet
<1>3. InFlight /\ last # Nothing => touched[pending.tx.id] \subseteq touched[last.id]
  BY JournalAge
<1>4. last # Nothing => \A k \in DOMAIN last.changes : last.changes[k].target \in Targets
  BY LastFacts DEF Types
<1>5. Returned'
  BY <1>1, <1>3, <1>4 DEF Bearings, Returned, IsBack, Quiet
<1>6. CreatedStands'
  BY <1>1 DEF Bearings, CreatedStands, Stands, Quiet
<1> QED
  BY <1>2, <1>5, <1>6 DEF Bearings

\* A repair announces a change to a target it has left as it was.
LEMMA PreparedBearings ==
    ASSUME Types, Ledger, Progress, Bearings, Rest, Prepare
    PROVE  Bearings'
<1>1. /\ op \in Operations /\ op # Nothing /\ op.at = "prepare" /\ Quiet /\ UNCHANGED <<Disk, last>>
      /\ pending = Nothing /\ op.plan # <<>> /\ Target \in Targets
  BY PrepareView, OperationFacts DEF Types, Progress
<1>2. PICK c \in ChangeRecords, tx \in Transactions :
         /\ c.target = Target /\ ~c.undone
         /\ IF c.create THEN c.prev = Nothing /\ c.state = Good /\ Disk[Target] = Nothing
            ELSE /\ c.prev = Previous(Target, op.n) /\ c.state = Disk[Target]
                 /\ Kind = "restore" => Disk[Target] # Nothing
         /\ tx.id = op.tx.id /\ tx.undone = op.tx.undone /\ tx.changes = Append(op.tx.changes, c)
         /\ pending' = [tx |-> tx, bound |-> last]
  BY PrepareView DEF Types, Progress
<1>3. /\ op.kind = "repair" /\ op.tx.id = op.n /\ op.tx \in Transactions
      /\ op.tx.changes # <<>> => op.tx = last
      /\ last # Nothing => last.id <= op.n
      /\ Kind # "restore" => Disk[Target] # Nothing \/ Target \in touched[op.n]
      /\ op.n = serial /\ serial > 0
  <2>1. /\ op.kind = "repair" /\ op.tx.id = op.n /\ op.tx \in Transactions
        /\ op.tx.changes # <<>> => op.tx = last
        /\ op.tx.changes = <<>> => Older(last, op.n)
        /\ Kind # "restore" => Disk[Target] # Nothing \/ Target \in touched[op.n]
        /\ op.n = serial /\ serial > 0
    BY <1>1, OperationFacts DEF Progress, Verifying, Knows
  <2>2. op.n \in Nat /\ (last # Nothing => last.id \in Nat)
    BY <1>1, OperationFacts, LastFacts DEF Types
  <2> QED
    BY <2>1, <2>2 DEF Older
<1>4. Target \notin touched[op.n] => Disk[Target] = origin[op.n][Target]
  <2>1. StillAs(op.plan)
    BY <1>1, <1>3 DEF Rest, Early
  <2>2. op.plan \in Seq(Actions)
    BY <1>1, OperationFacts
  <2>3. 1 \in DOMAIN op.plan /\ Target = op.plan[1].target
    BY <1>1, <2>2, PlanFacts DEF Target
  <2> QED
    BY <2>1, <2>3 DEF StillAs
<1>5. /\ DOMAIN tx.changes = 1 .. Len(op.tx.changes) + 1 /\ Len(op.tx.changes) \in Nat
      /\ \A i \in 1 .. Len(op.tx.changes) : tx.changes[i] = op.tx.changes[i]
      /\ tx.changes[Len(op.tx.changes) + 1] = c /\ Last(tx.changes) = c
      /\ DOMAIN op.tx.changes = 1 .. Len(op.tx.changes)
  <2>1. op.tx.changes \in Seq(ChangeRecords) /\ Len(op.tx.changes) \in Nat
        /\ DOMAIN op.tx.changes = 1 .. Len(op.tx.changes)
    BY <1>3, TransactionFacts
  <2>2. /\ Len(tx.changes) = Len(op.tx.changes) + 1
        /\ \A i \in 1 .. Len(op.tx.changes) : tx.changes[i] = op.tx.changes[i]
        /\ tx.changes[Len(op.tx.changes) + 1] = c
    BY <1>2, <2>1, AppendProperties
  <2> QED
    BY <1>2, <2>1, <2>2, TransactionFacts DEF Last
<1>6. /\ pending' # Nothing /\ pending'.tx = tx /\ InFlight' /\ Journaled' = c
  <2>1. last \in Transactions \union {Nothing}
    BY DEF Types, RecordTypes
  <2>2. pending' \in Journals
    BY <1>2, <2>1 DEF Journals
  <2> QED
    BY <1>1, <1>2, <1>5, <2>2, NamesAssumption DEF InFlight, Journaled
<1>7. ~InFlight
  BY <1>1 DEF InFlight
<1>8. last # Nothing => touched[op.n] \subseteq touched[last.id]
  BY <1>3, TouchedFacts, LastFacts DEF Types
<1>9. last # Nothing => \A k \in DOMAIN last.changes : last.changes[k].target \in Targets
  BY LastFacts DEF Types
<1>10. Origins'
  <2>1. op.tx.changes # <<>> => Remembers(op.tx)
    BY <1>3, TransactionFacts DEF Bearings, Origins
  <2>2. \A i \in 1 .. Len(op.tx.changes) : op.tx.changes[i].target \notin touched[op.n] =>
           origin[op.n][op.tx.changes[i].target] = Before(op.tx.changes[i])
    BY <1>3, <1>5, <2>1 DEF Remembers
  <2>3. Target \notin touched[op.n] => origin[op.n][Target] = Before(c)
    BY <1>2, <1>4 DEF Before
  <2>4. Remembers(tx)'
    <3> SUFFICES ASSUME NEW i \in 1 .. Len(op.tx.changes) + 1, tx.changes[i].target \notin touched[op.n]
                 PROVE  origin[op.n][tx.changes[i].target] = Before(tx.changes[i])
      BY <1>1, <1>2, <1>3, <1>5 DEF Remembers, Quiet, Before
    <3>1. CASE i = Len(op.tx.changes) + 1
      BY <1>2, <1>5, <2>3, <3>1
    <3>2. CASE i # Len(op.tx.changes) + 1
      BY <1>5, <2>2, <3>2, SMTT(60)
    <3> QED
      BY <3>1, <3>2
  <2>5. Remembers(pending.tx)'
    BY <1>6, <2>4 DEF Remembers, Before
  <2>6. (last # Nothing => Remembers(last))'
    BY <1>1 DEF Bearings, Origins, Remembers, Quiet, Before
  <2> QED
    BY <2>5, <2>6 DEF Origins
<1>11. Returned'
  <2> SUFFICES ASSUME last # Nothing, NEW i \in DOMAIN last.changes, last.changes[i].undone,
                      last.changes[i].target \notin touched[last.id]
               PROVE  IsBack(last.changes[i])'
    BY <1>1 DEF Returned, Quiet
  <2>1. origin[last.id][last.changes[i].target] = Disk[last.changes[i].target]
    BY <1>7 DEF Bearings, Returned, IsBack
  <2>2. Before(c) = Disk[Target]
    BY <1>2 DEF Before
  <2> QED
    BY <1>1, <1>2, <1>6, <2>1, <2>2 DEF IsBack, Before, Quiet
<1>12. CreatedStands'
  <2>1. InFlight' /\ (Journaled.create => Disk[Journaled.target] = Nothing)'
    BY <1>1, <1>2, <1>6
  <2>2. ASSUME last # Nothing, NEW i \in DOMAIN last.changes, last.changes[i].create,
               ~last.changes[i].undone, last.changes[i].target \notin touched[last.id]
        PROVE  Stands(last.changes[i])'
    <3>1. Disk[last.changes[i].target] \in {Good, Nothing}
      BY <2>2 DEF Bearings, CreatedStands, Stands
    <3>2. ASSUME ~c.create, c.target = last.changes[i].target PROVE c.state = Good
      <4>1. Disk[Target] # Nothing
        BY <1>2, <1>3, <1>8, <2>2, <3>2
      <4> QED
        BY <1>2, <3>1, <3>2, <4>1
    <3> QED
      BY <1>1, <1>6, <3>1, <3>2 DEF Stands
  <2> QED
    BY <1>1, <2>1, <2>2 DEF CreatedStands, Quiet
<1> QED
  BY <1>10, <1>11, <1>12 DEF Bearings

\* A change is recorded as undone when its target is back.
LEMMA MarkedBearings ==
    ASSUME Types, Ledger, Progress, Bearings, MarkReturned, Mark
    PROVE  Bearings'
<1>1. /\ op \in Operations /\ op # Nothing /\ op.at = "mark" /\ Quiet /\ UNCHANGED <<Disk, pending>>
      /\ last # Nothing /\ last' \in Transactions /\ last'.id = last.id
      /\ Len(last'.changes) = Len(last.changes)
      /\ \A k \in 1 .. Len(last.changes) : k # op.i => last'.changes[k] = last.changes[k]
      /\ last'.changes[op.i].target = Undoing.target /\ last'.changes[op.i].state = Undoing.state
      /\ last'.changes[op.i].create = Undoing.create /\ last'.changes[op.i].undone
  BY MarkView, OperationFacts DEF Types, Progress
<1>2. op.i > 0 /\ pending = Nothing
  BY <1>1 DEF Progress, Undos
<1>3. op.i \in 1 .. Len(last.changes) /\ Undoing = last.changes[op.i]
  BY <1>1, <1>2, UndoingFacts DEF Types, Progress
<1>4. DOMAIN last'.changes = 1 .. Len(last.changes) /\ DOMAIN last.changes = 1 .. Len(last.changes)
  BY <1>1, TransactionFacts, LastFacts DEF Types
<1>5. ~InFlight /\ ~InFlight'
  BY <1>1, <1>2 DEF InFlight
<1>6. Origins'
  <2> SUFFICES ASSUME NEW i \in 1 .. Len(last.changes), last'.changes[i].target \notin touched[last.id]
               PROVE  origin[last.id][last'.changes[i].target] = Before(last'.changes[i])
    BY <1>1, <1>2, <1>4 DEF Origins, Remembers, Before, Quiet
  <2>1. last.changes[i].target \notin touched[last.id] =>
           origin[last.id][last.changes[i].target] = Before(last.changes[i])
    BY <1>1, <1>4 DEF Bearings, Origins, Remembers
  <2> QED
    BY <1>1, <1>3, <2>1 DEF Before
<1>7. Returned'
  <2> SUFFICES ASSUME NEW i \in 1 .. Len(last.changes), last'.changes[i].undone,
                      last'.changes[i].target \notin touched[last.id]
               PROVE  origin[last.id][last'.changes[i].target] = Disk[last'.changes[i].target]
    BY <1>1, <1>4, <1>5 DEF Returned, IsBack, Quiet
  <2>1. CASE i = op.i
    BY <1>1, <2>1 DEF MarkReturned
  <2>2. CASE i # op.i
    BY <1>1, <1>4, <1>5, <2>2 DEF Bearings, Returned, IsBack
  <2> QED
    BY <2>1, <2>2
<1>8. CreatedStands'
  <2> SUFFICES ASSUME NEW i \in 1 .. Len(last.changes), last'.changes[i].create, ~last'.changes[i].undone,
                      last'.changes[i].target \notin touched[last.id]
               PROVE  Disk[last'.changes[i].target] \in {Good, Nothing}
    BY <1>1, <1>4, <1>5 DEF CreatedStands, Stands, Quiet
  <2>1. i # op.i
    BY <1>1
  <2> QED
    BY <1>1, <1>4, <2>1 DEF Bearings, CreatedStands, Stands
<1> QED
  BY <1>6, <1>7, <1>8 DEF Bearings

LEMMA FinishedBearings ==
    ASSUME Types, Ledger, Progress, Bearings, Finish
    PROVE  Bearings'
<1>1. /\ Quiet /\ UNCHANGED <<Disk, pending>> /\ last # Nothing /\ last' # Nothing
      /\ last'.id = last.id /\ last'.changes = last.changes /\ op \in Operations /\ op.at = "finish"
  BY FinishView, TransactionFacts DEF Types, Progress
<1>2. pending = Nothing
  BY <1>1, OperationFacts DEF Progress, Undos
<1>3. ~InFlight /\ ~InFlight'
  BY <1>1, <1>2 DEF InFlight
<1>4. Origins'
  BY <1>1, <1>2 DEF Bearings, Origins, Remembers, Before, Quiet
<1>5. Returned'
  BY <1>1, <1>3 DEF Bearings, Returned, IsBack, Quiet
<1>6. CreatedStands'
  BY <1>1, <1>3 DEF Bearings, CreatedStands, Stands, Quiet
<1> QED
  BY <1>4, <1>5, <1>6 DEF Bearings

\* Others write a target: nothing is claimed of it any more.
LEMMA EditedRestores ==
    ASSUME Types, Ledger, Progress, Restores, NEW t \in Targets, Edit(t)
    PROVE  Restores'
<1>1. /\ UNCHANGED <<last, pending, op, serial, origin>>
      /\ \A n \in 1 .. serial : touched'[n] = touched[n] \union {t}
      /\ Disk' = [Disk EXCEPT ![t] = Nothing] \/ \E c \in Contents : Disk' = [Disk EXCEPT ![t] = c]
  BY EditView
<1>2. \A p \in Paths : p # t => Disk'[p] = Disk[p]
  BY <1>1 DEF Disk
<1>3. /\ Targets \subseteq Paths
      /\ last # Nothing =>
           /\ last.id \in 1 .. serial
           /\ \A k \in DOMAIN last.changes : last.changes[k].target \in Targets
  BY TouchedFacts, LastFacts DEF Types
<1>4. InFlight => /\ pending # Nothing /\ Journaled.target \in Targets /\ pending.tx.id \in 1 .. serial
                  /\ last # Nothing => touched[pending.tx.id] \subseteq touched[last.id]
  BY JournalAge
<1>5. InFlight' = InFlight /\ Journaled' = Journaled
  BY <1>1 DEF InFlight, Journaled
<1>6. Origins'
  <2>1. last # Nothing => Remembers(last)'
    BY <1>1, <1>3 DEF Restores, Bearings, Origins, Remembers, Before
  <2>2. pending # Nothing => Remembers(pending.tx)'
    <3>1. pending # Nothing => pending.tx.id \in 1 .. serial
      BY DEF Ledger
    <3> QED
      BY <1>1, <3>1 DEF Restores, Bearings, Origins, Remembers, Before
  <2> QED
    BY <1>1, <2>1, <2>2 DEF Origins, Remembers, Before
<1>7. Returned'
  <2> SUFFICES ASSUME last # Nothing, NEW i \in DOMAIN last.changes, last.changes[i].undone,
                      last.changes[i].target \notin touched'[last.id]
               PROVE  IsBack(last.changes[i])'
    BY <1>1 DEF Returned
  <2>1. last.changes[i].target \notin touched[last.id] /\ last.changes[i].target # t
    BY <1>1, <1>3
  <2> QED
    BY <1>1, <1>2, <1>3, <1>5, <2>1 DEF Restores, Bearings, Returned, IsBack, Before
<1>8. CreatedStands'
  <2>1. ASSUME last # Nothing, NEW i \in DOMAIN last.changes, last.changes[i].create,
               ~last.changes[i].undone, last.changes[i].target \notin touched'[last.id]
        PROVE  Stands(last.changes[i])'
    <3>1. last.changes[i].target \notin touched[last.id] /\ last.changes[i].target # t
      BY <1>1, <1>3, <2>1
    <3> QED
      BY <1>1, <1>2, <1>3, <1>5, <2>1, <3>1 DEF Restores, Bearings, CreatedStands, Stands
  <2>2. ASSUME InFlight, Journaled.create, Journaled.target \notin touched'[pending.tx.id]
        PROVE  Disk'[Journaled.target] \in {Good, Nothing}
    <3>1. Journaled.target \notin touched[pending.tx.id] /\ Journaled.target # t
      BY <1>1, <1>4, <2>2
    <3> QED
      BY <1>2, <1>3, <1>4, <2>2, <3>1 DEF Restores, Bearings, CreatedStands
  <2> QED
    BY <1>1, <1>5, <2>1, <2>2 DEF CreatedStands
<1>9. Rest'
  <2> SUFFICES ASSUME op # Nothing, op.kind = "repair" PROVE Rest'
    BY <1>1 DEF Rest
  <2>1. op.n \in 1 .. serial /\ op.plan \in Seq(Actions) /\ op \in Operations
    BY OperationFacts DEF Progress, Knows, Types, RecordTypes, FileTypes
  <2>2. ASSUME NEW plan, StillAs(plan), \A i \in DOMAIN plan : plan[i].target \in Targets
        PROVE  StillAs(plan)'
    BY <1>1, <1>2, <1>3, <2>1, <2>2 DEF StillAs
  <2>3. \A i \in DOMAIN op.plan : op.plan[i].target \in Targets
    BY <2>1, PlanFacts
  <2>4. op.at \notin Early => op.plan # <<>>
    BY <2>1, OperationFacts DEF Progress, Moves, Replacements, Undos, Early, Stages
  <2>5. op.at \notin Early => \A i \in DOMAIN Tail(op.plan) : Tail(op.plan)[i].target \in Targets
    BY <2>1, <2>4, PlanFacts
  <2>6. CASE op.at \in Early
    <3>1. StillAs(op.plan)
      BY <2>6 DEF Restores, Rest
    <3>2. StillAs(op.plan)'
      BY <1>1, <2>2, <2>3, <3>1 DEF StillAs
    <3> QED
      BY <1>1, <2>6, <3>2 DEF Rest
  <2>7. CASE op.at \notin Early
    <3>1. PICK plan : plan = Tail(op.plan)
      OBVIOUS
    <3>2. StillAs(plan)
      BY <2>7, <3>1 DEF Restores, Rest
    <3>3. \A i \in DOMAIN plan : plan[i].target \in Targets
      BY <2>5, <2>7, <3>1
    <3>4. StillAs(plan)'
      BY <2>2, <3>2, <3>3
    <3>5. Tail(op'.plan) = plan
      BY <1>1, <3>1
    <3> QED
      BY <1>1, <2>7, <3>4, <3>5 DEF Rest, StillAs
  <2> QED
    BY <2>6, <2>7
<1>10. RedoFresh'
  <2>1. \A u \in Targets, n \in Nat : Disk'[Redo(u, n)] = Disk[Redo(u, n)]
    BY <1>2, PathsDiffer
  <2> QED
    BY <1>1, <2>1 DEF Restores, RedoFresh, Passed, Undoing
<1>11. MarkReturned'
  <2> SUFFICES ASSUME op # Nothing, op.at = "mark", Undoing.target \notin touched'[last.id]
               PROVE  Disk'[Undoing.target] = origin[last.id][Undoing.target]
    BY <1>1 DEF MarkReturned, Undoing
  <2>1. op.i > 0 /\ op \in Operations
    BY DEF Progress, Undos, Types, RecordTypes
  <2>2. last # Nothing /\ Undoing.target \in Targets
    BY <2>1, UndoingFacts DEF Types, Progress
  <2>3. Undoing.target \notin touched[last.id] /\ Undoing.target # t
    BY <1>1, <1>3, <2>2
  <2> QED
    BY <1>2, <1>3, <2>2, <2>3 DEF Restores, MarkReturned
<1> QED
  BY <1>6, <1>7, <1>8, <1>9, <1>10, <1>11 DEF Restores, Bearings

\* An operation begins, and the targets are remembered as they are.
LEMMA EnteredRestores ==
    ASSUME Types, Ledger, Restores, NEW p \in Invokers, Enter(p)
    PROVE  Restores'
<1>1. op = Nothing
  BY DEF Enter
<1>2. /\ UNCHANGED <<Disk, last, pending>> /\ serial' = serial + 1 /\ serial \in Nat
      /\ op' \in Operations /\ op' # Nothing /\ op'.at = "reconcile" /\ op'.n = serial'
      /\ \A n \in 1 .. serial : origin'[n] = origin[n]
      /\ origin'[serial'] = [t \in Targets |-> Disk[t]]
      /\ \A n \in 1 .. serial : touched'[n] = touched[n]
  BY <1>1, EnterView DEF Types, FileTypes
<1>3. /\ last # Nothing => last.id \in 1 .. serial
      /\ pending # Nothing => pending.tx.id \in 1 .. serial
  BY DEF Ledger
<1>4. InFlight' = InFlight /\ Journaled' = Journaled
  BY <1>2 DEF InFlight, Journaled
<1>5. Origins'
  BY <1>2, <1>3 DEF Restores, Bearings, Origins, Remembers, Before
<1>6. Returned'
  BY <1>2, <1>3, <1>4 DEF Restores, Bearings, Returned, IsBack, Before
<1>7. CreatedStands'
  <2>1. InFlight => pending # Nothing
    BY DEF InFlight
  <2> QED
    BY <1>2, <1>3, <1>4, <2>1 DEF Restores, Bearings, CreatedStands, Stands
<1>8. Rest'
  <2>1. op'.plan \in Seq(Actions)
    BY <1>2, OperationFacts
  <2>2. \A i \in DOMAIN op'.plan : op'.plan[i].target \in Targets
    BY <2>1, PlanFacts
  <2> QED
    BY <1>2, <2>2 DEF Rest, Early, StillAs
<1>9. RedoFresh'
  <2> SUFFICES ASSUME NEW t \in Targets, NEW n \in Nat, Disk[Redo(t, n)] # Nothing
               PROVE  n <= serial' /\ n # op'.n
    BY <1>2 DEF RedoFresh
  <2> QED
    BY <1>2 DEF Restores, RedoFresh
<1>10. MarkReturned'
  BY <1>2 DEF MarkReturned
<1> QED
  BY <1>5, <1>6, <1>7, <1>8, <1>9, <1>10 DEF Restores, Bearings

LEMMA GoneRestores == op' = Nothing => Rest' /\ MarkReturned'
  BY DEF Rest, MarkReturned

\* A repair goes on: to the next target, or with this one, which it may move.
GoesOn ==
    /\ op' \in Operations /\ op'.n = op.n /\ op'.kind = op.kind
    /\ op.kind = "repair" =>
         /\ op'.at \in Early =>
              \/ op.at \in Early /\ op'.plan = op.plan
              \/ op.plan # <<>> /\ op'.plan = Tail(op.plan)
         /\ op'.at \notin Early => op'.plan = op.plan /\ op.plan # <<>>
         /\ \A t \in Targets :
              Disk'[t] = Disk[t] \/ (op.at \notin Early /\ op.plan # <<>> /\ t = Target)

LEMMA RestGoesOn ==
    ASSUME Types, Progress, Rest, Quiet, op \in Operations, GoesOn
    PROVE  Rest'
<1> SUFFICES ASSUME op.kind = "repair" PROVE Rest'
  BY DEF Rest, GoesOn
<1>1. /\ op # Nothing /\ op.plan \in Seq(Actions) /\ Distinct(op.plan) /\ op.n \in 1 .. serial
      /\ op' # Nothing /\ op'.n = op.n
      /\ \A t \in Targets : Disk'[t] = Disk[t] \/ (op.at \notin Early /\ op.plan # <<>> /\ t = Target)
  BY OperationFacts, NamesAssumption DEF Progress, Knows, GoesOn, Types, FileTypes
<1> DEFINE As(t) == t \notin touched[op.n] => Disk[t] = origin[op.n][t]
<1>2. ASSUME op.plan # <<>>, NEW k \in DOMAIN Tail(op.plan)
      PROVE  /\ Tail(op.plan)[k].target \in Targets /\ Tail(op.plan)[k].target # Target
             /\ As(Tail(op.plan)[k].target)
  <2>1. /\ Len(op.plan) \in Nat /\ DOMAIN op.plan = 1 .. Len(op.plan)
        /\ k + 1 \in DOMAIN op.plan /\ Tail(op.plan)[k] = op.plan[k + 1]
        /\ Tail(op.plan)[k].target # Target /\ op.plan[k + 1].target \in Targets
    <3>1. /\ Len(op.plan) \in Nat /\ DOMAIN op.plan = 1 .. Len(op.plan)
          /\ DOMAIN Tail(op.plan) = 1 .. Len(op.plan) - 1
          /\ \A j \in 1 .. Len(op.plan) - 1 : Tail(op.plan)[j] = op.plan[j + 1]
          /\ \A j \in 1 .. Len(op.plan) : op.plan[j].target \in Targets
          /\ Tail(op.plan)[k].target # Head(op.plan).target
      BY <1>1, <1>2, PlanFacts
    <3> QED
      BY <1>2, <3>1 DEF Target
  <2>2. As(Tail(op.plan)[k].target)
    <3>1. CASE op.at \in Early
      BY <1>1, <2>1, <3>1 DEF Rest, StillAs
    <3>2. CASE op.at \notin Early
      BY <1>1, <1>2, <3>2 DEF Rest, StillAs
    <3> QED
      BY <3>1, <3>2
  <2> QED
    BY <2>1, <2>2
<1>3. PICK rest : rest = Tail(op.plan)
  OBVIOUS
<1>4. op.plan # <<>> => StillAs(rest)'
  <2> SUFFICES ASSUME op.plan # <<>>, NEW k \in DOMAIN rest, rest[k].target \notin touched[op.n]
               PROVE  Disk'[rest[k].target] = origin[op.n][rest[k].target]
    BY <1>1 DEF StillAs, Quiet
  <2>1. rest[k].target \in Targets /\ rest[k].target # Target /\ As(rest[k].target)
    BY <1>2, <1>3
  <2> QED
    BY <1>1, <2>1
<1>5. CASE op.at \in Early /\ op'.at \in Early /\ op'.plan = op.plan
  <2>1. \A k \in DOMAIN op.plan : op.plan[k].target \in Targets
    BY <1>1, PlanFacts
  <2>2. StillAs(op.plan)
    BY <1>1, <1>5 DEF Rest
  <2> QED
    BY <1>1, <1>5, <2>1, <2>2 DEF Rest, StillAs, Quiet
<1>6. CASE op.plan # <<>> /\ op'.plan = Tail(op.plan) /\ op'.at \in Early
  <2>1. op'.plan = rest
    BY <1>1, <1>3, <1>6
  <2> QED
    BY <1>1, <1>4, <1>6, <2>1 DEF Rest, StillAs
<1>7. CASE op.plan # <<>> /\ op'.plan = op.plan /\ op'.at \notin Early
  <2>1. Tail(op'.plan) = rest
    BY <1>1, <1>3, <1>7
  <2> QED
    BY <1>1, <1>4, <1>7, <2>1 DEF Rest, StillAs
<1> QED
  BY <1>5, <1>6, <1>7 DEF GoesOn

\* Nothing new is set aside, and the operation has come no less far.
LEMMA RedoStays ==
    ASSUME RedoFresh, UNCHANGED serial,
           \A t \in Targets, n \in Nat : Disk'[Redo(t, n)] # Nothing => Disk[Redo(t, n)] # Nothing,
           \/ op' = Nothing
           \/ op # Nothing /\ op'.n = op.n /\ op.at \notin UndoStages
           \/ /\ op # Nothing /\ op'.n = op.n /\ op'.at \in UndoStages
              /\ \A t \in Targets : Passed(t) => Passed(t)'
    PROVE  RedoFresh'
  BY DEF RedoFresh

LEMMA GoesOnRestores ==
    ASSUME IInv, Restores, Quiet, op \in Operations, op.at \notin UndoStages, Bearings',
           \A t \in Targets, n \in Nat : Disk'[Redo(t, n)] = Disk[Redo(t, n)],
           op' = Nothing \/ (GoesOn /\ op'.at # "mark")
    PROVE  Restores'
<1>1. op # Nothing /\ serial' = serial
  BY OperationFacts DEF Quiet
<1>2. RedoFresh'
  BY <1>1, RedoStays DEF Restores, GoesOn
<1>3. Rest' /\ MarkReturned'
  <2>1. CASE op' = Nothing
    BY <2>1, GoneRestores
  <2>2. CASE GoesOn /\ op'.at # "mark"
    BY <2>2, RestGoesOn DEF MarkReturned, IInv, Restores
  <2> QED
    BY <2>1, <2>2
<1> QED
  BY <1>2, <1>3 DEF Restores

LEMMA ReconcileRestores == ASSUME IInv, Restores, Reconcile PROVE Restores'
<1>1. /\ op \in Operations /\ op.at = "reconcile" /\ Decides
      /\ \/ op' = Nothing
         \/ \E at \in {Begun, "settle", "promote"} : Step(at, op.plan, op.i, op.tx)
  BY ReconcileView DEF IInv, Types
<1>2. Bearings'
  BY <1>1, SameTargets, TouchedFacts DEF IInv, Restores, Decides
<1>3. op' = Nothing \/ (GoesOn /\ op'.at # "mark")
  BY <1>1, TouchedFacts DEF GoesOn, Step, Begun, Early, Decides, IInv
<1> QED
  BY <1>1, <1>2, <1>3, PathsDiffer, GoesOnRestores DEF Decides, UndoStages

LEMMA PromoteRestores == ASSUME IInv, Restores, Promote PROVE Restores'
<1>1. /\ op \in Operations /\ op.at = "promote" /\ Quiet /\ UNCHANGED <<Disk, pending>>
      /\ last' = pending.tx /\ Step("settle", op.plan, op.i, op.tx)
  BY PromoteView DEF IInv, Types
<1>2. InFlight
  BY <1>1, OperationFacts DEF IInv, Progress, Starts
<1>3. Bearings'
  BY <1>1, <1>2, RecordedBearings DEF IInv, Restores
<1>4. GoesOn /\ op'.at # "mark"
  BY <1>1, TouchedFacts DEF GoesOn, Step, Early, IInv
<1> QED
  BY <1>1, <1>3, <1>4, PathsDiffer, GoesOnRestores DEF UndoStages

LEMMA SettleRestores == ASSUME IInv, Restores, Settle PROVE Restores'
<1>1. /\ op \in Operations /\ op.at = "settle" /\ Quiet /\ UNCHANGED <<Disk, last>>
      /\ pending' = Nothing /\ Step(Begun, op.plan, op.i, op.tx)
  BY SettleView DEF IInv, Types
<1>2. InFlight /\ Journaled.target \notin touched[pending.tx.id] =>
         Disk[Journaled.target] = Before(Journaled)
  BY <1>1, OperationFacts DEF IInv, Progress, Starts, Before
<1>3. Bearings'
  BY <1>1, <1>2, ForgottenBearings DEF IInv, Restores
<1>4. GoesOn /\ op'.at # "mark"
  BY <1>1, TouchedFacts DEF GoesOn, Step, Begun, Early, IInv
<1> QED
  BY <1>1, <1>3, <1>4, PathsDiffer, GoesOnRestores DEF UndoStages

LEMMA VerifyRestores == ASSUME IInv, Restores, Verify PROVE Restores'
<1>1. /\ op \in Operations /\ op.at = "verify" /\ Decides
      /\ \/ op' = Nothing
         \/ op.plan # <<>> /\ Step("verify", Tail(op.plan), op.i, op.tx)
         \/ op.plan # <<>> /\ Step("prepare", op.plan, op.i, op.tx)
  BY VerifyView DEF IInv, Types
<1>2. Bearings'
  BY <1>1, SameTargets, TouchedFacts DEF IInv, Restores, Decides
<1>3. op' = Nothing \/ (GoesOn /\ op'.at # "mark")
  BY <1>1, TouchedFacts DEF GoesOn, Step, Early, Decides, IInv
<1> QED
  BY <1>1, <1>2, <1>3, PathsDiffer, GoesOnRestores DEF Decides, UndoStages

LEMMA PrepareRestores == ASSUME IInv, Restores, Prepare PROVE Restores'
<1>1. /\ op \in Operations /\ op.at = "prepare" /\ Quiet /\ UNCHANGED Disk /\ op.plan # <<>>
      /\ \E at \in {"publish", "rename"}, tx \in Transactions : Step(at, op.plan, op.i, tx)
  BY PrepareView DEF IInv, Types, Progress
<1>2. Bearings'
  BY PreparedBearings DEF IInv, Restores
<1>3. GoesOn /\ op'.at # "mark"
  BY <1>1, TouchedFacts DEF GoesOn, Step, Early, IInv
<1> QED
  BY <1>1, <1>2, <1>3, PathsDiffer, GoesOnRestores DEF UndoStages

LEMMA MovesTarget ==
    ASSUME IInv, op \in Operations, op.at \in {"rename", "check", "publish", "own", "commit"}
    PROVE  /\ InFlight /\ Journaled = Change /\ Journaled.target = Target /\ Target \in Targets
           /\ op.plan # <<>> /\ pending.tx.id = op.n
           /\ ~Change.create => Change.prev = Previous(Target, op.n) /\ Change.prev \in Paths \ Targets
<1>1. op # Nothing
  BY OperationFacts
<1> QED
  BY <1>1, MovesInFlight, ChangeIsJournaled DEF IInv, Types, Progress

LEMMA RenameRestores == ASSUME IInv, Restores, Rename PROVE Restores'
<1>1. /\ op \in Operations /\ op.at = "rename" /\ Quiet /\ UNCHANGED <<last, pending>>
      /\ \/ /\ Disk' = Shift(Disk, Target, Change.prev)
            /\ Step("check", op.plan, op.i, op.tx)
         \/ Disk' = Disk /\ op' = Nothing
  BY RenameView DEF IInv, Types, Progress
<1>2. InFlight /\ Journaled = Change /\ Journaled.target = Target /\ Target \in Targets /\ op.plan # <<>>
      /\ Change.prev = Previous(Target, op.n) /\ Change.prev \in Paths \ Targets /\ op.n \in Nat
  BY <1>1, MovesTarget, OperationFacts DEF IInv, Progress, Moves
<1>3. /\ \A t \in Targets : t # Target => Disk'[t] = Disk[t]
      /\ Disk'[Target] \in {Nothing, Disk[Target]}
      /\ \A t \in Targets, n \in Nat : Disk'[Redo(t, n)] = Disk[Redo(t, n)]
  <2>1. CASE Disk' = Disk
    BY <1>2, <2>1
  <2>2. CASE Disk' = Shift(Disk, Target, Change.prev)
    <3>1. Targets \subseteq Paths
      BY DEF Paths
    <3>2. \A t \in Targets : t # Target => Disk'[t] = Disk[t]
      BY <1>2, <2>2, <3>1 DEF Shift
    <3>3. Disk'[Target] = Nothing
      BY <1>2, <2>2, <3>1 DEF Shift
    <3>4. \A t \in Targets, n \in Nat : Disk'[Redo(t, n)] = Disk[Redo(t, n)]
      BY <1>2, <2>2, PathsDiffer DEF Shift
    <3> QED
      BY <3>2, <3>3, <3>4
  <2> QED
    BY <1>1, <2>1, <2>2
<1>4. Bearings'
  BY <1>1, <1>2, <1>3, JournaledTarget DEF IInv, Restores
<1>5. op' = Nothing \/ (GoesOn /\ op'.at # "mark")
  BY <1>1, <1>2, <1>3 DEF GoesOn, Step, Early
<1> QED
  BY <1>1, <1>3, <1>4, <1>5, GoesOnRestores DEF UndoStages

\* The move is taken back.
LEMMA TakenBack ==
    ASSUME IInv, Bearings, op \in Operations, op.at \in {"check", "commit"}, ~Change.create,
           Quiet, UNCHANGED <<last, pending>>, Disk' = Back(Disk, Change.prev, Target)
    PROVE  /\ Bearings'
           /\ \A t \in Targets, n \in Nat : Disk'[Redo(t, n)] = Disk[Redo(t, n)]
<1>1. InFlight /\ Journaled = Change /\ Journaled.target = Target /\ Target \in Targets
      /\ Change.prev = Previous(Target, op.n) /\ Change.prev \in Paths \ Targets /\ op.n \in Nat
  BY MovesTarget, OperationFacts
<1>2. CASE Disk' = Disk
  BY <1>2, SameTargets DEF IInv
<1>3. CASE Disk' # Disk
  <2>1. /\ Disk' = Shift(Disk, Change.prev, Target) /\ Disk[Change.prev] # Nothing
        /\ Disk[Target] = Nothing /\ Targets \subseteq Paths
    BY <1>3 DEF Back, Paths
  <2>2. \A t \in Targets : t # Target => Disk'[t] = Disk[t]
    BY <1>1, <2>1 DEF Shift
  <2>3. Disk'[Target] = Disk[Change.prev]
    BY <1>1, <2>1 DEF Shift
  <2>4. \A t \in Targets, n \in Nat : Disk'[Redo(t, n)] = Disk[Redo(t, n)]
    BY <1>1, <2>1, PathsDiffer DEF Shift
  <2>5. Target \notin touched[pending.tx.id] => Disk[Change.prev] = Change.state
    BY <1>1, <2>1 DEF IInv, Accounts, Traces
  <2> QED
    BY <1>1, <2>2, <2>3, <2>4, <2>5, JournaledTarget DEF IInv
<1> QED
  BY <1>2, <1>3

LEMMA CheckRestores == ASSUME IInv, Restores, Check PROVE Restores'
<1>1. /\ op \in Operations /\ op.at = "check" /\ Quiet /\ UNCHANGED <<last, pending>>
      /\ \/ Disk' = Disk /\ Step("commit", op.plan, op.i, op.tx)
         \/ Disk' = Back(Disk, Change.prev, Target) /\ op' = Nothing
  BY CheckView DEF IInv, Types, Progress
<1>2. ~Change.create /\ op.plan # <<>>
  BY <1>1, OperationFacts DEF IInv, Progress, Moves
<1>3. Bearings' /\ \A t \in Targets, n \in Nat : Disk'[Redo(t, n)] = Disk[Redo(t, n)]
  BY <1>1, <1>2, TakenBack, SameTargets DEF IInv, Restores
<1>4. op' = Nothing \/ (GoesOn /\ op'.at # "mark")
  BY <1>1, <1>2 DEF GoesOn, Step, Early
<1> QED
  BY <1>1, <1>3, <1>4, GoesOnRestores DEF UndoStages

LEMMA CommitRestores == ASSUME IInv, Restores, Commit PROVE Restores'
<1>1. /\ op \in Operations /\ op.at = "commit" /\ Quiet /\ UNCHANGED <<Disk, pending>>
      /\ last' = op.tx /\ Step("clear", op.plan, op.i, op.tx)
  BY CommitView DEF IInv, Types
<1>2. InFlight /\ pending.tx = op.tx /\ op.plan # <<>>
  BY <1>1, MovesInFlight, MovesTarget
<1>3. Bearings'
  BY <1>1, <1>2, RecordedBearings DEF IInv, Restores
<1>4. GoesOn /\ op'.at # "mark"
  BY <1>1, <1>2 DEF GoesOn, Step, Early
<1> QED
  BY <1>1, <1>3, <1>4, GoesOnRestores DEF UndoStages

LEMMA CommitFailsRestores == ASSUME IInv, Restores, CommitFails PROVE Restores'
<1>1. /\ op \in Operations /\ op.at = "commit" /\ Quiet /\ UNCHANGED <<last, pending>>
      /\ Disk' = (IF Change.create THEN Disk ELSE Back(Disk, Change.prev, Target)) /\ op' = Nothing
  BY CommitFailsView DEF IInv, Types, Progress
<1>2. Change.create \in BOOLEAN
  BY <1>1, MovesTarget, JournalAge, ChangeFacts DEF IInv
<1>3. Bearings' /\ \A t \in Targets, n \in Nat : Disk'[Redo(t, n)] = Disk[Redo(t, n)]
  BY <1>1, <1>2, TakenBack, SameTargets DEF IInv, Restores
<1> QED
  BY <1>1, <1>3, GoesOnRestores DEF UndoStages

LEMMA ClearRestores == ASSUME IInv, Restores, Clear PROVE Restores'
<1>1. /\ op \in Operations /\ op.at = "clear" /\ Quiet /\ UNCHANGED <<Disk, last>>
      /\ pending' = Nothing /\ op.plan # <<>>
      /\ \/ Step("verify", Tail(op.plan), op.i, op.tx)
         \/ Step("look", op.plan, op.i, op.tx)
  BY ClearView DEF IInv, Types, Progress
<1>2. ~InFlight
  <2>1. pending # Nothing /\ last = pending.tx
    BY <1>1, OperationFacts DEF IInv, Progress, Moves
  <2> QED
    BY <2>1, InFlightFacts DEF IInv, Types
<1>3. Bearings'
  BY <1>1, <1>2, ForgottenBearings DEF IInv, Restores
<1>4. GoesOn /\ op'.at # "mark"
  BY <1>1 DEF GoesOn, Step, Early
<1> QED
  BY <1>1, <1>3, <1>4, GoesOnRestores DEF UndoStages

LEMMA LookRestores == ASSUME IInv, Restores, Look PROVE Restores'
<1>1. /\ op \in Operations /\ op.at = "look" /\ Decides /\ op.plan # <<>>
      /\ \/ op' = Nothing
         \/ Step("verify", Tail(op.plan), op.i, op.tx)
         \/ Step("create", op.plan, op.i, op.tx)
  BY LookView DEF IInv, Types, Progress
<1>2. Bearings'
  BY <1>1, SameTargets DEF IInv, Restores, Decides
<1>3. op' = Nothing \/ (GoesOn /\ op'.at # "mark")
  BY <1>1 DEF GoesOn, Step, Early, Decides
<1> QED
  BY <1>1, <1>2, <1>3, GoesOnRestores DEF Decides, UndoStages

LEMMA PutTarget ==
    ASSUME NEW t \in Targets, NEW c, Disk' = [Disk EXCEPT ![t] = c]
    PROVE  /\ \A u \in Targets : u # t => Disk'[u] = Disk[u]
           /\ Disk'[t] = c
           /\ \A u \in Targets, n \in Nat : Disk'[Redo(u, n)] = Disk[Redo(u, n)]
<1>1. \A p \in Paths : Disk'[p] = IF p = t THEN c ELSE Disk[p]
  BY DEF Disk
<1>2. Targets \subseteq Paths
  BY DEF Paths
<1> QED
  BY <1>1, <1>2, PathsDiffer

LEMMA CreateRestores == ASSUME IInv, Restores, Create PROVE Restores'
<1>1. /\ op \in Operations /\ op.at = "create" /\ Quiet /\ UNCHANGED <<last, pending>>
      /\ op.plan # <<>> /\ Target \in Targets
      /\ \/ Disk' = [Disk EXCEPT ![Target] = Good] /\ Step("verify", Tail(op.plan), op.i, op.tx)
         \/ Disk' = Disk /\ op' = Nothing
  BY CreateView DEF IInv, Types, Progress
<1>2. /\ pending = Nothing /\ op.tx = last /\ last # Nothing /\ Standing(last)
      /\ last.changes # <<>> /\ Change.target = Target
  BY <1>1, ReplacementsFacts DEF IInv
<1>3. /\ \A t \in Targets : t # Target => Disk'[t] = Disk[t]
      /\ Disk'[Target] \in {Good, Disk[Target]}
      /\ \A t \in Targets, n \in Nat : Disk'[Redo(t, n)] = Disk[Redo(t, n)]
  BY <1>1, PutTarget
<1>4. /\ Len(last.changes) \in 1 .. Len(last.changes) /\ Change = last.changes[Len(last.changes)]
      /\ ~last.changes[Len(last.changes)].undone
  BY <1>2, LastFacts, TransactionFacts DEF IInv, Types, Change, Standing
<1>5. Bearings'
  BY <1>1, <1>2, <1>3, <1>4, StandingTarget DEF IInv, Restores
<1>6. op' = Nothing \/ (GoesOn /\ op'.at # "mark")
  BY <1>1, <1>3 DEF GoesOn, Step, Early
<1> QED
  BY <1>1, <1>3, <1>5, <1>6, GoesOnRestores DEF UndoStages

LEMMA PublishRestores == ASSUME IInv, Restores, Publish PROVE Restores'
<1>1. /\ op \in Operations /\ op.at = "publish" /\ Quiet /\ UNCHANGED last
      /\ \/ /\ Disk' = [Disk EXCEPT ![Target] = Good]
            /\ pending' = pending /\ Step("own", op.plan, op.i, op.tx)
         \/ Disk[Target] # Nothing /\ Disk' = Disk /\ pending' = Nothing /\ op' = Nothing
  BY PublishView DEF IInv, Types, Progress
<1>2. InFlight /\ Journaled = Change /\ Journaled.target = Target /\ Target \in Targets /\ op.plan # <<>>
      /\ Change.create /\ pending.tx.id = op.n /\ (Disk[Target] = Nothing \/ Target \in touched[op.n])
  BY <1>1, MovesTarget, OperationFacts DEF IInv, Progress, Moves
<1>3. /\ \A t \in Targets : t # Target => Disk'[t] = Disk[t]
      /\ Disk'[Target] \in {Good, Disk[Target]}
      /\ \A t \in Targets, n \in Nat : Disk'[Redo(t, n)] = Disk[Redo(t, n)]
  BY <1>1, <1>2, PutTarget
<1>4. ASSUME pending' = pending PROVE Bearings'
  <2>1. Disk'[Journaled.target] \in
           {Nothing, Disk[Journaled.target], IF Journaled.create THEN Good ELSE Journaled.state}
    BY <1>2, <1>3
  <2> QED
    BY <1>1, <1>2, <1>3, <1>4, <2>1, JournaledTarget DEF IInv, Restores
<1>5. ASSUME Disk[Target] # Nothing, Disk' = Disk, pending' = Nothing PROVE Bearings'
  <2>1. InFlight /\ Journaled.target \notin touched[pending.tx.id] =>
           Disk[Journaled.target] = Before(Journaled)
    BY <1>2, <1>5
  <2> QED
    BY <1>1, <1>5, <2>1, ForgottenBearings DEF IInv, Restores
<1>6. op' = Nothing \/ (GoesOn /\ op'.at # "mark")
  BY <1>1, <1>2, <1>3 DEF GoesOn, Step, Early
<1> QED
  BY <1>1, <1>3, <1>4, <1>5, <1>6, GoesOnRestores DEF UndoStages

LEMMA OwnRestores == ASSUME IInv, Restores, Own PROVE Restores'
<1>1. /\ op \in Operations /\ op.at = "own" /\ Decides
      /\ op' = Nothing \/ Step("commit", op.plan, op.i, op.tx)
  BY OwnView DEF IInv, Types, Progress
<1>2. Bearings'
  BY <1>1, SameTargets DEF IInv, Restores, Decides
<1>3. op.plan # <<>>
  BY <1>1, MovesTarget
<1>4. op' = Nothing \/ (GoesOn /\ op'.at # "mark")
  BY <1>1, <1>3, TouchedFacts DEF GoesOn, Step, Early, Decides, IInv
<1> QED
  BY <1>1, <1>2, <1>4, PathsDiffer, GoesOnRestores DEF Decides, UndoStages

LEMMA BeginRestores == ASSUME IInv, Restores, Begin PROVE Restores'
<1>1. /\ op \in Operations /\ op.at = "begin" /\ Decides
      /\ op' = Nothing \/ Step("undo", op.plan, Len(last.changes), last)
  BY BeginView DEF IInv, Types
<1>2. Bearings' /\ op.kind = "undo"
  BY <1>1, SameTargets, OperationFacts DEF IInv, Restores, Decides, Progress, Undos
<1>3. op' = Nothing \/ (GoesOn /\ op'.at # "mark")
  BY <1>1, <1>2 DEF GoesOn, Step
<1> QED
  BY <1>1, <1>2, <1>3, GoesOnRestores DEF Decides, UndoStages

(* An undo. *)

LEMMA UndoGoesOn ==
    ASSUME IInv, Restores, Quiet, op \in Operations, op.at \in UndoStages, Bearings', MarkReturned',
           \A t \in Targets, n \in Nat : Disk'[Redo(t, n)] # Nothing => Disk[Redo(t, n)] # Nothing,
           \/ op' = Nothing
           \/ /\ op' \in Operations /\ op'.n = op.n /\ op'.kind = op.kind /\ op'.at \in UndoStages
              /\ \A t \in Targets : Passed(t) => Passed(t)'
    PROVE  Restores'
<1>1. op # Nothing /\ serial' = serial /\ op.kind = "undo"
  BY OperationFacts DEF Quiet, IInv, Progress, Undos, UndoStages
<1>2. RedoFresh'
  BY <1>1, RedoStays DEF Restores
<1>3. Rest'
  BY <1>1 DEF Rest
<1> QED
  BY <1>2, <1>3 DEF Restores

\* The change that an undo has come to.
LEMMA UndoingTarget ==
    ASSUME IInv, op \in Operations, op.at \in {"undo", "aside", "restore", "mark", "drop"}, op.i > 0
    PROVE  /\ last # Nothing /\ pending = Nothing /\ ~InFlight /\ op.tx = last /\ op.n \in Nat
           /\ op.kind = "undo"
           /\ Len(last.changes) \in Nat /\ DOMAIN last.changes = 1 .. Len(last.changes)
           /\ op.i \in 1 .. Len(last.changes) /\ Undoing = last.changes[op.i]
           /\ Undoing \in ChangeRecords /\ Undoing.target \in Targets /\ Undoing.target \in Paths
           /\ \A k \in op.i + 1 .. Len(last.changes) : last.changes[k].target # Undoing.target
           /\ ~Undoing.create => \E n \in Nat : Undoing.prev = Previous(Undoing.target, n)
<1>1. op # Nothing
  BY OperationFacts
<1>2. /\ last # Nothing /\ pending = Nothing /\ op.tx = last /\ op.n \in Nat
      /\ op.i \in 1 .. Len(last.changes) /\ Undoing = last.changes[op.i]
      /\ Undoing \in ChangeRecords /\ Undoing.target \in Targets /\ Undoing.target \in Paths
      /\ ~Undoing.create => Undoing.prev = Previous(Undoing.target, last.id)
  BY <1>1, UndoingFacts DEF IInv, Types, Progress
<1>3. op.kind = "undo"
  BY <1>1 DEF IInv, Progress, Undos
<1> QED
  BY <1>2, <1>3, LastFacts DEF IInv, Types, InFlight

\* Dropping a backup moves no target and sets nothing aside.
LEMMA DroppedDisk ==
    ASSUME NEW t \in Targets, NEW n \in Nat, Disk' = [Disk EXCEPT ![Previous(t, n)] = Nothing]
    PROVE  /\ \A u \in Targets : Disk'[u] = Disk[u]
           /\ \A u \in Targets, m \in Nat : Disk'[Redo(u, m)] = Disk[Redo(u, m)]
<1>1. \A p \in Paths : p # Previous(t, n) => Disk'[p] = Disk[p]
  BY DEF Disk
<1>2. Targets \subseteq Paths
  BY DEF Paths
<1> QED
  BY <1>1, <1>2, PathsDiffer

LEMMA UndoChangeRestores == ASSUME IInv, Restores, UndoChange PROVE Restores'
<1>1. /\ op \in Operations /\ op.at = "undo" /\ Quiet /\ UNCHANGED <<last, pending>>
      /\ \/ op.i = 0 /\ Disk' = Disk /\ Step("finish", op.plan, op.i, op.tx)
         \/ /\ op.i > 0 /\ Undoing.undone
            /\ Disk' = (IF Undoing.create THEN Disk ELSE [Disk EXCEPT ![Undoing.prev] = Nothing])
            /\ Step("undo", op.plan, op.i - 1, op.tx)
         \/ /\ op.i > 0 /\ ~Undoing.undone /\ Disk' = Disk
            /\ Undoing.create /\ Disk[Undoing.target] # Good
            /\ Step("mark", op.plan, op.i, op.tx)
         \/ /\ op.i > 0 /\ ~Undoing.undone /\ Disk' = Disk
            /\ Step("aside", op.plan, op.i, op.tx)
  BY UndoChangeView DEF IInv, Types, Progress
<1>2. /\ \A t \in Targets : Disk'[t] = Disk[t]
      /\ \A t \in Targets, n \in Nat : Disk'[Redo(t, n)] = Disk[Redo(t, n)]
  <2>1. CASE Disk' = Disk
    BY <2>1
  <2>2. CASE op.i > 0 /\ ~Undoing.create /\ Disk' = [Disk EXCEPT ![Undoing.prev] = Nothing]
    BY <1>1, <2>2, UndoingTarget, DroppedDisk
  <2> QED
    BY <1>1, <2>1, <2>2
<1>3. Bearings'
  BY <1>1, <1>2, SameTargets DEF IInv, Restores
<1>4. MarkReturned'
  <2>1. CASE op'.at # "mark"
    BY <2>1 DEF MarkReturned
  <2>2. CASE op'.at = "mark"
    <3>1. /\ op.i > 0 /\ ~Undoing.undone /\ Undoing.create /\ Disk[Undoing.target] # Good
          /\ Disk' = Disk /\ Step("mark", op.plan, op.i, op.tx)
      BY <1>1, <2>2 DEF Step
    <3>2. /\ last # Nothing /\ op.i \in DOMAIN last.changes /\ Undoing = last.changes[op.i]
      BY <1>1, <3>1, UndoingTarget
    <3>3. Undoing.target \notin touched[last.id] =>
            /\ Disk[Undoing.target] = Nothing
            /\ origin[last.id][Undoing.target] = Nothing
      BY <3>1, <3>2 DEF Restores, Bearings, CreatedStands, Stands, Origins, Remembers, Before
    <3>4. Undoing' = Undoing
      BY <3>1 DEF Step, Undoing
    <3> QED
      BY <1>1, <3>1, <3>3, <3>4 DEF MarkReturned, Quiet
  <2> QED
    BY <2>1, <2>2
<1>5. /\ op' \in Operations /\ op'.n = op.n /\ op'.kind = op.kind /\ op'.at \in UndoStages
      /\ op'.i \in {op.i, op.i - 1} /\ op.i \in Nat /\ op'.i \in Nat
  BY <1>1, OperationFacts DEF Step, UndoStages
<1>6. last # Nothing => Len(last.changes) \in Nat
  BY LastFacts DEF IInv, Types
<1>7. last # Nothing
  BY <1>1, UndosFacts DEF IInv
<1>8. \A t \in Targets : Passed(t) => Passed(t)'
  BY <1>1, <1>5, <1>6, <1>7 DEF Passed
<1> QED
  BY <1>1, <1>2, <1>3, <1>4, <1>5, <1>8, UndoGoesOn DEF UndoStages

LEMMA DropRestores == ASSUME IInv, Restores, Drop PROVE Restores'
<1>1. /\ op \in Operations /\ op.at = "drop" /\ Quiet /\ UNCHANGED <<last, pending>>
      /\ op.i > 0 /\ ~Undoing.create
      /\ Disk' = [Disk EXCEPT ![Undoing.prev] = Nothing]
      /\ Step("undo", op.plan, op.i - 1, op.tx)
  BY DropView DEF IInv, Types, Progress
<1>2. /\ last # Nothing /\ op.i \in 1 .. Len(last.changes) /\ Len(last.changes) \in Nat
      /\ Undoing = last.changes[op.i]
      /\ \E n \in Nat : Undoing.prev = Previous(Undoing.target, n)
      /\ Undoing.target \in Targets
  BY <1>1, UndoingTarget
<1>3. /\ \A t \in Targets : Disk'[t] = Disk[t]
      /\ \A t \in Targets, n \in Nat : Disk'[Redo(t, n)] = Disk[Redo(t, n)]
  BY <1>1, <1>2, DroppedDisk
<1>4. Bearings'
  BY <1>1, <1>3, SameTargets DEF IInv, Restores
<1>5. MarkReturned'
  BY <1>1 DEF MarkReturned, Step
<1>6. /\ op' \in Operations /\ op'.n = op.n /\ op'.kind = op.kind /\ op'.at = "undo"
      /\ op'.i = op.i - 1
  BY <1>1 DEF Step
<1>7. \A t \in Targets : Passed(t) => Passed(t)'
  <2> SUFFICES ASSUME NEW t \in Targets, Passed(t)
               PROVE  \E k \in op.i .. Len(last.changes) : last.changes[k].target = t
    BY <1>1, <1>2, <1>6 DEF Passed
  <2> QED
    BY <1>2 DEF Passed
<1> QED
  BY <1>1, <1>3, <1>4, <1>5, <1>6, <1>7, UndoGoesOn DEF UndoStages

LEMMA FinishRestores == ASSUME IInv, Restores, Finish PROVE Restores'
<1>1. /\ op \in Operations /\ op.at = "finish" /\ Quiet /\ UNCHANGED <<Disk, pending>> /\ op' = Nothing
  BY FinishView DEF IInv, Types, Progress
<1>2. Bearings'
  BY FinishedBearings DEF IInv, Restores
<1> QED
  BY <1>1, <1>2, GoneRestores, UndoGoesOn DEF UndoStages

LEMMA MarkRestores == ASSUME IInv, Restores, Mark PROVE Restores'
<1>1. /\ op \in Operations /\ op.at = "mark" /\ Quiet /\ UNCHANGED <<Disk, pending>>
      /\ last # Nothing /\ last' \in Transactions
      /\ Len(last'.changes) = Len(last.changes)
      /\ \A k \in 1 .. Len(last.changes) : k # op.i => last'.changes[k] = last.changes[k]
      /\ last'.changes[op.i].target = Undoing.target
      /\ \/ Step("undo", op.plan, op.i - 1, last')
         \/ Step("drop", op.plan, op.i, last')
  BY MarkView DEF IInv, Types, Progress
<1>2. op.i > 0
  BY <1>1, UndosFacts DEF IInv
<1>3. /\ op.i \in 1 .. Len(last.changes) /\ Len(last.changes) \in Nat /\ Undoing = last.changes[op.i]
  BY <1>1, <1>2, UndoingTarget
<1>4. Bearings'
  BY MarkedBearings DEF IInv, Restores
<1>5. MarkReturned'
  BY <1>1 DEF MarkReturned, Step
<1>6. /\ op' \in Operations /\ op'.n = op.n /\ op'.kind = op.kind /\ op'.at \in {"undo", "drop"}
      /\ op'.tx = last' /\ op'.i = IF op'.at = "undo" THEN op.i - 1 ELSE op.i
  BY <1>1 DEF Step
<1>7. \A t \in Targets : Passed(t) => Passed(t)'
  <2> SUFFICES ASSUME NEW t \in Targets, Passed(t) PROVE Passed(t)'
    OBVIOUS
  <2>1. PICK k \in op.i .. Len(last.changes) : last.changes[k].target = t
    BY <1>3 DEF Passed
  <2>2. k \in 1 .. Len(last.changes) /\ last'.changes[k].target = t
    BY <1>1, <1>3, <2>1
  <2>3. CASE op'.at = "undo"
    <3>1. k \in op'.i + 1 .. Len(last'.changes)
      BY <1>1, <1>3, <1>6, <2>1, <2>3
    <3> QED
      BY <2>2, <3>1 DEF Passed
  <2>4. CASE op'.at = "drop"
    <3>1. Undoing'.target = Undoing.target
      BY <1>1, <1>6, <2>4 DEF Undoing
    <3>2. k = op.i \/ k \in op'.i + 1 .. Len(last'.changes)
      BY <1>1, <1>3, <1>6, <2>1, <2>4
    <3> QED
      BY <1>3, <2>1, <2>2, <2>4, <3>1, <3>2 DEF Passed
  <2> QED
    BY <1>6, <2>3, <2>4
<1> QED
  BY <1>1, <1>4, <1>5, <1>6, <1>7, UndoGoesOn DEF UndoStages

\* A change that is not undone yet has in origin what there was before it.
LEMMA UndoingOrigin ==
    ASSUME IInv, Restores, op \in Operations, op.at \in {"undo", "aside", "restore", "mark", "drop"}, op.i > 0,
           Undoing.target \notin touched[last.id]
    PROVE  origin[last.id][Undoing.target] = Before(Undoing)
  BY UndoingTarget DEF Restores, Bearings, Origins, Remembers

LEMMA AsideRestores == ASSUME IInv, Restores, Aside PROVE Restores'
<1>1. /\ op \in Operations /\ op.at = "aside" /\ Quiet /\ UNCHANGED <<last, pending>>
      /\ Disk' = Back(Disk, Undoing.target, Redo(Undoing.target, op.n))
      /\ Step(IF Undoing.create THEN "mark" ELSE "restore", op.plan, op.i, op.tx)
  BY AsideView DEF IInv, Types, Progress
<1>2. op.i > 0 /\ ~Undoing.undone
  BY <1>1, UndosFacts DEF IInv
<1>3. /\ last # Nothing /\ pending = Nothing /\ op.n \in Nat /\ op.kind = "undo" /\ op.tx = last
      /\ op.i \in 1 .. Len(last.changes) /\ Undoing = last.changes[op.i]
      /\ Undoing.target \in Targets /\ Undoing.target \in Paths
      /\ \A k \in op.i + 1 .. Len(last.changes) : last.changes[k].target # Undoing.target
  BY <1>1, <1>2, UndoingTarget
<1>4. op # Nothing /\ op.n = serial
  BY <1>1, OperationFacts DEF IInv, Progress, Knows
<1>5. /\ op' # Nothing /\ op' \in Operations /\ op'.n = op.n /\ op'.kind = op.kind
      /\ op'.at \in {"mark", "restore"} /\ (op'.at = "mark" => Undoing.create)
      /\ op'.i = op.i /\ op'.tx = op.tx /\ Undoing' = Undoing
  BY <1>1, NamesAssumption DEF Step, Undoing
<1> DEFINE t == Undoing.target
           r == Redo(t, op.n)
<1>6. Disk[r] = Nothing
  <2>1. ~Passed(t)
    BY <1>1, <1>3 DEF Passed
  <2> QED
    BY <1>3, <1>4, <2>1 DEF Restores, RedoFresh
<1>7. /\ r \in Paths \ Targets /\ Targets \subseteq Paths
      /\ \A u \in Targets, n \in Nat : Redo(u, n) \in Paths \ Targets /\ (Redo(u, n) = r => u = t /\ n = op.n)
  BY <1>3, PathsDiffer DEF Paths
<1>8. /\ \A u \in Targets : u # t => Disk'[u] = Disk[u]
      /\ Disk'[t] = Nothing
      /\ \A u \in Targets, n \in Nat : Redo(u, n) # r => Disk'[Redo(u, n)] = Disk[Redo(u, n)]
  <2>1. CASE Disk[t] = Nothing
    BY <1>1, <2>1 DEF Back
  <2>2. CASE Disk[t] # Nothing
    BY <1>1, <1>3, <1>6, <1>7, <2>2, SMTT(60) DEF Back, Shift
  <2> QED
    BY <2>1, <2>2
<1>9. Bearings'
  BY <1>1, <1>2, <1>3, <1>8, StandingTarget DEF IInv, Restores
<1>10. Rest'
  BY <1>3, <1>5 DEF Rest
<1>11. RedoFresh'
  <2> SUFFICES ASSUME NEW u \in Targets, NEW n \in Nat, Disk'[Redo(u, n)] # Nothing
               PROVE  n <= serial /\ (n = op.n => Passed(u)')
    BY <1>1, <1>5 DEF RedoFresh, Quiet, UndoStages
  <2>1. CASE Redo(u, n) = r
    BY <1>3, <1>4, <1>5, <1>7, <2>1 DEF Passed
  <2>2. CASE Redo(u, n) # r
    <3>1. n <= serial /\ (n = op.n => Passed(u))
      BY <1>4, <1>8, <2>2 DEF Restores, RedoFresh
    <3> QED
      BY <1>1, <1>5, <3>1 DEF Passed
  <2> QED
    BY <2>1, <2>2
<1>12. MarkReturned'
  <2>1. Undoing.create /\ t \notin touched[last.id] => origin[last.id][t] = Nothing
    BY <1>1, <1>2, UndoingOrigin DEF Before
  <2> QED
    BY <1>1, <1>5, <1>8, <2>1 DEF MarkReturned, Quiet
<1> QED
  BY <1>9, <1>10, <1>11, <1>12 DEF Restores

\* What was set aside is put back.
LEMMA PutBack ==
    ASSUME IInv, Restores, op \in Operations, op.at = "restore", Quiet, UNCHANGED <<last, pending>>,
           Disk' = Back(Disk, Redo(Undoing.target, op.n), Undoing.target), op' = Nothing
    PROVE  Restores'
<1>1. op.i > 0 /\ ~Undoing.undone /\ ~Undoing.create
  BY UndosFacts DEF IInv
<1>2. /\ last # Nothing /\ pending = Nothing /\ op.n \in Nat
      /\ op.i \in 1 .. Len(last.changes) /\ Undoing = last.changes[op.i]
      /\ Undoing.target \in Targets /\ Undoing.target \in Paths
  BY <1>1, UndoingTarget
<1> DEFINE t == Undoing.target
           r == Redo(t, op.n)
<1>3. /\ r \in Paths \ Targets /\ Targets \subseteq Paths
      /\ \A u \in Targets, n \in Nat : Redo(u, n) \in Paths \ Targets
  BY <1>2, PathsDiffer DEF Paths
<1>4. /\ \A u \in Targets : u # t => Disk'[u] = Disk[u]
      /\ \A u \in Targets, n \in Nat : Disk'[Redo(u, n)] # Nothing => Disk[Redo(u, n)] # Nothing
  <2>1. CASE Disk' = Disk
    BY <2>1
  <2>2. CASE Disk' = Shift(Disk, r, t)
    BY <1>2, <1>3, <2>2 DEF Shift
  <2> QED
    BY <2>1, <2>2 DEF Back
<1>5. Bearings'
  BY <1>1, <1>2, <1>4, StandingTarget DEF IInv, Restores
<1> QED
  BY <1>4, <1>5, GoneRestores, UndoGoesOn DEF UndoStages

LEMMA RestoreRestores == ASSUME IInv, Restores, Restore PROVE Restores'
<1>1. /\ op \in Operations /\ op.at = "restore" /\ Quiet /\ UNCHANGED <<last, pending>>
      /\ \/ /\ Disk' = [Disk EXCEPT ![Undoing.target] = Undoing.state]
            /\ Step("mark", op.plan, op.i, op.tx)
         \/ Disk' = Back(Disk, Redo(Undoing.target, op.n), Undoing.target) /\ op' = Nothing
  BY RestoreView DEF IInv, Types, Progress
<1>2. op.i > 0 /\ ~Undoing.undone /\ ~Undoing.create
  BY <1>1, UndosFacts DEF IInv
<1>3. /\ last # Nothing /\ pending = Nothing /\ op.n \in Nat
      /\ op.i \in 1 .. Len(last.changes) /\ Undoing = last.changes[op.i]
      /\ Undoing.target \in Targets
  BY <1>1, <1>2, UndoingTarget
<1>4. CASE Disk' = [Disk EXCEPT ![Undoing.target] = Undoing.state]
           /\ Step("mark", op.plan, op.i, op.tx)
  <2>1. /\ \A u \in Targets : u # Undoing.target => Disk'[u] = Disk[u]
        /\ Disk'[Undoing.target] = Undoing.state
        /\ \A u \in Targets, n \in Nat : Disk'[Redo(u, n)] = Disk[Redo(u, n)]
    BY <1>3, <1>4, PutTarget
  <2>2. Bearings'
    BY <1>1, <1>2, <1>3, <2>1, StandingTarget DEF IInv, Restores
  <2>3. /\ op' \in Operations /\ op'.n = op.n /\ op'.kind = op.kind /\ op'.at = "mark"
        /\ op'.i = op.i /\ op'.tx = op.tx /\ Undoing' = Undoing
    BY <1>4 DEF Step, Undoing
  <2>4. MarkReturned'
    <3>1. Undoing.target \notin touched[last.id] => origin[last.id][Undoing.target] = Undoing.state
      BY <1>1, <1>2, UndoingOrigin DEF Before
    <3> QED
      BY <1>1, <2>1, <2>3, <3>1 DEF MarkReturned, Quiet
  <2>5. \A u \in Targets : Passed(u) => Passed(u)'
    BY <1>1, <2>3 DEF Passed
  <2> QED
    BY <1>1, <2>1, <2>2, <2>3, <2>4, <2>5, UndoGoesOn DEF UndoStages
<1>5. CASE Disk' = Back(Disk, Redo(Undoing.target, op.n), Undoing.target) /\ op' = Nothing
  BY <1>1, <1>5, PutBack
<1> QED
  BY <1>1, <1>4, <1>5

LEMMA RestoreFailsRestores == ASSUME IInv, Restores, RestoreFails PROVE Restores'
  BY RestoreFailsView, PutBack DEF IInv, Types, Progress

LEMMA StopRestores == ASSUME IInv, Restores, StepFails \/ Crash PROVE Restores'
<1>1. Decides /\ op' = Nothing
  BY StopView DEF IInv, Types
<1>2. Bearings'
  BY <1>1, SameTargets, TouchedFacts DEF IInv, Restores, Decides
<1>3. RedoFresh'
  BY <1>1 DEF Restores, RedoFresh, Decides, Quiet
<1> QED
  BY <1>1, <1>2, <1>3, GoneRestores DEF Restores

\* What invokers ask for changes nothing of this.
LEMMA WaitingRestores ==
    ASSUME Restores, UNCHANGED <<files, last, pending, op, serial, origin, touched>>
    PROVE  Restores'
<1>1. Disk' = Disk /\ InFlight' = InFlight /\ Journaled' = Journaled /\ Undoing' = Undoing
  BY DEF Disk, InFlight, Journaled, Undoing
<1>2. Bearings'
  BY <1>1 DEF Restores, Bearings, Origins, Remembers, Before, Returned, IsBack, CreatedStands, Stands
<1>3. Rest'
  BY <1>1 DEF Restores, Rest, StillAs
<1>4. RedoFresh' /\ MarkReturned'
  BY <1>1 DEF Restores, RedoFresh, Passed, MarkReturned
<1> QED
  BY <1>2, <1>3, <1>4 DEF Restores

LEMMA InitRestores == Init => Restores
<1> SUFFICES ASSUME Init PROVE Restores
  OBVIOUS
<1>1. last = Nothing /\ pending = Nothing /\ op = Nothing
  BY DEF Init
<1>2. PICK there \in SUBSET Targets : files = [t \in there |-> <<t, 0>>]
  BY DEF Init
<1>3. \A t \in Targets, n \in Nat : Disk[Redo(t, n)] = Nothing
  <2>1. \A t \in Targets, n \in Nat : Redo(t, n) \in Paths \ Targets
    BY PathsDiffer
  <2> QED
    BY <1>2, <2>1 DEF Disk
<1>4. Bearings
  BY <1>1 DEF Bearings, Origins, Returned, CreatedStands, InFlight
<1> QED
  BY <1>1, <1>3, <1>4 DEF Restores, Rest, RedoFresh, MarkReturned

LEMMA NextRestores == IInv /\ Restores /\ [Next]_vars => Restores'
<1> SUFFICES ASSUME IInv, Restores, [Next]_vars PROVE Restores'
  OBVIOUS
<1>1. CASE \E p \in Invokers : AskRepair(p) \/ AskUndo(p) \/ Refused(p)
  <2>1. UNCHANGED <<files, last, pending, op, serial, origin, touched>>
    BY <1>1 DEF AskRepair, AskUndo, Ask, Refused, Stop, bounds, ghosts
  <2> QED
    BY <2>1, WaitingRestores
<1>2. CASE \E p \in Invokers : Enter(p)
  BY <1>2, EnteredRestores DEF IInv
<1>3. CASE Reconcile \/ Promote \/ Settle
  BY <1>3, ReconcileRestores, PromoteRestores, SettleRestores
<1>4. CASE Verify \/ Prepare \/ Rename \/ Check \/ Commit \/ CommitFails \/ Clear \/ Look \/ Create
  BY <1>4, VerifyRestores, PrepareRestores, RenameRestores, CheckRestores, CommitRestores,
     CommitFailsRestores, ClearRestores, LookRestores, CreateRestores
<1>5. CASE Publish \/ Own
  BY <1>5, PublishRestores, OwnRestores
<1>6. CASE Begin \/ UndoChange \/ Aside \/ Restore \/ RestoreFails \/ Mark \/ Drop \/ Finish
  BY <1>6, BeginRestores, UndoChangeRestores, AsideRestores, RestoreRestores, RestoreFailsRestores,
     MarkRestores, DropRestores, FinishRestores
<1>7. CASE StepFails \/ Crash
  BY <1>7, StopRestores
<1>8. CASE \E t \in Targets : Edit(t)
  BY <1>8, EditedRestores DEF IInv
<1>9. CASE UNCHANGED vars
  BY <1>9, WaitingRestores DEF vars, bounds, ghosts
<1> QED
  BY <1>1, <1>2, <1>3, <1>4, <1>5, <1>6, <1>7, <1>8, <1>9 DEF Next

\* An undo that completes: every change is recorded as undone, so its target is back.
LEMMA CompleteUndo ==
    ASSUME IInv, Restores, Finish
    PROVE  \A c \in Changes(last') :
              c.target \in touched[last.id] \/ At(c.target)' = origin[last.id][c.target]
<1>1. /\ op \in Operations /\ op.at = "finish" /\ Quiet /\ UNCHANGED <<Disk, pending>>
      /\ last # Nothing /\ last'.changes = last.changes
  BY FinishView DEF IInv, Types, Progress
<1>2. /\ pending = Nothing /\ op.i = 0
      /\ \A k \in op.i + 1 .. Len(last.changes) : last.changes[k].undone
  BY <1>1, OperationFacts DEF IInv, Progress, Undos
<1> SUFFICES ASSUME NEW i \in DOMAIN last.changes, last.changes[i].target \notin touched[last.id]
             PROVE  At(last.changes[i].target)' = origin[last.id][last.changes[i].target]
  BY <1>1 DEF Changes
<1>3. last.changes[i].undone /\ last.changes[i].target \in Targets
  BY <1>1, <1>2, LastFacts DEF IInv, Types
<1>4. Disk[last.changes[i].target] = origin[last.id][last.changes[i].target]
  BY <1>1, <1>2, <1>3 DEF Restores, Bearings, Returned, IsBack, InFlight
<1>5. last.changes[i].target \in Paths
  BY <1>3 DEF Paths
<1> QED
  BY <1>1, <1>4, <1>5, AtDisk DEF At, Disk

\* Only the last step of an undo records a transaction as undone.
LEMMA OnlyFinish ==
    ASSUME IInv, [Next]_vars, last # Nothing, last' # Nothing, ~last.undone, last'.undone
    PROVE  Finish
<1>1. last' # last
  OBVIOUS
<1>2. CASE Promote \/ Commit
  <2>1. last' = IF Promote THEN pending.tx ELSE op.tx
    BY <1>2 DEF Promote, Commit
  <2>2. pending # Nothing /\ pending.tx = last'
    BY <1>2 DEF Promote, Commit, Running, IInv, Progress, Starts, Moves, InFlight
  <2> QED
    BY <2>2 DEF IInv, Ledger, Standing
<1>3. CASE Mark
  BY <1>3, MarkView DEF IInv, Types, Progress
<1> QED
  BY <1>1, <1>2, <1>3
  DEF Next, vars, bounds, ghosts, idle, AskRepair, AskUndo, Ask, Refused, Stop, Enter, Reconcile, Settle,
      Verify, Prepare, Rename, Check, CommitFails, Clear, Look, Create, Publish, Own, Begin, UndoChange,
      Aside, Restore, RestoreFails, Drop, StepFails, Crash, Edit

\* An undo that completes has returned every file to what it was before the
\* repair, unless others wrote it in between: however often UndoLastRepair was
\* tried and cut short, and whatever a later repair that failed or died left in
\* its journal.
THEOREM UndosRestore == Spec => UndoRestores
<1>1. Init => IInv /\ Restores
  BY InitInv, InitRestores
<1>2. IInv /\ Restores /\ [Next]_vars => IInv' /\ Restores'
  BY NextInv, NextRestores
<1>3. IInv /\ Restores /\ [Next]_vars =>
        [last # Nothing /\ last' # Nothing /\ ~last.undone /\ last'.undone =>
           \A c \in Changes(last') :
              c.target \in touched[last.id] \/ At(c.target)' = origin[last.id][c.target]]_vars
  BY OnlyFinish, CompleteUndo
<1> QED
  BY <1>1, <1>2, <1>3, PTL DEF Spec, UndoRestores
=============================================================================
