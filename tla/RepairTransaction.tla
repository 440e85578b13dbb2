------------------------- MODULE RepairTransaction --------------------------
(***************************************************************************)
(* The repair of configuration and of derived desktop state, and its undo  *)
(* (internal/repair: transaction.go, config.go, derived.go, snapshot.go    *)
(* and the ApplyRepairPlan of plan.go).                                    *)
(*                                                                         *)
(* A repair moves each damaged file to a backup and may put a good one in  *)
(* its place.  It writes a journal of the move to come, pending, moves the *)
(* file, records the move in the undo state, last, and removes the         *)
(* journal.  A process may fail or die between any two of these; the next  *)
(* repair or undo reconciles the journal first.  Repairs and undos of all  *)
(* processes exclude each other by a lock on the undo state; the user and  *)
(* other programs write the same files and know nothing of the lock.       *)
(*                                                                         *)
(* Operators named Operation_Fault are mutants of Operation.               *)
(***************************************************************************)
EXTENDS Naturals, Sequences, FiniteSets, SequencesExt

CONSTANTS
    Targets,        \* the files that repairs act on
    Invokers,       \* the processes that run repairs and undos
    Plans,          \* the repairs: sequences of targets, each with what is done to it
    Good,           \* the content a repair puts in place
    Nothing,        \* no file, journal, undo state or operation
    MaxOps,         \* bound on repairs and undos
    MaxEdits,       \* bound on writes by others
    MaxFaults,      \* bound on steps that fail
    MaxCrashes

ASSUME PlansAssumption ==
    /\ {MaxOps, MaxEdits, MaxFaults, MaxCrashes} \subseteq Nat
    /\ \A plan \in Plans :
         /\ plan \in Seq([target : Targets, kind : {"quarantine", "repair", "restore"}])
         /\ \A i, k \in DOMAIN plan : i # k => plan[i].target # plan[k].target

\* What is in a file: the text that a repair puts there, or what was written to
\* it by others, told apart by a number.
Contents == {Good} \union (Targets \X Nat)
\* A file that is set aside is named for the target and the operation.
Aparts == {"previous", "redo"} \X Targets \X Nat
Paths == Targets \union Aparts

\* What the journal and the undo state say of a change, and of an operation.
ChangeRecords ==
    [target : Targets, prev : Aparts \union {Nothing}, state : Contents \union {Nothing},
     create : BOOLEAN, undone : BOOLEAN]
Transactions == [id : Nat, changes : Seq(ChangeRecords), undone : BOOLEAN]
Journals == [tx : Transactions, bound : Transactions \union {Nothing}]

Stages == {"reconcile", "promote", "settle",
           "verify", "prepare", "rename", "check", "commit", "clear", "look", "create",
           "publish", "own",
           "begin", "undo", "aside", "restore", "mark", "drop", "finish"}
Operations ==
    [at : Stages, kind : {"repair", "undo"},
     plan : Seq([target : Targets, kind : {"quarantine", "repair", "restore"}]),
     seen : [Targets -> Contents \union {Nothing}], n : Nat, i : Nat, tx : Transactions]

ASSUME NamesAssumption ==
    /\ Targets \cap Aparts = {}
    /\ Good \notin Targets \X Nat
    /\ Nothing \notin Contents \union Paths
    /\ Nothing \notin Transactions /\ Nothing \notin Journals /\ Nothing \notin Operations

VARIABLES
    files,      \* the files there are, targets and those set aside, with their content
    last,       \* last-repair.json: the transaction an undo reverts
    pending,    \* pending-repair.json: the journal of the change under way
    waiting,    \* what each invoker saw before it asked for the lock
    op,         \* the repair or undo that holds the lock
    serial, edits, faults, crashes,
    \* What the properties speak of:
    kept,       \* contents that others wrote and did not replace or remove
    origin,     \* origin[n]: the targets when operation n began
    touched     \* touched[n]: the targets others wrote since then

bounds == <<serial, edits, faults, crashes>>
ghosts == <<kept, origin, touched>>
vars == <<files, last, pending, waiting, op, bounds, ghosts>>

----------------------------------------------------------------------------
(* Files.  No rename and no creation replaces a file.                      *)

At(path) == IF path \in DOMAIN files THEN files[path] ELSE Nothing
Present == [t \in Targets |-> At(t)]
Previous(t, n) == <<"previous", t, n>>
Redo(t, n) == <<"redo", t, n>>

With(path, content) ==
    [p \in DOMAIN files \union {path} |-> IF p = path THEN content ELSE files[p]]
Without(path) == [p \in DOMAIN files \ {path} |-> files[p]]
Moved(from, to) ==
    [p \in (DOMAIN files \ {from}) \union {to} |-> IF p = to THEN files[from] ELSE files[p]]

CanMove(from, to) == At(from) # Nothing /\ At(to) = Nothing
\* Faulty: the compensation replaces whatever is there.
MovedBack_Replace(from, to) == IF At(from) # Nothing THEN Moved(from, to) ELSE files
MovedBack(from, to) == IF CanMove(from, to) THEN Moved(from, to) ELSE files

----------------------------------------------------------------------------
(* The journal and the undo state.  A change moved its target to prev and  *)
(* state is what was moved, or it created its target with content state.   *)

NewChange(t, n) ==
    [target |-> t, prev |-> Previous(t, n), state |-> At(t), create |-> FALSE, undone |-> FALSE]
NewCreate(t) ==
    [target |-> t, prev |-> Nothing, state |-> Good, create |-> TRUE, undone |-> FALSE]

NotYet(c) == ~c.create /\ At(c.target) # Nothing /\ At(c.target) = c.state

\* preparedRepairChangeApplied, which fails if it cannot tell.
Applied(c) ==
    IF c.create THEN At(c.target) # Nothing
    ELSE ~NotYet(c) /\ At(c.prev) # Nothing /\ At(c.prev) = c.state
\* Faulty: the file is looked for at its backup only.
Resolvable_Moved(c) == c.create \/ At(c.prev) = c.state
Resolvable(c) == c.create \/ NotYet(c) \/ Applied(c)

BackupsMatch(tx) ==
    \* verifyUndoRepairBackups
    \A i \in DOMAIN tx.changes :
        LET c == tx.changes[i]
        IN c.create \/ c.undone \/ (At(c.prev) # Nothing /\ At(c.prev) = c.state)

Init ==
    /\ \E there \in SUBSET Targets : files = [t \in there |-> <<t, 0>>]
    /\ last = Nothing /\ pending = Nothing /\ op = Nothing
    /\ waiting = [p \in Invokers |-> Nothing]
    /\ serial = 0 /\ edits = 0 /\ faults = 0 /\ crashes = 0
    /\ kept = {files[t] : t \in DOMAIN files}
    /\ origin = <<>> /\ touched = <<>>

----------------------------------------------------------------------------
(* Asking for the lock.                                                    *)

\* The preview of a plan, or the states an undo is bound to.
Ask(p, kind, plan) ==
    /\ waiting[p] = Nothing
    /\ serial < MaxOps
    /\ waiting' = [waiting EXCEPT ![p] =
                     [kind |-> kind, plan |-> plan, seen |-> Present,
                      last |-> last, pending |-> pending]]
    /\ UNCHANGED <<files, last, pending, op, bounds, ghosts>>
AskRepair(p) == \E plan \in Plans : Ask(p, "repair", plan)
AskUndo(p) == Ask(p, "undo", <<>>)

Stop(p) ==
    /\ waiting' = [waiting EXCEPT ![p] = Nothing]
    /\ UNCHANGED <<files, last, pending, op, bounds, ghosts>>

\* The journal may have changed before a repair first looked at it.
Refused(p) ==
    /\ waiting[p] # Nothing
    /\ \/ op # Nothing      \* the lock timed out
       \/ waiting[p].pending # pending
       \/ waiting[p].kind = "undo" /\ waiting[p].last # last
    /\ Stop(p)

Enter(p) ==
    /\ waiting[p] # Nothing /\ op = Nothing
    /\ serial < MaxOps
    /\ waiting[p].kind = "undo" => waiting[p].pending = pending /\ waiting[p].last = last
    /\ serial' = serial + 1
    /\ op' = [at |-> "reconcile", kind |-> waiting[p].kind, plan |-> waiting[p].plan,
              seen |-> waiting[p].seen, n |-> serial', i |-> 0,
              tx |-> [id |-> serial', changes |-> <<>>, undone |-> FALSE]]
    /\ waiting' = [waiting EXCEPT ![p] = Nothing]
    /\ origin' = Append(origin, Present) /\ touched' = Append(touched, {})
    /\ UNCHANGED <<files, last, pending, edits, faults, crashes, kept>>

Running(at) == op # Nothing /\ op.at = at
Go(o, at) == op' = [o EXCEPT !.at = at]
To(at) == Go(op, at)
End == op' = Nothing
idle == <<waiting, bounds, ghosts>>     \* what the steps of an operation leave alone

----------------------------------------------------------------------------
(* reconcilePreparedRepairTransaction.                                     *)

Begun == IF op.kind = "undo" THEN "begin" ELSE "verify"

Reconcile ==
    /\ Running("reconcile")
    /\ IF pending = Nothing THEN To(Begun)
       ELSE LET c == Last(pending.tx.changes)
            IN IF last = pending.tx THEN To("settle")
               ELSE IF last # pending.bound \/ ~Resolvable(c) THEN End
               ELSE To(IF Applied(c) THEN "promote" ELSE "settle")
    /\ UNCHANGED <<files, last, pending, idle>>

\* Faulty: the journal of a change that was made is dropped.
Promote_Skips ==
    /\ Running("promote")
    /\ To("settle")
    /\ UNCHANGED <<files, last, pending, idle>>
Promote ==
    /\ Running("promote")
    /\ last' = pending.tx
    /\ To("settle")
    /\ UNCHANGED <<files, pending, idle>>

Settle ==
    /\ Running("settle")
    /\ pending' = Nothing
    /\ To(Begun)
    /\ UNCHANGED <<files, last, idle>>

----------------------------------------------------------------------------
(* A repair.                                                               *)

Target == Head(op.plan).target
Kind == Head(op.plan).kind
Change == Last(op.tx.changes)
NextAction == Go([op EXCEPT !.plan = Tail(@)], "verify")

\* Each action is held against the preview.
Verify ==
    /\ Running("verify")
    /\ IF op.plan = <<>> \/ At(Target) # op.seen[Target] THEN End
       ELSE IF At(Target) = Nothing /\ Kind # "restore" THEN NextAction
       ELSE To("prepare")
    /\ UNCHANGED <<files, last, pending, idle>>

\* The journal holds the changes made so far and the one to come, as the
\* target is now, and is bound to the undo state it will replace.
Prepare ==
    /\ Running("prepare")
    /\ LET c == IF Kind = "restore" /\ At(Target) = Nothing
                THEN NewCreate(Target) ELSE NewChange(Target, op.n)
           tx == [op.tx EXCEPT !.changes = Append(@, c)]
       IN IF pending # Nothing THEN End /\ UNCHANGED pending
          ELSE /\ pending' = [tx |-> tx, bound |-> last]
               /\ Go([op EXCEPT !.tx = tx], IF c.create THEN "publish" ELSE "rename")
    /\ UNCHANGED <<files, last, idle>>

Rename ==
    /\ Running("rename")
    /\ IF CanMove(Target, Change.prev)
       THEN files' = Moved(Target, Change.prev) /\ To("check")
       ELSE End /\ UNCHANGED files
    /\ UNCHANGED <<last, pending, idle>>

\* Was what was meant to be moved the one that was moved?  A restore from a
\* snapshot compares with what the journal says, the others with the preview.
Check ==
    /\ Running("check")
    /\ IF At(Change.prev) = (IF Kind = "restore" THEN Change.state ELSE op.seen[Target])
       THEN To("commit") /\ UNCHANGED files
       ELSE End /\ files' = MovedBack(Change.prev, Target)
    /\ UNCHANGED <<last, pending, idle>>

Commit ==
    /\ Running("commit")
    /\ last' = op.tx
    /\ To("clear")
    /\ UNCHANGED <<files, pending, idle>>

CommitFails ==
    /\ Running("commit") /\ faults < MaxFaults
    /\ faults' = faults + 1
    /\ files' = IF Change.create THEN files ELSE MovedBack(Change.prev, Target)
    /\ End
    /\ UNCHANGED <<last, pending, waiting, serial, edits, crashes, ghosts>>

Clear ==
    /\ Running("clear")
    /\ pending' = Nothing
    /\ IF Change.create THEN NextAction ELSE To("look")
    /\ UNCHANGED <<files, last, idle>>

\* The target may have come back.
Look ==
    /\ Running("look")
    /\ IF At(Target) # Nothing THEN End
       ELSE IF Kind = "quarantine" THEN NextAction ELSE To("create")
    /\ UNCHANGED <<files, last, pending, idle>>

Create ==
    /\ Running("create")
    /\ IF At(Target) = Nothing THEN files' = With(Target, Good) /\ NextAction
       ELSE End /\ UNCHANGED files
    /\ UNCHANGED <<last, pending, idle>>

\* The same of a target there was none of, which the journal has.
Publish ==
    /\ Running("publish")
    /\ IF At(Target) = Nothing
       THEN files' = With(Target, Good) /\ To("own") /\ UNCHANGED pending
       ELSE pending' = Nothing /\ End /\ UNCHANGED files
    /\ UNCHANGED <<last, idle>>

Own ==
    /\ Running("own")
    /\ IF At(Target) = Good THEN To("commit") ELSE End
    /\ UNCHANGED <<files, last, pending, idle>>

----------------------------------------------------------------------------
(* UndoLastRepair: the changes from last to first, each recorded as it is  *)
(* undone, so that an undo that was cut short is resumed by the next one.  *)

Undoing == op.tx.changes[op.i]
NextChange(o) == Go([o EXCEPT !.i = @ - 1], "undo")

Begin ==
    /\ Running("begin")
    /\ IF last = Nothing THEN End
       ELSE IF last.undone \/ ~BackupsMatch(last) THEN End
       ELSE Go([[op EXCEPT !.tx = last] EXCEPT !.i = Len(last.changes)], "undo")
    /\ UNCHANGED <<files, last, pending, idle>>

\* A change undone earlier may have left its backup; a file that a create
\* does not own any more stays.
UndoChange ==
    /\ Running("undo")
    /\ IF op.i = 0 THEN To("finish") /\ UNCHANGED files
       ELSE IF Undoing.undone
       THEN files' = (IF Undoing.create THEN files ELSE Without(Undoing.prev))
            /\ NextChange(op)
       ELSE To(IF Undoing.create /\ At(Undoing.target) # Good THEN "mark" ELSE "aside")
            /\ UNCHANGED files
    /\ UNCHANGED <<last, pending, idle>>

Aside ==
    /\ Running("aside")
    /\ files' = MovedBack(Undoing.target, Redo(Undoing.target, op.n))
    /\ To(IF Undoing.create THEN "mark" ELSE "restore")
    /\ UNCHANGED <<last, pending, idle>>

\* Faulty: the backup is moved to the target rather than copied.
Restore_Moves ==
    /\ Running("restore")
    /\ files' = MovedBack(Undoing.prev, Undoing.target)
    /\ To("mark")
    /\ UNCHANGED <<last, pending, idle>>
Restore ==
    /\ Running("restore")
    /\ LET c == Undoing
       IN IF At(c.prev) = c.state /\ At(c.target) = Nothing
          THEN files' = With(c.target, c.state) /\ To("mark")
          ELSE files' = MovedBack(Redo(c.target, op.n), c.target) /\ End
    /\ UNCHANGED <<last, pending, idle>>

RestoreFails ==
    /\ Running("restore") /\ faults < MaxFaults
    /\ faults' = faults + 1
    /\ files' = MovedBack(Redo(Undoing.target, op.n), Undoing.target)
    /\ End
    /\ UNCHANGED <<last, pending, waiting, serial, edits, crashes, ghosts>>

Mark ==
    /\ Running("mark")
    /\ LET done == [Undoing EXCEPT !.undone = TRUE]
           tx == [op.tx EXCEPT !.changes = [@ EXCEPT ![op.i] = done]]
       IN /\ last' = tx
          /\ IF Undoing.create THEN NextChange([op EXCEPT !.tx = tx])
             ELSE Go([op EXCEPT !.tx = tx], "drop")
    /\ UNCHANGED <<files, pending, idle>>

\* Faulty: an undo takes the first change for the whole transaction.
Drop_Finishes ==
    /\ Running("drop")
    /\ files' = Without(Undoing.prev)
    /\ Go([op EXCEPT !.i = 0], "finish")
    /\ UNCHANGED <<last, pending, idle>>
Drop ==
    /\ Running("drop")
    /\ files' = Without(Undoing.prev)
    /\ NextChange(op)
    /\ UNCHANGED <<last, pending, idle>>

Finish ==
    /\ Running("finish")
    /\ last' = [op.tx EXCEPT !.undone = TRUE]
    /\ End
    /\ UNCHANGED <<files, pending, idle>>

----------------------------------------------------------------------------
(* What else happens.                                                      *)

\* A step fails and the operation returns.
StepFails ==
    /\ op # Nothing /\ faults < MaxFaults
    /\ op.at \in {"promote", "settle", "prepare", "rename", "clear", "create", "publish",
                  "aside", "mark", "finish"}
    /\ faults' = faults + 1
    /\ End
    /\ UNCHANGED <<files, last, pending, waiting, serial, edits, crashes, ghosts>>

Crash ==
    /\ op # Nothing /\ crashes < MaxCrashes
    /\ crashes' = crashes + 1
    /\ End
    /\ UNCHANGED <<files, last, pending, waiting, serial, edits, faults, ghosts>>

\* The user, an editor or the desktop program writes or removes a file.
Edit(t) ==
    /\ edits < MaxEdits
    /\ edits' = edits + 1
    /\ \/ files' = With(t, <<t, edits'>>) /\ kept' = (kept \ {At(t)}) \union {<<t, edits'>>}
       \/ files' = Without(t) /\ kept' = kept \ {At(t)}
    /\ touched' = [n \in DOMAIN touched |-> touched[n] \union {t}]
    /\ UNCHANGED <<last, pending, waiting, op, serial, faults, crashes, origin>>

Next ==
    \/ \E p \in Invokers : AskRepair(p) \/ AskUndo(p) \/ Refused(p) \/ Enter(p)
    \/ Reconcile \/ Promote \/ Settle
    \/ Verify \/ Prepare \/ Rename \/ Check \/ Commit \/ CommitFails \/ Clear \/ Look \/ Create
    \/ Publish \/ Own
    \/ Begin \/ UndoChange \/ Aside \/ Restore \/ RestoreFails \/ Mark \/ Drop \/ Finish
    \/ StepFails \/ Crash
    \/ \E t \in Targets : Edit(t)

Spec == Init /\ [][Next]_vars

----------------------------------------------------------------------------
(* Properties                                                              *)

Changes(tx) == {tx.changes[i] : i \in DOMAIN tx.changes}

TypeOK ==
    /\ last # Nothing =>
         /\ last.id \in 1..serial /\ last.changes # <<>>
         /\ last.undone => \A c \in Changes(last) : c.undone
    /\ pending # Nothing =>
         /\ pending.tx.id \in 1..serial
         /\ last # Nothing => last.id <= pending.tx.id
    /\ op # Nothing => op.i \in 0..Len(op.tx.changes)

\* Repairs and undos destroy nothing: what the user or another program wrote,
\* and did not itself replace or remove, is in some file, wherever steps
\* failed, processes died and files were written behind a repair's back.
NothingLost == kept \subseteq {files[p] : p \in DOMAIN files}

\* A file that a repair moved away is in the journal or in the undo state, so
\* that the user can have it back, until a later repair is recorded.
Backups == {p \in DOMAIN files : p \notin Targets /\ p[1] = "previous"}
BackupsAreNamed ==
    \A p \in Backups :
        \/ last # Nothing /\ (last.id > p[3] \/ \E c \in Changes(last) : c.prev = p)
        \/ pending # Nothing /\ \E c \in Changes(pending.tx) : c.prev = p

\* An undo stays possible however often it was tried and cut short: the backup
\* of a change that is not recorded as undone is there, as it was taken.
BackupsAreKept == last # Nothing => BackupsMatch(last)

\* So whatever a repair set aside is accounted for, and is what it was.
BackupsAreSound == TypeOK /\ BackupsAreNamed /\ BackupsAreKept

\* A journal left behind can be reconciled, so repairs go on, unless someone
\* else wrote the file in question.
JournalSettles ==
    pending # Nothing =>
        LET c == Last(pending.tx.changes)
        IN \/ c.target \in touched[pending.tx.id]
           \/ last = pending.tx
           \/ last = pending.bound /\ Resolvable(c)

\* An undo that completes has returned every file to what it was before the
\* repair, unless others wrote it in between.
UndoRestores ==
    [][last # Nothing /\ last' # Nothing /\ ~last.undone /\ last'.undone =>
         \A c \in Changes(last') :
            c.target \in touched[last.id] \/ At(c.target)' = origin[last.id][c.target]]_vars
=============================================================================
