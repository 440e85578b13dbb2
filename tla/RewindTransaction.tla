-------------------------- MODULE RewindTransaction --------------------------
(***************************************************************************)
(* The rewind transactions of internal/checkpoint/transaction.go, driven   *)
(* by internal/control/rewind.go.                                          *)
(*                                                                         *)
(* A session is a workspace of files, a conversation and one checkpoint    *)
(* per user turn.  A rewind moves files and conversation back to the start *)
(* of a turn; an undo moves them forward again; a file revert restores one *)
(* file.  Each runs as a transaction with a durable manifest: it publishes *)
(* file after file by two renames, then cuts the conversation and the      *)
(* checkpoints, then becomes committed.  Any failed step compensates.  A   *)
(* crash may fall between any two steps, and reopening the session runs    *)
(* recovery over the manifests.                                            *)
(*                                                                         *)
(* The mutation barrier and the controller's rotation gate let one of      *)
(* these operations run at a time and keep turns out meanwhile (module     *)
(* MutationBarrier); edits from outside the program respect neither.       *)
(*                                                                         *)
(* Contents are model values.  Every turn sends one message; messages are  *)
(* named by serial numbers, never reused, so that a lost turn is visible.  *)
(*                                                                         *)
(* Operators named Operation_Fault are mutants of Operation: the mistakes  *)
(* the properties are checked to catch.  Nothing uses them.                *)
(***************************************************************************)
EXTENDS Naturals, Sequences, FiniteSets

CONSTANTS
    NFiles,         \* files of the workspace: 1..NFiles, in path order
    Contents,       \* what a file may contain
    Absent,         \* the image of a file that does not exist
    MaxTx,          \* bound: transactions begun
    MaxTurns,       \* bound: turns run
    MaxReopens,     \* bound: times the session is reopened without a crash
    MaxCrashes,     \* bound: process crashes
    MaxFaults,      \* bound: failing I/O operations
    MaxEdits        \* bound: edits made outside the program

ASSUME RewindAssumption ==
    /\ NFiles \in Nat /\ MaxTx \in Nat /\ MaxTurns \in Nat
    /\ MaxReopens \in Nat /\ MaxCrashes \in Nat /\ MaxFaults \in Nat /\ MaxEdits \in Nat
    /\ Absent \notin Contents

Files == 1..NFiles
Images == Contents \cup {Absent}
TxIds == 1..MaxTx
NoTx == 0

VARIABLES
    \* on disk
    disk,           \* the image of every file
    tmp,            \* << id, file >>: publish temporaries that exist
    bak,            \* the image in every backup sibling, per transaction
    manifest,       \* the transaction manifests
    conv,           \* the conversation: serial numbers of its messages
    ckpts,          \* the checkpoints, by turn number
    \* in memory
    turn,           \* checkpointManager.turn: the next turn's number
    lastUndo,       \* Store.lastUndo: an id, or NoTx
    pc,             \* the step the running operation is at
    cur,            \* the id of the transaction it works on, or NoTx
    tx,             \* its manifest as it is in memory
    todo,           \* the files its current loop has left
    failed,         \* the sides whose compensation failed: "state", "files"
    pass,           \* recovery: 0 none, 1 without, 2 with the conversation
    queue,          \* recovery: the manifests this pass has left
    \* bounds
    nextTx, serial, reopens, crashes, faults, edits,
    edited          \* the files that were ever edited from outside

diskVars == << disk, tmp, bak >>
sessionVars == << conv, ckpts, turn >>
opVars == << cur, tx, todo, failed >>
recoveryVars == << pass, queue >>
boundVars == << nextTx, serial, reopens, crashes, edits, edited >>

vars == << diskVars, manifest, sessionVars, lastUndo, pc, opVars, recoveryVars,
           boundVars, faults >>

-----------------------------------------------------------------------------
(* Manifests and checkpoints. *)

Least(S) == CHOOSE x \in S : \A y \in S : x <= y
Greatest(S) == CHOOSE x \in S : \A y \in S : y <= x

NoConv == << >>
NoBackup == << >>

EmptyManifest ==
    [ state |-> "none", kind |-> "rewind", scope |-> {}, from |-> 0, boundary |-> 0,
      targets |-> {}, restore |-> << >>, forward |-> << >>, published |-> {},
      hasConv |-> "no", fwdConv |-> NoConv, backup |-> NoBackup, parent |-> NoTx ]

\* The checkpoints of turn k and later, as a function of the turn number.
From(c, k) == [ t \in { u \in DOMAIN c : u >= k } |-> c[t] ]
Before(c, k) == [ t \in { u \in DOMAIN c : u < k } |-> c[t] ]

\* restoreCheckpointBackup merges the backup over the checkpoints, by turn.
Merge(c, b) == [ t \in DOMAIN c \cup DOMAIN b |-> IF t \in DOMAIN b THEN b[t] ELSE c[t] ]

NextTurn_OffByOne(c) == IF DOMAIN c = {} THEN 0 ELSE Greatest(DOMAIN c) + 2
NextTurn(c) == IF DOMAIN c = {} THEN 0 ELSE Greatest(DOMAIN c) + 1

\* earliestRevisions: the first preimage and the last owned image of each file
\* that a checkpoint of turn k or later captured.
Owners(k, f) == { t \in DOMAIN ckpts : t >= k /\ f \in DOMAIN ckpts[t].pre }
Touched(k) == { f \in Files : Owners(k, f) # {} }
Preimage_Latest(k, f) == ckpts[Greatest(Owners(k, f))].pre[f]
Preimage(k, f) == ckpts[Least(Owners(k, f))].pre[f]
OwnedImage(k, f) == ckpts[Greatest(Owners(k, f))].after[f]

\* precheckFiles: no file was changed since the session last wrote it.
PrecheckFiles(k) == \A f \in Touched(k) : disk[f] = OwnedImage(k, f)

Writes(m, f) == m.restore[f] # Absent       \* Action "write"; otherwise "delete"
NeedsConversation(m) == "conv" \in m.scope

Init ==
    /\ disk \in [Files -> Images]
    /\ tmp = {} /\ bak = [t \in TxIds |-> [f \in Files |-> Absent]]
    /\ manifest = [t \in TxIds |-> EmptyManifest]
    /\ conv = << >> /\ ckpts = << >> /\ turn = 0
    /\ lastUndo = NoTx /\ pc = "idle" /\ cur = NoTx /\ tx = EmptyManifest
    /\ todo = {} /\ failed = {} /\ pass = 0 /\ queue = {}
    /\ nextTx = 1 /\ serial = 0 /\ reopens = 0 /\ crashes = 0 /\ faults = 0 /\ edits = 0 /\ edited = {}

-----------------------------------------------------------------------------
(* Helpers shared by the steps. *)

\* An I/O operation fails.
Fault == faults < MaxFaults /\ faults' = faults + 1
NoFault == UNCHANGED faults

\* persistTransaction replaces the manifest file atomically.
Store(m) == manifest' = [manifest EXCEPT ![cur] = m]
Persist(m) == Store(m) /\ tx' = m
InState(s) == [tx EXCEPT !.state = s]

\* The operation returns; in recovery the scan goes on.
Return ==
    /\ pc' = IF pass = 0 THEN "idle" ELSE "scan"
    /\ cur' = NoTx /\ tx' = EmptyManifest /\ todo' = {} /\ failed' = {}

\* The publish temporaries of the current transaction.
Temps == { << cur, f >> : f \in tx.targets }

Compensate_Finished == pc' = "compensate" /\ todo' = tx.targets \ todo

\* failTransaction: compensatePublished walks all targets, last one first.
Compensate == pc' = "compensate" /\ todo' = tx.targets

Put(f, i) == disk' = [disk EXCEPT ![f] = i]
SetBackup(f, i) == bak' = [bak EXCEPT ![cur][f] = i]

-----------------------------------------------------------------------------
(* Turns and edits. *)

InvalidateUndo_Forgotten == UNCHANGED lastUndo

\* Begin: a new turn invalidates undo.
InvalidateUndo == lastUndo' = NoTx

\* A turn begins a checkpoint, which invalidates undo, sends its message and
\* changes some files, capturing each before and after.
Turn ==
    /\ pc = "idle" /\ serial < MaxTurns
    /\ serial' = serial + 1
    /\ conv' = Append(conv, serial')
    /\ \E touched \in SUBSET Files : \E new \in [touched -> Images] :
        /\ \A f \in touched : new[f] # disk[f]
        /\ disk' = [ f \in Files |-> IF f \in touched THEN new[f] ELSE disk[f] ]
        /\ ckpts' = Merge(ckpts, [ t \in {turn} |->
                        [ serial |-> serial', msgIndex |-> Len(conv),
                          pre |-> [ f \in touched |-> disk[f] ], after |-> new ] ])
    /\ turn' = turn + 1
    /\ InvalidateUndo
    /\ UNCHANGED << tmp, bak, manifest, pc, opVars, recoveryVars, nextTx, reopens,
                    crashes, faults, edits, edited >>

\* Another program changes a file; it may do so at any moment.
ExternalEdit ==
    /\ edits < MaxEdits
    /\ edits' = edits + 1
    /\ \E f \in Files, i \in Images : i # disk[f] /\ Put(f, i) /\ edited' = edited \cup {f}
    /\ UNCHANGED << tmp, bak, manifest, sessionVars, lastUndo, pc, opVars, recoveryVars,
                    nextTx, serial, reopens, crashes, faults >>

-----------------------------------------------------------------------------
(* Beginning an operation.                                                  *)

\* A new manifest: both images of every target, and the checkpoints to be cut.
Prepared(kind, scope, from, boundary, restore, backup) ==
    [ state |-> "prepared", kind |-> kind, scope |-> scope, from |-> from,
      boundary |-> boundary, targets |-> DOMAIN restore, restore |-> restore,
      forward |-> [ f \in DOMAIN restore |-> disk[f] ], published |-> {},
      hasConv |-> "no", fwdConv |-> NoConv, backup |-> backup, parent |-> NoTx ]

\* The manifest of the undo of t: its images swapped.
Swapped(t) ==
    LET m == manifest[t]
    IN  [ state |-> "prepared", kind |-> "undo", scope |-> m.scope, from |-> m.from,
          boundary |-> m.boundary, targets |-> m.targets, restore |-> m.forward,
          forward |-> m.restore, published |-> {}, hasConv |-> m.hasConv,
          fwdConv |-> m.fwdConv, backup |-> m.backup, parent |-> t ]

Begin(m) ==
    /\ pc = "idle" /\ nextTx <= MaxTx
    /\ cur' = nextTx /\ nextTx' = nextTx + 1
    /\ tx' = m
    /\ UNCHANGED << diskVars, manifest, sessionVars, lastUndo, todo, failed,
                    recoveryVars, serial, reopens, crashes, edits, edited, faults >>

\* CommitRewind of a plan that is still valid: the prechecks hold again under
\* the exclusive barrier, and prepareTransaction records both images.
StartRewind(k, scope) ==
    /\ k \in DOMAIN ckpts
    /\ "files" \in scope => PrecheckFiles(k)
    /\ scope = {"files"} => Touched(k) # {}
    /\ LET targets == IF "files" \in scope THEN Touched(k) ELSE {}
       IN  Begin(Prepared("rewind", scope, k, ckpts[k].msgIndex,
                          [ f \in targets |-> Preimage(k, f) ],
                          IF "conv" \in scope THEN From(ckpts, k) ELSE NoBackup))
    /\ pc' = "stage"

\* CommitFileRevert: one file, back to its first preimage of the session.  The
\* user may have chosen to overwrite an edit made outside.
StartFileRevert(f) ==
    /\ f \in Touched(0)
    /\ Begin(Prepared("file_revert", {"files"}, 0, 0, [ g \in {f} |-> Preimage(0, f) ], NoBackup))
    /\ pc' = "stage"

\* UndoRewind of the remembered transaction, if its files are still as it left
\* them: the same transaction with the images swapped.
StartUndo ==
    /\ lastUndo # NoTx
    /\ LET m == manifest[lastUndo]
       IN  /\ m.state = "committed"
           /\ \A f \in m.targets : disk[f] = m.restore[f]
           /\ Begin(Swapped(lastUndo))
    /\ pc' = "prepare"

-----------------------------------------------------------------------------
(* Preparing.  A rewind stages its temporaries before its manifest exists,  *)
(* an undo after.                                                           *)

StageTemps ==
    /\ pc = "stage"
    /\ \/ /\ NoFault
          /\ tmp' = tmp \cup { p \in Temps : Writes(tx, p[2]) }
          /\ pc' = IF tx.kind = "undo" THEN "prepareAgain" ELSE "prepare"
          /\ UNCHANGED opVars
       \/ /\ Fault
          /\ tmp' = IF tx.kind = "file_revert" THEN tmp ELSE tmp \ Temps
          /\ IF tx.kind = "undo" THEN pc' = "settle" /\ UNCHANGED opVars ELSE Return
    /\ UNCHANGED << disk, bak, manifest, sessionVars, lastUndo, recoveryVars, boundVars >>

PersistPrepared ==
    /\ pc = "prepare"
    /\ \/ /\ NoFault /\ Persist(tx)
          /\ pc' = CASE tx.kind = "rewind" -> "attach"
                     [] tx.kind = "undo" -> "stage"
                     [] tx.kind = "file_revert" -> "begin"
          /\ UNCHANGED << tmp, cur, todo, failed >>
       \/ /\ Fault /\ Return
          /\ tmp' = IF tx.kind = "rewind" THEN tmp \ Temps ELSE tmp
          /\ UNCHANGED manifest
    /\ UNCHANGED << disk, bak, sessionVars, lastUndo, recoveryVars, boundVars >>

WithForward(m, c) == [[m EXCEPT !.hasConv = "yes"] EXCEPT !.fwdConv = c]

\* CommitRewindWithForward stores the whole conversation, whatever the scope.
\* If that fails it returns and leaves the prepared manifest to recovery.
AttachForward ==
    /\ pc = "attach"
    /\ \/ /\ NoFault /\ Persist(WithForward(tx, conv))
          /\ pc' = "begin" /\ UNCHANGED << cur, todo, failed >>
       \/ Fault /\ Return /\ UNCHANGED manifest
    /\ UNCHANGED << diskVars, sessionVars, lastUndo, recoveryVars, boundVars >>

PersistUndoAgain ==
    /\ pc = "prepareAgain"
    /\ \/ NoFault /\ Persist(tx) /\ pc' = "begin" /\ UNCHANGED todo
       \/ Fault /\ Compensate /\ UNCHANGED << tx, manifest >>
    /\ UNCHANGED << diskVars, sessionVars, lastUndo, cur, failed, recoveryVars, boundVars >>

BeginCommit ==
    /\ pc = "begin"
    /\ \/ /\ NoFault /\ Persist(InState("committing"))
          /\ pc' = "intent" /\ todo' = tx.targets
       \/ Fault /\ Compensate /\ UNCHANGED << tx, manifest >>
    /\ UNCHANGED << diskVars, sessionVars, lastUndo, cur, failed, recoveryVars, boundVars >>

-----------------------------------------------------------------------------
(* Publishing the files, in path order.                                     *)

PublishIntent_InMemory ==
    /\ pc = "intent" /\ todo # {}
    /\ tx' = [tx EXCEPT !.published = @ \cup {Least(todo)}] /\ pc' = "backup"
    /\ UNCHANGED << diskVars, manifest, sessionVars, lastUndo, cur, todo, failed, recoveryVars,
                    boundVars, faults >>

\* The durable intent comes before the first rename of the target.
PublishIntent ==
    /\ pc = "intent" /\ todo # {}
    /\ \/ /\ NoFault /\ Persist([tx EXCEPT !.published = @ \cup {Least(todo)}])
          /\ pc' = "backup" /\ UNCHANGED todo
       \/ Fault /\ Compensate /\ UNCHANGED << tx, manifest >>
    /\ UNCHANGED << diskVars, sessionVars, lastUndo, cur, failed, recoveryVars, boundVars >>

\* publishTarget renames the target to its backup sibling ...
BackUpTarget ==
    /\ pc = "backup"
    /\ LET f == Least(todo)
       IN  \/ /\ NoFault
              /\ SetBackup(f, disk[f]) /\ Put(f, Absent)
              /\ pc' = IF Writes(tx, f) THEN "install" ELSE "progress"
              /\ UNCHANGED todo
           \/ Fault /\ Compensate /\ UNCHANGED << disk, bak >>
    /\ UNCHANGED << tmp, manifest, sessionVars, lastUndo, cur, tx, failed, recoveryVars,
                    boundVars >>

\* ... and then its temporary to the target; if that fails, the backup back.
InstallTarget ==
    /\ pc = "install"
    /\ LET f == Least(todo)
       IN  \/ /\ NoFault
              /\ Put(f, tx.restore[f]) /\ tmp' = tmp \ {<< cur, f >>}
              /\ pc' = "progress" /\ UNCHANGED << bak, todo >>
           \/ /\ Fault
              /\ IF bak[cur][f] = Absent
                 THEN UNCHANGED << disk, bak >>
                 ELSE Put(f, bak[cur][f]) /\ SetBackup(f, Absent)
              /\ Compensate /\ UNCHANGED tmp
    /\ UNCHANGED << manifest, sessionVars, lastUndo, cur, tx, failed, recoveryVars,
                    boundVars >>

PersistProgress ==
    /\ pc = "progress"
    /\ \/ /\ NoFault /\ Persist(tx)
          /\ todo' = todo \ {Least(todo)} /\ pc' = "intent"
       \/ Fault /\ Compensate /\ UNCHANGED << tx, manifest >>
    /\ UNCHANGED << diskVars, sessionVars, lastUndo, cur, failed, recoveryVars, boundVars >>

FilesDone ==
    /\ pc = "intent" /\ todo = {}
    /\ \/ /\ NoFault /\ Persist(tx) /\ UNCHANGED todo
          /\ pc' = CASE tx.kind = "undo" -> "restoreConv"
                     [] tx.kind # "undo" /\ NeedsConversation(tx) -> "cutConv"
                     [] OTHER -> "finish"
       \/ tx.kind # "undo" /\ Fault /\ Compensate /\ UNCHANGED << tx, manifest >>
    /\ UNCHANGED << diskVars, sessionVars, lastUndo, cur, failed, recoveryVars, boundVars >>

-----------------------------------------------------------------------------
(* The conversation and the checkpoints.                                    *)

Cut(c, boundary) == SubSeq(c, 1, boundary)

\* ApplyConversationTruncate refuses a boundary past the end.
CutConversation ==
    /\ pc = "cutConv"
    /\ \/ /\ NoFault /\ tx.boundary <= Len(conv)
          /\ conv' = Cut(conv, tx.boundary) /\ pc' = "cutCkpts"
       \/ /\ \/ NoFault /\ tx.boundary > Len(conv)
             \/ Fault
          /\ pc' = "backConv" /\ UNCHANGED conv
    /\ UNCHANGED << diskVars, manifest, ckpts, turn, lastUndo, opVars, recoveryVars, boundVars >>

CutCheckpoints ==
    /\ pc = "cutCkpts"
    /\ \/ /\ NoFault
          /\ ckpts' = Before(ckpts, tx.from) /\ turn' = tx.from /\ pc' = "finish"
       \/ Fault /\ pc' = "backConv" /\ UNCHANGED << ckpts, turn >>
    /\ UNCHANGED << diskVars, manifest, conv, lastUndo, opVars, recoveryVars, boundVars >>

\* commitUndoTransaction reinstates the stored conversation if there is one.
RestoreConversation ==
    /\ pc = "restoreConv"
    /\ \/ /\ NoFault /\ pc' = "restoreCkpts"
          /\ conv' = IF tx.hasConv = "yes" THEN tx.fwdConv ELSE conv
       \/ tx.hasConv = "yes" /\ Fault /\ pc' = "backConv" /\ UNCHANGED conv
    /\ UNCHANGED << diskVars, manifest, ckpts, turn, lastUndo, opVars, recoveryVars, boundVars >>

ReinstateCheckpoints ==
    /\ ckpts' = Merge(ckpts, tx.backup)
    /\ turn' = NextTurn(ckpts')

RestoreCheckpoints ==
    /\ pc = "restoreCkpts"
    /\ \/ /\ NoFault /\ pc' = "finish"
          /\ IF NeedsConversation(tx) THEN ReinstateCheckpoints
                                      ELSE UNCHANGED << ckpts, turn >>
       \/ /\ NeedsConversation(tx) /\ Fault /\ pc' = "backConv"
          /\ UNCHANGED << ckpts, turn >>
    /\ UNCHANGED << diskVars, manifest, conv, lastUndo, opVars, recoveryVars, boundVars >>

\* The committed manifest is the point of no return.
Finish ==
    /\ pc = "finish"
    /\ \/ /\ NoFault /\ tx.kind # "undo"
          /\ Store(InState("committed")) /\ lastUndo' = cur /\ Return
       \/ /\ NoFault /\ tx.kind = "undo"
          /\ Persist(InState("committed")) /\ pc' = "markUndone"
          /\ UNCHANGED << lastUndo, cur, todo, failed >>
       \/ Fault /\ pc' = "backConv" /\ UNCHANGED << manifest, lastUndo, opVars >>
    /\ UNCHANGED << diskVars, sessionVars, recoveryVars, boundVars >>

\* Marking the parent undone may fail: the committed undo names it anyway.
MarkUndone ==
    /\ pc = "markUndone"
    /\ \/ NoFault /\ manifest' = [manifest EXCEPT ![tx.parent].state = "undone"]
       \/ Fault /\ UNCHANGED manifest
    /\ lastUndo' = NoTx /\ Return
    /\ UNCHANGED << diskVars, sessionVars, recoveryVars, boundVars >>

-----------------------------------------------------------------------------
(* Compensation.  The conversation side goes back first: a failed rewind     *)
(* reinstates what it stored, a failed undo cuts again.                      *)

Failed(side) == failed' = failed \cup {side}

BackConversation ==
    /\ pc = "backConv" /\ pc' = "backCkpts"
    /\ \/ /\ NoFault /\ tx.kind # "undo"
          /\ conv' = IF tx.hasConv = "yes" THEN tx.fwdConv ELSE conv
          /\ UNCHANGED failed
       \/ /\ NoFault /\ tx.kind = "undo"
          /\ IF ~NeedsConversation(tx) THEN UNCHANGED << conv, failed >>
             ELSE IF tx.boundary <= Len(conv)
                  THEN conv' = Cut(conv, tx.boundary) /\ UNCHANGED failed
                  ELSE Failed("state") /\ UNCHANGED conv
       \/ Fault /\ Failed("state") /\ UNCHANGED conv
    /\ UNCHANGED << diskVars, manifest, ckpts, turn, lastUndo, cur, tx, todo, recoveryVars,
                    boundVars >>

BackCheckpoints ==
    /\ pc = "backCkpts"
    /\ \/ /\ NoFault /\ pc' = "backDone" /\ UNCHANGED failed
          /\ CASE ~NeedsConversation(tx) -> UNCHANGED << ckpts, turn >>
               [] NeedsConversation(tx) /\ tx.kind # "undo" -> ReinstateCheckpoints
               [] OTHER -> ckpts' = Before(ckpts, tx.from) /\ turn' = tx.from
       \/ Fault /\ Failed("state") /\ pc' = "backDone" /\ UNCHANGED << ckpts, turn >>
    /\ UNCHANGED << diskVars, manifest, conv, lastUndo, cur, tx, todo, recoveryVars,
                    boundVars >>

\* Recovery leaves a manifest whose conversation it could not bring back; an
\* operation compensates its files all the same.
BackDone ==
    /\ pc = "backDone"
    /\ IF pass # 0 /\ failed # {} THEN Return
       ELSE Compensate /\ UNCHANGED << cur, tx, failed >>
    /\ UNCHANGED << diskVars, manifest, sessionVars, lastUndo, recoveryVars, boundVars, faults >>

\* What compensatePublished decides from the target it finds.
Untouched(f) == f \notin tx.published \/ disk[f] = tx.forward[f]

BetweenRenames_Unknown(f) == FALSE

\* The crash fell between the two renames of publishTarget.
BetweenRenames(f) ==
    /\ tx.forward[f] # Absent /\ disk[f] = Absent /\ bak[cur][f] = tx.forward[f]
    /\ Writes(tx, f) => << cur, f >> \in tmp

Foreign(f) == disk[f] # tx.restore[f]

DropTemp(f) == tmp' = tmp \ {<< cur, f >>}
NextTarget_Stays(f) == pc' = "compensate" /\ UNCHANGED todo
NextTarget(f) == todo' = todo \ {f} /\ pc' = "compensate"

\* Nothing to put back.
CompensateNothing(f) ==
    /\ Untouched(f)
    /\ DropTemp(f) /\ NextTarget(f) /\ UNCHANGED << disk, bak, failed >>

CompensateRename(f) ==
    /\ ~Untouched(f) /\ BetweenRenames(f)
    /\ Put(f, bak[cur][f]) /\ SetBackup(f, Absent)
    /\ DropTemp(f) /\ NextTarget(f) /\ UNCHANGED failed

\* Somebody else wrote the target: it stays, a recovery copy goes beside it and
\* the transaction stays pending.
CompensateForeign(f) ==
    /\ ~Untouched(f) /\ ~BetweenRenames(f) /\ Foreign(f)
    /\ Failed("files") /\ NextTarget(f) /\ UNCHANGED << disk, bak, tmp >>

CompensateRemove_Only(f) ==
    /\ ~Untouched(f) /\ ~BetweenRenames(f) /\ ~Foreign(f)
    /\ Put(f, Absent) /\ NextTarget(f)
    /\ UNCHANGED << tmp, bak, failed >>

\* The published image is removed first; a separate rename brings the forward
\* image back, from the backup or from its blob.
CompensateRemove(f) ==
    /\ ~Untouched(f) /\ ~BetweenRenames(f) /\ ~Foreign(f)
    /\ Put(f, Absent)
    /\ IF tx.forward[f] = Absent THEN NextTarget(f) ELSE pc' = "reinstate" /\ UNCHANGED todo
    /\ UNCHANGED << tmp, bak, failed >>

CompensateFile ==
    /\ pc = "compensate" /\ todo # {}
    /\ LET f == Greatest(todo)
       IN  \/ /\ NoFault
              /\ \/ CompensateNothing(f) \/ CompensateRename(f)
                 \/ CompensateForeign(f) \/ CompensateRemove(f)
           \/ /\ f \in tx.published
              /\ Fault /\ Failed("files") /\ NextTarget(f) /\ UNCHANGED << disk, bak, tmp >>
    /\ UNCHANGED << manifest, sessionVars, lastUndo, cur, tx, recoveryVars, boundVars >>

ReinstateFile ==
    /\ pc = "reinstate"
    /\ LET f == Greatest(todo)
       IN  /\ \/ /\ NoFault /\ UNCHANGED failed
                 /\ IF bak[cur][f] # Absent
                    THEN Put(f, bak[cur][f]) /\ SetBackup(f, Absent)
                    ELSE Put(f, tx.forward[f]) /\ UNCHANGED bak
              \/ Fault /\ Failed("files") /\ UNCHANGED << disk, bak >>
           /\ NextTarget(f)
    /\ UNCHANGED << tmp, manifest, sessionVars, lastUndo, cur, tx, recoveryVars, boundVars >>

\* A transaction whose compensation is incomplete stays committing.
Settle ==
    /\ \/ pc = "compensate" /\ todo = {}
       \/ pc = "settle"
    /\ \/ NoFault /\ Store(InState(IF failed = {} THEN "aborted" ELSE "committing"))
       \/ Fault /\ UNCHANGED manifest
    /\ Return
    /\ UNCHANGED << diskVars, sessionVars, lastUndo, recoveryVars, boundVars >>

-----------------------------------------------------------------------------
(* Crashes, reopening and recovery.                                         *)

Forget ==
    /\ lastUndo' = NoTx /\ cur' = NoTx /\ tx' = EmptyManifest
    /\ todo' = {} /\ failed' = {}

Crash ==
    /\ pc # "down" /\ crashes < MaxCrashes
    /\ crashes' = crashes + 1
    /\ pc' = "down" /\ pass' = 0 /\ queue' = {} /\ Forget
    /\ UNCHANGED << diskVars, manifest, sessionVars, nextTx, serial, reopens, edits, edited, faults >>

Manifests == { t \in TxIds : manifest[t].state # "none" }

\* checkpoint.New loads the checkpoints and runs recovery without a
\* conversation; the controller then runs it again with one.  Reopening happens
\* on a restart and whenever the session is switched to.
Open ==
    /\ pc' = "scan" /\ pass' = 1 /\ queue' = Manifests
    /\ turn' = NextTurn(ckpts) /\ Forget
    /\ UNCHANGED << diskVars, manifest, conv, ckpts, nextTx, serial, crashes, edits, edited, faults >>

Restart == pc = "down" /\ Open /\ UNCHANGED reopens

Reopen ==
    /\ pc = "idle" /\ reopens < MaxReopens
    /\ reopens' = reopens + 1 /\ Open

UndoneParents_ByState == {}

\* A parent that a committed undo names is undone, whatever its own manifest says.
UndoneParents ==
    { manifest[u].parent : u \in { t \in TxIds : /\ manifest[t].state = "committed"
                                                 /\ manifest[t].kind = "undo" } }

ScanNext(t) == queue # {} /\ t = Least(queue) /\ queue' = queue \ {t}

\* A prepared transaction published nothing.
RecoverPrepared(t) ==
    /\ manifest[t].state = "prepared"
    /\ tmp' = { p \in tmp : p[1] # t }
    /\ \/ NoFault /\ manifest' = [manifest EXCEPT ![t].state = "aborted"]
       \/ Fault /\ UNCHANGED manifest
    /\ UNCHANGED << lastUndo, cur, tx, pc, todo >>

RecoverCommitting_FilesOnly(t) ==
    /\ manifest[t].state = "committing"
    /\ NoFault
    /\ cur' = t /\ tx' = manifest[t] /\ pc' = "compensate" /\ todo' = tx'.targets
    /\ UNCHANGED << tmp, manifest, lastUndo >>

\* Without a conversation only file transactions can be compensated.
RecoverCommitting(t) ==
    /\ manifest[t].state = "committing"
    /\ NoFault
    /\ IF NeedsConversation(manifest[t])
       THEN IF pass = 1 THEN UNCHANGED << cur, tx, pc, todo >>
            ELSE /\ cur' = t /\ tx' = manifest[t]
                 /\ pc' = "backConv" /\ UNCHANGED todo
       ELSE /\ cur' = t /\ tx' = manifest[t]
            /\ pc' = "compensate" /\ todo' = tx'.targets
    /\ UNCHANGED << tmp, manifest, lastUndo >>

\* The newest committed rewind that no undo names becomes undoable again.
RecoverCommitted(t) ==
    /\ manifest[t].state \in {"committed", "aborted", "undone"}
    /\ NoFault
    /\ lastUndo' = IF manifest[t].state = "committed" /\ manifest[t].kind # "undo"
                      /\ t \notin UndoneParents
                   THEN t ELSE lastUndo
    /\ UNCHANGED << tmp, manifest, cur, tx, pc, todo >>

ScanManifest ==
    /\ pc = "scan"
    /\ \E t \in queue :
        /\ ScanNext(t)
        /\ RecoverPrepared(t) \/ RecoverCommitting(t) \/ RecoverCommitted(t)
    /\ UNCHANGED << disk, bak, sessionVars, failed, pass, boundVars >>

PassDone ==
    /\ pc = "scan" /\ queue = {}
    /\ IF pass = 1 THEN pass' = 2 /\ queue' = Manifests /\ UNCHANGED pc
                   ELSE pass' = 0 /\ pc' = "idle" /\ UNCHANGED queue
    /\ UNCHANGED << diskVars, manifest, sessionVars, lastUndo, opVars, boundVars, faults >>

-----------------------------------------------------------------------------
StartOperation ==
    \/ \E k \in DOMAIN ckpts, scope \in { {"files"}, {"conv"}, {"files", "conv"} } :
        StartRewind(k, scope)
    \/ \E f \in Files : StartFileRevert(f)
    \/ StartUndo

Commit ==
    \/ StageTemps \/ PersistPrepared \/ AttachForward \/ PersistUndoAgain \/ BeginCommit
    \/ PublishIntent \/ BackUpTarget \/ InstallTarget \/ PersistProgress \/ FilesDone
    \/ CutConversation \/ CutCheckpoints \/ RestoreConversation \/ RestoreCheckpoints
    \/ Finish \/ MarkUndone

Compensation ==
    \/ BackConversation \/ BackCheckpoints \/ BackDone
    \/ CompensateFile \/ ReinstateFile \/ Settle

Recovery == Restart \/ ScanManifest \/ PassDone

Next ==
    \/ Turn \/ ExternalEdit
    \/ StartOperation \/ Commit \/ Compensation
    \/ Crash \/ Reopen \/ Recovery

Spec == Init /\ [][Next]_vars

\* A running operation goes on, and so does recovery once the process is up.
\* Nothing obliges anybody to start the process again.
FairSpec == Spec /\ WF_vars(Commit \/ Compensation \/ ScanManifest \/ PassDone)

-----------------------------------------------------------------------------
(* Properties. *)

Steps ==
    { "idle", "stage", "prepare", "prepareAgain", "attach", "begin", "intent", "backup",
      "install", "progress", "cutConv", "cutCkpts", "restoreConv", "restoreCkpts",
      "finish", "markUndone", "backConv", "backCkpts", "backDone", "compensate",
      "reinstate", "settle", "scan", "down" }

CheckpointOK(c) ==
    /\ c.serial \in 1..MaxTurns /\ c.msgIndex \in 0..MaxTurns
    /\ DOMAIN c.pre \subseteq Files /\ DOMAIN c.after = DOMAIN c.pre
    /\ \A f \in DOMAIN c.pre : c.pre[f] \in Images /\ c.after[f] \in Images

CheckpointsOK(c) == \A t \in DOMAIN c : t \in 0..MaxTurns /\ CheckpointOK(c[t])

ManifestOK(m) ==
    /\ m.state \in {"none", "prepared", "committing", "committed", "aborted", "undone"}
    /\ m.kind \in {"rewind", "undo", "file_revert"}
    /\ m.scope \subseteq {"files", "conv"}
    /\ m.from \in 0..MaxTurns /\ m.boundary \in 0..MaxTurns
    /\ m.targets \subseteq Files /\ m.published \subseteq m.targets
    /\ m.restore \in [m.targets -> Images] /\ m.forward \in [m.targets -> Images]
    /\ m.hasConv \in {"yes", "no"} /\ m.fwdConv \in Seq(1..MaxTurns)
    /\ CheckpointsOK(m.backup)
    /\ m.parent \in TxIds \cup {NoTx}

\* The types of the session, the manifests and the running operation.
TypeOK ==
    /\ disk \in [Files -> Images]
    /\ tmp \subseteq TxIds \X Files
    /\ bak \in [TxIds -> [Files -> Images]]
    /\ \A t \in TxIds : ManifestOK(manifest[t])
    /\ conv \in Seq(1..MaxTurns) /\ CheckpointsOK(ckpts) /\ turn \in 0..MaxTurns
    /\ lastUndo \in TxIds \cup {NoTx} /\ cur \in TxIds \cup {NoTx}
    /\ pc \in Steps /\ ManifestOK(tx) /\ todo \subseteq tx.targets
    /\ failed \subseteq {"state", "files"}
    /\ pass \in 0..2 /\ queue \subseteq TxIds
    /\ edited \subseteq Files

\* Where a transaction that is aborted, or committed, must leave the session.
ConversationForward(m) == conv = m.fwdConv /\ \A t \in DOMAIN m.backup : ckpts[t] = m.backup[t]
ConversationBack(m) ==
    conv = Cut(m.fwdConv, m.boundary) /\ \A t \in DOMAIN ckpts : t < m.from

\* Files edited from outside answer to whoever edited them.
FilesAt(images) == \A f \in DOMAIN images \ edited : disk[f] = images[f]

AtStart(m) ==
    /\ FilesAt(m.forward)
    /\ NeedsConversation(m) => IF m.kind = "undo" THEN ConversationBack(m)
                                                 ELSE ConversationForward(m)
AtEnd(m) ==
    /\ FilesAt(m.restore)
    /\ NeedsConversation(m) => IF m.kind = "undo" THEN ConversationForward(m)
                                                 ELSE ConversationBack(m)

\* All or nothing: a transaction becomes committed only when files, conversation
\* and checkpoints are where it takes them, and aborted only when they are back
\* where they were, whatever failed or crashed in between.
AllOrNothing ==
    [][\A t \in TxIds :
        /\ manifest[t].state = "committing" /\ manifest'[t].state = "committed"
              => AtEnd(manifest[t])'
        /\ manifest[t].state = "committing" /\ manifest'[t].state = "aborted"
              => AtStart(manifest[t])']_vars

Unsettled(t) == manifest[t].state \in {"prepared", "committing"}

\* Recovery settles: when it ends, no transaction is left half-applied.
RecoverySettles ==
    [][pass # 0 /\ pc' = "idle" => \A t \in TxIds : ~Unsettled(t)]_vars

\* A file is moved away only under a durable intent, so that the manifest alone
\* tells recovery which targets may not be what they were.
IntentIsDurable ==
    \A t \in TxIds : \A f \in Files : bak[t][f] # Absent => f \in manifest[t].published

\* A committed undo names t as its parent.
Reverted(t) ==
    \E u \in TxIds :
        manifest[u].state = "committed" /\ manifest[u].kind = "undo" /\ manifest[u].parent = t

UndoIsOffered(t) == pc = "idle" /\ lastUndo = t /\ t # NoTx

\* The transaction offered for undo is a committed one that no undo reverted,
\* even if the process failed or crashed before the parent was marked undone.
UndoneNeverOffered ==
    \A t \in TxIds : UndoIsOffered(t) => manifest[t].state = "committed" /\ ~Reverted(t)

\* What is on disk can be relied upon after a crash: it is well-formed, names
\* every file that was moved, and offers no undo a second time.
ManifestsAreSound == TypeOK /\ IntentIsDurable /\ UndoneNeverOffered

\* "New turn invalidates undo": the transaction offered for undo left the
\* conversation as it is now.
UndoIsCurrent ==
    \A t \in TxIds : UndoIsOffered(t) /\ manifest[t].hasConv = "yes" =>
        conv = IF NeedsConversation(manifest[t])
               THEN Cut(manifest[t].fwdConv, manifest[t].boundary)
               ELSE manifest[t].fwdConv

Running == pc \notin {"idle", "down"}

\* Every operation and every recovery ends, unless the process dies: no
\* combination of failures, crashes and edits makes one hang or loop.
OperationsEnd == Running ~> ~Running

-----------------------------------------------------------------------------
(* The refinement: while a transaction is committing, the session is still   *)
(* where it was before it, whatever its files and its conversation look like. *)

Committing == { t \in TxIds : manifest[t].state = "committing" }
CommittingConv == { t \in Committing : NeedsConversation(manifest[t]) }

EffectiveFiles ==
    [ f \in Files |->
        LET holding == { t \in Committing : f \in manifest[t].targets }
        IN  IF holding = {} THEN disk[f] ELSE manifest[Greatest(holding)].forward[f] ]

EffectiveConv ==
    IF CommittingConv = {} THEN conv
    ELSE LET m == manifest[Greatest(CommittingConv)]
         IN  IF m.kind = "undo" THEN Cut(m.fwdConv, m.boundary) ELSE m.fwdConv

EffectiveCheckpoints ==
    IF CommittingConv = {} THEN ckpts
    ELSE LET m == manifest[Greatest(CommittingConv)]
         IN  IF m.kind = "undo" THEN Before(ckpts, m.from) ELSE Merge(ckpts, m.backup)

Completed == { t \in TxIds : manifest[t].state \in {"committed", "undone"} /\ manifest[t].kind # "undo" }

CompletedLog ==
    [ t \in Completed |->
        [ undone |-> IF Reverted(t) THEN "yes" ELSE "no",
          to |-> manifest[t].restore, was |-> manifest[t].forward,
          dropped |-> manifest[t].backup,
          chat |-> IF manifest[t].hasConv = "yes" THEN {manifest[t].fwdConv} ELSE {} ] ]

Atomic == INSTANCE AtomicRewind
    WITH Ids <- TxIds, files <- EffectiveFiles, chat <- EffectiveConv,
         points <- EffectiveCheckpoints, sent <- serial, log <- CompletedLog

\* Rewinds, reverts and undos are atomic: every step is a step of AtomicRewind or
\* leaves the session, as a recovered process would see it, unchanged.
ImplementsAtomicRewind == Atomic!Spec
=============================================================================
