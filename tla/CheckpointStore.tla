--------------------------- MODULE CheckpointStore ---------------------------
(***************************************************************************)
(* The checkpoint store of internal/checkpoint: one checkpoint per user    *)
(* turn, which holds the first image of each file a tool is about to       *)
(* change (the preimage) and the last image the tools left (the after      *)
(* fingerprint), the coverage gaps, the payloads in a content-addressed    *)
(* blob store, retention and garbage collection, and what a rewind makes   *)
(* of all that.                                                            *)
(*                                                                         *)
(*   - Foreground: tool-call goroutines of the running turn;               *)
(*   - Background: sub-agents that may outlive the turn that spawned them. *)
(*                                                                         *)
(* A capture reads the file and stores its blob outside Store.mu and       *)
(* records the result under it, in two actions.  A rewind is one step      *)
(* here: RewindTransaction shows how it becomes one.  A content is a       *)
(* number; every write makes a new one.  Turns are numbered from 1.        *)
(*                                                                         *)
(* Operators named Operation_Fault are mutants of Operation.               *)
(***************************************************************************)
EXTENDS Naturals, FiniteSets, FiniteSetsExt

CONSTANTS
    Files,          \* workspace files
    Foreground,     \* tool-call goroutines of the foreground agent
    Background,     \* background sub-agents
    RetainN,        \* Store.retainN
    BlobQuota,      \* Store.blobQuota, in blobs
    MaxTurns,       \* bound: turn numbers
    MaxWrites,      \* bound: writes of tools
    MaxEdits,       \* bound: edits by the user
    MaxFaults,      \* bound: failing writes of checkpoint files
    MaxCrashes      \* bound: restarts

ASSUME StoreAssumption ==
    /\ IsFiniteSet(Files) /\ Foreground \cap Background = {}
    /\ RetainN \in Nat \ {0} /\ BlobQuota \in Nat
    /\ MaxTurns \in Nat /\ MaxWrites \in Nat /\ MaxEdits \in Nat
    /\ MaxFaults \in Nat /\ MaxCrashes \in Nat

Callers == Foreground \cup Background
Turns == 1..MaxTurns
Absent == 0                             \* the content of a file that does not exist
Unknown == MaxWrites + MaxEdits + 2     \* no after fingerprint was recorded
Contents == 0..(MaxWrites + MaxEdits + 1)

VARIABLES
    disk,           \* the workspace: the content of each file
    ckpts,          \* Store.done and Store.cur, by turn
    cur,            \* the turn of Store.cur, 0 if it is nil
    saved,          \* the turn files on disk, by turn
    blobs,          \* BlobStore: the contents it holds
    pinned,         \* the contents named by transaction manifests on disk
    turn,           \* checkpointManager.turn: the number of the next turn
    running,        \* a turn runs
    step,           \* where each caller is
    target,         \* the file of its call
    image,          \* the content its capture read
    spawned,        \* the turn that spawned each background sub-agent, 0 if none
    before,         \* history: << turn, file, content before the first tool call on it >>
    untracked,      \* history: turns in which a write went unobserved
    edited,         \* history: files the user changed after the last call on them
    writes, edits, faults, crashes      \* how much of each bound is used

storeVars == << ckpts, cur, saved, faults >>
blobVars == << blobs, pinned >>
callVars == << step, target, image >>
history == << before, untracked, edited >>
counters == << writes, edits, crashes >>
vars == << disk, storeVars, blobVars, turn, running, callVars, spawned, history, counters >>

Existing(S) == S \ {Absent}
NewContent == writes + edits + 2

\* The map m with v at x.
With(m, x, v) == [y \in DOMAIN m \cup {x} |-> IF y = x THEN v ELSE m[y]]

EmptyCheckpoint == [snaps |-> << >>, gap |-> FALSE, expired |-> FALSE]

Init ==
    /\ disk \in [Files -> {Absent, 1}]
    /\ ckpts = << >> /\ saved = << >> /\ cur = 0
    /\ blobs = {} /\ pinned = {}
    /\ turn = 1 /\ running = FALSE
    /\ step = [c \in Callers |-> "idle"]
    /\ target \in { t \in [Callers -> Files] : \A c, d \in Callers : t[c] = t[d] }
    /\ image = [c \in Callers |-> Absent]
    /\ spawned = [b \in Background |-> 0]
    /\ before = {} /\ untracked = {} /\ edited = {}
    /\ writes = 0 /\ edits = 0 /\ faults = 0 /\ crashes = 0

-----------------------------------------------------------------------------
(* What the store computes from its checkpoints. *)

From(t) == { u \in DOMAIN ckpts : u >= t }
TurnsWith(f, t) == { u \in From(t) : f \in DOMAIN ckpts[u].snaps }

\* The files captured in turn t or later.
FilesFrom(t) == { f \in Files : TurnsWith(f, t) # {} }

\* The earliest preimage with the latest after fingerprint.
EarliestRevision_LatestPreimage(f, t) == ckpts[Max(TurnsWith(f, t))].snaps[f]
EarliestRevision(f, t) ==
    [pre |-> ckpts[Min(TurnsWith(f, t))].snaps[f].pre,
     after |-> ckpts[Max(TurnsWith(f, t))].snaps[f].after]

Expired(t) == \E u \in From(t) : ckpts[u].expired

\* The coverage of a rewind to t: complete if some file was captured and no gap recorded.
CoverageComplete_FirstTurn(t) ==
    /\ FilesFrom(t) # {} /\ ~Expired(t)
    /\ ~ckpts[t].gap
CoverageComplete(t) ==
    /\ FilesFrom(t) # {} /\ ~Expired(t)
    /\ \A u \in From(t) : ~ckpts[u].gap

\* CompareIdentity: the file is not what the tools left.  A batch rewind takes
\* a file without after fingerprint for unchanged.
Conflicts(f, t) ==
    LET after == EarliestRevision(f, t).after
    IN  after # Unknown /\ after # disk[f]

\* PrepareRewind offers the files of a rewind to t.
PlanHasFiles(t) ==
    /\ FilesFrom(t) # {} /\ ~Expired(t)
    /\ \A f \in FilesFrom(t) : ~Conflicts(f, t)

\* PrepareFileRevert: without conflict to resolve; here no fingerprint is a refusal.
RevertIsClean_BatchRule(f) ==
    /\ FilesFrom(0) # {} /\ f \in FilesFrom(0)
    /\ ~Conflicts(f, 0)
RevertIsClean(f) ==
    /\ f \in FilesFrom(0) /\ ~ckpts[Min(TurnsWith(f, 0))].expired
    /\ EarliestRevision(f, 0).after = disk[f]

\* The workspace after a rewind of the files to t.
Restored(t) ==
    [f \in Files |-> IF f \in FilesFrom(t) THEN EarliestRevision(f, t).pre ELSE disk[f]]

\* What the staged restore files need from the blob store.
PayloadsOf(t) == Existing({ EarliestRevision(f, t).pre : f \in FilesFrom(t) })

-----------------------------------------------------------------------------
(* Persistence and garbage collection. *)

\* The checkpoints of the turns U are written to disk.
Saving(m, U) == [u \in DOMAIN saved \cup U |-> IF u \in U THEN m[u] ELSE saved[u]]

\* persistBestEffort: a failed write is logged and forgotten.
Persist(u) ==
    \/ saved' = Saving(ckpts', {u}) /\ UNCHANGED faults
    \/ faults < MaxFaults /\ faults' = faults + 1 /\ UNCHANGED saved

Expire(m, S) ==
    [u \in DOMAIN m |->
        IF u \in S THEN [snaps |-> m[u].snaps, gap |-> TRUE, expired |-> TRUE] ELSE m[u]]

WithFiles(m) == { u \in DOMAIN m : DOMAIN m[u].snaps # {} }
Overdue(m) == { u \in WithFiles(m) : Cardinality({ v \in WithFiles(m) : v > u }) >= RetainN }
Oldest(S, k) == { u \in S : Cardinality({ v \in S : v < u }) < k }

Payloads(c) == IF c.expired THEN {} ELSE Existing({ c.snaps[f].pre : f \in DOMAIN c.snaps })

\* pruneBlobsLocked keeps what a checkpoint or a manifest refers to.
Live_NoManifests(m) == UNION { Payloads(m[u]) : u \in DOMAIN m }
Live(m) == pinned \cup UNION { Payloads(m[u]) : u \in DOMAIN m }

\* gcLocked: first all but the newest RetainN checkpoints with files lose their
\* payloads, then the oldest ones until the blobs fit the quota.
Collect(m) ==
    LET retained == Expire(m, Overdue(m))
        kept == IF Overdue(m) = {} THEN blobs ELSE blobs \cap Live(retained)
        rest == { u \in WithFiles(m) : ~retained[u].expired }
        left(k) == IF k = 0 THEN kept ELSE kept \cap Live(Expire(retained, Oldest(rest, k)))
        n == Cardinality(rest)
        k == Min({ i \in 0..n : Cardinality(left(i)) <= BlobQuota } \cup {n})
    IN  [ckpts |-> Expire(retained, Oldest(rest, k)), blobs |-> left(k)]

\* If nothing can be written nothing expires, but a sweep may run for older turns.
CollectNothing(m) ==
    [ckpts |-> m,
     blobs |-> IF \E u \in Overdue(m) : m[u].expired THEN blobs \cap Live(m) ELSE blobs]

-----------------------------------------------------------------------------
(* Turns. *)

ForegroundIdle == \A c \in Foreground : step[c] = "idle"

\* A background sub-agent of an earlier turn is noted as a gap, in the
\* checkpoint that is current: the one of the turn that ended.
NoteCrossTurnBackgroundWriter ==
    IF cur # 0 /\ \E b \in Background : spawned[b] # 0
    THEN [ckpts EXCEPT ![cur].gap = TRUE]
    ELSE ckpts

\* beginWithObserver and Store.Begin: the note, the new checkpoint, its file, and
\* garbage collection.
Begin ==
    /\ ~running /\ turn <= MaxTurns
    /\ LET opened == With(NoteCrossTurnBackgroundWriter, turn, EmptyCheckpoint)
           done == Collect(opened)
           idle == CollectNothing(opened)
       IN \/ /\ ckpts' = done.ckpts /\ blobs' = done.blobs
             /\ saved' = Saving(ckpts', {turn} \cup
                    { u \in DOMAIN ckpts : done.ckpts[u] # ckpts[u] })
             /\ UNCHANGED faults
          \/ /\ faults < MaxFaults /\ faults' = faults + 1
             /\ ckpts' = idle.ckpts /\ blobs' = idle.blobs
             /\ UNCHANGED saved
    /\ cur' = turn /\ turn' = turn + 1
    /\ running' = TRUE
    /\ UNCHANGED << disk, pinned, callVars, spawned, history, counters >>

EndTurn ==
    /\ running /\ ForegroundIdle
    /\ running' = FALSE
    /\ UNCHANGED << disk, storeVars, blobVars, turn, callVars, spawned, history, counters >>

Spawn(b) ==
    /\ running /\ spawned[b] = 0
    /\ spawned' = [spawned EXCEPT ![b] = cur]
    /\ UNCHANGED << disk, storeVars, blobVars, turn, running, callVars, history, counters >>

Finish(b) ==
    /\ spawned[b] # 0 /\ step[b] = "idle"
    /\ spawned' = [spawned EXCEPT ![b] = 0]
    /\ UNCHANGED << disk, storeVars, blobVars, turn, running, callVars, history, counters >>

-----------------------------------------------------------------------------
(* Tool calls.  Write claims keep two calls off one file. *)

InTurn(c) == IF c \in Foreground THEN running ELSE spawned[c] # 0
Busy(f) == \E c \in Callers : step[c] = "bash" \/ (step[c] # "idle" /\ target[c] = f)
MayCall(c) == step[c] = "idle" /\ InTurn(c)

\* CaptureBeforeFromChange reads the file and puts its blob, without a lock ...
CaptureReads(c, f) ==
    /\ MayCall(c) /\ ~Busy(f)
    /\ step' = [step EXCEPT ![c] = "read"]
    /\ target' = [target EXCEPT ![c] = f]
    /\ image' = [image EXCEPT ![c] = disk[f]]
    /\ blobs' = blobs \cup Existing({disk[f]})
    /\ UNCHANGED << disk, storeVars, pinned, turn, running, spawned, history, counters >>

\* ... and records them, if this is the first capture of the file in the turn.
CaptureRecords(c) ==
    /\ step[c] = "read"
    /\ step' = [step EXCEPT ![c] = "captured"]
    /\ IF cur # 0 /\ target[c] \notin DOMAIN ckpts[cur].snaps
       THEN /\ ckpts' = [ckpts EXCEPT ![cur].snaps =
                    With(@, target[c], [pre |-> image[c], after |-> Unknown])]
            /\ Persist(cur)
       ELSE UNCHANGED << ckpts, saved, faults >>
    /\ UNCHANGED << disk, cur, blobVars, turn, running, target, image, spawned, history, counters >>

\* The tool is called; it writes the file, or fails and leaves it.
Attempt(f) ==
    before' = IF \E x \in Contents : << cur, f, x >> \in before
              THEN before ELSE before \cup {<< cur, f, disk[f] >>}

ToolWrites(c) ==
    /\ step[c] = "captured" /\ writes < MaxWrites
    /\ disk' = [disk EXCEPT ![target[c]] = NewContent]
    /\ writes' = writes + 1
    /\ step' = [step EXCEPT ![c] = "called"]
    /\ Attempt(target[c])
    /\ UNCHANGED << storeVars, blobVars, turn, running, target, image, spawned, untracked, edited,
                    edits, crashes >>

ToolFails(c) ==
    /\ step[c] = "captured"
    /\ step' = [step EXCEPT ![c] = "called"]
    /\ Attempt(target[c])
    /\ UNCHANGED << disk, storeVars, blobVars, turn, running, target, image, spawned, untracked,
                    edited, counters >>

\* CaptureAfter, success or failure: the content found belongs to the tools, in the
\* current checkpoint if that captured the file, else in the newest one that did.
CaptureAfter_OldestOwner(c) ==
    LET f == target[c]
    IN  /\ step[c] = "called"
        /\ step' = [step EXCEPT ![c] = "idle"]
        /\ TurnsWith(f, 0) # {}
        /\ ckpts' = [ckpts EXCEPT ![Min(TurnsWith(f, 0))].snaps[f].after = disk[f]]
        /\ Persist(Min(TurnsWith(f, 0)))
        /\ edited' = edited \ {f}
        /\ UNCHANGED << disk, cur, blobVars, turn, running, target, image, spawned, before,
                        untracked, counters >>

CaptureAfter(c) ==
    LET f == target[c]
        owner == Max(TurnsWith(f, 0))
    IN  /\ step[c] = "called"
        /\ step' = [step EXCEPT ![c] = "idle"]
        /\ IF TurnsWith(f, 0) # {}
           THEN /\ ckpts' = [ckpts EXCEPT ![owner].snaps[f].after = disk[f]]
                /\ Persist(owner)
           ELSE UNCHANGED << ckpts, saved, faults >>
        /\ edited' = edited \ {f}
        /\ UNCHANGED << disk, cur, blobVars, turn, running, target, image, spawned, before,
                        untracked, counters >>

\* A shell command, or a tool whose targets are not known: RecordGap, which does
\* nothing if the same gap is there ...
BashStarts(c) ==
    /\ MayCall(c) /\ \A d \in Callers : step[d] = "idle"
    /\ step' = [step EXCEPT ![c] = "bash"]
    /\ ckpts' = IF cur # 0 THEN [ckpts EXCEPT ![cur].gap = TRUE] ELSE ckpts
    /\ \/ cur # 0 /\ Persist(cur)
       \/ ckpts' = ckpts /\ UNCHANGED << saved, faults >>
    /\ UNCHANGED << disk, cur, blobVars, turn, running, target, image, spawned, history, counters >>

\* ... and then it changes any file.
BashWrites(c, f) ==
    /\ step[c] = "bash" /\ writes < MaxWrites
    /\ disk' = [disk EXCEPT ![f] = NewContent]
    /\ writes' = writes + 1
    /\ untracked' = untracked \cup {cur}
    /\ UNCHANGED << storeVars, blobVars, turn, running, callVars, spawned, before, edited, edits,
                    crashes >>

BashEnds(c) ==
    /\ step[c] = "bash"
    /\ step' = [step EXCEPT ![c] = "idle"]
    /\ UNCHANGED << disk, storeVars, blobVars, turn, running, target, image, spawned, history,
                    counters >>

-----------------------------------------------------------------------------
(* Rewinds: no turn, no call and no background writer runs. *)

Quiet == ~running /\ (\A c \in Callers : step[c] = "idle") /\ (\A b \in Background : spawned[b] = 0)

\* The files are staged from the blobs and published; the manifest pins both images.
RestoreFiles(t) ==
    /\ PayloadsOf(t) \subseteq blobs
    /\ LET both == PayloadsOf(t) \cup Existing({ disk[f] : f \in FilesFrom(t) })
       IN  pinned' = pinned \cup both /\ blobs' = blobs \cup both
    /\ disk' = Restored(t)
    /\ edited' = edited \ FilesFrom(t)

TruncateFrom_KeepsNumbers(t) ==
    LET earlier(m) == [u \in { v \in DOMAIN m : v < t } |-> m[u]]
    IN  /\ ckpts' = earlier(ckpts) /\ UNCHANGED << saved, cur >>
        /\ turn' = t
        /\ before' = { w \in before : w[1] < t }
        /\ untracked' = { u \in untracked : u < t }
        /\ UNCHANGED faults

\* TruncateFrom, the checkpoint manager's after the store's: the turns from t
\* on are dropped and their numbers used again.
TruncateFrom(t) ==
    LET earlier(m) == [u \in { v \in DOMAIN m : v < t } |-> m[u]]
    IN  /\ ckpts' = earlier(ckpts) /\ saved' = earlier(saved)
        /\ cur' = IF cur >= t THEN 0 ELSE cur
        /\ turn' = t
        /\ before' = { w \in before : w[1] < t }
        /\ untracked' = { u \in untracked : u < t }
        /\ UNCHANGED faults

RewindCode(t) ==
    /\ Quiet /\ t \in DOMAIN ckpts
    /\ PlanHasFiles(t)
    /\ RestoreFiles(t)
    /\ UNCHANGED << storeVars, turn, running, callVars, spawned, before, untracked, counters >>

RewindConversation(t) ==
    /\ Quiet /\ t \in DOMAIN ckpts
    /\ TruncateFrom(t)
    /\ UNCHANGED << disk, blobVars, running, callVars, spawned, edited, counters >>

\* Without captured files the file half of a combined rewind does nothing.
RewindBoth(t) ==
    /\ Quiet /\ t \in DOMAIN ckpts
    /\ TruncateFrom(t)
    /\ IF FilesFrom(t) = {}
       THEN UNCHANGED << disk, blobVars, edited >>
       ELSE PlanHasFiles(t) /\ RestoreFiles(t)
    /\ UNCHANGED << running, callVars, spawned, counters >>

-----------------------------------------------------------------------------
(* The environment. *)

\* The user changes or creates a file on which no call is under way.
ManualEdit(f) ==
    /\ edits < MaxEdits /\ ~Busy(f)
    /\ disk' = [disk EXCEPT ![f] = NewContent]
    /\ edits' = edits + 1
    /\ edited' = edited \cup {f}
    /\ UNCHANGED << storeVars, blobVars, turn, running, callVars, spawned, before, untracked,
                    writes, crashes >>

\* NextTurn: one past the highest turn there is.
NextTurn_Count(S) == Cardinality(S) + 1
NextTurn(S) == Max(S \cup {0}) + 1

\* The process ends; a new one loads the turn files.
Restart ==
    /\ crashes < MaxCrashes /\ crashes' = crashes + 1
    /\ ckpts' = saved /\ cur' = 0
    /\ turn' = NextTurn(DOMAIN saved)
    /\ running' = FALSE
    /\ step' = [c \in Callers |-> "idle"]
    /\ spawned' = [b \in Background |-> 0]
    /\ UNCHANGED << disk, saved, blobVars, target, image, history, writes, edits, faults >>

CallNext(c) ==
    \/ \E f \in Files : CaptureReads(c, f) \/ BashWrites(c, f)
    \/ CaptureRecords(c) \/ ToolWrites(c) \/ ToolFails(c) \/ CaptureAfter(c)
    \/ BashStarts(c) \/ BashEnds(c)

Next ==
    \/ Begin \/ EndTurn
    \/ \E c \in Callers : CallNext(c)
    \/ \E b \in Background : Spawn(b) \/ Finish(b)
    \/ \E t \in Turns : RewindCode(t) \/ RewindConversation(t) \/ RewindBoth(t)
    \/ \E f \in Files : ManualEdit(f)
    \/ Restart

Spec == Init /\ [][Next]_vars

-----------------------------------------------------------------------------
(* Properties. *)

Snaps == [pre : Contents, after : Contents \cup {Unknown}]
Checkpoint(c) ==
    /\ DOMAIN c = {"snaps", "gap", "expired"}
    /\ DOMAIN c.snaps \subseteq Files
    /\ \A f \in DOMAIN c.snaps : c.snaps[f] \in Snaps
    /\ c.gap \in BOOLEAN /\ c.expired \in BOOLEAN

\* The types of the store, the calls and the counters.
TypeOK ==
    /\ disk \in [Files -> Contents]
    /\ DOMAIN ckpts \subseteq Turns /\ DOMAIN saved \subseteq Turns
    /\ \A u \in DOMAIN ckpts : Checkpoint(ckpts[u])
    /\ \A u \in DOMAIN saved : Checkpoint(saved[u])
    /\ cur \in {0} \cup DOMAIN ckpts
    /\ blobs \subseteq Contents /\ pinned \subseteq Contents
    /\ turn \in 1..(MaxTurns + 1) /\ running \in BOOLEAN
    /\ step \in [Callers -> {"idle", "read", "captured", "called", "bash"}]
    /\ target \in [Callers -> Files] /\ image \in [Callers -> Contents]
    /\ spawned \in [Background -> 0..MaxTurns]
    /\ before \subseteq Turns \X Files \X Contents
    /\ untracked \subseteq Turns /\ edited \subseteq Files
    /\ writes \in 0..MaxWrites /\ edits \in 0..MaxEdits
    /\ faults \in 0..MaxFaults /\ crashes \in 0..MaxCrashes

\* A rewind of the files to t is offered and would be accepted.
Offered(t) == Quiet /\ t \in DOMAIN ckpts /\ PlanHasFiles(t)

\* What f held before the first tool call on it in turn t or later.
Undone(t) ==
    \A f \in Files :
        LET since == { w \in before : w[1] >= t /\ w[2] = f }
            first == Min({ w[1] : w \in since })
        IN  since # {} => << first, f, Restored(t)[f] >> \in since

\* "Undo all edits made at or after turn": whatever turns, failed calls, edits
\* of the user and rewinds came before, a rewind that is offered returns every
\* file the tools touched since to what it held before they did.
EditsAreUndone == \A t \in Turns : Offered(t) => Undone(t)

\* Complete coverage is complete: no write that the rewind does not undo was
\* made in the turns it covers, by shell commands or by background writers.
CompleteIsComplete ==
    \A t \in Turns : Offered(t) /\ CoverageComplete(t) =>
        Undone(t) /\ untracked \cap From(t) = {}

\* A file the user changed after the last tool call on it is not overwritten: the
\* plan has a conflict.
ManualEditsConflict ==
    \A t \in Turns : Offered(t) => \A f \in edited : Restored(t)[f] = disk[f]

\* A rewind that is offered is exact: it undoes all that the tools did since, and
\* nothing that the user did.
RewindIsExact == TypeOK /\ EditsAreUndone /\ ManualEditsConflict

\* Nor does the revert of a single file, offered without a conflict to resolve,
\* overwrite what the user wrote.
RevertSeesManualEdits ==
    \A f \in edited : Quiet /\ RevertIsClean(f) => EarliestRevision(f, 0).pre = disk[f]

\* A checkpoint whose payload has not expired can be restored, and so can the
\* rewinds that were made: the sweep never removes a blob that a checkpoint, in
\* memory or in the file a restart would load, or a manifest still names.
PayloadsKept ==
    /\ \A u \in DOMAIN ckpts : Payloads(ckpts[u]) \subseteq blobs
    /\ \A u \in DOMAIN saved : Payloads(saved[u]) \subseteq blobs
    /\ pinned \subseteq blobs

\* A new turn takes a number no checkpoint has, also after a restart which
\* found fewer checkpoints than there were.
NumbersAreFresh == \A u \in DOMAIN ckpts \cup DOMAIN saved : u < turn
=============================================================================
