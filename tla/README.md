# Verification of Reasonix: TLA+ models, TLC runs and TLAPS proofs

This directory holds a formal model of the parts of Reasonix (the Go program under
`src/`) whose correctness depends on interleavings, crashes and failing steps. It
starts where a mistake costs most, the machinery that rewinds a user's files and
conversation, and grows from there along the plan below.

Everything is translated from the source. A definition's place in the code is in
`PROJECT.json` under `map`; what a property guards against is there under `hazards`.

## 1. The system

Reasonix is a coding agent. A *controller* (`internal/control`) owns one session: it
admits user turns, drives the *agent loop* (`internal/agent`), which calls a model
and executes tools, asks for approvals, and keeps the conversation on disk. Tools
change files of the workspace. Before each change the *checkpoint store*
(`internal/checkpoint`) captures the file, so that the user can later rewind to the
start of any turn.

| Component | State it keeps | Operations | Hard behaviour | What makes it correct |
|---|---|---|---|---|
| Mutation barrier, writer registry (`checkpoint/barrier.go`, `observer.go`) | writer count, exclusive flag, generation; registered background writers | EnterWrite/ExitWrite, TryEnterExclusive/ExitExclusive, RegisterWriter/UnregisterWriter | tool calls, background sub-agents and rewinds on many goroutines; a lock held across a blocking call; stale plans | exclusion, exact count, a commit acts on what its preview saw, waiters get in |
| Rewind transactions (`checkpoint/transaction.go`, `control/rewind.go`) | manifests, publish temporaries, backups, undo slot | prepare, commit, undo, revert one file, recover | failure of any step, crash between any two, edits from outside, recovery in two passes | all or nothing, recovery settles, undo is current, no turn is lost |
| Checkpoint store (`checkpoint/checkpoint.go`, `capture.go`, `blob.go`) | checkpoints per turn, fingerprints, blobs | Begin, CaptureBefore/After, TruncateFrom, garbage collection | captures outside the lock, late captures, retention boundary | earliest preimage and last owned image are the right ones; live blobs survive |
| Controller (`control/controller.go`) | running turn, rotation flag, session path and revision, queues | Submit, Cancel, rotation, Resume, rebind of checkpoints | turns against rotations, cancellation against completion | one turn or one rotation at a time; nothing queued is lost |
| Approvals (`control/approval.go`) and permissions | pending requests, posture | ask, answer, cancel, switch posture | late answers, drains while the waiter unwinds | nobody waits for a prompt that is gone |
| Background jobs (`jobs`) | jobs by session, reservations, notes, metadata and evidence on disk | start, finish, kill, wait, load, destroy a session | completion against kill and rebuild, limits, failed writes | what a job changed is reviewed; its end is told once; limits hold |
| Workspace lease (`workspacelease`, `filelock`) | runs, background count, acquired, acquiring | BeginRun/EndRun, acquire, release | re-entrant owner over a cross-process lock, waiting with cancellation | one owner at a time; released when the last user leaves |
| Session persistence (`agent/save.go`, `session_events.go`, `branch.go`) | transcript, event log, checkpoint, ledger, recovery branches | append, rewrite, load, adopt, fork | failed or torn writes, two runtimes without a lease | what was saved stays loadable, what was removed stays removed |
| Sub-agent scheduler (`agent/scheduler.go`, `write_claims.go`) | slots, write claims, queue | acquire, release, reserve a parent's write | nesting, cancellation against wake-up | conflicting writers never overlap; no slot leaks; the queue drains |
| Recovery gate (`recovery`) | failure classes, budgets | observe, decide, restore | restart with a persisted gate | a gate that stops a failing tool also lets it go on |
| Repair (`repair/transaction.go`, `config.go`, `derived.go`) | journal, undo state, backups, lock | plan, apply, undo, reconcile | crash between journal, move and record; writes behind the lock | no content is destroyed; the journal settles; an undo restores |
| Self-update (`repair/update.go`, `installlayout`) | update journal, snapshots, lock | plan, apply, confirm, roll back | crash between two moves, rollback of a rollback | one runnable version at any moment |
| Providers, MCP client, ACP server, bot gateways | connections, queues | requests, retries, reconnect | lost and repeated messages | bounded retries; delivery order |

The remaining packages (configuration, parsing, rendering, reporting, packaging,
the desktop and web front-ends, SDKs) load, format or display; they are listed in
`PROJECT.json` as not modelled, with the reason.

How the first three interact: a turn calls `Store.Begin`, its tools enter the barrier,
capture, write and leave. `PrepareRewind` reads the barrier's generation into the plan
and judges the files; `CommitRewind` takes the barrier exclusively, refuses a plan
whose generation is old, and runs a transaction, which calls back into the controller
(`ConversationApplier`) for the conversation and back into the store for the
checkpoints. Reopening a session creates a new store, whose constructor recovers the
file-only manifests; the controller then recovers the others once the conversation is
loaded.

The others: the controller admits a turn, which asks the *workspace lease* for the right to
write and the *scheduler* for a slot before it starts a sub-agent, in the foreground or as a
*background job*. A job retains the lease until it ends; its receipts come back to the
ledger of a later turn. What the turn added to the conversation the controller stores by
the *session store*, from a goroutine of its own while the turn goes on. *Repair* runs in
other processes, before a desktop session starts or on request.

## 2. Modules

| Module | Models | Extends / instantiates |
|---|---|---|
| `MutationBarrier` | the barrier, the registry and their clients | |
| `AtomicRewind` | what rewinding promises: one step per operation | |
| `RewindTransaction` | how it is done: manifests, renames, compensation, recovery | instantiates `AtomicRewind` |
| `RewindTransactionProofs` | the proofs about it | `RewindTransaction`, `TLAPS` |
| `MCRewindTransaction` | symmetry for TLC | `RewindTransaction` |
| `CheckpointStore` | what a rewind has to work with: captures, gaps, payloads, retention, restarts | |
| `CheckpointStoreProofs` | the proofs about it | `CheckpointStore`, `TLAPS` |
| `WorkspaceLease` | the write lease shared by runs and background jobs, over a token and a lock file | |
| `MCWorkspaceLease` | which run belongs to which session and process | `WorkspaceLease` |
| `WorkspaceProofs` | the proofs about the two locks on a workspace, the barrier and the lease | `MutationBarrier`, `WorkspaceLease`, `TLAPS` |
| `Controller` | turns, parked inputs, steers, prompts, rotation, cancellation, close | |
| `ControllerProofs` | the proofs about it | `Controller`, `TLAPS` |
| `MCController` | the constants of its run | `Controller` |
| `BackgroundJobs` | the job table with its files, and the turns that review what jobs changed | |
| `BackgroundJobsProofs` | the proofs about it | `BackgroundJobs`, `TLAPS` |
| `MCBackgroundJobs` | the three scenarios of its run | `BackgroundJobs` |
| `SubagentScheduler` | slots, write claims and the queue of sub-agents | |
| `SubagentSchedulerProofs` | the proofs about it, with induction over the naturals | `SubagentScheduler`, `TLAPS` |
| `MCSubagentScheduler` | which sub-agent is nested | `SubagentScheduler` |
| `SessionStore` | transcript files, ledger, recovery branches and the runtimes that write them | |
| `SessionStoreProofs` | the proofs about it | `SessionStore`, `TLAPS` |
| `MCSessionStore` | its instance | `SessionStore` |
| `RepairTransaction` | repairs, undos, their journal and those who write behind the lock | |
| `RepairTransactionProofs` | the proofs about it | `RepairTransaction`, `TLAPS` |
| `MCRepairTransaction` | the plans of its run | `RepairTransaction` |

### MutationBarrier

One action is one critical section of `MutationBarrier.mu`, `writerRegistry.mu` or
`Store.mu`. The variables `writers`, `exclusive` and `generation` are the fields of the
Go struct (`exclusive` remembers who set the flag). `registered` and `barrierHeld` are
the registry's maps, `active` is `Store.activeWriters`, and `regLock` is the registry's
mutex, which has to be a variable because `RegisterWriter` keeps it while it blocks in
`EnterWrite`. `token` is the plan's `WorkspaceToken`. `holds`, `seen` and `version` are
history: who is inside, which workspace a preview judged, and how many writes the
workspace has received.

A rewinder goes through the states idle, listed (the registry's list was copied),
mirrored (the copy was installed in the store), preparing (the token was read), judging
(the store lists no writer), planned (the files were judged), checking (inside the exclusive barrier), committing; an undo is
in the state undoing. The plan's check against the generation is the one for plans that
include files; a conversation-only rewind does not look at it.

Left out: `EnterExclusive`, `TryEnterWrite`, `Close` and `Busy`, which nothing but tests
calls, and with them the closed barrier.

### RewindTransaction

`disk`, `tmp`, `bak`, `manifest`, `conv` and `ckpts` are what a crash leaves; the rest is
lost. `pc` names the step at which the single running operation is; `tx` is its manifest
in memory, which differs from `manifest[cur]` where the code changes one before it
writes the other. Every step that does I/O has an alternative that fails. The sequence
of steps:

    rewind:      stage, prepare, attach, begin, (intent, backup, install, progress)*,
                 cutConv, cutCkpts, finish
    file revert: stage, prepare, begin, (intent, ...)*, finish
    undo:        prepare, stage, prepareAgain, begin, (intent, ...)*,
                 restoreConv, restoreCkpts, finish, markUndone
    failure:     [backConv, backCkpts, backDone,] (compensate [, reinstate])*, settle
    recovery:    scan, with compensation inside; once without and once with the
                 conversation

`backConv` and `backCkpts` are `restoreTransactionConversation` for a rewind and
`restoreOriginalRewind` for an undo. A manifest keeps the conversation whatever the
scope of the rewind (`CommitRewindWithForward`), and the model keeps that, with its
consequences for an undo.

Abstractions, each with what it costs:

- A file is a content or `Absent`; mode and content are one image, and the chmod after a
  rename is part of the rename.
- Fingerprint and rename are one step, so an edit from outside falls between steps, not
  into them.
- The conversation in memory and on disk are one; a rewrite either happens or not.
  `TruncateFrom` removes all checkpoints or none.
- A turn is one step that adds one message and captures each file it changes once. Turns
  run when no operation does: that is the controller's rotation gate.
- Plans are made and committed in one step; that the workspace is still the one they
  judged is `CommitIsFresh` of `MutationBarrier`.
- Recovery copies of overwritten files are not modelled; nothing reads them.
- A backup that exists already is an error the code cannot reach, because its name holds
  the transaction's id; it has no alternative in the model.
- If publishing fails and putting the backup back fails as well (two failures in one
  step), compensation does the rest; the model has the single failure.
- Coverage, expired payloads and what may refuse a plan are in `CheckpointStore`. Legacy
  checkpoints and boundaries lost in a compaction only refuse operations and are left out.

### AtomicRewind

Files, chat, checkpoints and a log of completed operations. A rewind, a revert or an
undo changes all of them in one step; nothing fails and nothing crashes. The refinement
mapping reads the state *as a recovered process would see it*: while a manifest is
committing, the files it targets are its forward images and the conversation is its
stored one; a completed operation is in the log once its manifest is committed, and
undone once a committed undo names it. The commit point of every operation is therefore
the write of the committed manifest, and everything else, publishing, compensation,
crash and recovery, must be invisible. Section 5 says what is proved of it.

### CheckpointStore

`RewindTransaction` takes it for granted that the checkpoints hold the right images, since
its turn is one step. This module looks inside the turn: tool calls of the foreground agent
and of background sub-agents, the store's critical sections, and what happens between them.

`ckpts` is `Store.done` together with `Store.cur`, by turn number, and `cur` is the turn of
the latter. A checkpoint has, for each captured file, its preimage `pre` and its after
fingerprint, or `Unknown` where none was recorded. `gap` says that it has a coverage gap,
`expired` that its payloads were dropped. `saved` is what the turn files hold, `blobs` what
the blob store holds, `pinned` what transaction manifests refer to, and `turn` the checkpoint
manager's counter. A call goes through these steps:

    idle -> read      CaptureBeforeFromChange reads the file and puts the blob, no lock
         -> captured  ... and records the capture under Store.mu, once per file and turn
         -> called    the tool wrote the file, or failed
         -> idle      CaptureAfter records the fingerprint with the owning checkpoint

and a shell command, whose files are not known, through `RecordGap` and any writes. `Begin`
is `beginWithObserver` with the note for background writers, the new checkpoint, its file,
and garbage collection by retention and quota with the blob sweep.

`before`, `untracked` and `edited` are history: what a file held before the first tool call
on it in each turn, the turns with writes nobody captured, and the files which the user
changed after the last call on them. `EditsAreUndone`, the promise of the whole component,
compares the first with what a rewind would restore.

Abstractions:

- A content is a number and each write makes a new one; an edit that happens to restore an
  old content is no loss and not modelled. Modes and encodings are part of the content.
- A rewind is one step, and an offered plan is a state predicate, evaluated while nothing
  runs: that it becomes one step is what `RewindTransaction` shows, and that nothing runs
  is the barrier and the rotation gate.
- Two calls never work on one file at a time: the agent's write claims see to that, and a
  shell command claims the whole workspace.
- The user edits a file only while no call on it is under way; what happens otherwise
  depends on who writes last.
- Capturing a file whose read fails, links and special files, `CaptureBefore` (no production
  code calls it), the legacy schema, failing writes of blobs, and undo are left out.
- Writing the expired form of a checkpoint and removing the old file are one step. During a
  `Begin` either all checkpoint files can be written or none.

### WorkspaceLease

An `Owner` is one Delivery session. Its agent runs, root agents and sub-agents, begin and
end in any number; a run asks for the lease before its first call that changes the
workspace, and the lease is given back when the last run and the last retained background
job have ended. `activeRuns`, `background`, `acquired` and `acquiring` are the fields of
the Go struct, `token` is the channel of `localLock` (the processes whose channel is full),
and `lockFile` is the advisory lock: the owner, if any, whose descriptor has it. The
release function runs outside `Owner.mu`; `releasing` says how far it is. `granted` is
history: the runs whose `AcquireWrite` returned nil, and the jobs they started.

One action is one critical section of `Owner.mu`, one channel operation or one system call
on the lock file:

    in -> asking                 a call that changes the workspace was permitted
       -> in                     the session has the lease already
       -> queued                 another run of the session is acquiring; close(done) leads
                                 back to asking
       -> token -> file -> locked -> in      acquire, and what AcquireWrite does after it
                   or failed      -> in      cancelled, or the file cannot be opened

`Crash` ends a process: its owners, runs and jobs are gone, and the system drops its lock.

Abstractions: one workspace, since different ones share nothing (`CanonicalWorkspace` chooses
the name of the lock file); polling with `retryInterval` is a step that is enabled while the
lock is free; the flag `waiting` and the notice, which only the interface shows, are left
out; opening the lock file fails in the same step as a cancellation of the poll, since both
give the token back and return an error. A job is observed by `RetainUntil` in the step that
starts it, as the job manager does before it runs the job.

### Controller

One action is one critical section of `c.mu`, `steerMu` or `approvalManager.mu`. `running`,
`finishing`, `canceling`, `rotating`, `closed`, `cancel` and `parked` are the fields of the
Go struct, `steerActive` and `steerQueue` those of the agent, `pending` the approval
manager's two maps; `taken` is an answer that was removed from them and not yet sent,
`reply` the buffered channel of the waiter. `aimed`, `target` and `stray` are history: the
run that accepted a steer, the turn a Cancel read, the prompts it cleared by mistake.

    new  -> dropped                             closed, rotating or running
         -> parked                              TurnDone of the last turn is being delivered
         -> body <-> agent -> leaving -> body   the agent runs up to MaxRuns times
    body -> delivering -> done                  finishGuardedTurn, its two critical sections

A prompt is idle, queued for `promptMu`, waiting, over. Cancel and Close read the cancel
function, clear the prompts and call the function in three steps. What the model says, which
tools it calls and whether a run fails are free choices.

Abstractions: a rotation is its gate, what it does to the session is `RewindTransaction`
and `SessionStore`; `TrySteer`'s look at `running` refuses nothing that `Steer` would
accept; the second look at the posture and the registration of a prompt are one step; a
switch back to a stricter posture takes nothing off the table. Left out:
`Controller.Steer`, `submitSteerFallback` and `runGuardedOrPark`, which no production code
calls; a draining generation; the window of an auto-approved plan, session grants,
recovery cards and the replay of prompts; the panic path; the goal that Cancel stops;
`Resume`, which swaps the session without the gate of a rotation.

### BackgroundJobs

`mem[m][j]` is the `Job` object in the table of manager `m`, `run[j]` the job's goroutine,
`disk[j]` its metadata file. The goroutine goes

    registered -> running -> returned -> persisted -> noted -> published -> done

where *returned* has published the receipts, *persisted* has written the terminal metadata
(or failed to), *noted* has queued the completion note, *published* has set the status and
*done* has closed the channel. A kill sets the status first and cancels the context in a
later step. `turn` is what the agent does with evidence: it leases what is pending, collects
more when a tool asks for a job's output, and drains the leases once it delivers. A
rebuild makes a new manager in the same process while goroutines of the old one unwind; a
crash leaves only `disk`. The load of a session's artifacts reads a file in one step and
uses what it read in the next. `told`, `reviewed`, `settled` and `rebuilt` are history.

Abstractions: one shared file per job stands for metadata and output; receipts are one bit,
since a job's receipts are merged as a whole. Left out: output buffers and waiting for
output, the monitor of stalled jobs, a start whose metadata cannot be written, ids of
jobs (taken as unique), and the migration or adoption of artifacts between directories.

### SubagentScheduler

`activeTotal`, `activeWriters`, `activeClaims`, `parentClaims` and `waiters` are the fields
of the Go struct, `ready` the waiters whose channel is closed. A claim is the set of paths it
covers, so that overlap is intersection; a claim of the whole workspace covers all. A
sub-agent is new, queued, leaving (its context ended while it waited) or dropped, running,
done. Requests are chosen freely. A nested sub-agent asks while its requester runs and is
refused instead of queued. The pump is a recursive function that follows the queue in one
pass, as the Go loop does. Each agent and each parent's write runs once.

### SessionStore

`disk[p]` is what there is at a path: the transcript the event log replays to, whether it
ends in bytes that do not decode, the checkpoint, and the ledger (`rev`, `digest`) of the
branch metadata. `mem[r]` is a runtime's session: messages, version, rewrite counters and the
base, what it last loaded or saved. `job[r]` is the load or save under way:

    load      ledger (the transcript was read, the ledger not yet), [meta]
    save      log -> [checkpoint] -> record -> [meta -> metaWrite]
    conflict  save (once more, as a rewrite), ledger (adopt the stored transcript), or
              fork -> branchLog -> branchCheckpoint -> branchMeta, or force at the depth cap

From *log* to *record* a save holds the lock of the path (`Holds`); a load does not, and
neither does the update of the metadata. Any write may fail and leave nothing, a torn tail or
all of it; a crash loses `mem` and `job`. No runtime holds the session's lease here, since
the code's conflict checks exist for the case that the lease did not help (processes of
different versions, leases lost). `acked`, `removed`, `cut`, `forced`, `gone`, `foreign`,
`slipped` and `unsure` are history.

Abstractions: a message is a number, a digest is the transcript it is the digest of, a
recovery branch is named by the path it was forked from and the transcript, as the code's
file name does. Normalisation appends the placeholder of a tool call without a result, the
only repair of a load that a save can meet. Left out: system messages, the display and event
index, foreign and future schemas, unreadable metadata, the copy made at shutdown, the commit
callback's failure, the lock's time-out, and the lease itself.

### RepairTransaction

`files` maps paths to contents, targets and those set aside; `last` is
`last-repair.json`, `pending` the journal with the undo state it is bound to (`bound`). `op`
is the operation that holds the lock, in memory; a failure or a crash drops it and leaves
the rest.

    both      reconcile -> [promote] -> settle
    repair    (verify, prepare, rename, check, commit, clear, look, create)*
              (verify, prepare, publish, own, commit, clear)* for a restore of a missing file
    undo      begin, (undo, aside, restore, mark, drop)*, finish

`Edit` is the user or another program, which writes or removes a target at any time. `kept`,
`origin` and `touched` are history: contents that nobody but a repair could have lost, the
targets when an operation began, and those that others wrote since.

Abstractions: content, mode and identity of a file are one value; a rename never replaces a
file, as in the code; backups are only touched by repairs. Left
out: the copy used across devices, rollback of an update, safe mode, the audit log.


## 3. Runs

| Run | Instance | Checks | Shows |
|---|---|---|---|
| `barrier` | 1 tool nesting twice, 2 background writers, 2 rewinders, 4 starts, 1 write | `MutualExclusion`, `WritersCounted`, `CommitIsFresh`, `WritersEnter` | the barrier does its job for every interleaving; no writer is shut out, and `registry.mu` is given back |
| `rewind_crash` | 2 files, 2 turns, 2 transactions, 1 crash | `ManifestsAreSound`, `AllOrNothing`, `RecoverySettles` | every crash point of rewind, revert and undo |
| `rewind_fault` | 2 files, 2 turns, 2 transactions, 1 failing step | `UndoIsCurrent`, `ImplementsAtomicRewind` | every single failure is compensated, turns go on afterwards, atomicity across files |
| `rewind_edits` | 2 files, 1 turn, 1 transaction; 1 failing step, crash, reopening and edit each | `AllOrNothing`, `OperationsEnd` | an edit from outside does not spoil the other files; no operation and no recovery hangs |
| `store_turns` | 1 file, 3 turns, 2 writes, 1 edit, retention 1, quota 2 | `RewindIsExact`, `CompleteIsComplete`, `PayloadsKept` | the right images, conflicts and payloads over turns, failed calls, shell commands and rewinds |
| `store_restarts` | 1 file, 2 turns, a foreground and a background caller; 1 write, edit, failing checkpoint write and restart each | `RevertSeesManualEdits`, `NumbersAreFresh` | a file revert does not trust a capture without fingerprint; turn numbers stay unique |
| `lease` | 2 processes, 3 sessions, 4 runs, 1 background job; 1 cancellation and 1 crash | `OneWriter`, `LeaseIsExact`, `WaitersProceed` | one session writes at a time, keeps the lease exactly as long as needed, and the lease moves on |
| `controller` | 2 submitted inputs and 1 synchronous one, 1 steer, a question and an approval, 1 rotation, 1 Cancel, Close, 1 agent run per turn | `TurnsAreOrderly`, `SteersAreTaken`, `PromptsUnblock`, `TurnsBeginInOrder`, `TurnsMoveOn` | one turn or rotation at a time, in order, and stopped ones end |
| `jobs` | 2 sessions, 2 calls, 3 managers, limit 1; two calls racing for the cap, or two jobs side by side with 1 mishap, or one job over 2 turns with 2 mishaps | `EvidenceIsReviewed`, `TableIsTrue`, `NotesAreTrue`, `DestroyEnds` | what a job changed is reviewed, its end is told once, a discarded session is silent and cleaned up |
| `scheduler` | 3 sub-agents and one nested in the first, 1 write of the parent, 2 paths, 2 slots, 2 writers | `AccountsAgree`, `WritersApart`, `NothingCouldStart`, `QueueDrains` | no slot leaks, writers exclude, no wake-up is lost |
| `sessions` | 2 runtimes, 3 messages of which the second is a tool call, 1 rewrite, depth 1, 1 failure | `SavesAreKept`, `NoResurrection`, `ConflictIsForeign`, `SavesConverge` | what was saved stays, what was removed does not come back, conflicts are real and end |
| `repair` | 2 targets, 2 plans, 3 operations, 2 edits, 1 failure, 1 crash | `NothingLost`, `BackupsAreSound`, `JournalSettles`, `UndoRestores` | no content is destroyed, the journal settles, an undo that completes restores |

Several of these are conjunctions, one promise made of parts that stand as definitions of
their own in the module:

| Property | Parts |
|---|---|
| `ManifestsAreSound` | `TypeOK`, `IntentIsDurable`, `UndoneNeverOffered` |
| `RewindIsExact` | `TypeOK`, `EditsAreUndone`, `ManualEditsConflict` |
| `LeaseIsExact` | `LeaseIsKept`, `LeaseIsNeeded`, `ReleaseIsSafe` |
| `EvidenceIsReviewed` | `EvidenceKept`, `LeaseIsComplete` |
| `TableIsTrue` | `TypeOK`, `NoLiveTombstone`, `CapKept` |
| `NotesAreTrue` | `CompletionTold`, `DestroyedIsSilent` |
| `SavesAreKept` | `TypeOK`, `NothingHidden` |
| `BackupsAreSound` | `TypeOK`, `BackupsAreNamed`, `BackupsAreKept` |
| `TurnsAreOrderly` | `TypeOK`, `OneAtATime`, `CancelIsReported` |
| `SteersAreTaken` | `SteersHaveTheirRun`, `UnappliedOnlyOnFailure` |
| `TurnsBeginInOrder` | `NothingStartsClosed`, `ParkedGoFirst` |
| `TurnsMoveOn` | `StopsEnd`, `ParkedStarts` |

**Bounds.** A constant bounds each thing that could repeat: starts and writes in
`MutationBarrier`; transactions, turns, reopenings, crashes, faults and edits in
`RewindTransaction`; turns, writes, edits, failing writes and restarts in `CheckpointStore`;
failures and crashes in `WorkspaceLease`; agent runs in `Controller`; jobs, managers,
sessions, turns and mishaps in `BackgroundJobs`; messages, rewrites, depth and faults in
`SessionStore`; operations, edits, faults and crashes in `RepairTransaction`.

Two background writers and two rewinders suffice for the barrier's pairwise exclusion, and
two nested entries of a tool for its counting (the proofs remove the bounds). In
`WorkspaceLease` one session has two runs and a job, so that one run waits for another and a
job outlives both; it shares its process, and so the token, with a second session, and the
lock file with a third one in another process. Two files are needed for "some published, some
not", two transactions for a rewind and its undo, two contents and absence for a file that
changes twice and returns. In `CheckpointStore` two writes and two turns are what it takes to
tell a first image from a later one; three turns put one between, and with a retention of one
let a checkpoint expire in a range that is still rewound. In `Controller` two submitted
inputs let one be parked during the delivery of the other while the synchronous one tries to
overtake, and a question beside an approval tells what a posture switch may answer. In
`BackgroundJobs` three managers allow a rebuild and a restart, and two turns a lease that is
not committed and one that is. In `SubagentScheduler` three agents and two slots leave one
queued behind a claim that another could pass. In `SessionStore` two runtimes, three messages
and one rewrite are enough for a load, a rewind and a stale append; the runtimes are alike, so
that the faults may as well all be one runtime's. In `RepairTransaction` three operations
allow a repair that is cut short, an undo that is cut short, and its resumption.

In most modules these bounds stop the system from starting anything new, so a state
without successors is reached, and deadlock is not checked; what must not hang is said by
`WritersEnter`, `OperationsEnd`, `TurnsMoveOn`, `DestroyEnds`, `QueueDrains` and
`SavesConverge`. Runs and jobs of `WorkspaceLease` may always start again, and its run checks
deadlock.

The passing runs keep to executions in which the divergences of section 4 do not occur, and
each restriction is one of these:

- one crash for the properties of what recovery leaves, so that compensation is not
  interrupted itself, and no refinement over more than one turn with a crash or a
  reopening;
- `store_turns` has no background callers and no restarts;
- `EvidenceKept` excepts, on disk, jobs whose manager was rebuilt, and jobs of a fleet;
- `PromptsUnblock` excepts prompts cleared by a Cancel aimed at an earlier turn;
- `NoResurrection` excepts executions in which an update of the metadata overwrote a ledger
  record, or a load read across one; `NothingHidden` excepts what a save forced at the depth
  cap took away;
- `JournalSettles` and `UndoRestores` except targets that others wrote.

**Symmetry**: file contents are interchangeable in `rewind_crash` and `rewind_fault`. No run
that checks liveness uses it.

**Fairness.** `MutationBarrier`: a writer blocked in `EnterWrite` is strongly fair,
because `Broadcast` wakes all waiters and `sync.Mutex` hands the lock over in order once
a waiter starves; a rewind inside the barrier finishes, because it runs no user code
there and defers `ExitExclusive`; `UnregisterWriter` finishes. Nothing obliges a tool to
return or anybody to start something. `RewindTransaction`: the running operation or
recovery takes its next step (weak fairness of their disjunction), which is a goroutine
that is not blocked; nobody is obliged to restart a dead process. `WorkspaceLease`: a
goroutine that is not blocked takes its next step (weak fairness); receiving the token is
strongly fair, because a Go channel serves its receivers in order; polling the lock file
is only weakly fair, so `WaitersProceed` assumes that the sessions of other processes let go of
the lock for good in the end, and that those of the same process let go again and again.
Nothing obliges a run or a job to end.

`Controller`: turns, prompts, answers taken and stops go on (weak fairness of their
disjunction, enough because each has finitely many steps); nobody is obliged to type, answer,
cancel or end a rotation. `BackgroundJobs`: the steps of a goroutine and of the clean-up of a
session; a job that was not cancelled may run for ever. `SubagentScheduler`: sub-agents end and
calls of the parent return, so `QueueDrains` speaks of the scheduler and not of the model's
answers. `SessionStore`: each runtime goes on with its save, and snapshots recur, since the end
of a turn and the autosave's ticker ask for one; nobody is obliged to load or write messages.
`RepairTransaction` states no fairness: its properties are safety.

**Mutants.** Operators named `Operation_Fault` state a plausible mistake in the
operation, such as a dropped guard, a missing reset or a step that goes to memory only. For
each property of each passing run `PROJECT.json` names one that TLC must find, for a conjunction
one for each part that matters.

## 4. Observed divergences

These were met while modelling; each was seen as a TLC counterexample, at the bounds given,
to the property named. No run is devoted to them: the passing runs exclude exactly these
executions, as section 3 says.

**Rewind**

- *A crash inside compensation.* `compensatePublished` removes the published file and then
  renames the backup to its place (`transaction.go:1048`). A crash in between leaves a state
  that the next recovery takes for an edit from outside: the manifest stays committing and
  the file missing at every later start. `RecoverySettles` with 1 file, 1 turn,
  1 transaction, 2 crashes.
- *An undo that a turn invalidated comes back.* A new turn clears the undo slot in memory only
  (`checkpoint.go:342`); recovery fills it again from the newest committed manifest
  (`transaction.go:1285`). After reopening, the undo would replace the conversation with the
  later turns by the one before the rewind. `UndoIsCurrent` with 1 file, 2 turns,
  1 transaction, 1 reopening. If such an undo fails and is compensated, it ends aborted with
  the conversation cut where the rewind had cut it, which is not where the undo began:
  `AllOrNothing` with 1 file, 2 turns, 2 transactions, 1 reopening, 1 failure.
- *Nothing waits for a transaction whose compensation failed.* Its manifest stays committing so
  that the next start can retry (`transaction.go:1126`), and neither a turn nor another
  transaction is refused until then. The next start puts files and conversation back to what
  they were before it (`transaction.go:1240`), the work of the later turns included, or takes
  that work for an edit from outside and ends aborted with the files as the turn left them.
  `AllOrNothing` with 1 file, 2 turns, 1 transaction (a revert of the file), 2 failures,
  1 reopening.
- *The sweep removes the blob of a capture under way.* The preimage is put in the blob store
  before `Store.mu` is taken (`checkpoint.go:413`). If the next turn begins in between, the
  sweep finds nothing that names the blob. `PayloadsKept` with a background caller, retention
  1, 4 turns, 3 writes.
- *No fingerprint is taken for no change.* A crash between a capture and its after observation
  leaves a checkpoint without fingerprint; a batch rewind skips the identity check for it
  (`transaction.go:1322`) and overwrites what the user wrote after the restart, while the
  revert of a single file refuses. `ManualEditsConflict` with 2 turns, 1 write, 1 edit,
  1 restart.
- *The gap for a background writer lands in the wrong turn.* `beginWithObserver`
  (`control/checkpoint.go:72`) records it before `Begin` has made the new checkpoint current.
  `CompleteIsComplete` in `store_turns` with a background caller.
- *A stale list of writers replaces a newer one.* `PrepareRewind` (`control/rewind.go:118`)
  copies the registry's writers under one lock and installs the copy under another, the actions
  `ListWriters` and `SetActiveWriters`. A background writer that registers in between is
  overwritten and the preview passes; the commit is still refused while the writer is inside
  the barrier, and by the generation after it. In the other direction, a copy that lists a
  writer which has left refuses undos until the next preview.
- *A session switch starts with a new barrier.* `control/checkpoint.go:37` makes a new store;
  a background writer of the old session is not in the new store's registry.

**Controller**

- *Cancel may drop the next turn's prompt.* Cancel reads the cancel function of turn A; A ends,
  B begins and registers a prompt; `clearAll` drops it unsignalled, and the function that is
  then called cancels only A's context. B waits for ever unless the front-end sets a time-out,
  and its prompt is no longer shown. `EveryPromptUnblocks`, nine states. `approval.go` says of
  `clearAll` that the waiters see their context cancelled.

**Jobs**

- *The evidence of a background fleet is not stored.* `writeJobMetaLocked` stores receipts of
  kind `task` only (`jobs.go:620`), although the comment at `jobs.go:2003` speaks of all jobs;
  after a restart a fleet's changes are not reviewed. `RestartKeepsEvidence`, with one job of
  kind `fleet` and one crash.
- *A job killed by a crash has no evidence.* The receipts of a running job are in memory, and
  its file, without a summary, is read as one of a job that changed nothing (`jobs.go:659`).
- *A load can repair a record that is about to be settled.* It reads a file that says running,
  the old manager's goroutine writes the outcome and leaves, the load finds no live owner and
  writes interrupted over it (`jobs.go:1566`). `EvidenceKept` without the exception for
  rebuilds.

**Scheduler**

- A writer with a wide claim can be overtaken for ever while narrower ones arrive, although the
  queue is described as first in, first out: newcomers are tried before the queue and the pump
  passes over what cannot start. `QueueDrains` speaks of the time when arrivals have ceased.

**Sessions**

- *A ledger record can be overwritten.* `UpdateSessionMeta` reads and writes the metadata
  without the file lock (`branch.go:449`); a save of another process in between is undone in
  the ledger, and removed messages can be appended again. `RewritesStand` with two runtimes
  and no fault.
- *A recovery branch can be overwritten.* Its name is the digest of the transcript; a second
  runtime that forks the same one finds a branch that its owner has extended meanwhile and
  saves over it (`save.go:756`). `NothingHidden` with three runtimes, four messages and no
  fault. The theorems of section 5 exclude it, and nothing else, by `ForksApart`.
- *A save forced at the depth cap* replaces whatever another runtime has acknowledged there.

**Repair**

- *A write after the journal and before the move, and a crash,* leave a journal that matches
  neither state; every later repair is refused, as `transaction.go:250` says it should be, and
  no operation of the program resolves it. `JournalSettles` without its first disjunct.
- A restore from a snapshot compares the file it moved with the journal and not with the
  preview, so a write between the two is accepted; it is kept as the backup.

## 5. Proofs

`WorkspaceProofs` extends both locks on a workspace, whose definitions have different names for
that reason (`Spec` is the barrier's, `LeaseSpec` the lease's). About `MutationBarrier` it proves,
for any sets of tools, background writers and rewinders
and any bounds (`BarrierAssumption`: the first two are finite, the bounds are naturals):

| Theorem | States |
|---|---|
| `TypeCorrect` | `Spec => []TypeOK` |
| `WritersAreCounted` | `Spec => []WritersCounted` |
| `Excludes` | `Spec => []MutualExclusion` |
| `CommitsAreFresh` | `Spec => []CommitIsFresh` |

The invariant is built in layers, each proved inductive relative to the one below:

1. `Types`: `TypeOK`, and that a tool which waits has room for one more entry.
2. `CountInv`: `holds` is exactly what `nest` and `barrierHeld` say, `regLock` and
   `leaving` agree, and `writers` is the cardinality of `holds`. The count alone is not
   inductive: `ExitWrite` has to know that the entry it removes is present.
3. `ExclInv`: `exclusive` is `{r}` exactly when `r` is inside its critical section, and
   nobody holds the barrier meanwhile. It needs the count, because `TryEnterExclusive`
   looks at `writers` and not at `holds`.
4. `FreshInv`: no token is newer than the generation; while a plan's token is the
   current generation and nobody is inside, the workspace is the one the plan saw. This
   is why the token must be read *before* the files are judged, and why `ExitWrite` and
   `ExitExclusive` move the generation.

About `WorkspaceLease` it proves, for any processes and sessions, finite sets of runs and
jobs and any bounds (`LeaseAssumption`):

| Theorem | States |
|---|---|
| `LeaseTypeCorrect` | `LeaseSpec => []LeaseTypeOK` |
| `LeaseStays` | `LeaseSpec => []LeaseIsKept` |
| `OneWriterAtATime` | `LeaseSpec => []OneWriter` |
| `LeaseGoesBack` | `LeaseSpec => []LeaseIsNeeded` |
| `ReleasesSafely` | `LeaseSpec => []ReleaseIsSafe` |
| `LeaseIsExactly` | `LeaseSpec => []LeaseIsExact`, the three above that it joins |

Again in layers:

1. `LeaseTypes`: `LeaseTypeOK` without the upper bounds of the two counts.
2. `LeaseCountInv`: `activeRuns` is the cardinality of the session's runs that are not out, and
   `background` that of its jobs which are retained or closing. The code's guards against
   negative counts are therefore never needed, and a zero means that nobody is left.
3. `HoldInv`: at most one run of a session is in `acquire`, and none once it has the lease
   (`OneAcquires`); at most one session of a process has its token, as acquirer, holder or
   releaser, and then the channel is empty (`TokenIsOne`); the lock on the file is
   with the session that is past it (`LockIsOne`). None of the three is inductive
   without the others: a release in progress is only harmless because the next acquisition
   needs the token that it gives back last.
4. `LeaseInv`: who may write is still there, so it is counted, and its session has the
   lease (`GrantsHold`); a session with the lease has a count above zero (`LeaseCounted`).
   Since the lease goes back only at zero counts, it never leaves a writer behind.

`ControllerProofs` proves, for any inputs, prompts, steers, rotations and stops, none of which
has to be finite, and any number of agent runs in a turn (`ConstantsAssumption`: submitted
inputs are told apart from synchronous ones and from no turn, and Close from the stops):

| Theorem | States |
|---|---|
| `TurnsOrderly` | `Spec => []TurnsAreOrderly` |
| `SteersTaken` | `Spec => []SteersAreTaken` |
| `PromptsHaveAWayOut` | `Spec => []PromptsUnblock` |
| `TurnsInOrder` | `Spec => TurnsBeginInOrder`, an action property |

1. `TurnTypes`, `SteerTypes`, `PromptTypes`.
2. `Gates`: the flags say who is busy. `running` is set exactly while some turn holds
   `cancel`, `finishing` while the end of one is told, `rotating` excludes both; so two turns
   that are busy are the same one. The code looks at the flags only.
3. `Parking`: who is in the list is parked, once, and a list that is not empty has a turn or
   a delivery to start it.
4. `Aim`: a stop is aimed at a turn that has begun; `canceling` is true exactly if one is
   aimed at the turn that runs. Without it the `canceling` read at the end of a turn could
   be that of the turn before.
5. `Guidance`: the intake is open only inside a run, and a run that leaves without failing
   has an empty queue.
6. `Asking`: a prompt that is not over belongs to a turn in its body or its agent.

`SubagentSchedulerProofs` proves, for finite sets of sub-agents and of the parent's calls, any
paths and any limits that `NormalizeConcurrencyLimits` lets through (`LimitsAssumption`,
`AgentsAssumption`):

| Theorem | States |
|---|---|
| `AccountsHold` | `Spec => []AccountsAgree` |
| `WritersStayApart` | `Spec => []WritersApart` |
| `NoWakeUpLost` | `Spec => []NothingCouldStart` |

`Books` says of the slots that `total` and `writers` are the cardinalities of those who hold
one, and that `claims` lists the paths of each writer once. That they are listed once is what
a release needs, because `removeClaim` removes the first equal claim; it holds because claims
in force are disjoint and not empty. `ParentBooks` says the same of the parent's claims, and
`Queue` that who waits has not been started. `pumpWaitersLocked` is a loop over the queue,
written as a recursive function of the position. Its invariant, `Books` of the slots so far,
order kept among those left, and that none of those left could have been started by the slots
so far, is proved by induction: `SetInduction` states induction with a set
for the hypothesis, where the library has an operator, and `LoopExists` that the function
which computes the rounds exists. What could not start before a round cannot after it, since
rounds only take slots; hence `NothingCouldStart` after the pump, which every release,
cancellation and end of a parent's write ends with.

`BackgroundJobsProofs` proves, for any number of jobs, managers and sessions, a finite set of
calls, any limit and any scenarios (`BoundsAssumption`; `NamesAssumption`: no record is not
a record):

| Theorem | States |
|---|---|
| `TableStaysTrue` | `Spec => []TableIsTrue` |
| `NotesStayTrue` | `Spec => []NotesAreTrue` |
| `EvidenceStaysReviewed` | `Spec => []EvidenceIsReviewed` |

The invariant ties the record, the file and the note of a job to the step its goroutine is at:

1. `Goroutines`: a goroutine that has not ended belongs to a manager that is registered as an
   owner. This is what makes the owner check of the load sound.
2. `Table` and `Records`: a goroutine on its way finds its own record; the record's status is
   running or killed until the goroutine has published, its receipts are what the job changed
   once the run has returned, and only a delivered turn that had merged them drained them.
3. `Windows`: what still runs for the current manager belongs to the active session or to the
   targets of the clean-up, and after the wait no target does; so forgetting the records of the
   discarded session orphans nobody.
4. `Files`: when a file may say running or interrupted, and what the load knows of a file it
   has read. The file may have changed since; what a load has read of a job whose process died is
   still there, because nobody else writes it.
5. `Review`: a lease is ready, and whatever it changed is in the ledger; while a turn commits,
   the ledger has been reviewed.
6. `Starts`: `reservations` is the number of calls under way, and unfinished jobs and calls
   that have reserved but not started are together within the limit. The limit on jobs alone is
   not inductive.
7. `Told`: notes and announcements of a job are at most one together, none before its note is
   due and one after, in its session.

`RepairTransactionProofs` proves, for any targets, processes and plans (a plan acts on a target
once) and any number of operations, edits, failures and crashes (`PlansAssumption`;
`NamesAssumption`: paths, contents and records are told apart):

| Theorem | States |
|---|---|
| `NothingIsLost` | `Spec => []NothingLost` |
| `BackupsStaySound` | `Spec => []BackupsAreSound` |
| `JournalsSettle` | `Spec => []JournalSettles` |
| `UndosRestore` | `Spec => UndoRestores`, an action property |

The proofs speak of `Disk`, the content of every path, and each action has a lemma, its View,
that states what it does in these terms.

1. `Types`, and `Ledger`: the undo state and the journal are well formed, and the journal is
   bound to the undo state or has just become it.
2. `Accounts`: every content to be kept is on some path (`Rescued`); the backup of a change
   that is not recorded as undone is there (`HaveBackups`) and is named (`Named`); the move the
   journal announces is to come or made, and can be told which (`Traces`). An undo copies a backup
   to its target, records the change as undone and then drops the backup. `Spares` makes the
   drop harmless: whatever the backup holds and is to be kept is also on a path which no undo of the
   same transaction drops.
3. `Progress`: what an operation knows at each of its stages.
4. `Restores`, inductive relative to these, compares the disk with what it was when operations
   began. A repair leaves the targets it has not come to as they were (`Rest`), so the changes
   it records name what was there before it (`Origins`), if others left the target alone. A change
   recorded as undone has its target back; while a later repair, not recorded yet, moves that
   target, the journal has it instead (`Returned`). What a repair created is there or gone
   (`CreatedStands`), and the path where an undo sets a file aside is free when it comes to it
   (`RedoFresh`): otherwise the move would silently not be made, and `UndoLastRepair` would record
   as undone a change whose target it had left. `UndosRestore` then follows for the one step
   that completes an undo.

`CheckpointStoreProofs` proves, for any workspace, any callers and any bounds on turns, writes,
edits, failed writes and restarts, any retention and quota (`StoreAssumption`):

| Theorem | States | Provided that |
|---|---|---|
| `NumbersStayFresh` | `Spec => []NumbersAreFresh` | |
| `RevertsSeeManualEdits` | `Spec => []RevertSeesManualEdits` | |
| `PayloadsAreKept` | `Spec => []PayloadsKept` | there is no background sub-agent |
| `RewindsAreExact` | `Spec => [](crashes = 0 => RewindIsExact)` | there is no background sub-agent |
| `CompleteMeansComplete` | `Spec => [](crashes = 0 => CompleteIsComplete)` | there is no background sub-agent |

The provisos are those under which the code keeps the promise, and the divergences of section 4
show that each is needed: a background sub-agent may have put a payload and not yet recorded it
when the next turn sweeps, and its gap lands in the turn before; a restart may leave a capture
without a fingerprint. The runs `store_turns` and `store_restarts` are instances of the two cases.
Writes of checkpoint files may fail in all of them.

1. `Numbers`: the types, that a call under way belongs to a turn or a sub-agent that runs
   (`Sessions`), and `NumbersAreFresh`. A truncation sets the counter back, so that the numbers
   are fresh depends on the files of the dropped turns going with them.
2. `Seen`: whatever was captured or taken as a fingerprint is older than the next content, and no
   fingerprint is that of a file the user changed since (`Past`, `Fits`). It says so of the
   checkpoints in memory and of the files, since a restart turns the latter into the former.
3. `Kept`: the payloads of the checkpoints in memory and of the manifests are in the blob store; a
   checkpoint file names no more than its checkpoint in memory (`FilesAgree`), which is what lets
   the sweep look at the latter only; and what a call has read is in the blob store until it is
   recorded.
4. `Exact`: calls under way are on different files (`Apart`) and know the file as it is (`Calls`);
   the first capture of a file in a turn is what it held before the first call (`Firsts`), there is
   no capture without a call (`Lasts`), the fingerprint is taken unless a call is under way
   (`Prints`), the current turn is the newest (`Newest`) and an unobserved write is in a turn with
   a gap (`Gaps`). A rewind to turn t restores the earliest capture since t and compares the
   latest fingerprint. `MinIsLeast` and `MaxIsGreatest` say that these exist.

`RewindTransactionProofs` proves, for any number of files, any contents and any bounds on
transactions, turns, reopenings, crashes, failures and edits (`RewindAssumption`):

| Theorem | States | Provided that |
|---|---|---|
| `ManifestsAreAlwaysSound` | `Spec => []ManifestsAreSound` | |
| `RewindsAreAllOrNothing` | `Spec /\ [][Orderly]_vars => AllOrNothing` | `Orderly`: turns and transactions begin while none is committing, and an undo begins where its rewind left conversation and checkpoints |
| `UndosStayCurrent` | `Spec => [](crashes = 0 /\ reopens = 0 /\ CommittingConv = {} => UndoIsCurrent)` | the conclusion says it |
| `RecoveriesSettle` | `Spec /\ [][Orderly /\ Undisturbed]_vars => RecoverySettles` | `Orderly`, and `Undisturbed`: no edits from outside, no failing step of a recovery, no failure or crash between the two steps by which compensation puts a file back |
| `RewindsAreAtomic` | `Spec /\ [][InSequence]_vars => ImplementsAtomicRewind` | `InSequence`: turns and transactions begin while none is committing, an undo begins where its rewind left the conversation and the count of turns, nobody edits a file from outside |

`ManifestsAreSound` is not inductive: the manifest on disk is written step by step and what a
later step finds there depends on how far the operation is. `Sound` adds:

1. `Types`: what manifests, conversations and checkpoints are after a number of turns; serial
   numbers and boundaries are bounded by the turns run so far.
2. `Stages`: at each step, how the manifest on disk relates to the one in memory: it does not exist
   before `prepare`, and afterwards they agree; nothing is published before the commit begins.
   Without it, `IntentIsDurable` would say nothing of the file that is moved next.
3. `Ledger`: a manifest that exists belongs to a transaction that has begun, and an undo comes after
   the transaction that it undoes. Recovery visits the manifests in this order.
4. `Offers`: what is remembered for undo is committed, and no undo has reverted it but for the moment
   between the commit of its undo and the mark. A failed mark and a crash at that moment both clear
   the slot, and recovery fills it again from the manifests, where the committed undo names it.

Manifests are records of thirteen fields that are always written as a whole. The Views, one lemma
for each way of writing one, state which fields such a write changes. `LeastIsLeast` and
`GreatestIsGreatest` say that the loops over the files take one of the files left.

`RewindsAreAllOrNothing` covers any number of transactions, failures, crashes, reopenings and
edits from outside. Its two provisos are the two clauses of `Orderly`: `BeginsAlone`, which the
code breaks after a compensation that failed, and `UndoFits`, which it breaks when recovery offers
an invalidated undo again. Section 4 has the counterexample that TLC finds to `AllOrNothing` when
either is dropped; the runs stay below the bounds at which they appear. A crash by itself
breaks neither, since recovery settles what it finds before anything can begin.

The property compares two ends of a transaction that a crash may separate, so the invariant has to
say what is known in between. `Whole`, which is proved on top of `Sound`, is the conjunction of

1. `Alone`: at most one transaction is committing, and if one runs, it is that one.
2. `Pendings`: what a committing manifest allows recovery to conclude. It has the conversation it
   will need, with the boundary inside it (`Attached`); a target that was not announced is
   untouched, and what was moved away is the image recorded (`FilesFit`); the conversation is at
   one end or the other (`ChatFits`). Files edited from outside are exempt, as in the property.
3. `FilesPhase`: at each step, which targets already have the image to install and which still have
   the one before. Compensation claims what it has put back only while no file has failed.
4. `ChatPhase`: the same for the conversation and the checkpoints, which are cut and restored one
   after the other.

Each step keeps `Whole`, and all but `Finish` and `Settle` leave no committing manifest committed
or aborted (`Steady`). Those two do so when `FilesPhase` and `ChatPhase` put everything at the end
or at the start (`Decides`).

`UndosStayCurrent` needs no `Orderly`. Its provisos exclude the two ways in which the code offers
an undo that is not current (section 4): recovery, after a crash or on a reopening, fills the slot
with a transaction that a later turn had invalidated, and a transaction whose compensation failed
stays committing with the conversation where the failure left it. `Traced`, the invariant, follows
the conversation alone. The transaction offered has left the conversation where it is now, or
where the operation that runs found it (`Remembered`); what the operation found is what its
manifest has stored, so that compensation gets back to it (`ChatThere`).

`RecoveriesSettle` rests on `Sound` and `Whole`, which say that what is put back is right, and on
`Mending`, which says that something can be put back:

1. `FilesMend`: every target of a committing transaction was not announced, is at one end or the
   other, or is between its two renames with its backup and its temporary there; the one exception is
   the file that compensation is just putting back.
2. `StepsReady`: the temporaries of the files to come are there, so that the case between the
   renames can be told from an edit.
3. `LeftToSettle`: what the scan has left in its queue, or compensates at the moment, is all
   that is not settled yet.

Without edits excluded, a target may be neither end, and recovery leaves it alone on purpose; a
recovery step that fails leaves the transaction for the next recovery, as it should. A failure or a
crash between the two steps leaves the target missing, which is the divergence of section 4. TLC
finds a counterexample without each of these provisos and without `BeginsAlone`; `UndoFits`
it could drop on small instances, but `Whole` needs it.

`RewindsAreAtomic` is the refinement of `AtomicRewind`: whichever steps fail and wherever the
process dies, the session as a recovered process would see it moves by the steps of `AtomicRewind`.
`Turn` is its `Turn`; `Finish`, where it writes the committed manifest, is its rewind, revert
or undo; every other step, publishing, compensation, crash and recovery, is a stutter (`Hidden`,
`QuietHidden`). It rests on `Sound` and `Whole` and on `Lined`, which relates the operation under
way to what recovery would make of the session:

1. `Numbered`: the checkpoints are those of the turns before the next one, so that the turn that
   `AtomicRewind` numbers next is the one the code runs next.
2. `Covered` and `StretchPhase`: the checkpoints a rewind cuts are kept in its manifest as one
   stretch of turns, what is still there of them is as it was kept, and all of it is there until the
   cut and again when nothing is left to put back. So cutting, failing and putting back changes
   nothing that a recovered process would see.
3. `Kept`: an operation that leaves the conversation alone is at the conversation it has stored.
4. `Bare`: a transaction that is only prepared has nothing to put back.
5. `Newest`: what is remembered for undo is the newest operation not undone. The code remembers
   one transaction and recovery finds it again by going through the manifests in order;
   `AtomicRewind` asks for the greatest of those in its log.
6. `Planned`: a plan still fits the session as a recovered process would see it when it is
   committed, although it was made many steps, and maybe failures, before; and an undo has in both
   directions what it undoes.

`InSequence` is `BeginsAlone`, as above, `UndoJoins`, which is `UndoFits` for undos of any scope,
and that nobody edits. On one file, two transactions and two turns with a crash, a reopening and a
failing step TLC finds the refinement to hold under it, and a counterexample without each of the
three: two of them are the divergences of section 4, and a file edited while its transaction is
committing is one that recovery leaves alone on purpose. Of `UndoJoins`, the clause about the
count of turns is one TLC does not need there; the proof does.

### SessionStore

Assumed: `BoundsAssumption`, and `NothingAssumption`, that `Nothing` is neither a transcript nor a
path. Any number of runtimes, messages, rewrites, failing writes and crashes is covered, and any
depth of recovery branches.

| theorem | what it says |
| --- | --- |
| `SavesKept` | `Spec /\ []ForksApart => []SavesAreKept` |
| `ConflictsAreForeign` | `Spec /\ []ForksApart => []ConflictIsForeign` |
| `RewritesHold` | `Spec /\ []ForksApart => []NoResurrection` |

`ForksApart` says that the recovery branch a conflict is saved to is not there yet or holds that very
transcript; section 4 has what happens otherwise. A load that reads across a record and a metadata
update that overwrites one, the other divergence, are not excluded: the first two properties do not
need the ledger to be right, only the writes to be marked, and `NoResurrection` names the exception
itself (`slipped`).

A save decides under the lock of the path and writes in three steps under the same lock, any of
which may fail or be the last before a crash, while the session goes on changing. The inductive
invariant says, of each runtime,

1. `Stage`: what the file under its lock holds at each of the steps. Until the record it is the
   transcript that was there or the one of the save, and this one lacks only messages that a runtime
   took out or a forced save dropped (`Covers`); the tail is repaired, so that an appended record is
   replayed.
2. `Known`: what it last stored, the digest of its base, is in its session but for what it took out
   since; that is why a session that owns the file may replace it. Equal versions mean equal
   messages, which is what a snapshot that does nothing relies on.
3. `Current`: at rest, the revision and the digest of its base are those of the file, unless
   another runtime wrote there or a save of its own failed. So the decision of a save cannot be a
   conflict otherwise.

A step of one runtime cannot break these for another (`Bystander`): it writes under a lock the other
does not hold, and marks as overtaken whoever works on that path.

`RewritesHold` needs a second invariant, `Standing`, which follows single messages, because a
runtime that was overtaken keeps what it has in memory and may try to save it at any time later. What
is gone from a path is what was acknowledged there and then taken out by a save that raised the
revision of the ledger; what a failed save may still mean to store does not count. `Standing` says

1. `Sealed` and `Secret`: a message that a runtime added and has not stored is in no file and no
   other session, except in those of runtimes that loaded the path while it was being written; these
   wait for the lock (`Waits`), and a failed save ends the secret (`unsure`). So no rewrite can take
   out what its author is still to store (`Spared`), and what is gone and is in a session came with
   its base.
2. `Ahead`: a runtime that builds on what is gone by now has a base with a revision below the one of
   its file. The check of its next save sees that, and lets it write only if the file still holds all
   of its base (`CoversBase`), which is then not gone, or holds the transcript to be saved already.
3. `Clear`: so what a save under way is about to write is not gone, and a rewrite cannot make it so,
   because the lock of the path is held.
4. `Carried`, `Rooted`: a save stores all that its session and its base have in common, and a session
   builds on what is at its own path.

It is `Ahead` that a ledger read or written across a record breaks, and a save forced at the depth cap
ignores the conflict on purpose; both exceptions are in the property.

Not in the prover's reach and checked by TLC only are the liveness properties `WritersEnter`,
`OperationsEnd`, `WaitersProceed`, `TurnsMoveOn`, `DestroyEnds`, `QueueDrains` and
`SavesConverge`: tlapm has no rules for ENABLED, and so none for fairness.

Every safety property and every refinement that a run checks is proved, under the provisos named
above.

## 6. Not modelled

`PROJECT.json` lists every component with its status. What is left out falls into these kinds:

- **Loading, formatting, display and I/O without a protocol**: configuration and boot, the
  terminal and desktop interfaces, hooks, skills, styles, memory, reports, packaging, SDKs, tools
  and sandboxes, worktrees, releases. Most of the program's lines are here.
- **Behaviour decided by a model's answers**: the agent loop beyond its meeting points with
  other components, context compaction, guardian and evaluators, research. The modules take
  these answers as free choices.
- **Sequential bookkeeping**: the recovery gate, the evidence ledger's classification, goals.
- **Protocols that deserve a module and have none yet**: self-update with its launchers, the MCP
  client's start and reconnect, the ACP server, the bot gateways, the HTTP broadcaster, the
  task monitor.

Within the modelled parts, what each module leaves out is said in section 2.

## 7. Plan

Done: `MutationBarrier` and `WorkspaceLease` with their proofs; `RewindTransaction` and its
refinement of `AtomicRewind`; `CheckpointStore`; `Controller`, `BackgroundJobs`,
`SubagentScheduler`, `SessionStore` and `RepairTransaction`; the proofs about the safety of
`CheckpointStore`, `Controller`, `SubagentScheduler`, `BackgroundJobs` and `RepairTransaction`; for
`SessionStore`, that saves are kept, that conflicts are foreign and that rewrites stand; for
`RewindTransaction`, that its manifests are sound, that its transactions are all or nothing, that
undo stays current, that recovery settles and that it implements `AtomicRewind`.

Modules to add: an abstract register that `SessionStore` implements while no record is
overwritten; the composition of `BackgroundJobs` with `WorkspaceLease`, whose job steps it
refines; self-update; then the MCP, ACP and bot protocols.
