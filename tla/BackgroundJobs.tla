--------------------------- MODULE BackgroundJobs ---------------------------
(***************************************************************************)
(* The table of background jobs (internal/jobs/jobs.go) with the turns     *)
(* that start, stop and review them.  A job is a goroutine with a record   *)
(* in its manager's table and a metadata file beside the transcript.  What *)
(* a background sub-agent changed is told to the parent by its receipts:   *)
(* they are published when the run returns, leased into the ledger of a    *)
(* turn, and drained only when that turn delivers.                         *)
(*                                                                         *)
(* A process holds one current manager; a rebuild of the controller leaves *)
(* the goroutines of the old one unwinding.  A crash loses every manager   *)
(* and keeps the files.                                                    *)
(* Operators named Operation_Fault are mutants of Operation.               *)
(***************************************************************************)
EXTENDS Naturals, FiniteSets

CONSTANTS
    MaxJobs,        \* bound: jobs ever started
    MaxManagers,    \* bound: managers, over restarts and rebuilds
    MaxSessions,    \* bound: sessions, the first and those after a clear
    Callers,        \* concurrent calls of the task tool
    Limit,          \* maxConcurrentBackgroundTasks
    Scales,         \* bounds of the scenarios, one of which is chosen at the start
    None            \* no record

Jobs == 1..MaxJobs
Managers == 1..MaxManagers
Sessions == 1..MaxSessions
\* Jobs that change the workspace: a sub-agent, or a fleet of them.
Kinds == {"task", "fleet"}

ASSUME BoundsAssumption ==
    /\ {MaxJobs, MaxManagers, MaxSessions, Limit} \subseteq Nat \ {0}
    /\ IsFiniteSet(Callers)
    \* capped: no scheduler is attached, so the legacy hard cap applies;
    \* mishaps: kills, crashes, rebuilds and failed writes, together.
    /\ Scales \subseteq [capped: BOOLEAN, jobs: Jobs, kinds: SUBSET Kinds, turns: Nat,
                         mishaps: Nat]

Terminal == {"done", "failed", "killed", "interrupted"}
Statuses == Terminal \union {"running"}

VARIABLES
    scale,       \* the scenario
    mgr,         \* the current manager
    up,          \* the process runs
    live,        \* liveManagerOwners: managers whose owner id is registered
    mem,         \* mem[m][j]: the Job object of manager m, or None
    run,         \* run[j]: the goroutine of job j
    disk,        \* disk[j]: its metadata file, or None
    loaded,      \* m.loaded: the artifacts of the session have been loaded
    load,        \* the load in progress: files left, the one read, its content
    notes,       \* m.completed of the current manager: how many notes of each job
    callers,     \* progress of the calls that start jobs
    reservations,\* m.reservations of the session
    turn,        \* the turn: phase, plan mode, ledger, background leases
    session,     \* the active session
    destroying,  \* the session in its destroy window, or 0
    teardown,    \* the asynchronous clean-up of that session
    told,        \* history: notes drained into turns, per job
    reviewed,    \* history: jobs whose receipts a delivered turn had merged
    settled,     \* history: jobs whose terminal metadata was written
    rebuilt,     \* history: the controller was rebuilt
    spent        \* what has been used of the bounds

procVars == <<scale, mgr, up, live>>
loadVars == <<loaded, load>>
startVars == <<callers, reservations>>
sessionVars == <<session, destroying, teardown>>
history == <<told, reviewed, settled, rebuilt>>
vars == <<procVars, mem, run, disk, loadVars, notes, startVars, turn, sessionVars,
          history, spent>>

\* The steps of a job's goroutine, in order; "gone": it died with its process.
Pcs == {"none", "registered", "running", "returned", "persisted", "noted", "published",
        "done", "gone"}

Object == [status: Statuses, receipts: BOOLEAN, committed: BOOLEAN, tombstone: BOOLEAN]
Meta == [status: Statuses, owner: Managers, evidence: BOOLEAN]
Goroutine == [pc: Pcs, kind: Kinds, owner: Managers, session: Sessions, cancelled: BOOLEAN,
              outcome: Statuses, mutated: BOOLEAN]

ASSUME NamesAssumption == None \notin Object \union Meta

Idle == [phase |-> "idle", plan |-> FALSE, ledger |-> {}, leases |-> {}]
NoLoad == [files |-> {}, at |-> 0, meta |-> None, owned |-> FALSE, deferred |-> FALSE, on |-> FALSE]
NoTeardown == [phase |-> "none", targets |-> {}]
NotStarted == [pc |-> "none", kind |-> "task", owner |-> 1, session |-> 1, cancelled |-> FALSE,
               outcome |-> "running", mutated |-> FALSE]

Init ==
    /\ scale \in Scales
    /\ mgr = 1 /\ up = TRUE /\ live = {1}
    /\ mem = [m \in Managers |-> [j \in Jobs |-> None]]
    /\ run = [j \in Jobs |-> NotStarted]
    /\ disk = [j \in Jobs |-> None]
    /\ loaded = TRUE /\ load = NoLoad
    /\ notes = [j \in Jobs |-> 0]
    /\ callers = [c \in Callers |-> "idle"]
    /\ reservations = 0
    /\ turn = Idle
    /\ session = 1 /\ destroying = 0 /\ teardown = NoTeardown
    /\ told = [j \in Jobs |-> 0]
    /\ reviewed = {} /\ settled = {}
    /\ spent = [turns |-> 0, mishaps |-> 0] /\ rebuilt = FALSE

-----------------------------------------------------------------------------
(* What the operations read.                                               *)

\* A kill, a crash, a rebuild or a failed write, within the bound.
Mishap == spent.mishaps < scale.mishaps /\ spent' = [spent EXCEPT !.mishaps = @ + 1]

Owned(m, j) == mem[m][j] # None
\* The done channel of a record: closed by its goroutine, or from the start.
IsDone(m, j) == mem[m][j].tombstone \/ run[j].pc = "done"
OfSession(s) == {j \in Jobs : Owned(mgr, j) /\ run[j].session = s}
Unfinished(s) == {j \in OfSession(s) : run[j].kind = "task" /\ ~IsDone(mgr, j)}

\* Writes the goroutine's own record, when it is still in a table.
SetObject(j, object) ==
    LET o == run[j].owner IN
    mem' = IF Owned(o, j) THEN [mem EXCEPT ![o] = [@ EXCEPT ![j] = object]] ELSE mem
\* Writes the record of the current manager.
SetRecord(j, object) == mem' = [mem EXCEPT ![mgr] = [@ EXCEPT ![j] = object]]
Own(j) == mem[run[j].owner][j]

\* Faulty: a status other than running is taken for a finished job.
Ready_OnStatus(j) == Owned(mgr, j) /\ mem[mgr][j].status # "running"
\* TryLease: ready only when done is closed; empty when already committed.
Ready(j) == Owned(mgr, j) /\ IsDone(mgr, j)
Leased(j) == mem[mgr][j].receipts /\ ~mem[mgr][j].committed
Pending == {j \in OfSession(session) : Ready(j) /\ Leased(j)}

-----------------------------------------------------------------------------
(* A call of the task tool: reserve, start, release.                       *)

InTurn == up /\ turn.phase = "running"

\* Faulty: reservations in flight are not counted.
ReserveStart_Uncounted(c) ==
    /\ InTurn /\ scale.capped /\ callers[c] = "idle"
    /\ Cardinality(Unfinished(session)) < Limit
    /\ callers' = [callers EXCEPT ![c] = "reserved"]
    /\ reservations' = reservations + 1
    /\ UNCHANGED <<procVars, mem, run, disk, loadVars, notes, turn, sessionVars, history, spent>>

\* ReserveStartForSession: unfinished jobs and reservations both count.
ReserveStart(c) ==
    /\ InTurn /\ scale.capped /\ callers[c] = "idle"
    /\ Cardinality(Unfinished(session)) + reservations < Limit
    /\ callers' = [callers EXCEPT ![c] = "reserved"]
    /\ reservations' = reservations + 1
    /\ UNCHANGED <<procVars, mem, run, disk, loadVars, notes, turn, sessionVars,
                   history, spent>>

Started(kind) ==
    [pc |-> "registered", kind |-> kind, owner |-> mgr, session |-> session,
     cancelled |-> FALSE, outcome |-> "running", mutated |-> FALSE]

\* StartForSession up to the unlock: the job is in the table before its file.
StartForSession(c) ==
    /\ InTurn
    /\ callers[c] = IF scale.capped THEN "reserved" ELSE "idle"
    /\ \E j \in 1..scale.jobs, kind \in IF scale.capped THEN {"task"} ELSE scale.kinds :
        /\ run[j].pc = "none" /\ \A i \in 1..j - 1 : run[i].pc # "none"
        /\ run' = [run EXCEPT ![j] = Started(kind)]
        /\ SetRecord(j, [status |-> "running", receipts |-> FALSE,
                         committed |-> FALSE, tombstone |-> FALSE])
    /\ callers' = [callers EXCEPT ![c] = IF scale.capped THEN "started" ELSE "idle"]
    /\ UNCHANGED <<procVars, disk, loadVars, notes, reservations, turn,
                   sessionVars, history, spent>>

\* Faulty: the release is not guarded by its once.
ReleaseStart_Twice(c) ==
    /\ up /\ callers[c] = "started"
    /\ callers' \in {callers, [callers EXCEPT ![c] = "idle"]}
    /\ reservations' = reservations - 1
    /\ UNCHANGED <<procVars, mem, run, disk, loadVars, notes, turn, sessionVars, history, spent>>

ReleaseStart(c) ==
    /\ up /\ callers[c] = "started"
    /\ callers' = [callers EXCEPT ![c] = "idle"]
    /\ reservations' = reservations - 1
    /\ UNCHANGED <<procVars, mem, run, disk, loadVars, notes, turn, sessionVars,
                   history, spent>>

-----------------------------------------------------------------------------
(* The goroutine of a job.                                                 *)

\* What writeJobMetaLocked writes for job j with status s: the receipts of a
\* task, and of no other kind of job.
MetaOf(j, s, evidence) ==
    [status |-> s, owner |-> run[j].owner, evidence |-> evidence /\ run[j].kind = "task"]

\* The first metadata says Running; the goroutine starts after it.
Launch(j) ==
    /\ up /\ run[j].pc = "registered"
    /\ disk' = [disk EXCEPT ![j] = MetaOf(j, "running", mem[run[j].owner][j].receipts)]
    /\ run' = [run EXCEPT ![j].pc = "running"]
    /\ UNCHANGED <<procVars, mem, loadVars, notes, startVars, turn, sessionVars,
                   history, spent>>

\* The sub-agent of the job changes the workspace.
Mutate(j) ==
    /\ up /\ run[j].pc = "running" /\ ~run[j].mutated
    /\ run' = [run EXCEPT ![j].mutated = TRUE]
    /\ UNCHANGED <<procVars, mem, disk, loadVars, notes, startVars, turn,
                   sessionVars, history, spent>>

\* The run returns: PublishEvidence is deferred in it, and the outcome is
\* Killed whenever the context was cancelled, whatever the run answered.
Return(j) ==
    /\ up /\ run[j].pc = "running"
    /\ \E st \in IF run[j].cancelled THEN {"killed"} ELSE {"done", "failed"} :
        run' = [run EXCEPT ![j] = [[@ EXCEPT !.pc = "returned"] EXCEPT !.outcome = st]]
    /\ SetObject(j, [Own(j) EXCEPT !.receipts = run[j].mutated])
    /\ UNCHANGED <<procVars, disk, loadVars, notes, startVars, turn, sessionVars,
                   history, spent>>

\* The terminal metadata, with the receipts; a failed write is only noted.
Persist(j) ==
    /\ up /\ run[j].pc = "returned"
    /\ run' = [run EXCEPT ![j].pc = "persisted"]
    /\ \/ /\ disk' = [disk EXCEPT ![j] = MetaOf(j, run[j].outcome, run[j].mutated)]
          /\ settled' = settled \union {j}
          /\ UNCHANGED spent
       \/ /\ Mishap
          /\ UNCHANGED <<disk, settled>>
    /\ UNCHANGED <<procVars, mem, loadVars, notes, startVars, turn, sessionVars,
                   told, reviewed, rebuilt>>

\* Faulty: the destroy window is not looked at.
RecordCompletion_Always(j) ==
    /\ up /\ run[j].pc = "persisted"
    /\ notes' = IF run[j].owner # mgr THEN notes ELSE [notes EXCEPT ![j] = @ + 1]
    /\ run' = [run EXCEPT ![j].pc = "noted"]
    /\ UNCHANGED <<procVars, mem, disk, loadVars, startVars, turn, sessionVars, history, spent>>

\* recordCompletion: no note for a session in its destroy window.
RecordCompletion(j) ==
    /\ up /\ run[j].pc = "persisted"
    /\ notes' = IF run[j].owner # mgr \/ destroying = run[j].session
                THEN notes ELSE [notes EXCEPT ![j] = @ + 1]
    /\ run' = [run EXCEPT ![j].pc = "noted"]
    /\ UNCHANGED <<procVars, mem, disk, loadVars, startVars, turn, sessionVars,
                   history, spent>>

\* Faulty: the status is published before the note is queued.
Publish_First(j) ==
    /\ up /\ run[j].pc \in {"persisted", "noted"}
    /\ LET o == run[j].owner IN
       IF Owned(o, j) /\ mem[o][j].status # "killed"
       THEN SetObject(j, [Own(j) EXCEPT !.status = run[j].outcome]) ELSE UNCHANGED mem
    /\ run' = IF run[j].pc = "noted" THEN [run EXCEPT ![j].pc = "published"] ELSE run
    /\ UNCHANGED <<procVars, disk, loadVars, notes, startVars, turn, sessionVars, history, spent>>

\* A kill that already published its status keeps it.
Publish(j) ==
    /\ up /\ run[j].pc = "noted"
    /\ LET o == run[j].owner IN
       IF Owned(o, j) /\ mem[o][j].status # "killed"
       THEN SetObject(j, [Own(j) EXCEPT !.status = run[j].outcome]) ELSE UNCHANGED mem
    /\ run' = [run EXCEPT ![j].pc = "published"]
    /\ UNCHANGED <<procVars, disk, loadVars, notes, startVars, turn, sessionVars,
                   history, spent>>

CloseDone(j) ==
    /\ up /\ run[j].pc = "published"
    /\ run' = [run EXCEPT ![j].pc = "done"]
    /\ UNCHANGED <<procVars, mem, disk, loadVars, notes, startVars, turn,
                   sessionVars, history, spent>>

\* KillForSession flips the status under the lock of the job ...
Kill(j) ==
    /\ up /\ Mishap
    /\ j \in OfSession(session) /\ mem[mgr][j].status = "running"
    /\ SetRecord(j, [mem[mgr][j] EXCEPT !.status = "killed"])
    /\ UNCHANGED <<procVars, run, disk, loadVars, notes, startVars, turn,
                   sessionVars, history>>

\* Faulty: only jobs of the active session are cancelled.
Cancel_ActiveOnly(j) ==
    /\ up /\ run[j].pc \notin {"none", "gone"} /\ ~run[j].cancelled
    /\ Owned(run[j].owner, j) /\ mem[run[j].owner][j].status = "killed"
    /\ run[j].session = session
    /\ run' = [run EXCEPT ![j].cancelled = TRUE]
    /\ UNCHANGED <<procVars, mem, disk, loadVars, notes, startVars, turn, sessionVars,
                   history, spent>>

\* ... and cancels the context after it; so do BeginDestroySession and Close.
Cancel(j) ==
    /\ up /\ run[j].pc \notin {"none", "gone"} /\ ~run[j].cancelled
    /\ Owned(run[j].owner, j) /\ mem[run[j].owner][j].status = "killed"
    /\ run' = [run EXCEPT ![j].cancelled = TRUE]
    /\ UNCHANGED <<procVars, mem, disk, loadVars, notes, startVars, turn,
                   sessionVars, history, spent>>

\* A cancelled run unwinds; one that is not may run for ever.
Unwind(j) == run[j].cancelled /\ Return(j)

JobStep(j) ==
    \/ Launch(j) \/ Unwind(j) \/ Persist(j) \/ RecordCompletion(j)
    \/ Publish(j) \/ CloseDone(j) \/ Cancel(j)

-----------------------------------------------------------------------------
(* Turns.                                                                  *)

Quiet == up /\ turn.phase = "idle" /\ ~load.on

NotesWithout(s) == [j \in Jobs |-> IF run[j].session = s THEN 0 ELSE notes[j]]

\* The input takes the completion notes of the session; the ledger is reset,
\* or kept with only its leases reset; unless the turn is a plan turn, what no
\* turn has committed is leased again.
StartTurn ==
    /\ Quiet /\ spent.turns < scale.turns /\ spent' = [spent EXCEPT !.turns = @ + 1]
    /\ \E plan \in BOOLEAN, keep \in BOOLEAN :
        LET again == IF plan THEN {} ELSE Pending IN
        turn' = [phase |-> "running", plan |-> plan, leases |-> again,
                 ledger |-> (IF keep THEN turn.ledger ELSE {}) \union again]
    /\ told' = [j \in Jobs |-> IF run[j].session = session THEN told[j] + notes[j] ELSE told[j]]
    /\ notes' = NotesWithout(session)
    /\ UNCHANGED <<procVars, mem, run, disk, loadVars, startVars, sessionVars,
                   reviewed, settled, rebuilt>>

\* Faulty: the lease is noted before the read says whether it is ready.
Collect_Early(j) ==
    /\ InTurn /\ ~turn.plan
    /\ j \in OfSession(session) /\ j \notin turn.leases
    /\ turn' = [turn EXCEPT !.leases = @ \union {j},
                            !.ledger = IF Ready(j) /\ Leased(j) THEN @ \union {j} ELSE @]
    /\ UNCHANGED <<procVars, mem, run, disk, loadVars, notes, startVars, sessionVars,
                   history, spent>>

\* collectBackgroundEvidence after bash_output or wait: the lease is noted
\* once per turn, and only when the evidence is complete.
Collect(j) ==
    /\ InTurn /\ ~turn.plan
    /\ j \in OfSession(session) /\ Ready(j) /\ j \notin turn.leases
    /\ turn' = [[turn EXCEPT !.leases = @ \union {j}]
                   EXCEPT !.ledger = IF Leased(j) THEN @ \union {j} ELSE @]
    /\ UNCHANGED <<procVars, mem, run, disk, loadVars, notes, startVars,
                   sessionVars, history, spent>>

\* The turn fails or is cancelled (its leases stay uncommitted), or delivers.
EndTurn ==
    /\ InTurn /\ \A c \in Callers : callers[c] = "idle"
    /\ \/ turn' = [turn EXCEPT !.phase = "idle"] /\ UNCHANGED reviewed
       \/ /\ turn' = [turn EXCEPT !.phase = "committing"]
          /\ reviewed' = reviewed \union turn.ledger
    /\ UNCHANGED <<procVars, mem, run, disk, loadVars, notes, startVars,
                   sessionVars, told, settled, rebuilt, spent>>

\* CommitEvidenceForSession drains the record and rewrites the metadata; when
\* that write fails a restart brings the evidence back.
CommitEvidence(j) ==
    /\ up /\ turn.phase = "committing" /\ j \in turn.leases
    /\ turn' = [turn EXCEPT !.leases = @ \ {j}]
    /\ IF Ready(j) /\ ~mem[mgr][j].committed
       THEN /\ SetRecord(j, [status |-> mem[mgr][j].status, receipts |-> FALSE,
                             committed |-> TRUE, tombstone |-> mem[mgr][j].tombstone])
            /\ \/ /\ disk' = IF mem[mgr][j].receipts
                             THEN [disk EXCEPT ![j] = [status |-> mem[mgr][j].status,
                                                       owner |-> mgr, evidence |-> FALSE]]
                             ELSE disk
                  /\ UNCHANGED spent
               \/ mem[mgr][j].receipts /\ Mishap /\ UNCHANGED disk
       ELSE UNCHANGED <<mem, disk, spent>>
    /\ UNCHANGED <<procVars, run, loadVars, notes, startVars, sessionVars, history>>

TurnDelivered ==
    /\ up /\ turn.phase = "committing" /\ turn.leases = {}
    /\ turn' = [turn EXCEPT !.phase = "idle"]
    /\ UNCHANGED <<procVars, mem, run, disk, loadVars, notes, startVars,
                   sessionVars, history, spent>>

-----------------------------------------------------------------------------
(* Discarding a session.                                                   *)

Targets == {j \in OfSession(session) : mem[mgr][j].status \in {"running", "killed"}}

Killed(targets) ==
    [j \in Jobs |-> IF j \in targets THEN [mem[mgr][j] EXCEPT !.status = "killed"] ELSE mem[mgr][j]]

\* FinishDestroySession forgets the jobs of the session.
Purged(s) == [mem EXCEPT ![mgr] = [j \in Jobs |-> IF run[j].session = s THEN None ELSE mem[mgr][j]]]
Removed(s) == [j \in Jobs |-> IF run[j].session = s THEN None ELSE disk[j]]

\* ClearSession: BeginDestroySession kills what runs and drops the notes; with
\* nothing to wait for the artifacts go and the window closes at once (and the
\* session is kept when that removal fails), else a goroutine does it later.
ClearSession ==
    /\ Quiet /\ session < MaxSessions /\ teardown.phase = "none"
    /\ notes' = NotesWithout(session)
    /\ \/ /\ Targets = {}
          /\ disk' = Removed(session) /\ mem' = Purged(session)
          /\ session' = session + 1 /\ loaded' = TRUE
          /\ UNCHANGED <<destroying, teardown, spent>>
       \/ /\ Targets = {} /\ Mishap
          /\ mem' = Purged(session) /\ loaded' = FALSE
          /\ UNCHANGED <<disk, session, destroying, teardown>>
       \/ /\ Targets # {}
          /\ mem' = [mem EXCEPT ![mgr] = Killed(Targets)]
          /\ destroying' = session
          /\ teardown' = [phase |-> "waiting", targets |-> Targets]
          /\ session' = session + 1 /\ loaded' = TRUE
          /\ UNCHANGED <<disk, spent>>
    /\ UNCHANGED <<procVars, run, load, startVars, turn, history>>

\* WaitTeardown, and after its grace the wait for every target.
TeardownWaited ==
    /\ up /\ teardown.phase = "waiting" /\ \A j \in teardown.targets : IsDone(mgr, j)
    /\ teardown' = [teardown EXCEPT !.phase = "unwound"]
    /\ UNCHANGED <<procVars, mem, run, disk, loadVars, notes, startVars, turn,
                   session, destroying, history, spent>>

\* removeSessionArtifacts, which may fail, then FinishDestroySession.
RemoveArtifacts ==
    /\ up /\ teardown.phase = "unwound"
    /\ teardown' = [teardown EXCEPT !.phase = "removed"]
    /\ \/ disk' = Removed(destroying) /\ UNCHANGED spent
       \/ Mishap /\ UNCHANGED disk
    /\ UNCHANGED <<procVars, mem, run, loadVars, notes, startVars, turn, session,
                   destroying, history>>

FinishDestroySession ==
    /\ up /\ teardown.phase = "removed"
    /\ teardown' = NoTeardown /\ destroying' = 0
    /\ mem' = Purged(destroying)
    /\ UNCHANGED <<procVars, run, disk, loadVars, notes, startVars, turn, session,
                   history, spent>>

TeardownStep == TeardownWaited \/ RemoveArtifacts \/ FinishDestroySession

-----------------------------------------------------------------------------
(* Crashes, rebuilds, and the load of what an earlier manager left.        *)

\* loadSessionArtifacts lists the directory; whether this runtime holds the
\* lease of the transcript is what the ownership probe answers.
BeginLoad ==
    \E owned \in BOOLEAN :
        load' = [files |-> {j \in Jobs : disk[j] # None /\ run[j].session = session},
                 at |-> 0, meta |-> None, owned |-> owned, deferred |-> FALSE, on |-> TRUE]

\* The process ends with every goroutine of it; the files stay.
Crash ==
    /\ up /\ Mishap
    /\ up' = FALSE /\ live' = {}
    /\ mem' = [m \in Managers |-> [j \in Jobs |-> None]]
    /\ run' = [j \in Jobs |-> IF run[j].pc = "none" THEN run[j]
                              ELSE [run[j] EXCEPT !.pc = "gone"]]
    /\ notes' = [j \in Jobs |-> 0] /\ callers' = [c \in Callers |-> "idle"] /\ reservations' = 0
    /\ turn' = Idle /\ load' = NoLoad /\ loaded' = FALSE
    /\ destroying' = 0 /\ teardown' = NoTeardown
    /\ UNCHANGED <<scale, mgr, disk, session, history>>

Restart ==
    /\ ~up /\ mgr < MaxManagers
    /\ up' = TRUE /\ mgr' = mgr + 1 /\ live' = {mgr + 1}
    /\ BeginLoad
    /\ UNCHANGED <<scale, mem, run, disk, loaded, notes, startVars, turn,
                   sessionVars, history, spent>>

\* A new controller takes over in the same process: the old manager's context
\* is cancelled (Close also publishes Killed) and its goroutines unwind.
Rebuild ==
    /\ Quiet /\ teardown.phase = "none"
    /\ mgr < MaxManagers /\ Mishap /\ rebuilt' = TRUE
    /\ mgr' = mgr + 1 /\ live' = live \union {mgr + 1}
    /\ run' = [j \in Jobs |-> IF run[j].owner = mgr THEN [run[j] EXCEPT !.cancelled = TRUE]
                              ELSE run[j]]
    /\ \E close \in BOOLEAN :
        mem' = IF close
               THEN [mem EXCEPT ![mgr] =
                       Killed({j \in Jobs : Owned(mgr, j) /\ mem[mgr][j].status = "running"})]
               ELSE mem
    /\ notes' = [j \in Jobs |-> 0] /\ turn' = Idle /\ loaded' = FALSE
    /\ BeginLoad
    /\ UNCHANGED <<scale, up, disk, startVars, sessionVars, told, reviewed,
                   settled>>

\* A manager is registered as an owner until its last goroutine has returned.
ReleaseOwner(m) ==
    /\ up /\ m \in live \ {mgr}
    /\ \A j \in Jobs : run[j].owner = m => run[j].pc \in {"none", "done", "gone"}
    /\ live' = live \ {m}
    /\ UNCHANGED <<scale, mgr, up, mem, run, disk, loadVars, notes, startVars,
                   turn, sessionVars, history, spent>>

\* The session is bound again while an artifact of it was deferred.
Rebind ==
    /\ Quiet /\ ~loaded /\ BeginLoad
    /\ UNCHANGED <<procVars, mem, run, disk, loaded, notes, startVars, turn,
                   sessionVars, history, spent>>

\* The next metadata file is read; what it says is used a step later.
LoadRead ==
    /\ up /\ load.on /\ load.at = 0
    /\ \E j \in load.files :
        /\ \A i \in load.files : j <= i
        /\ load' = [files |-> load.files \ {j}, at |-> j, meta |-> disk[j],
                    owned |-> load.owned, deferred |-> load.deferred, on |-> load.on]
    /\ UNCHANGED <<procVars, mem, run, disk, loaded, notes, startVars, turn,
                   sessionVars, history, spent>>

\* A record that exists is kept; a loaded one has its done channel closed.
Tombstone(j, meta) ==
    IF Owned(mgr, j) THEN UNCHANGED mem
    ELSE SetRecord(j, [status |-> meta.status, receipts |-> meta.evidence,
                       committed |-> FALSE, tombstone |-> TRUE])

\* Faulty: the lease alone is taken as proof.
Abandoned_ByLease(meta) == load.owned

Abandoned(meta) == meta.owner \notin live /\ load.owned

\* A Running record of a live owner, or without the lease, is deferred; an
\* abandoned one is repaired as Interrupted, and deferred when that fails.
LoadSettle ==
    /\ up /\ load.at # 0
    /\ LET j == load.at
           meta == load.meta
           next == [[load EXCEPT !.at = 0] EXCEPT !.meta = None]
           repaired == [meta EXCEPT !.status = "interrupted"]
       IN \/ /\ meta.status # "running"
             /\ Tombstone(j, meta) /\ load' = next
             /\ UNCHANGED <<disk, spent>>
          \/ /\ meta.status = "running" /\ Abandoned(meta)
             /\ disk' = [disk EXCEPT ![j] = repaired]
             /\ Tombstone(j, repaired) /\ load' = next
             /\ UNCHANGED spent
          \/ /\ meta.status = "running"
             /\ IF Abandoned(meta) THEN Mishap ELSE UNCHANGED spent
             /\ load' = [next EXCEPT !.deferred = TRUE]
             /\ UNCHANGED <<mem, disk>>
    /\ UNCHANGED <<procVars, run, loaded, notes, startVars, turn, sessionVars,
                   history>>

LoadEnd ==
    /\ up /\ load.on /\ load.at = 0 /\ load.files = {}
    /\ loaded' = ~load.deferred /\ load' = NoLoad
    /\ UNCHANGED <<procVars, mem, run, disk, notes, startVars, turn, sessionVars,
                   history, spent>>

-----------------------------------------------------------------------------
Next ==
    \/ \E c \in Callers : ReserveStart(c) \/ StartForSession(c) \/ ReleaseStart(c)
    \/ \E j \in Jobs :
        JobStep(j) \/ Mutate(j) \/ Return(j) \/ Kill(j) \/ Collect(j) \/ CommitEvidence(j)
    \/ StartTurn \/ EndTurn \/ TurnDelivered
    \/ ClearSession \/ TeardownStep
    \/ Crash \/ Restart \/ Rebuild \/ \E m \in Managers : ReleaseOwner(m)
    \/ Rebind \/ LoadRead \/ LoadSettle \/ LoadEnd

Spec == Init /\ [][Next]_vars

\* Goroutines run: the job's own, the caller that cancels, and the clean-up.
\* Nothing obliges a run to return by itself; once its context is cancelled the
\* tools give up within a bounded delay.
FairSpec == Spec /\ \A j \in Jobs : WF_vars(JobStep(j)) /\ WF_vars(TeardownStep)

-----------------------------------------------------------------------------
\* Types of the state.
TypeOK ==
    /\ scale \in Scales /\ up \in BOOLEAN /\ loaded \in BOOLEAN
    /\ mgr \in Managers /\ live \subseteq Managers
    /\ mem \in [Managers -> [Jobs -> Object \union {None}]]
    /\ run \in [Jobs -> Goroutine]
    /\ disk \in [Jobs -> Meta \union {None}]
    /\ load.files \subseteq Jobs /\ load.at \in 0..MaxJobs
    /\ load.meta \in Meta \union {None}
    /\ notes \in [Jobs -> Nat]
    /\ callers \in [Callers -> {"idle", "reserved", "started"}]
    /\ reservations \in 0..Cardinality(Callers)
    /\ turn.phase \in {"idle", "running", "committing"}
    /\ turn.ledger \subseteq Jobs /\ turn.leases \subseteq Jobs
    /\ session \in Sessions /\ destroying \in 0..MaxSessions
    /\ teardown.targets \subseteq Jobs
    /\ rebuilt \in BOOLEAN
    /\ told \in [Jobs -> Nat] /\ reviewed \subseteq Jobs /\ settled \subseteq Jobs

\* No change of a background job goes unreviewed: once its goroutine is done,
\* the change is still pending for the next turn or was in the ledger of a
\* turn that delivered; and once its terminal metadata was written, the file
\* of a task still carries it through a crash until a turn delivered it.  (A
\* rebuild is excepted from the second: its load may repair a record it read
\* before the old manager's goroutine settled it.)
EvidenceKept ==
    \A j \in Jobs : run[j].mutated /\ run[j].session = session /\ j \notin reviewed =>
        /\ run[j].pc = "done" /\ Owned(mgr, j) /\ ~mem[mgr][j].tombstone => j \in Pending
        /\ j \in settled /\ run[j].kind = "task" /\ ~rebuilt => disk[j].evidence

\* A lease is noted only on complete evidence: whatever a running turn has
\* leased and its job changed is in the ledger the turn is judged by.
LeaseIsComplete ==
    turn.phase # "idle" => \A j \in turn.leases :
        run[j].mutated /\ Owned(mgr, j) /\ mem[mgr][j].receipts => j \in turn.ledger

\* What a background job changed is judged by a turn that saw all of it.
EvidenceIsReviewed == EvidenceKept /\ LeaseIsComplete

\* A job whose goroutine still runs in this process is never loaded as a
\* tombstone that says it was interrupted, whoever loads and whenever.
NoLiveTombstone ==
    \A j \in Jobs :
        Owned(mgr, j) /\ mem[mgr][j].status = "interrupted" => run[j].pc \in {"done", "gone"}

\* Every natural completion that can be observed has been announced to the
\* model or waits to be, exactly once; the status is published after the note.
CompletionTold ==
    \A j \in OfSession(session) :
        /\ told[j] + notes[j] <= 1
        /\ ~mem[mgr][j].tombstone /\ mem[mgr][j].status \in {"done", "failed"}
             => told[j] + notes[j] = 1

\* Concurrent calls never start more jobs than the cap allows.
CapKept == scale.capped => Cardinality(Unfinished(session)) <= Limit

\* The table is right about what runs: no job that runs is taken for one that
\* was interrupted, and racing starts are all counted.
TableIsTrue == TypeOK /\ NoLiveTombstone /\ CapKept

\* A discarded session is silent: a job of it that ends while the session is
\* being destroyed, or after, queues no note for the session that follows.
DestroyedIsSilent ==
    \A j \in Jobs : notes[j] > 0 => run[j].session = session

\* The model is told of each completion once, in the session it belongs to.
NotesAreTrue == CompletionTold /\ DestroyedIsSilent

\* The clean-up of a discarded session ends.
DestroyEnds == teardown.phase # "none" ~> teardown.phase = "none"

\* Evidence survives a restart: the pending jobs include those of which "the
\* process restarted before any turn collected it at all" (jobs.go:2003-2009).
RestartKeepsEvidence ==
    \A j \in OfSession(session) :
        j \in settled /\ run[j].mutated /\ j \notin reviewed /\ Ready(j) => j \in Pending
=============================================================================
