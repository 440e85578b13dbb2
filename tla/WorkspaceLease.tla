--------------------------- MODULE WorkspaceLease ---------------------------
(***************************************************************************)
(* The workspace write lease of internal/workspacelease.  An Owner is one  *)
(* Delivery session, shared by its agent runs (the root agent and its      *)
(* sub-agents).  A run takes the lease lazily with its first write; it is  *)
(* given back when the last run and the last retained background job of    *)
(* the owner have ended.  The lease is a token per process and workspace,  *)
(* and behind it an advisory lock on a file that all processes share.      *)
(*                                                                         *)
(* One action is one critical section of Owner.mu, one channel operation   *)
(* on the token, or one operation on the lock file.                        *)
(*                                                                         *)
(* Operators named Operation_Fault are mutants of Operation.               *)
(***************************************************************************)
EXTENDS Naturals, FiniteSets

CONSTANTS
    Processes,      \* Reasonix processes that write to the workspace
    Owners,         \* Delivery sessions
    Runs,           \* agent runs: root agents and sub-agents
    Jobs,           \* background jobs
    ProcessOf,      \* the process of each owner
    OwnerOf,        \* the owner that each run and each job belongs to
    MaxFailures,    \* bound: cancelled or failing acquisitions
    MaxCrashes      \* bound: crashes of a process

Parties == Runs \cup Jobs

ASSUME LeaseAssumption ==
    /\ IsFiniteSet(Runs) /\ IsFiniteSet(Jobs) /\ Runs \cap Jobs = {}
    /\ ProcessOf \in [Owners -> Processes]
    /\ OwnerOf \in [Parties -> Owners]
    /\ MaxFailures \in Nat /\ MaxCrashes \in Nat

VARIABLES
    activeRuns,     \* Owner.activeRuns
    background,     \* Owner.background
    acquired,       \* Owner.acquired
    acquiring,      \* Owner.acquiring
    releasing,      \* how far the owner's release function is: "no", "file", "token"
    token,          \* localLock.token: the processes whose channel holds the token
    lockFile,       \* the owners (one or none) whose descriptor has the lock on the file
    run,            \* where each run is
    job,            \* where each job is
    granted,        \* history: the parties that may write, since AcquireWrite returned nil
    failures, crashes   \* how much of each bound is used

ownerVars == << activeRuns, background, acquired, acquiring, releasing >>
lockVars == << token, lockFile >>
counters == << failures, crashes >>
leaseVars == << ownerVars, lockVars, run, job, granted, counters >>

\* A run is out, or between calls or inside one that passed AcquireWrite (in), or
\* it is in AcquireWrite: about to look (asking), waiting for another run of the owner
\* (queued), waiting for the token, polling the file, or back from acquire with the
\* lock or with an error.
RunStates == {"out", "in", "asking", "queued", "token", "file", "locked", "failed"}
Acquirer == {"token", "file", "locked", "failed"}
JobStates == {"none", "plain", "retained", "closing"}

RunsOf(o) == { r \in Runs : OwnerOf[r] = o }
JobsOf(o) == { j \in Jobs : OwnerOf[j] = o }
OwnersOf(p) == { o \in Owners : ProcessOf[o] = p }

LeaseInit ==
    /\ activeRuns = [o \in Owners |-> 0] /\ background = [o \in Owners |-> 0]
    /\ acquired = [o \in Owners |-> FALSE] /\ acquiring = [o \in Owners |-> FALSE]
    /\ releasing = [o \in Owners |-> "no"]
    /\ token = Processes /\ lockFile = {}
    /\ run = [r \in Runs |-> "out"] /\ job = [j \in Jobs |-> "none"]
    /\ granted = {} /\ failures = 0 /\ crashes = 0

-----------------------------------------------------------------------------
\* releaseIfIdleLocked: whether the lease is given back, by the counts as they will be.
Idle_NoBackground(o) == acquired[o] /\ ~acquiring[o] /\ activeRuns'[o] = 0
Idle(o) == acquired[o] /\ ~acquiring[o] /\ activeRuns'[o] = 0 /\ background'[o] = 0

ReleaseIfIdle_StaysAcquired(o) ==
    /\ UNCHANGED acquired
    /\ releasing' = [releasing EXCEPT ![o] = IF Idle(o) THEN "file" ELSE @]

ReleaseIfIdle(o) ==
    /\ acquired' = [acquired EXCEPT ![o] = @ /\ ~Idle(o)]
    /\ releasing' = [releasing EXCEPT ![o] = IF Idle(o) THEN "file" ELSE @]

BeginRun(r) ==
    /\ run[r] = "out"
    /\ run' = [run EXCEPT ![r] = "in"]
    /\ activeRuns' = [activeRuns EXCEPT ![OwnerOf[r]] = @ + 1]
    /\ UNCHANGED << background, acquired, acquiring, releasing, lockVars, job, granted, counters >>

EndRun_OnlyIfAcquired(r) ==
    /\ run[r] = "in"
    /\ run' = [run EXCEPT ![r] = "out"]
    /\ activeRuns' = [activeRuns EXCEPT ![OwnerOf[r]] =
                        IF @ > 0 /\ acquired[OwnerOf[r]] THEN @ - 1 ELSE @]
    /\ UNCHANGED background
    /\ ReleaseIfIdle(OwnerOf[r])
    /\ granted' = granted \ {r}
    /\ UNCHANGED << acquiring, lockVars, job, counters >>

EndRun(r) ==
    /\ run[r] = "in"
    /\ run' = [run EXCEPT ![r] = "out"]
    /\ activeRuns' = [activeRuns EXCEPT ![OwnerOf[r]] = IF @ > 0 THEN @ - 1 ELSE @]
    /\ UNCHANGED background
    /\ ReleaseIfIdle(OwnerOf[r])
    /\ granted' = granted \ {r}
    /\ UNCHANGED << acquiring, lockVars, job, counters >>

\* The function acquire returned: the file first, then the token.
ReleaseFile(o) ==
    /\ releasing[o] = "file"
    /\ releasing' = [releasing EXCEPT ![o] = "token"]
    /\ lockFile' = lockFile \ {o}
    /\ UNCHANGED << activeRuns, background, acquired, acquiring, token, run, job, granted, counters >>

ReleaseLocal(o) ==
    /\ releasing[o] = "token" /\ ProcessOf[o] \notin token
    /\ releasing' = [releasing EXCEPT ![o] = "no"]
    /\ token' = token \cup {ProcessOf[o]}
    /\ UNCHANGED << activeRuns, background, acquired, acquiring, lockFile, run, job, granted, counters >>

-----------------------------------------------------------------------------
(* AcquireWrite. *)

\* A call that changes the workspace was permitted.
AskToWrite(r) ==
    /\ run[r] = "in"
    /\ run' = [run EXCEPT ![r] = "asking"]
    /\ UNCHANGED << ownerVars, lockVars, job, granted, counters >>

\* The loop's look at the owner: granted, queued, or the one that acquires.
Look(r) ==
    LET o == OwnerOf[r] IN
    /\ run[r] = "asking"
    /\ \/ /\ acquired[o]
          /\ run' = [run EXCEPT ![r] = "in"]
          /\ granted' = granted \cup {r}
          /\ UNCHANGED acquiring
       \/ /\ ~acquired[o] /\ acquiring[o]
          /\ run' = [run EXCEPT ![r] = "queued"]
          /\ UNCHANGED << acquiring, granted >>
       \/ /\ ~acquired[o] /\ ~acquiring[o]
          /\ run' = [run EXCEPT ![r] = "token"]
          /\ acquiring' = [acquiring EXCEPT ![o] = TRUE]
          /\ UNCHANGED granted
    /\ UNCHANGED << activeRuns, background, acquired, releasing, lockVars, job, counters >>

\* acquire: first the token of the process ...
TakeToken(r) ==
    LET p == ProcessOf[OwnerOf[r]] IN
    /\ run[r] = "token" /\ p \in token
    /\ run' = [run EXCEPT ![r] = "file"]
    /\ token' = token \ {p}
    /\ UNCHANGED << ownerVars, lockFile, job, granted, counters >>

\* ... then the lock on the file; while it is held, tryLockFile is tried again.
TryLockFile_Blind(r) ==
    /\ run[r] = "file"
    /\ run' = [run EXCEPT ![r] = "locked"]
    /\ lockFile' = {OwnerOf[r]}
    /\ UNCHANGED << ownerVars, token, job, granted, counters >>

TryLockFile(r) ==
    /\ run[r] = "file" /\ lockFile = {}
    /\ run' = [run EXCEPT ![r] = "locked"]
    /\ lockFile' = {OwnerOf[r]}
    /\ UNCHANGED << ownerVars, token, job, granted, counters >>

\* The context is cancelled while the run waits, or the lock file cannot be opened.
CancelQueued(r) ==
    /\ failures < MaxFailures /\ failures' = failures + 1
    /\ run[r] = "queued"
    /\ run' = [run EXCEPT ![r] = "in"]
    /\ UNCHANGED << ownerVars, lockVars, job, granted, crashes >>

CancelAcquire(r) ==
    /\ failures < MaxFailures /\ failures' = failures + 1
    /\ run[r] \in {"token", "file"}
    /\ run' = [run EXCEPT ![r] = "failed"]
    /\ token' = IF run[r] = "file" THEN token \cup {ProcessOf[OwnerOf[r]]} ELSE token
    /\ UNCHANGED << ownerVars, lockFile, job, granted, crashes >>

\* After acquire: close(done) sends the queued runs back to the loop.
Woken(r) ==
    [s \in Runs |-> IF s = r THEN "in"
                    ELSE IF run[s] = "queued" /\ OwnerOf[s] = OwnerOf[r] THEN "asking"
                    ELSE run[s]]

\* With a run under way, which r is, releaseIfIdleLocked keeps the lease.
Acquired(r) ==
    LET o == OwnerOf[r] IN
    /\ run[r] = "locked"
    /\ run' = Woken(r)
    /\ acquiring' = [acquiring EXCEPT ![o] = FALSE]
    /\ IF activeRuns[o] # 0 \/ background[o] # 0
       THEN acquired' = [acquired EXCEPT ![o] = TRUE] /\ UNCHANGED releasing
       ELSE releasing' = [releasing EXCEPT ![o] = "file"] /\ UNCHANGED acquired
    /\ granted' = granted \cup {r}
    /\ UNCHANGED << activeRuns, background, lockVars, job, counters >>

NotAcquired_NotClosed(r) ==
    /\ run[r] = "failed"
    /\ run' = [run EXCEPT ![r] = "in"]
    /\ acquiring' = [acquiring EXCEPT ![OwnerOf[r]] = FALSE]
    /\ UNCHANGED << activeRuns, background, acquired, releasing, lockVars, job, granted, counters >>

NotAcquired(r) ==
    /\ run[r] = "failed"
    /\ run' = Woken(r)
    /\ acquiring' = [acquiring EXCEPT ![OwnerOf[r]] = FALSE]
    /\ UNCHANGED << activeRuns, background, acquired, releasing, lockVars, job, granted, counters >>

-----------------------------------------------------------------------------
(* Background jobs. *)

\* A call of r starts job j, and the job manager's observer is RetainUntil.
StartJob(r, j) ==
    LET o == OwnerOf[j] IN
    /\ run[r] = "in" /\ OwnerOf[r] = o
    /\ job[j] = "none"
    /\ job' = [job EXCEPT ![j] = IF acquired[o] THEN "retained" ELSE "plain"]
    /\ background' = [background EXCEPT ![o] = IF acquired[o] THEN @ + 1 ELSE @]
    /\ granted' = IF r \in granted THEN granted \cup {j} ELSE granted
    /\ UNCHANGED << activeRuns, acquired, acquiring, releasing, lockVars, run, counters >>

\* The job ends and its channel is closed ...
JobDone(j) ==
    /\ job[j] \in {"plain", "retained"}
    /\ job' = [job EXCEPT ![j] = IF @ = "plain" THEN "none" ELSE "closing"]
    /\ granted' = granted \ {j}
    /\ UNCHANGED << ownerVars, lockVars, run, counters >>

\* ... and the goroutine of RetainUntil sees it.
JobReleased_KeepsLease(j) ==
    /\ job[j] = "closing"
    /\ job' = [job EXCEPT ![j] = "none"]
    /\ background' = [background EXCEPT ![OwnerOf[j]] = IF @ > 0 THEN @ - 1 ELSE @]
    /\ UNCHANGED << activeRuns, acquired, acquiring, releasing, lockVars, run, granted, counters >>

JobReleased(j) ==
    /\ job[j] = "closing"
    /\ job' = [job EXCEPT ![j] = "none"]
    /\ background' = [background EXCEPT ![OwnerOf[j]] = IF @ > 0 THEN @ - 1 ELSE @]
    /\ UNCHANGED activeRuns
    /\ ReleaseIfIdle(OwnerOf[j])
    /\ UNCHANGED << acquiring, lockVars, run, granted, counters >>

\* A process dies; the system drops its lock on the file.
Crash(p) ==
    LET here(x) == ProcessOf[OwnerOf[x]] = p IN
    /\ crashes < MaxCrashes /\ crashes' = crashes + 1
    /\ activeRuns' = [o \in Owners |-> IF ProcessOf[o] = p THEN 0 ELSE activeRuns[o]]
    /\ background' = [o \in Owners |-> IF ProcessOf[o] = p THEN 0 ELSE background[o]]
    /\ acquired' = [o \in Owners |-> ProcessOf[o] # p /\ acquired[o]]
    /\ acquiring' = [o \in Owners |-> ProcessOf[o] # p /\ acquiring[o]]
    /\ releasing' = [o \in Owners |-> IF ProcessOf[o] = p THEN "no" ELSE releasing[o]]
    /\ token' = token \cup {p}
    /\ lockFile' = lockFile \ OwnersOf(p)
    /\ run' = [r \in Runs |-> IF here(r) THEN "out" ELSE run[r]]
    /\ job' = [j \in Jobs |-> IF here(j) THEN "none" ELSE job[j]]
    /\ granted' = { x \in granted : ~here(x) }
    /\ UNCHANGED failures

AcquireStep(r) ==
    \/ Look(r) \/ TakeToken(r) \/ TryLockFile(r) \/ Acquired(r) \/ NotAcquired(r)

LeaseNext ==
    \/ \E r \in Runs : BeginRun(r) \/ EndRun(r) \/ AskToWrite(r) \/ AcquireStep(r)
                       \/ CancelQueued(r) \/ CancelAcquire(r)
    \/ \E r \in Runs, j \in Jobs : StartJob(r, j)
    \/ \E j \in Jobs : JobDone(j) \/ JobReleased(j)
    \/ \E o \in Owners : ReleaseFile(o) \/ ReleaseLocal(o)
    \/ \E p \in Processes : Crash(p)

LeaseSpec == LeaseInit /\ [][LeaseNext]_leaseVars

\* Goroutines that are not blocked go on; a channel serves its receivers in order.
\* Nothing obliges a run or a job to end.
LeaseFairness ==
    /\ \A r \in Runs :
          /\ WF_leaseVars(Look(r)) /\ WF_leaseVars(TryLockFile(r))
          /\ WF_leaseVars(Acquired(r)) /\ WF_leaseVars(NotAcquired(r))
          /\ SF_leaseVars(TakeToken(r))
    /\ \A j \in Jobs : WF_leaseVars(JobReleased(j))
    /\ \A o \in Owners : WF_leaseVars(ReleaseFile(o)) /\ WF_leaseVars(ReleaseLocal(o))

LeaseFairSpec == LeaseSpec /\ LeaseFairness

-----------------------------------------------------------------------------
(* Properties. *)

\* The types of the owners' fields, the locks and the parties.
LeaseTypeOK ==
    /\ activeRuns \in [Owners -> 0..Cardinality(Runs)]
    /\ background \in [Owners -> 0..Cardinality(Jobs)]
    /\ acquired \in [Owners -> BOOLEAN] /\ acquiring \in [Owners -> BOOLEAN]
    /\ releasing \in [Owners -> {"no", "file", "token"}]
    /\ token \subseteq Processes /\ lockFile \subseteq Owners
    /\ run \in [Runs -> RunStates] /\ job \in [Jobs -> JobStates]
    /\ granted \subseteq Parties
    /\ failures \in 0..MaxFailures /\ crashes \in 0..MaxCrashes

\* "Serializes Delivery writers that target the same workspace": parties that may
\* write at the same time are of one session, whatever the process.
OneWriter == \A x, y \in granted : OwnerOf[x] = OwnerOf[y]

\* "A writer keeps its lease from the first mutation until every participating agent
\* run and background job has finished": as long as a run or a job that
\* may write is there, its session holds the lease, with the lock on the file.
LeaseIsKept ==
    \A x \in granted : acquired[OwnerOf[x]] /\ lockFile = {OwnerOf[x]}

\* The lease is not leaked: a session holds it only while a run or a retained
\* job of it is there.
LeaseIsNeeded ==
    \A o \in Owners : acquired[o] =>
        \/ \E r \in RunsOf(o) : run[r] # "out"
        \/ \E j \in JobsOf(o) : job[j] \in {"retained", "closing"}

\* The release function never blocks on a channel that is full, and nobody
\* takes the lock over while it runs.
ReleaseIsSafe ==
    \A o \in Owners :
        /\ releasing[o] # "no" => ~acquired[o] /\ ProcessOf[o] \notin token
        /\ releasing[o] = "file" => lockFile = {o}

\* A session holds the lease exactly as long as somebody of it needs it, and gives
\* it back without blocking.
LeaseIsExact == LeaseIsKept /\ LeaseIsNeeded /\ ReleaseIsSafe

\* "This session will continue automatically when it is safe": a run that waits gets
\* an answer, provided that the other sessions of the process let go of the lease again
\* and again and those of other processes, which are only polled, in the end.
Waiting(r) == run[r] \in {"asking", "queued", "token", "file", "locked", "failed"}
OthersLetGo(r) ==
    LET p == ProcessOf[OwnerOf[r]] IN
    /\ <>[](lockFile \subseteq OwnersOf(p))
    /\ \A o \in OwnersOf(p) \ {OwnerOf[r]} : []<>(~acquired[o])
WaitersProceed == \A r \in Runs : OthersLetGo(r) => (Waiting(r) ~> ~Waiting(r))
=============================================================================
