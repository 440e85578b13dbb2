--------------------------- MODULE MutationBarrier ---------------------------
(***************************************************************************)
(* The workspace mutation barrier of internal/checkpoint and the clients   *)
(* that share it:                                                          *)
(*                                                                         *)
(*   - Tools: tool-call goroutines, which hold EnterWrite/ExitWrite around *)
(*     hooks, capture and execution of a writer tool (execute_one.go);     *)
(*     a call that runs a child agent holds it once more per nested write; *)
(*   - Subs: background sub-agents, which hold the barrier for their whole *)
(*     life through the writer registry (RegisterWriter, UnregisterWriter);*)
(*   - Rewinders: callers that preview a rewind (PrepareRewind) and later  *)
(*     commit it (CommitRewind), or undo one (UndoRewind).                 *)
(*                                                                         *)
(* One action is one critical section of barrier.mu, registry.mu or        *)
(* Store.mu.  RegisterWriter blocks inside EnterWrite while it holds       *)
(* registry.mu, so that lock is a variable.                                *)
(*                                                                         *)
(* Operators named Operation_Fault are mutants of Operation: the mistakes  *)
(* the properties are checked to catch.  Nothing uses them.                *)
(***************************************************************************)
EXTENDS Naturals, FiniteSets

CONSTANTS
    Tools,          \* tool-call goroutines of the foreground agent tree
    Subs,           \* ids of background writers
    Rewinders,      \* goroutines that prepare, commit and undo rewinds
    MaxNest,        \* nested EnterWrite calls of one tool call
    MaxVersion,     \* bound: writes to the workspace
    MaxStarts       \* bound: tool calls, sub-agents and rewinds started

ASSUME BarrierAssumption ==
    /\ IsFiniteSet(Tools) /\ IsFiniteSet(Subs)
    /\ MaxNest \in Nat /\ MaxVersion \in Nat /\ MaxStarts \in Nat

VARIABLES
    writers,        \* MutationBarrier.writers
    exclusive,      \* MutationBarrier.exclusive: {} or the one rewinder that set it
    generation,     \* MutationBarrier.generation
    holds,          \* EnterWrite calls that returned and were not yet exited
    nest,           \* how many of them each tool call has
    waiting,        \* tool calls blocked in EnterWrite
    regLock,        \* writerRegistry.mu: {} or the sub-agent that holds it
    registered,     \* keys of writerRegistry.writers
    barrierHeld,    \* keys of writerRegistry.barrierHeld
    active,         \* Store.activeWriters
    leaving,        \* sub-agents inside UnregisterWriter, before ExitWrite
    rpc,            \* where each rewinder is
    listed,         \* the copy of registered that its PrepareRewind took
    workspaceToken,          \* RewindPlan.WorkspaceToken of each rewinder's plan
    seen,           \* the workspace version its file precheck judged
    version,        \* the workspace: how many writes it has received
    starts          \* how many operations were started

vars == << writers, exclusive, generation, holds, nest, waiting, regLock,
           registered, barrierHeld, active, leaving, rpc, listed, workspaceToken, seen,
           version, starts >>

barrierVars == << writers, exclusive, generation >>
toolVars == << nest, waiting >>
registryVars == << regLock, registered, barrierHeld, active, leaving >>
rewinderVars == << rpc, listed, workspaceToken, seen >>

\* A hold names who entered: a tool call and its nesting depth, or a sub-agent.
ToolHold(t, d) == << "tool", t, d >>
SubHold(s) == << "sub", s, 0 >>
Holds == { ToolHold(t, d) : t \in Tools, d \in 1..MaxNest } \cup { SubHold(s) : s \in Subs }

Init ==
    /\ writers = 0 /\ exclusive = {} /\ generation = 0
    /\ holds = {} /\ nest = [t \in Tools |-> 0] /\ waiting = {}
    /\ regLock = {} /\ registered = {} /\ barrierHeld = {} /\ active = {} /\ leaving = {}
    /\ rpc = [r \in Rewinders |-> "idle"]
    /\ listed = [r \in Rewinders |-> {}]
    /\ workspaceToken = [r \in Rewinders |-> 0]
    /\ seen = [r \in Rewinders |-> 0]
    /\ version = 0 /\ starts = 0

\* Starting a call, a sub-agent, a preview or an undo.
Start == starts < MaxStarts /\ starts' = starts + 1

-----------------------------------------------------------------------------
(* The barrier operations, as the state change each critical section makes. *)

\* EnterWrite's loop leaves when no rewind holds the barrier.
BarrierEnterWrite(h) ==
    /\ exclusive = {}
    /\ writers' = writers + 1
    /\ holds' = holds \cup {h}
    /\ UNCHANGED << exclusive, generation >>

BarrierExitWrite_SameGeneration(h) ==
    /\ holds' = holds \ {h}
    /\ writers' = writers - 1
    /\ UNCHANGED << generation, exclusive >>

BarrierExitWrite_OffByOne(h) ==
    /\ holds' = holds \ {h}
    /\ IF writers > 1
       THEN writers' = writers - 1 /\ generation' = generation + 1
       ELSE UNCHANGED << writers, generation >>
    /\ UNCHANGED exclusive

\* ExitWrite moves the generation, so that every plan made before is stale.
BarrierExitWrite(h) ==
    /\ holds' = holds \ {h}
    /\ IF writers > 0
       THEN writers' = writers - 1 /\ generation' = generation + 1
       ELSE UNCHANGED << writers, generation >>
    /\ UNCHANGED exclusive

BarrierTryEnterExclusive_AnyWriter(r) ==
    /\ exclusive = {}
    /\ exclusive' = {r}
    /\ UNCHANGED << writers, generation >>

BarrierTryEnterExclusive(r) ==
    /\ exclusive = {} /\ writers = 0
    /\ exclusive' = {r}
    /\ UNCHANGED << writers, generation >>

BarrierExitExclusive_StaysExclusive ==
    /\ generation' = generation + 1
    /\ UNCHANGED << writers, exclusive >>

BarrierExitExclusive ==
    /\ exclusive' = {}
    /\ generation' = generation + 1
    /\ UNCHANGED writers

-----------------------------------------------------------------------------
(* Tool calls. *)

\* The agent dispatches a writer tool; its goroutine calls EnterWrite.
CallTool(t) ==
    /\ Start
    /\ t \notin waiting /\ nest[t] < MaxNest
    /\ waiting' = waiting \cup {t}
    /\ UNCHANGED << barrierVars, holds, nest, registryVars, rewinderVars, version >>

EnterWrite(t) ==
    /\ t \in waiting
    /\ BarrierEnterWrite(ToolHold(t, nest[t] + 1))
    /\ waiting' = waiting \ {t}
    /\ nest' = [nest EXCEPT ![t] = @ + 1]
    /\ UNCHANGED << registryVars, rewinderVars, version, starts >>

\* The tool, or a hook around it, writes the workspace.
ToolWrites(t) ==
    /\ nest[t] > 0 /\ version < MaxVersion
    /\ version' = version + 1
    /\ UNCHANGED << barrierVars, holds, toolVars, registryVars, rewinderVars, starts >>

ExitWrite_Unbalanced(t) ==
    /\ t \notin waiting
    /\ BarrierExitWrite(ToolHold(t, nest[t]))
    /\ nest' = [nest EXCEPT ![t] = @ - 1]
    /\ UNCHANGED << waiting, registryVars, rewinderVars, version, starts >>

ExitWrite(t) ==
    /\ nest[t] > 0 /\ t \notin waiting
    /\ BarrierExitWrite(ToolHold(t, nest[t]))
    /\ nest' = [nest EXCEPT ![t] = @ - 1]
    /\ UNCHANGED << waiting, registryVars, rewinderVars, version, starts >>

-----------------------------------------------------------------------------
(* Background sub-agents. *)

\* RegisterWriter takes registry.mu, lists the writer and mirrors the list into
\* the store, and then enters the barrier without giving registry.mu back.
RegisterWriter(s) ==
    /\ Start
    /\ regLock = {} /\ s \notin barrierHeld
    /\ regLock' = {s}
    /\ registered' = registered \cup {s}
    /\ active' = registered'
    /\ UNCHANGED << barrierVars, holds, toolVars, barrierHeld, leaving, rewinderVars, version >>

RegisterEnters(s) ==
    /\ regLock = {s} /\ s \notin leaving
    /\ BarrierEnterWrite(SubHold(s))
    /\ barrierHeld' = barrierHeld \cup {s}
    /\ regLock' = {}
    /\ UNCHANGED << toolVars, registered, active, leaving, rewinderVars, version, starts >>

SubWrites(s) ==
    /\ s \in barrierHeld /\ s \notin leaving /\ version < MaxVersion
    /\ version' = version + 1
    /\ UNCHANGED << barrierVars, holds, toolVars, registryVars, rewinderVars, starts >>

\* UnregisterWriter first takes the writer off the store's list ...
UnregisterWriter(s) ==
    /\ regLock = {} /\ s \in barrierHeld
    /\ regLock' = {s}
    /\ registered' = registered \ {s}
    /\ active' = registered'
    /\ leaving' = leaving \cup {s}
    /\ UNCHANGED << barrierVars, holds, toolVars, barrierHeld, rewinderVars, version, starts >>

\* ... and then, still under registry.mu, leaves the barrier.
UnregisterExits(s) ==
    /\ regLock = {s} /\ s \in leaving
    /\ BarrierExitWrite(SubHold(s))
    /\ barrierHeld' = barrierHeld \ {s}
    /\ leaving' = leaving \ {s}
    /\ regLock' = {}
    /\ UNCHANGED << toolVars, registered, active, rewinderVars, version, starts >>

-----------------------------------------------------------------------------
(* Rewinds. *)

\* The controller's PrepareRewind copies the registry's list under registry.mu ...
ListWriters(r) ==
    /\ Start
    /\ rpc[r] = "idle" /\ regLock = {}
    /\ listed' = [listed EXCEPT ![r] = registered]
    /\ rpc' = [rpc EXCEPT ![r] = "listed"]
    /\ UNCHANGED << barrierVars, holds, toolVars, registryVars, workspaceToken, seen, version >>

\* ... and, that lock released, replaces the store's list by the copy.
SetActiveWriters(r) ==
    /\ rpc[r] = "listed"
    /\ active' = listed[r]
    /\ rpc' = [rpc EXCEPT ![r] = "mirrored"]
    /\ UNCHANGED << barrierVars, holds, toolVars, regLock, registered, barrierHeld, leaving,
                    listed, workspaceToken, seen, version, starts >>

\* The store's PrepareRewind reads the generation before it looks at anything else.
PrepareToken(r) ==
    /\ rpc[r] = "mirrored"
    /\ workspaceToken' = [workspaceToken EXCEPT ![r] = generation]
    /\ rpc' = [rpc EXCEPT ![r] = "preparing"]
    /\ UNCHANGED << barrierVars, holds, toolVars, registryVars, listed, seen, version, starts >>

\* Under Store.mu it copies the store's writer list; a listed writer disables the plan.
PrepareWriters(r) ==
    /\ rpc[r] = "preparing"
    /\ rpc' = [rpc EXCEPT ![r] = IF active = {} THEN "judging" ELSE "idle"]
    /\ UNCHANGED << barrierVars, holds, toolVars, registryVars, listed, workspaceToken, seen, version,
                    starts >>

\* That lock released, it judges the files.
PreparePrecheck(r) ==
    /\ rpc[r] = "judging"
    /\ seen' = [seen EXCEPT ![r] = version]
    /\ rpc' = [rpc EXCEPT ![r] = "planned"]
    /\ UNCHANGED << barrierVars, holds, toolVars, registryVars, listed, workspaceToken, version, starts >>

\* CommitRewind takes the plan; it gives up at once if the barrier is busy.
CommitEnters(r) ==
    /\ rpc[r] = "planned"
    /\ \/ /\ BarrierTryEnterExclusive(r)
          /\ rpc' = [rpc EXCEPT ![r] = "checking"]
       \/ /\ exclusive # {} \/ writers > 0
          /\ rpc' = [rpc EXCEPT ![r] = "idle"]
          /\ UNCHANGED barrierVars
    /\ UNCHANGED << holds, toolVars, registryVars, listed, workspaceToken, seen, version, starts >>

\* Under the exclusive barrier the plan is refused if a writer is listed or the
\* generation moved since the preview.
CommitRefused(r) ==
    /\ rpc[r] = "checking"
    /\ active # {} \/ workspaceToken[r] # generation
    /\ BarrierExitExclusive
    /\ rpc' = [rpc EXCEPT ![r] = "idle"]
    /\ UNCHANGED << holds, toolVars, registryVars, listed, workspaceToken, seen, version, starts >>

CommitAccepted(r) ==
    /\ rpc[r] = "checking"
    /\ active = {} /\ workspaceToken[r] = generation
    /\ rpc' = [rpc EXCEPT ![r] = "committing"]
    /\ UNCHANGED << barrierVars, holds, toolVars, registryVars, listed, workspaceToken, seen, version, starts >>

\* UndoRewind has no token: it needs the barrier and an empty writer list.
UndoEnters(r) ==
    /\ Start
    /\ rpc[r] = "idle"
    /\ BarrierTryEnterExclusive(r)
    /\ rpc' = [rpc EXCEPT ![r] = "undoing"]
    /\ UNCHANGED << holds, toolVars, registryVars, listed, workspaceToken, seen, version >>

UndoRefused(r) ==
    /\ rpc[r] = "undoing" /\ active # {}
    /\ BarrierExitExclusive
    /\ rpc' = [rpc EXCEPT ![r] = "idle"]
    /\ UNCHANGED << holds, toolVars, registryVars, listed, workspaceToken, seen, version, starts >>

\* The transaction publishes its files and the deferred ExitExclusive runs.
RewindPublishes(r) ==
    /\ \/ rpc[r] = "committing"
       \/ rpc[r] = "undoing" /\ active = {}
    /\ version < MaxVersion
    /\ version' = version + 1
    /\ BarrierExitExclusive
    /\ rpc' = [rpc EXCEPT ![r] = "idle"]
    /\ UNCHANGED << holds, toolVars, registryVars, listed, workspaceToken, seen, starts >>

\* A transaction that fails compensates and leaves the workspace as it was.
RewindFails(r) ==
    /\ \/ rpc[r] = "committing"
       \/ rpc[r] = "undoing" /\ active = {}
    /\ BarrierExitExclusive
    /\ rpc' = [rpc EXCEPT ![r] = "idle"]
    /\ UNCHANGED << holds, toolVars, registryVars, listed, workspaceToken, seen, version, starts >>

-----------------------------------------------------------------------------
ToolNext(t) == CallTool(t) \/ EnterWrite(t) \/ ToolWrites(t) \/ ExitWrite(t)

SubNext(s) ==
    \/ RegisterWriter(s) \/ RegisterEnters(s) \/ SubWrites(s)
    \/ UnregisterWriter(s) \/ UnregisterExits(s)

RewinderNext(r) ==
    \/ ListWriters(r) \/ SetActiveWriters(r) \/ PrepareToken(r) \/ PrepareWriters(r)
    \/ PreparePrecheck(r) \/ CommitEnters(r) \/ CommitRefused(r) \/ CommitAccepted(r)
    \/ UndoEnters(r) \/ UndoRefused(r)
    \/ RewindPublishes(r) \/ RewindFails(r)

Next ==
    \/ \E t \in Tools : ToolNext(t)
    \/ \E s \in Subs : SubNext(s)
    \/ \E r \in Rewinders : RewinderNext(r)

Spec == Init /\ [][Next]_vars

\* A goroutine that can run does run.  A waiter woken by Broadcast competes for
\* barrier.mu, which sync.Mutex hands over in order once a waiter has starved,
\* so entering is strongly fair; a rewind that holds the barrier ends, and so does
\* UnregisterWriter.  Nothing obliges anybody to leave a tool, or
\* to start a tool call, a sub-agent or a rewind.
Fairness ==
    /\ \A t \in Tools : SF_vars(EnterWrite(t))
    /\ \A s \in Subs : SF_vars(RegisterEnters(s)) /\ WF_vars(UnregisterExits(s))
    /\ \A r \in Rewinders :
        WF_vars(CommitRefused(r) \/ CommitAccepted(r) \/ UndoRefused(r) \/ RewindFails(r))

FairSpec == Spec /\ Fairness

-----------------------------------------------------------------------------
(* Properties. *)

RewinderStates ==
    { "idle", "listed", "mirrored", "preparing", "judging", "planned", "checking", "committing",
      "undoing" }

\* The types of the barrier, the registry and the rewinders' plans.
TypeOK ==
    /\ writers \in Nat /\ generation \in Nat /\ version \in Nat /\ starts \in Nat
    /\ exclusive \in SUBSET Rewinders
    /\ holds \in SUBSET Holds
    /\ nest \in [Tools -> 0..MaxNest]
    /\ waiting \in SUBSET Tools
    /\ regLock \in SUBSET Subs
    /\ registered \in SUBSET Subs /\ barrierHeld \in SUBSET Subs
    /\ active \in SUBSET Subs /\ leaving \in SUBSET Subs
    /\ rpc \in [Rewinders -> RewinderStates]
    /\ listed \in [Rewinders -> SUBSET Subs]
    /\ workspaceToken \in [Rewinders -> Nat]
    /\ seen \in [Rewinders -> Nat]

InCommit(r) == rpc[r] \in {"checking", "committing", "undoing"}

\* The barrier excludes: while a rewind is inside its critical section no tool
\* call and no background writer holds the workspace, and it is the only rewind.
MutualExclusion ==
    \A r \in Rewinders : InCommit(r) =>
        /\ holds = {}
        /\ exclusive = {r}

\* The writer count is exactly the number of entries that were not exited: an
\* entry leaked or exited twice would block rewinds for ever, or let one in.
WritersCounted == writers = Cardinality(holds)

\* A preview authorises only what it saw: when a commit is accepted, the
\* workspace is the one the preview's file precheck judged.  The token is read
\* before the precheck, and every completed write moves the generation.
CommitIsFresh ==
    \A r \in Rewinders : rpc[r] = "committing" => seen[r] = version

\* A tool call blocked in EnterWrite gets in, and a sub-agent blocked there does
\* not keep registry.mu for ever, whatever rewinds are doing.
WritersEnter ==
    /\ \A t \in Tools : t \in waiting ~> t \notin waiting
    /\ \A s \in Subs : s \in regLock ~> s \notin regLock
=============================================================================
