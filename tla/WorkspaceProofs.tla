--------------------------- MODULE WorkspaceProofs ---------------------------
(***************************************************************************)
(* The two locks on a workspace.                                           *)
(*                                                                         *)
(* MutationBarrier: for any number of tool calls, background writers and   *)
(* rewinds, the barrier counts its writers exactly, excludes them from a   *)
(* rewind, and a commit is accepted only in the workspace its preview      *)
(* judged.  The invariants are proved in layers, each using the ones       *)
(* before it: types, the registry's lock, the writer count, exclusion,     *)
(* freshness.                                                              *)
(*                                                                         *)
(* WorkspaceLease: for any number of processes, sessions, runs and jobs,   *)
(* the lease has one session at a time, which keeps it while a run or a    *)
(* job that may write is there and gives it back afterwards.  Layers:      *)
(* types, the exact counts of runs and jobs, who has the token and the     *)
(* lock file, who may write.                                               *)
(***************************************************************************)
EXTENDS MutationBarrier, WorkspaceLease, FiniteSetTheorems, TLAPS

(***************************************************************************)
(* The barrier.                                                            *)
(***************************************************************************)

-----------------------------------------------------------------------------
(* Types.                                                                   *)

\* A call that waits at the barrier still has room for one more nested hold.
ToolRoom == \A t \in waiting : nest[t] < MaxNest

Types == TypeOK /\ ToolRoom

LEMMA InitTypes == Init => Types
  BY BarrierAssumption DEF Init, Types, TypeOK, ToolRoom, Holds, RewinderStates

\* The actions of a tool call keep the types.
LEMMA ToolTypes == ASSUME Types, NEW t \in Tools, ToolNext(t) PROVE Types'
<1>1. CASE CallTool(t)
  BY <1>1 DEF Types, TypeOK, ToolRoom, CallTool, Start, barrierVars, registryVars, rewinderVars
<1>2. CASE EnterWrite(t)
  <2>1. ToolHold(t, nest[t] + 1) \in Holds
    BY <1>2, BarrierAssumption DEF Types, TypeOK, ToolRoom, EnterWrite, Holds
  <2> QED
    BY <1>2, <2>1, BarrierAssumption
    DEF Types, TypeOK, ToolRoom, EnterWrite, BarrierEnterWrite, registryVars, rewinderVars
<1>3. CASE ToolWrites(t)
  BY <1>3 DEF Types, TypeOK, ToolRoom, ToolWrites, barrierVars, toolVars, registryVars, rewinderVars
<1>4. CASE ExitWrite(t)
  BY <1>4, BarrierAssumption
  DEF Types, TypeOK, ToolRoom, ExitWrite, BarrierExitWrite, registryVars, rewinderVars
<1> QED
  BY <1>1, <1>2, <1>3, <1>4 DEF ToolNext

\* So do those of a background writer.
LEMMA SubTypes == ASSUME Types, NEW s \in Subs, SubNext(s) PROVE Types'
<1> USE DEF Types, TypeOK, ToolRoom, barrierVars, toolVars, registryVars, rewinderVars
<1>1. CASE RegisterWriter(s)
  BY <1>1 DEF RegisterWriter, Start
<1>2. CASE RegisterEnters(s)
  <2>1. SubHold(s) \in Holds
    BY DEF Holds
  <2> QED
    BY <1>2, <2>1 DEF RegisterEnters, BarrierEnterWrite
<1>3. CASE SubWrites(s)
  BY <1>3 DEF SubWrites
<1>4. CASE UnregisterWriter(s)
  BY <1>4 DEF UnregisterWriter
<1>5. CASE UnregisterExits(s)
  BY <1>5 DEF UnregisterExits, BarrierExitWrite
<1> QED
  BY <1>1, <1>2, <1>3, <1>4, <1>5 DEF SubNext

\* And those of a rewind.
LEMMA RewinderTypes == ASSUME Types, NEW r \in Rewinders, RewinderNext(r) PROVE Types'
<1> USE DEF Types, TypeOK, ToolRoom, RewinderStates,
            barrierVars, toolVars, registryVars, rewinderVars
<1>1. CASE ListWriters(r)
  BY <1>1 DEF ListWriters, Start
<1>2. CASE SetActiveWriters(r)
  BY <1>2 DEF SetActiveWriters
<1>3. CASE PrepareToken(r)
  BY <1>3 DEF PrepareToken
<1>4. CASE PrepareWriters(r) \/ PreparePrecheck(r)
  BY <1>4 DEF PrepareWriters, PreparePrecheck
<1>5. CASE CommitEnters(r)
  BY <1>5 DEF CommitEnters, BarrierTryEnterExclusive
<1>6. CASE CommitRefused(r)
  BY <1>6 DEF CommitRefused, BarrierExitExclusive
<1>7. CASE CommitAccepted(r)
  BY <1>7 DEF CommitAccepted
<1>8. CASE UndoEnters(r)
  BY <1>8 DEF UndoEnters, BarrierTryEnterExclusive, Start
<1>9. CASE UndoRefused(r)
  BY <1>9 DEF UndoRefused, BarrierExitExclusive
<1>10. CASE RewindPublishes(r)
  BY <1>10 DEF RewindPublishes, BarrierExitExclusive
<1>11. CASE RewindFails(r)
  BY <1>11 DEF RewindFails, BarrierExitExclusive
<1> QED
  BY <1>1, <1>2, <1>3, <1>4, <1>5, <1>6, <1>7, <1>8, <1>9, <1>10, <1>11 DEF RewinderNext

LEMMA StutterTypes == Types /\ UNCHANGED vars => Types'
  BY DEF Types, TypeOK, ToolRoom, vars

\* The state always has its types: in particular the writer count is a natural
\* number, and a tool call never nests deeper than it may.
THEOREM TypeCorrect == Spec => []TypeOK
<1>1. Types /\ [Next]_vars => Types'
  BY ToolTypes, SubTypes, RewinderTypes, StutterTypes DEF Next
<1>2. Types => TypeOK
  BY DEF Types
<1> QED
  BY InitTypes, <1>1, <1>2, PTL DEF Spec

-----------------------------------------------------------------------------
(* The writer count.  It is exact because a hold that is entered is new and  *)
(* one that is exited is there: a tool call's holds are those up to its      *)
(* nesting depth, a background writer's the one of its barrierHeld entry.    *)

HoldsExact ==
    /\ \A t \in Tools : \A d \in Nat : ToolHold(t, d) \in holds <=> d \in 1..nest[t]
    /\ \A s \in Subs : SubHold(s) \in holds <=> s \in barrierHeld

\* Who holds registry.mu: a writer entering is not in yet, one leaving still is.
LockExact ==
    /\ \A s \in leaving : s \in barrierHeld /\ regLock = {s}
    /\ \A s \in regLock : s \notin leaving => s \notin barrierHeld

Counted == IsFiniteSet(holds) /\ writers = Cardinality(holds)

CountInv == Types /\ HoldsExact /\ LockExact /\ Counted

LEMMA InitCount == Init => CountInv
<1> SUFFICES ASSUME Init PROVE CountInv
  OBVIOUS
<1>1. Counted
  BY FS_EmptySet DEF Init, Counted
<1>2. HoldsExact /\ LockExact
  BY DEF Init, HoldsExact, LockExact
<1> QED
  BY InitTypes, <1>1, <1>2 DEF CountInv

\* Entering with a new hold, or exiting with one that is there, keeps the count.
LEMMA EnterCounts ==
  ASSUME Counted, writers \in Nat, NEW h, h \notin holds, BarrierEnterWrite(h)
  PROVE  Counted'
  BY FS_AddElement DEF Counted, BarrierEnterWrite

LEMMA ExitCounts ==
  ASSUME Counted, writers \in Nat, NEW h, h \in holds, BarrierExitWrite(h)
  PROVE  Counted' /\ writers > 0
<1>1. writers # 0
  BY FS_EmptySet DEF Counted
<1> QED
  BY <1>1, FS_RemoveElement DEF Counted, BarrierExitWrite

LEMMA ToolCount == ASSUME CountInv, NEW t \in Tools, ToolNext(t) PROVE CountInv'
<1>1. Types'
  BY ToolTypes DEF CountInv
<1>2. CASE EnterWrite(t)
  <2> DEFINE h == ToolHold(t, nest[t] + 1)
  <2>1. h \notin holds
    BY DEF CountInv, HoldsExact, Types, TypeOK
  <2>2. Counted'
    BY <1>2, <2>1, EnterCounts DEF CountInv, Types, TypeOK, EnterWrite
  <2>3. HoldsExact'
    BY <1>2, BarrierAssumption
    DEF CountInv, HoldsExact, Types, TypeOK, EnterWrite, BarrierEnterWrite, ToolHold, SubHold,
        registryVars
  <2>4. LockExact'
    BY <1>2 DEF CountInv, LockExact, EnterWrite, registryVars
  <2> QED
    BY <1>1, <2>2, <2>3, <2>4 DEF CountInv
<1>3. CASE ExitWrite(t)
  <2> DEFINE h == ToolHold(t, nest[t])
  <2>1. h \in holds
    BY <1>3, BarrierAssumption DEF CountInv, HoldsExact, Types, TypeOK, ExitWrite
  <2>2. Counted'
    BY <1>3, <2>1, ExitCounts DEF CountInv, Types, TypeOK, ExitWrite
  <2>3. HoldsExact'
    BY <1>3, BarrierAssumption
    DEF CountInv, HoldsExact, Types, TypeOK, ExitWrite, BarrierExitWrite, ToolHold, SubHold,
        registryVars
  <2>4. LockExact'
    BY <1>3 DEF CountInv, LockExact, ExitWrite, registryVars
  <2> QED
    BY <1>1, <2>2, <2>3, <2>4 DEF CountInv
<1>4. CASE CallTool(t) \/ ToolWrites(t)
  BY <1>1, <1>4
  DEF CountInv, HoldsExact, LockExact, Counted, CallTool, ToolWrites, barrierVars, toolVars,
      registryVars
<1> QED
  BY <1>2, <1>3, <1>4 DEF ToolNext

LEMMA SubCount == ASSUME CountInv, NEW s \in Subs, SubNext(s) PROVE CountInv'
<1>1. Types'
  BY SubTypes DEF CountInv
<1>2. CASE RegisterEnters(s)
  <2>1. SubHold(s) \notin holds
    BY <1>2 DEF CountInv, HoldsExact, LockExact, RegisterEnters
  <2>2. Counted'
    BY <1>2, <2>1, EnterCounts DEF CountInv, Types, TypeOK, RegisterEnters
  <2>3. HoldsExact'
    BY <1>2 DEF CountInv, HoldsExact, RegisterEnters, BarrierEnterWrite, ToolHold, SubHold, toolVars
  <2>4. LockExact'
    BY <1>2 DEF CountInv, LockExact, RegisterEnters
  <2> QED
    BY <1>1, <2>2, <2>3, <2>4 DEF CountInv
<1>3. CASE UnregisterExits(s)
  <2>1. SubHold(s) \in holds
    BY <1>3 DEF CountInv, HoldsExact, LockExact, UnregisterExits
  <2>2. Counted'
    BY <1>3, <2>1, ExitCounts DEF CountInv, Types, TypeOK, UnregisterExits
  <2>3. HoldsExact'
    BY <1>3 DEF CountInv, HoldsExact, UnregisterExits, BarrierExitWrite, ToolHold, SubHold, toolVars
  <2>4. LockExact'
    BY <1>3 DEF CountInv, LockExact, UnregisterExits
  <2> QED
    BY <1>1, <2>2, <2>3, <2>4 DEF CountInv
<1>4. CASE RegisterWriter(s)
  BY <1>1, <1>4
  DEF CountInv, HoldsExact, LockExact, Counted, RegisterWriter, barrierVars, toolVars
<1>5. CASE UnregisterWriter(s)
  BY <1>1, <1>5
  DEF CountInv, HoldsExact, LockExact, Counted, UnregisterWriter, barrierVars, toolVars
<1>6. CASE SubWrites(s)
  BY <1>1, <1>6
  DEF CountInv, HoldsExact, LockExact, Counted, SubWrites, barrierVars, toolVars, registryVars
<1> QED
  BY <1>2, <1>3, <1>4, <1>5, <1>6 DEF SubNext

\* A rewind enters and leaves the exclusive side only.
LEMMA RewinderKeepsHolds ==
  ASSUME NEW r \in Rewinders, RewinderNext(r)
  PROVE  /\ UNCHANGED << writers, holds, toolVars, regLock, registered, barrierHeld, leaving >>
         /\ version' = version \/ RewindPublishes(r)
  BY DEF RewinderNext, ListWriters, SetActiveWriters, PrepareToken, PrepareWriters, PreparePrecheck,
         CommitEnters, CommitRefused, CommitAccepted, UndoEnters, UndoRefused, RewindPublishes, RewindFails,
         BarrierTryEnterExclusive, BarrierExitExclusive, barrierVars, toolVars, registryVars

LEMMA RewinderCount == ASSUME CountInv, NEW r \in Rewinders, RewinderNext(r) PROVE CountInv'
  BY RewinderTypes, RewinderKeepsHolds
  DEF CountInv, HoldsExact, LockExact, Counted, toolVars

LEMMA StutterCount == CountInv /\ UNCHANGED vars => CountInv'
  BY StutterTypes DEF CountInv, HoldsExact, LockExact, Counted, vars

LEMMA CountInvariant == Spec => []CountInv
<1>1. CountInv /\ [Next]_vars => CountInv'
  BY ToolCount, SubCount, RewinderCount, StutterCount DEF Next
<1> QED
  BY InitCount, <1>1, PTL DEF Spec

\* The barrier's writer count is the number of entries not yet exited, so it
\* comes back to zero exactly when nobody holds the workspace.
THEOREM WritersAreCounted == Spec => []WritersCounted
<1>1. CountInv => WritersCounted
  BY DEF CountInv, Counted, WritersCounted
<1> QED
  BY CountInvariant, <1>1, PTL

-----------------------------------------------------------------------------
(* Exclusion.  The exclusive side is held by the rewind whose critical       *)
(* section is open, and while it is held the writer count stays zero.        *)

ExclusiveExact ==
    /\ \A r \in Rewinders : InCommit(r) <=> r \in exclusive
    /\ \A r \in exclusive : exclusive = {r}
    /\ exclusive # {} => writers = 0

ExclInv == CountInv /\ ExclusiveExact

LEMMA InitExcl == Init => ExclInv
  BY InitCount DEF Init, ExclInv, ExclusiveExact, InCommit

\* Who enters finds the exclusive side free; who leaves shows that it was free.
LEMMA ToolExcl == ASSUME ExclInv, NEW t \in Tools, ToolNext(t) PROVE ExclInv'
<1>1. CountInv'
  BY ToolCount DEF ExclInv
<1>2. UNCHANGED << exclusive, rpc >>
  BY DEF ToolNext, CallTool, EnterWrite, ToolWrites, ExitWrite, BarrierEnterWrite,
         BarrierExitWrite, barrierVars, rewinderVars
<1>3. exclusive # {} => writers' = 0
  <2>1. CASE CallTool(t) \/ ToolWrites(t)
    BY <2>1 DEF ExclInv, ExclusiveExact, CallTool, ToolWrites, barrierVars
  <2>2. CASE EnterWrite(t)
    BY <2>2 DEF EnterWrite, BarrierEnterWrite
  <2>3. CASE ExitWrite(t)
    <3>1. ToolHold(t, nest[t]) \in holds
      BY <2>3, BarrierAssumption DEF ExclInv, CountInv, HoldsExact, Types, TypeOK, ExitWrite
    <3>2. writers > 0
      BY <2>3, <3>1, ExitCounts DEF ExclInv, CountInv, Types, TypeOK, ExitWrite
    <3> QED
      BY <3>2 DEF ExclInv, ExclusiveExact
  <2> QED
    BY <2>1, <2>2, <2>3 DEF ToolNext
<1> QED
  BY <1>1, <1>2, <1>3 DEF ExclInv, ExclusiveExact, InCommit

LEMMA SubExcl == ASSUME ExclInv, NEW s \in Subs, SubNext(s) PROVE ExclInv'
<1>1. CountInv'
  BY SubCount DEF ExclInv
<1>2. UNCHANGED << exclusive, rpc >>
  BY DEF SubNext, RegisterWriter, RegisterEnters, SubWrites, UnregisterWriter, UnregisterExits,
         BarrierEnterWrite, BarrierExitWrite, barrierVars, rewinderVars
<1>3. exclusive # {} => writers' = 0
  <2>1. CASE RegisterWriter(s) \/ SubWrites(s) \/ UnregisterWriter(s)
    BY <2>1 DEF ExclInv, ExclusiveExact, RegisterWriter, SubWrites, UnregisterWriter, barrierVars
  <2>2. CASE RegisterEnters(s)
    BY <2>2 DEF RegisterEnters, BarrierEnterWrite
  <2>3. CASE UnregisterExits(s)
    <3>1. SubHold(s) \in holds
      BY <2>3 DEF ExclInv, CountInv, HoldsExact, LockExact, UnregisterExits
    <3>2. writers > 0
      BY <2>3, <3>1, ExitCounts DEF ExclInv, CountInv, Types, TypeOK, UnregisterExits
    <3> QED
      BY <3>2 DEF ExclInv, ExclusiveExact
  <2> QED
    BY <2>1, <2>2, <2>3 DEF SubNext
<1> QED
  BY <1>1, <1>2, <1>3 DEF ExclInv, ExclusiveExact, InCommit

LEMMA RewinderExcl == ASSUME ExclInv, NEW r \in Rewinders, RewinderNext(r) PROVE ExclInv'
<1>1. CountInv'
  BY RewinderCount DEF ExclInv
<1>2. rpc \in [Rewinders -> RewinderStates]
  BY DEF ExclInv, CountInv, Types, TypeOK
<1>3. CASE \/ ListWriters(r) \/ SetActiveWriters(r) \/ PrepareToken(r)
          \/ PrepareWriters(r) \/ PreparePrecheck(r)
  BY <1>1, <1>2, <1>3
  DEF ExclInv, ExclusiveExact, InCommit, ListWriters, SetActiveWriters, PrepareToken,
      PrepareWriters, PreparePrecheck, barrierVars
<1>4. CASE CommitEnters(r)
  BY <1>1, <1>2, <1>4
  DEF ExclInv, ExclusiveExact, InCommit, CommitEnters, BarrierTryEnterExclusive, barrierVars
<1>5. CASE UndoEnters(r)
  BY <1>1, <1>2, <1>5
  DEF ExclInv, ExclusiveExact, InCommit, UndoEnters, BarrierTryEnterExclusive
<1>6. CASE CommitAccepted(r)
  BY <1>1, <1>2, <1>6 DEF ExclInv, ExclusiveExact, InCommit, CommitAccepted, barrierVars
<1>7. CASE CommitRefused(r) \/ UndoRefused(r) \/ RewindPublishes(r) \/ RewindFails(r)
  <2>1. exclusive = {r} /\ exclusive' = {} /\ rpc' = [rpc EXCEPT ![r] = "idle"]
    BY <1>7
    DEF ExclInv, ExclusiveExact, InCommit, CommitRefused, UndoRefused, RewindPublishes,
        RewindFails, BarrierExitExclusive
  <2>2. \A q \in Rewinders : q # r => ~InCommit(q)
    BY <2>1 DEF ExclInv, ExclusiveExact
  <2> QED
    BY <1>1, <1>2, <2>1, <2>2 DEF ExclInv, ExclusiveExact, InCommit
<1> QED
  BY <1>3, <1>4, <1>5, <1>6, <1>7 DEF RewinderNext

LEMMA StutterExcl == ExclInv /\ UNCHANGED vars => ExclInv'
  BY StutterCount DEF ExclInv, ExclusiveExact, InCommit, vars

LEMMA ExclInvariant == Spec => []ExclInv
<1>1. ExclInv /\ [Next]_vars => ExclInv'
  BY ToolExcl, SubExcl, RewinderExcl, StutterExcl DEF Next
<1> QED
  BY InitExcl, <1>1, PTL DEF Spec

LEMMA ExclusiveIsAlone == ASSUME ExclInv, exclusive # {} PROVE holds = {}
  BY FS_EmptySet DEF ExclInv, ExclusiveExact, CountInv, Counted

\* While a rewind is between taking the barrier and giving it back, no tool call
\* and no background writer holds the workspace and no other rewind is inside.
THEOREM Excludes == Spec => []MutualExclusion
<1>1. ExclInv => MutualExclusion
  <2> SUFFICES ASSUME ExclInv, NEW r \in Rewinders, InCommit(r)
               PROVE  holds = {} /\ exclusive = {r}
    BY DEF MutualExclusion
  <2> QED
    BY ExclusiveIsAlone DEF ExclInv, ExclusiveExact
<1> QED
  BY ExclInvariant, <1>1, PTL

-----------------------------------------------------------------------------
(* Freshness.  A preview whose token still is the generation saw the current *)
(* workspace, unless somebody holds it right now; whoever does will move the *)
(* generation before the rewind can get in.                                  *)

Previewed(r) == rpc[r] \in {"planned", "checking"}

TokenOld == \A r \in Rewinders : workspaceToken[r] <= generation

PlanFresh ==
    \A r \in Rewinders : Previewed(r) /\ workspaceToken[r] = generation /\ holds = {} => seen[r] = version

FreshInv == ExclInv /\ TokenOld /\ PlanFresh /\ CommitIsFresh

LEMMA InitFresh == Init => FreshInv
  BY InitExcl DEF Init, FreshInv, TokenOld, PlanFresh, CommitIsFresh, Previewed

\* A step that leaves the generation, or moves it, and the plans alone.
LEMMA OthersKeepFresh ==
  ASSUME FreshInv, ExclInv', UNCHANGED rewinderVars,
         \/ generation' = generation /\ (holds' = {} => holds = {} /\ version' = version)
         \/ generation' = generation + 1 /\ version' = version
  PROVE  FreshInv'
<1>1. /\ generation \in Nat /\ workspaceToken \in [Rewinders -> Nat]
  BY DEF FreshInv, ExclInv, CountInv, Types, TypeOK
<1>2. TokenOld'
  BY <1>1 DEF FreshInv, TokenOld, rewinderVars
<1>3. CommitIsFresh'
  <2> SUFFICES ASSUME NEW r \in Rewinders, rpc[r] = "committing" PROVE seen[r] = version'
    BY DEF CommitIsFresh, rewinderVars
  <2>1. seen[r] = version
    BY DEF FreshInv, CommitIsFresh
  <2>2. exclusive' # {} /\ holds' = {}
    <3>1. InCommit(r)'
      BY DEF InCommit, rewinderVars
    <3>2. exclusive' # {}
      BY <3>1 DEF ExclInv, ExclusiveExact
    <3>3. IsFiniteSet(holds)' /\ (writers = Cardinality(holds))' /\ writers' = 0
      BY <3>2 DEF ExclInv, ExclusiveExact, CountInv, Counted
    <3> QED
      BY <3>2, <3>3, FS_EmptySet
  <2> QED
    BY <2>1, <2>2
<1>4. PlanFresh'
  <2> SUFFICES ASSUME NEW r \in Rewinders, Previewed(r), workspaceToken[r] = generation', holds' = {}
               PROVE  seen[r] = version'
    BY DEF PlanFresh, Previewed, rewinderVars
  <2>1. generation' = generation
    BY <1>1 DEF FreshInv, TokenOld
  <2>2. version' = version /\ holds = {}
    BY <2>1, <1>1
  <2> QED
    BY <2>1, <2>2 DEF FreshInv, PlanFresh
<1> QED
  BY <1>2, <1>3, <1>4 DEF FreshInv

LEMMA ToolFresh == ASSUME FreshInv, NEW t \in Tools, ToolNext(t) PROVE FreshInv'
<1>1. ExclInv'
  BY ToolExcl DEF FreshInv
<1>2. UNCHANGED rewinderVars
  BY DEF ToolNext, CallTool, EnterWrite, ToolWrites, ExitWrite
<1>3. CASE EnterWrite(t)
  <2>1. holds' # {} /\ generation' = generation
    BY <1>3 DEF EnterWrite, BarrierEnterWrite
  <2> QED
    BY <1>1, <1>2, <2>1, OthersKeepFresh
<1>4. CASE ToolWrites(t)
  <2>1. ToolHold(t, nest[t]) \in holds
    BY <1>4, BarrierAssumption
    DEF FreshInv, ExclInv, CountInv, HoldsExact, Types, TypeOK, ToolWrites
  <2>2. holds' # {} /\ generation' = generation
    BY <1>4, <2>1 DEF ToolWrites, barrierVars
  <2> QED
    BY <1>1, <1>2, <2>2, OthersKeepFresh
<1>5. CASE ExitWrite(t)
  <2>1. ToolHold(t, nest[t]) \in holds
    BY <1>5, BarrierAssumption
    DEF FreshInv, ExclInv, CountInv, HoldsExact, Types, TypeOK, ExitWrite
  <2>2. writers > 0
    BY <1>5, <2>1, ExitCounts DEF FreshInv, ExclInv, CountInv, Types, TypeOK, ExitWrite
  <2>3. generation' = generation + 1 /\ version' = version
    BY <1>5, <2>2 DEF ExitWrite, BarrierExitWrite
  <2> QED
    BY <1>1, <1>2, <2>3, OthersKeepFresh
<1>6. CASE CallTool(t)
  <2>1. holds' = holds /\ generation' = generation /\ version' = version
    BY <1>6 DEF CallTool, barrierVars
  <2> QED
    BY <1>1, <1>2, <2>1, OthersKeepFresh
<1> QED
  BY <1>3, <1>4, <1>5, <1>6 DEF ToolNext

LEMMA SubFresh == ASSUME FreshInv, NEW s \in Subs, SubNext(s) PROVE FreshInv'
<1>1. ExclInv'
  BY SubExcl DEF FreshInv
<1>2. UNCHANGED rewinderVars
  BY DEF SubNext, RegisterWriter, RegisterEnters, SubWrites, UnregisterWriter, UnregisterExits
<1>3. CASE RegisterWriter(s) \/ UnregisterWriter(s)
  <2>1. holds' = holds /\ generation' = generation /\ version' = version
    BY <1>3 DEF RegisterWriter, UnregisterWriter, barrierVars
  <2> QED
    BY <1>1, <1>2, <2>1, OthersKeepFresh
<1>4. CASE RegisterEnters(s)
  <2>1. holds' # {} /\ generation' = generation
    BY <1>4 DEF RegisterEnters, BarrierEnterWrite
  <2> QED
    BY <1>1, <1>2, <2>1, OthersKeepFresh
<1>5. CASE SubWrites(s)
  <2>1. SubHold(s) \in holds
    BY <1>5 DEF FreshInv, ExclInv, CountInv, HoldsExact, SubWrites
  <2>2. holds' # {} /\ generation' = generation
    BY <1>5, <2>1 DEF SubWrites, barrierVars
  <2> QED
    BY <1>1, <1>2, <2>2, OthersKeepFresh
<1>6. CASE UnregisterExits(s)
  <2>1. SubHold(s) \in holds
    BY <1>6 DEF FreshInv, ExclInv, CountInv, HoldsExact, LockExact, UnregisterExits
  <2>2. writers > 0
    BY <1>6, <2>1, ExitCounts DEF FreshInv, ExclInv, CountInv, Types, TypeOK, UnregisterExits
  <2>3. generation' = generation + 1 /\ version' = version
    BY <1>6, <2>2 DEF UnregisterExits, BarrierExitWrite
  <2> QED
    BY <1>1, <1>2, <2>3, OthersKeepFresh
<1> QED
  BY <1>3, <1>4, <1>5, <1>6 DEF SubNext

LEMMA RewinderFresh == ASSUME FreshInv, NEW r \in Rewinders, RewinderNext(r) PROVE FreshInv'
<1>1. ExclInv'
  BY RewinderExcl DEF FreshInv
<1>2. /\ generation \in Nat /\ workspaceToken \in [Rewinders -> Nat] /\ seen \in [Rewinders -> Nat]
      /\ rpc \in [Rewinders -> RewinderStates]
  BY DEF FreshInv, ExclInv, CountInv, Types, TypeOK
<1>3. CASE ListWriters(r) \/ SetActiveWriters(r) \/ PrepareWriters(r)
  BY <1>1, <1>2, <1>3
  DEF FreshInv, TokenOld, PlanFresh, CommitIsFresh, Previewed, ListWriters, SetActiveWriters,
      PrepareWriters, barrierVars
<1>4. CASE PrepareToken(r)
  BY <1>1, <1>2, <1>4
  DEF FreshInv, TokenOld, PlanFresh, CommitIsFresh, Previewed, PrepareToken, barrierVars
<1>5. CASE PreparePrecheck(r)
  BY <1>1, <1>2, <1>5
  DEF FreshInv, TokenOld, PlanFresh, CommitIsFresh, Previewed, PreparePrecheck, barrierVars
<1>6. CASE CommitEnters(r)
  BY <1>1, <1>2, <1>6
  DEF FreshInv, TokenOld, PlanFresh, CommitIsFresh, Previewed, CommitEnters,
      BarrierTryEnterExclusive, barrierVars
<1>7. CASE CommitAccepted(r)
  <2>1. holds = {}
    BY <1>7, ExclusiveIsAlone DEF FreshInv, ExclInv, ExclusiveExact, InCommit, CommitAccepted
  <2> QED
    BY <1>1, <1>2, <1>7, <2>1
    DEF FreshInv, TokenOld, PlanFresh, CommitIsFresh, Previewed, CommitAccepted, barrierVars
<1>8. CASE UndoEnters(r)
  BY <1>1, <1>2, <1>8
  DEF FreshInv, TokenOld, PlanFresh, CommitIsFresh, Previewed, UndoEnters,
      BarrierTryEnterExclusive
<1>9. CASE CommitRefused(r) \/ UndoRefused(r) \/ RewindPublishes(r) \/ RewindFails(r)
  <2>1. /\ generation' = generation + 1
        /\ rpc' = [rpc EXCEPT ![r] = "idle"]
        /\ UNCHANGED << holds, workspaceToken, seen >>
    BY <1>9
    DEF CommitRefused, UndoRefused, RewindPublishes, RewindFails, BarrierExitExclusive
  <2>2. \A q \in Rewinders : rpc'[q] # "committing"
    <3>1. exclusive = {r}
      BY <1>9 DEF FreshInv, ExclInv, ExclusiveExact, InCommit, CommitRefused, UndoRefused,
                  RewindPublishes, RewindFails
    <3> QED
      BY <1>2, <2>1, <3>1 DEF FreshInv, ExclInv, ExclusiveExact, InCommit
  <2>3. \A q \in Rewinders : workspaceToken'[q] <= generation' /\ workspaceToken'[q] # generation'
    BY <1>2, <2>1 DEF FreshInv, TokenOld
  <2> QED
    BY <1>1, <2>2, <2>3 DEF FreshInv, TokenOld, PlanFresh, CommitIsFresh
<1> QED
  BY <1>3, <1>4, <1>5, <1>6, <1>7, <1>8, <1>9 DEF RewinderNext

LEMMA StutterFresh == FreshInv /\ UNCHANGED vars => FreshInv'
  BY StutterExcl DEF FreshInv, TokenOld, PlanFresh, CommitIsFresh, Previewed, vars

\* A rewind is committed only in the workspace its preview judged: between the
\* two no tool, background writer or other rewind has written anything.
THEOREM CommitsAreFresh == Spec => []CommitIsFresh
<1>1. FreshInv /\ [Next]_vars => FreshInv'
  BY ToolFresh, SubFresh, RewinderFresh, StutterFresh DEF Next
<1>2. FreshInv => CommitIsFresh
  BY DEF FreshInv
<1> QED
  BY InitFresh, <1>1, <1>2, PTL DEF Spec

(***************************************************************************)
(* The lease.                                                              *)
(***************************************************************************)

-----------------------------------------------------------------------------
(* Types. *)

LeaseTypes ==
    /\ activeRuns \in [Owners -> Nat] /\ background \in [Owners -> Nat]
    /\ acquired \in [Owners -> BOOLEAN] /\ acquiring \in [Owners -> BOOLEAN]
    /\ releasing \in [Owners -> {"no", "file", "token"}]
    /\ token \subseteq Processes /\ lockFile \subseteq Owners
    /\ run \in [Runs -> RunStates] /\ job \in [Jobs -> JobStates]
    /\ granted \subseteq Parties
    /\ failures \in 0..MaxFailures /\ crashes \in 0..MaxCrashes

LEMMA LeaseInitTypes == LeaseInit => LeaseTypes
  BY LeaseAssumption DEF LeaseInit, LeaseTypes, RunStates, JobStates

LEMMA RunsBelong == \A r \in Runs : OwnerOf[r] \in Owners /\ ProcessOf[OwnerOf[r]] \in Processes
  BY LeaseAssumption DEF Parties

LEMMA JobsBelong == \A j \in Jobs : OwnerOf[j] \in Owners /\ ProcessOf[OwnerOf[j]] \in Processes
  BY LeaseAssumption DEF Parties

\* The steps of a run.
RunStep(r) ==
    \/ BeginRun(r) \/ EndRun(r) \/ AskToWrite(r) \/ AcquireStep(r)
    \/ CancelQueued(r) \/ CancelAcquire(r)

LEMMA RunTypes == ASSUME LeaseTypes, NEW r \in Runs, RunStep(r) PROVE LeaseTypes'
<1> USE RunsBelong, LeaseAssumption
    DEF LeaseTypes, RunStates, Parties, ownerVars, lockVars, counters
<1>1. CASE BeginRun(r)
  BY <1>1 DEF BeginRun
<1>2. CASE EndRun(r)
  BY <1>2 DEF EndRun, ReleaseIfIdle
<1>3. CASE AskToWrite(r)
  BY <1>3 DEF AskToWrite
<1>4. CASE Look(r)
  BY <1>4 DEF Look
<1>5. CASE TakeToken(r)
  BY <1>5 DEF TakeToken
<1>6. CASE TryLockFile(r)
  BY <1>6 DEF TryLockFile
<1>7. CASE Acquired(r)
  BY <1>7 DEF Acquired, Woken
<1>8. CASE NotAcquired(r)
  BY <1>8 DEF NotAcquired, Woken
<1>9. CASE CancelQueued(r)
  BY <1>9 DEF CancelQueued
<1>10. CASE CancelAcquire(r)
  BY <1>10 DEF CancelAcquire
<1> QED
  BY <1>1, <1>2, <1>3, <1>4, <1>5, <1>6, <1>7, <1>8, <1>9, <1>10 DEF RunStep, AcquireStep

LEMMA StartJobTypes == ASSUME LeaseTypes, NEW r \in Runs, NEW j \in Jobs, StartJob(r, j) PROVE LeaseTypes'
  BY JobsBelong, LeaseAssumption DEF LeaseTypes, StartJob, JobStates, Parties, lockVars, counters

LEMMA JobTypes == ASSUME LeaseTypes, NEW j \in Jobs, JobDone(j) \/ JobReleased(j) PROVE LeaseTypes'
<1> USE JobsBelong, LeaseAssumption DEF LeaseTypes, JobStates, Parties, ownerVars, lockVars, counters
<1>1. CASE JobDone(j)
  BY <1>1 DEF JobDone
<1>2. CASE JobReleased(j)
  BY <1>2 DEF JobReleased, ReleaseIfIdle
<1> QED
  BY <1>1, <1>2

LEMMA ReleaseTypes == ASSUME LeaseTypes, NEW o \in Owners, ReleaseFile(o) \/ ReleaseLocal(o) PROVE LeaseTypes'
  BY LeaseAssumption DEF LeaseTypes, ReleaseFile, ReleaseLocal, counters

LEMMA CrashTypes == ASSUME LeaseTypes, NEW p \in Processes, Crash(p) PROVE LeaseTypes'
  BY LeaseAssumption DEF LeaseTypes, Crash, RunStates, JobStates

LEMMA LeaseStutterTypes == LeaseTypes /\ UNCHANGED leaseVars => LeaseTypes'
  BY DEF LeaseTypes, leaseVars, ownerVars, lockVars, counters

LEMMA TypesStep == LeaseTypes /\ [LeaseNext]_leaseVars => LeaseTypes'
  BY RunTypes, StartJobTypes, JobTypes, ReleaseTypes, CrashTypes, LeaseStutterTypes
  DEF LeaseNext, RunStep

-----------------------------------------------------------------------------
(* The counts are exact: activeRuns counts the runs under way, background    *)
(* the jobs for which RetainUntil still waits.                               *)

RunsIn(o) == { r \in RunsOf(o) : run[r] # "out" }
Held(o) == { j \in JobsOf(o) : job[j] \in {"retained", "closing"} }

RunsCounted == \A o \in Owners : activeRuns[o] = Cardinality(RunsIn(o))
JobsCounted == \A o \in Owners : background[o] = Cardinality(Held(o))

LeaseCountInv == LeaseTypes /\ RunsCounted /\ JobsCounted

LEMMA Finite == \A o \in Owners : /\ IsFiniteSet(RunsIn(o)) /\ IsFiniteSet(RunsIn(o)')
                                  /\ IsFiniteSet(Held(o)) /\ IsFiniteSet(Held(o)')
  BY FS_Subset, LeaseAssumption DEF RunsIn, RunsOf, Held, JobsOf

LEMMA LeaseInitCount == LeaseInit => LeaseCountInv
<1> SUFFICES ASSUME LeaseInit PROVE LeaseCountInv
  OBVIOUS
<1>1. \A o \in Owners : RunsIn(o) = {} /\ Held(o) = {}
  BY DEF LeaseInit, RunsIn, RunsOf, Held, JobsOf
<1> QED
  BY <1>1, LeaseInitTypes, FS_EmptySet DEF LeaseInit, LeaseCountInv, RunsCounted, JobsCounted

\* One more run, or one less, of an owner.
LEMMA OneMoreRun ==
  ASSUME LeaseTypes, RunsCounted, NEW r \in Runs, run[r] = "out",
         NEW s \in RunStates, s # "out", run' = [run EXCEPT ![r] = s],
         activeRuns' = [activeRuns EXCEPT ![OwnerOf[r]] = @ + 1]
  PROVE  RunsCounted'
<1> SUFFICES ASSUME NEW o \in Owners PROVE activeRuns'[o] = Cardinality(RunsIn(o)')
  BY DEF RunsCounted
<1>1. CASE o = OwnerOf[r]
  <2>1. RunsIn(o)' = RunsIn(o) \cup {r} /\ r \notin RunsIn(o)
    BY <1>1 DEF RunsIn, RunsOf, LeaseTypes
  <2>2. Cardinality(RunsIn(o)') = Cardinality(RunsIn(o)) + 1
    BY <2>1, Finite, FS_AddElement
  <2>3. activeRuns'[o] = activeRuns[o] + 1
    BY <1>1 DEF LeaseTypes
  <2> QED
    BY <2>2, <2>3 DEF RunsCounted
<1>2. CASE o # OwnerOf[r]
  <2>1. RunsIn(o)' = RunsIn(o)
    BY <1>2 DEF RunsIn, RunsOf, LeaseTypes
  <2> QED
    BY <1>2, <2>1, RunsBelong DEF RunsCounted, LeaseTypes
<1> QED
  BY <1>1, <1>2

LEMMA OneRunLess ==
  ASSUME LeaseTypes, RunsCounted, NEW r \in Runs, run[r] # "out",
         run' = [run EXCEPT ![r] = "out"],
         activeRuns' = [activeRuns EXCEPT ![OwnerOf[r]] = IF @ > 0 THEN @ - 1 ELSE @]
  PROVE  RunsCounted'
<1> SUFFICES ASSUME NEW o \in Owners PROVE activeRuns'[o] = Cardinality(RunsIn(o)')
  BY DEF RunsCounted
<1>1. CASE o = OwnerOf[r]
  <2>1. RunsIn(o)' = RunsIn(o) \ {r} /\ r \in RunsIn(o)
    BY <1>1 DEF RunsIn, RunsOf, LeaseTypes
  <2>2. Cardinality(RunsIn(o)') = Cardinality(RunsIn(o)) - 1
    BY <2>1, Finite, FS_RemoveElement
  <2>3. activeRuns[o] # 0
    BY <2>1, Finite, FS_EmptySet DEF RunsCounted
  <2> QED
    BY <1>1, <2>2, <2>3 DEF RunsCounted, LeaseTypes
<1>2. CASE o # OwnerOf[r]
  <2>1. RunsIn(o)' = RunsIn(o)
    BY <1>2 DEF RunsIn, RunsOf, LeaseTypes
  <2> QED
    BY <1>2, <2>1, RunsBelong DEF RunsCounted, LeaseTypes
<1> QED
  BY <1>1, <1>2

\* Runs that move without beginning or ending.
LEMMA SameRuns ==
  ASSUME RunsCounted, activeRuns' = activeRuns,
         \A r \in Runs : run'[r] = "out" <=> run[r] = "out"
  PROVE  RunsCounted'
<1>1. \A o \in Owners : RunsIn(o)' = RunsIn(o)
  BY DEF RunsIn, RunsOf
<1> QED
  BY <1>1 DEF RunsCounted

LEMMA SameJobs ==
  ASSUME JobsCounted, background' = background,
         \A j \in Jobs : job'[j] \in {"retained", "closing"} <=> job[j] \in {"retained", "closing"}
  PROVE  JobsCounted'
<1>1. \A o \in Owners : Held(o)' = Held(o)
  BY DEF Held, JobsOf
<1> QED
  BY <1>1 DEF JobsCounted

\* The steps of a run leave the jobs' count alone.
LEMMA RunCount == ASSUME LeaseCountInv, NEW r \in Runs, RunStep(r) PROVE RunsCounted' /\ JobsCounted'
<1> USE RunsBelong DEF LeaseCountInv
<1>1. JobsCounted'
  <2>1. job' = job /\ background' = background
    BY DEF RunStep, AcquireStep, BeginRun, EndRun, AskToWrite, Look, TakeToken, TryLockFile,
           Acquired, NotAcquired, CancelQueued, CancelAcquire, ownerVars
  <2> QED
    BY <2>1, SameJobs
<1>2. CASE BeginRun(r)
  BY <1>1, <1>2, OneMoreRun DEF BeginRun, RunStates
<1>3. CASE EndRun(r)
  <2>1. run[r] # "out"
    BY <1>3 DEF EndRun
  <2> QED
    BY <1>1, <1>3, <2>1, OneRunLess DEF EndRun
<1>4. CASE AskToWrite(r) \/ AcquireStep(r) \/ CancelQueued(r) \/ CancelAcquire(r)
  <2>1. activeRuns' = activeRuns
    BY <1>4 DEF AcquireStep, AskToWrite, Look, TakeToken, TryLockFile,
                Acquired, NotAcquired, CancelQueued, CancelAcquire, ownerVars
  <2>2. \A s \in Runs : run'[s] = "out" <=> run[s] = "out"
    BY <1>4 DEF AcquireStep, AskToWrite, Look, TakeToken, TryLockFile,
                Acquired, NotAcquired, CancelQueued, CancelAcquire, Woken, LeaseTypes
  <2> QED
    BY <1>1, <2>1, <2>2, SameRuns
<1> QED
  BY <1>2, <1>3, <1>4 DEF RunStep

LEMMA StartJobCount ==
  ASSUME LeaseCountInv, NEW r \in Runs, NEW j \in Jobs, StartJob(r, j)
  PROVE  RunsCounted' /\ JobsCounted'
<1> USE JobsBelong DEF LeaseCountInv
<1>1. RunsCounted'
  BY SameRuns DEF StartJob
<1>2. CASE acquired[OwnerOf[j]]
  <2> SUFFICES ASSUME NEW o \in Owners PROVE background'[o] = Cardinality(Held(o)')
    BY <1>1 DEF JobsCounted
  <2>1. CASE o = OwnerOf[j]
    <3>1. Held(o)' = Held(o) \cup {j} /\ j \notin Held(o)
      BY <1>2, <2>1 DEF Held, JobsOf, LeaseTypes, StartJob
    <3>2. Cardinality(Held(o)') = Cardinality(Held(o)) + 1
      BY <3>1, Finite, FS_AddElement
    <3>3. background'[o] = background[o] + 1
      BY <1>2, <2>1 DEF LeaseTypes, StartJob
    <3> QED
      BY <3>2, <3>3 DEF JobsCounted
  <2>2. CASE o # OwnerOf[j]
    <3>1. Held(o)' = Held(o)
      BY <2>2 DEF Held, JobsOf, LeaseTypes, StartJob
    <3> QED
      BY <1>2, <2>2, <3>1 DEF JobsCounted, LeaseTypes, StartJob
  <2> QED
    BY <2>1, <2>2
<1>3. CASE ~acquired[OwnerOf[j]]
  <2>1. background' = background
    BY <1>3 DEF StartJob, LeaseTypes
  <2>2. \A i \in Jobs : job'[i] \in {"retained", "closing"} <=> job[i] \in {"retained", "closing"}
    BY <1>3 DEF StartJob, LeaseTypes
  <2> QED
    BY <1>1, <2>1, <2>2, SameJobs
<1> QED
  BY <1>2, <1>3

LEMMA JobCount ==
  ASSUME LeaseCountInv, NEW j \in Jobs, JobDone(j) \/ JobReleased(j)
  PROVE  RunsCounted' /\ JobsCounted'
<1> USE JobsBelong DEF LeaseCountInv
<1>1. RunsCounted'
  BY SameRuns DEF JobDone, JobReleased, ownerVars
<1>2. CASE JobDone(j)
  <2>1. \A i \in Jobs : job'[i] \in {"retained", "closing"} <=> job[i] \in {"retained", "closing"}
    BY <1>2 DEF JobDone, LeaseTypes
  <2> QED
    BY <1>1, <1>2, <2>1, SameJobs DEF JobDone, ownerVars
<1>3. CASE JobReleased(j)
  <2> SUFFICES ASSUME NEW o \in Owners PROVE background'[o] = Cardinality(Held(o)')
    BY <1>1 DEF JobsCounted
  <2>1. CASE o = OwnerOf[j]
    <3>1. Held(o)' = Held(o) \ {j} /\ j \in Held(o)
      BY <1>3, <2>1 DEF Held, JobsOf, LeaseTypes, JobReleased
    <3>2. Cardinality(Held(o)') = Cardinality(Held(o)) - 1
      BY <3>1, Finite, FS_RemoveElement
    <3>3. background[o] # 0
      BY <3>1, Finite, FS_EmptySet DEF JobsCounted
    <3> QED
      BY <1>3, <2>1, <3>2, <3>3 DEF JobsCounted, LeaseTypes, JobReleased
  <2>2. CASE o # OwnerOf[j]
    <3>1. Held(o)' = Held(o)
      BY <1>3, <2>2 DEF Held, JobsOf, LeaseTypes, JobReleased
    <3> QED
      BY <1>3, <2>2, <3>1 DEF JobsCounted, LeaseTypes, JobReleased
  <2> QED
    BY <2>1, <2>2
<1> QED
  BY <1>2, <1>3

LEMMA CrashCount == ASSUME LeaseCountInv, NEW p \in Processes, Crash(p) PROVE RunsCounted' /\ JobsCounted'
<1>1. ASSUME NEW o \in Owners, ProcessOf[o] = p
      PROVE  RunsIn(o)' = {} /\ Held(o)' = {} /\ activeRuns'[o] = 0 /\ background'[o] = 0
  BY <1>1 DEF Crash, RunsIn, RunsOf, Held, JobsOf
<1>2. ASSUME NEW o \in Owners, ProcessOf[o] # p
      PROVE  /\ RunsIn(o)' = RunsIn(o) /\ Held(o)' = Held(o)
             /\ activeRuns'[o] = activeRuns[o] /\ background'[o] = background[o]
  BY <1>2 DEF Crash, RunsIn, RunsOf, Held, JobsOf
<1> QED
  BY <1>1, <1>2, FS_EmptySet DEF LeaseCountInv, RunsCounted, JobsCounted

LEMMA CountStep == LeaseCountInv /\ [LeaseNext]_leaseVars => LeaseCountInv'
<1> SUFFICES ASSUME LeaseCountInv, [LeaseNext]_leaseVars PROVE RunsCounted' /\ JobsCounted'
  BY TypesStep DEF LeaseCountInv
<1>1. ASSUME NEW o \in Owners, ReleaseFile(o) \/ ReleaseLocal(o)
      PROVE  RunsCounted' /\ JobsCounted'
  BY <1>1, SameRuns, SameJobs DEF ReleaseFile, ReleaseLocal, LeaseCountInv
<1>2. CASE UNCHANGED leaseVars
  BY <1>2, SameRuns, SameJobs DEF leaseVars, ownerVars, LeaseCountInv
<1> QED
  BY RunCount, StartJobCount, JobCount, CrashCount, <1>1, <1>2 DEF LeaseNext, RunStep

\* What the rest needs of the counts: a run under way is counted, and so is a retained job.
LEMMA CountsSee ==
  ASSUME LeaseCountInv
  PROVE  /\ \A r \in Runs : run[r] # "out" => activeRuns[OwnerOf[r]] # 0
         /\ \A j \in Jobs : job[j] \in {"retained", "closing"} => background[OwnerOf[j]] # 0
<1>1. ASSUME NEW r \in Runs, run[r] # "out" PROVE activeRuns[OwnerOf[r]] # 0
  <2>1. r \in RunsIn(OwnerOf[r])
    BY <1>1 DEF RunsIn, RunsOf
  <2> QED
    BY <2>1, RunsBelong, Finite, FS_EmptySet DEF LeaseCountInv, RunsCounted
<1>2. ASSUME NEW j \in Jobs, job[j] \in {"retained", "closing"} PROVE background[OwnerOf[j]] # 0
  <2>1. j \in Held(OwnerOf[j])
    BY <1>2 DEF Held, JobsOf
  <2> QED
    BY <2>1, JobsBelong, Finite, FS_EmptySet DEF LeaseCountInv, JobsCounted
<1> QED
  BY <1>1, <1>2

LEMMA CountsSeeNext ==
  ASSUME LeaseCountInv'
  PROVE  /\ \A r \in Runs : run'[r] # "out" => activeRuns'[OwnerOf[r]] # 0
         /\ \A j \in Jobs : job'[j] \in {"retained", "closing"} => background'[OwnerOf[j]] # 0
<1>1. ASSUME NEW r \in Runs, run'[r] # "out" PROVE activeRuns'[OwnerOf[r]] # 0
  <2>1. r \in RunsIn(OwnerOf[r])'
    BY <1>1 DEF RunsIn, RunsOf
  <2> QED
    BY <2>1, RunsBelong, Finite, FS_EmptySet DEF LeaseCountInv, RunsCounted
<1>2. ASSUME NEW j \in Jobs, job'[j] \in {"retained", "closing"} PROVE background'[OwnerOf[j]] # 0
  <2>1. j \in Held(OwnerOf[j])'
    BY <1>2 DEF Held, JobsOf
  <2> QED
    BY <2>1, JobsBelong, Finite, FS_EmptySet DEF LeaseCountInv, JobsCounted
<1> QED
  BY <1>1, <1>2

-----------------------------------------------------------------------------
(* Who has the token and the lock.  Of each session at most one run          *)
(* acquires, and of each process at most one session has the token: with a   *)
(* run that polls the file or holds the lock, with the lease, or with a      *)
(* release function that is not through.                                     *)

OneAcquires ==
    /\ \A r \in Runs : run[r] \in Acquirer => acquiring[OwnerOf[r]] /\ ~acquired[OwnerOf[r]]
    /\ \A r, s \in Runs :
          run[r] \in Acquirer /\ run[s] \in Acquirer /\ OwnerOf[r] = OwnerOf[s] => r = s
    /\ \A o \in Owners : acquired[o] => ~acquiring[o]

HasToken(o) ==
    \/ acquired[o] \/ releasing[o] # "no"
    \/ \E r \in RunsOf(o) : run[r] \in {"file", "locked"}

TokenIsOne ==
    /\ \A o \in Owners : HasToken(o) => ProcessOf[o] \notin token
    /\ \A o, q \in Owners : HasToken(o) /\ HasToken(q) /\ ProcessOf[o] = ProcessOf[q] => o = q
    /\ \A o \in Owners : releasing[o] # "no" =>
          ~acquired[o] /\ \A r \in RunsOf(o) : run[r] \notin {"file", "locked"}

HasLock(o) ==
    \/ acquired[o] \/ releasing[o] = "file"
    \/ \E r \in RunsOf(o) : run[r] = "locked"

LockIsOne == \A o \in Owners : HasLock(o) => lockFile = {o}

HoldInv == LeaseCountInv /\ OneAcquires /\ TokenIsOne /\ LockIsOne

LEMMA InitHold == LeaseInit => HoldInv
  BY LeaseInitCount, LeaseAssumption
  DEF LeaseInit, HoldInv, OneAcquires, TokenIsOne, LockIsOne, HasToken, HasLock, Acquirer, RunsOf

\* A lease that is given back: the release function takes over what the lease had.
LEMMA GivenBack ==
  ASSUME LeaseTypes, OneAcquires, TokenIsOne, LockIsOne, NEW o \in Owners, ReleaseIfIdle(o),
         token' = token, lockFile' = lockFile, acquiring' = acquiring,
         \A r \in Runs : run'[r] \in Acquirer => run'[r] = run[r]
  PROVE  OneAcquires' /\ TokenIsOne' /\ LockIsOne'
<1>1. \A q \in Owners : acquired'[q] => acquired[q]
  BY DEF ReleaseIfIdle, LeaseTypes
<1>2. \A q \in Owners : HasToken(q)' => HasToken(q)
  BY <1>1 DEF HasToken, ReleaseIfIdle, Idle, LeaseTypes, Acquirer, RunsOf
<1>3. \A q \in Owners : HasLock(q)' => HasLock(q)
  BY <1>1 DEF HasLock, ReleaseIfIdle, Idle, LeaseTypes, Acquirer, RunsOf
<1>4. OneAcquires'
  BY <1>1, RunsBelong DEF OneAcquires
<1>5. ASSUME NEW q \in Owners, releasing'[q] # "no"
      PROVE  ~acquired'[q] /\ \A r \in RunsOf(q) : run'[r] \notin {"file", "locked"}
  <2>1. CASE releasing[q] # "no"
    BY <1>1, <2>1 DEF TokenIsOne, RunsOf, Acquirer
  <2>2. CASE releasing[q] = "no"
    <3>1. q = o /\ Idle(o) /\ ~acquired'[o]
      BY <1>5, <2>2 DEF ReleaseIfIdle, LeaseTypes
    <3>2. \A r \in RunsOf(q) : run[r] \notin Acquirer
      BY <3>1 DEF OneAcquires, Idle, RunsOf
    <3> QED
      BY <3>1, <3>2 DEF RunsOf, Acquirer
  <2> QED
    BY <2>1, <2>2
<1> QED
  BY <1>2, <1>3, <1>4, <1>5 DEF TokenIsOne, LockIsOne, RunsOf

\* The other steps of a run.
LEMMA RunHold == ASSUME HoldInv, NEW r \in Runs, RunStep(r)
                 PROVE  OneAcquires' /\ TokenIsOne' /\ LockIsOne'
<1> DEFINE o == OwnerOf[r]
<1> USE RunsBelong DEF HoldInv, LeaseCountInv
<1>1. CASE BeginRun(r) \/ AskToWrite(r) \/ CancelQueued(r)
  <2>1. \A s \in Runs : run'[s] \in Acquirer <=> run[s] \in Acquirer
    BY <1>1 DEF BeginRun, AskToWrite, CancelQueued, Acquirer, LeaseTypes
  <2>2. \A s \in Runs : run'[s] \in Acquirer => run'[s] = run[s]
    BY <1>1 DEF BeginRun, AskToWrite, CancelQueued, Acquirer, LeaseTypes
  <2>3. /\ acquired' = acquired /\ acquiring' = acquiring /\ releasing' = releasing
        /\ token' = token /\ lockFile' = lockFile
    BY <1>1 DEF BeginRun, AskToWrite, CancelQueued, ownerVars, lockVars
  <2> QED
    BY <2>1, <2>2, <2>3
    DEF OneAcquires, TokenIsOne, LockIsOne, HasToken, HasLock, RunsOf, Acquirer
<1>2. CASE EndRun(r)
  <2>1. \A s \in Runs : run'[s] \in Acquirer => run'[s] = run[s]
    BY <1>2 DEF EndRun, Acquirer, LeaseTypes
  <2> QED
    BY <1>2, <2>1, GivenBack DEF EndRun, lockVars
<1>3. CASE Look(r)
  BY <1>3 DEF Look, OneAcquires, TokenIsOne, LockIsOne, HasToken, HasLock, RunsOf, Acquirer,
              LeaseTypes, lockVars
<1>4. CASE TakeToken(r)
  <2>1. OneAcquires'
    BY <1>4 DEF TakeToken, OneAcquires, Acquirer, LeaseTypes, ownerVars
  <2>2. \A q \in Owners : HasToken(q)' => HasToken(q) \/ q = o
    BY <1>4 DEF TakeToken, HasToken, RunsOf, LeaseTypes, ownerVars
  <2>3. LockIsOne'
    BY <1>4 DEF TakeToken, LockIsOne, HasLock, RunsOf, LeaseTypes, ownerVars
  <2>4. \A q \in Owners : ProcessOf[q] = ProcessOf[o] => ~HasToken(q)
    BY <1>4 DEF TakeToken, TokenIsOne
  <2>5. releasing[o] = "no"
    BY <2>4 DEF HasToken
  <2> QED
    BY <1>4, <2>1, <2>2, <2>3, <2>4, <2>5 DEF TakeToken, TokenIsOne, RunsOf, LeaseTypes, ownerVars
<1>5. CASE TryLockFile(r)
  <2>1. OneAcquires'
    BY <1>5 DEF TryLockFile, OneAcquires, Acquirer, LeaseTypes, ownerVars
  <2>2. \A q \in Owners : HasToken(q)' => HasToken(q)
    BY <1>5 DEF TryLockFile, HasToken, RunsOf, LeaseTypes, ownerVars
  <2>3. \A q \in Owners : ~HasLock(q)
    BY <1>5 DEF TryLockFile, LockIsOne
  <2>4. LockIsOne'
    BY <1>5, <2>3 DEF TryLockFile, LockIsOne, HasLock, RunsOf, LeaseTypes, ownerVars
  <2>5. releasing[o] = "no"
    BY <1>5 DEF TryLockFile, TokenIsOne, RunsOf, LeaseTypes
  <2> QED
    BY <1>5, <2>1, <2>2, <2>4, <2>5 DEF TryLockFile, TokenIsOne, RunsOf, LeaseTypes, ownerVars
<1>6. CASE Acquired(r)
  <2>1. activeRuns[o] # 0
    BY <1>6, CountsSee DEF Acquired
  <2>2. /\ acquired' = [acquired EXCEPT ![o] = TRUE] /\ releasing' = releasing
        /\ run' = Woken(r) /\ run[r] = "locked"
        /\ acquiring' = [acquiring EXCEPT ![o] = FALSE]
        /\ token' = token /\ lockFile' = lockFile
    BY <1>6, <2>1 DEF Acquired, lockVars
  <2>3. \A s \in Runs : run'[s] \in Acquirer => run'[s] = run[s] /\ s # r
    BY <2>2 DEF Woken, Acquirer
  <2>4. \A s \in Runs : run'[s] \in Acquirer => OwnerOf[s] # o
    BY <2>2, <2>3 DEF OneAcquires, Acquirer
  <2>5. OneAcquires'
    BY <2>2, <2>3, <2>4 DEF OneAcquires, LeaseTypes
  <2>6. HasToken(o) /\ HasLock(o)
    BY <2>2 DEF HasToken, HasLock, RunsOf
  <2>7. \A q \in Owners : (HasToken(q)' => HasToken(q)) /\ (HasLock(q)' => HasLock(q))
    BY <2>2, <2>3, <2>6 DEF HasToken, HasLock, RunsOf, Acquirer, LeaseTypes
  <2>8. releasing[o] = "no"
    BY <2>2 DEF TokenIsOne, RunsOf
  <2> QED
    BY <2>2, <2>3, <2>5, <2>7, <2>8 DEF TokenIsOne, LockIsOne, RunsOf, Acquirer, LeaseTypes
<1>7. CASE NotAcquired(r)
  <2>1. \A s \in Runs : run'[s] \in Acquirer => run'[s] = run[s] /\ s # r
    BY <1>7 DEF NotAcquired, Woken, Acquirer
  <2>2. \A s \in Runs : run'[s] \in Acquirer => OwnerOf[s] # o
    BY <1>7, <2>1 DEF NotAcquired, OneAcquires, Acquirer
  <2>3. OneAcquires'
    BY <1>7, <2>1, <2>2 DEF NotAcquired, OneAcquires, LeaseTypes
  <2>4. \A q \in Owners : (HasToken(q)' => HasToken(q)) /\ (HasLock(q)' => HasLock(q))
    BY <1>7, <2>1 DEF NotAcquired, HasToken, HasLock, RunsOf, Acquirer
  <2> QED
    BY <1>7, <2>1, <2>3, <2>4 DEF NotAcquired, TokenIsOne, LockIsOne, RunsOf, Acquirer, lockVars
<1>8. CASE CancelAcquire(r)
  <2>1. OneAcquires'
    BY <1>8 DEF CancelAcquire, OneAcquires, Acquirer, LeaseTypes, ownerVars
  <2>2. \A q \in Owners : (HasToken(q)' => HasToken(q)) /\ (HasLock(q)' => HasLock(q))
    BY <1>8 DEF CancelAcquire, HasToken, HasLock, RunsOf, LeaseTypes, ownerVars
  <2>3. ASSUME NEW q \in Owners, HasToken(q)' PROVE ProcessOf[q] \notin token'
    <3>1. CASE run[r] = "file"
      <4>1. HasToken(o)
        BY <3>1 DEF HasToken, RunsOf
      <4>2. ~HasToken(o)'
        BY <1>8, <3>1 DEF CancelAcquire, HasToken, RunsOf, OneAcquires, Acquirer, TokenIsOne,
                          LeaseTypes, ownerVars
      <4> QED
        BY <1>8, <2>2, <2>3, <3>1, <4>1, <4>2 DEF CancelAcquire, TokenIsOne
    <3>2. CASE run[r] # "file"
      BY <1>8, <2>2, <2>3, <3>2 DEF CancelAcquire, TokenIsOne
    <3> QED
      BY <3>1, <3>2
  <2> QED
    BY <1>8, <2>1, <2>2, <2>3
    DEF CancelAcquire, TokenIsOne, LockIsOne, RunsOf, LeaseTypes, ownerVars
<1> QED
  BY <1>1, <1>2, <1>3, <1>4, <1>5, <1>6, <1>7, <1>8 DEF RunStep, AcquireStep

LEMMA JobHold ==
  ASSUME HoldInv, NEW j \in Jobs,
         JobDone(j) \/ JobReleased(j) \/ \E r \in Runs : StartJob(r, j)
  PROVE  OneAcquires' /\ TokenIsOne' /\ LockIsOne'
<1> USE JobsBelong DEF HoldInv, LeaseCountInv
<1>1. CASE JobReleased(j)
  BY <1>1, GivenBack DEF JobReleased, lockVars
<1>2. CASE JobDone(j) \/ \E r \in Runs : StartJob(r, j)
  <2>1. UNCHANGED << run, acquired, acquiring, releasing, token, lockFile >>
    BY <1>2 DEF JobDone, StartJob, ownerVars, lockVars
  <2> QED
    BY <2>1 DEF OneAcquires, TokenIsOne, LockIsOne, HasToken, HasLock, RunsOf
<1> QED
  BY <1>1, <1>2

LEMMA ReleaseHold ==
  ASSUME HoldInv, NEW o \in Owners, ReleaseFile(o) \/ ReleaseLocal(o)
  PROVE  OneAcquires' /\ TokenIsOne' /\ LockIsOne'
<1> USE DEF HoldInv, LeaseCountInv
<1>1. CASE ReleaseFile(o)
  <2>1. OneAcquires'
    BY <1>1 DEF ReleaseFile, OneAcquires
  <2>2. \A q \in Owners : HasToken(q)' => HasToken(q)
    BY <1>1 DEF ReleaseFile, HasToken, LeaseTypes, RunsOf
  <2>3. \A q \in Owners : HasLock(q)' => HasLock(q) /\ q # o
    BY <1>1 DEF ReleaseFile, HasLock, TokenIsOne, LeaseTypes, RunsOf
  <2>4. LockIsOne'
    BY <1>1, <2>3 DEF ReleaseFile, LockIsOne
  <2> QED
    BY <1>1, <2>1, <2>2, <2>4 DEF ReleaseFile, TokenIsOne, LeaseTypes, RunsOf
<1>2. CASE ReleaseLocal(o)
  <2>1. OneAcquires'
    BY <1>2 DEF ReleaseLocal, OneAcquires
  <2>2. \A q \in Owners : HasToken(q)' => HasToken(q) /\ q # o
    BY <1>2 DEF ReleaseLocal, HasToken, TokenIsOne, LeaseTypes, RunsOf
  <2>3. HasToken(o)
    BY <1>2 DEF ReleaseLocal, HasToken
  <2>4. LockIsOne'
    BY <1>2 DEF ReleaseLocal, LockIsOne, HasLock, LeaseTypes, RunsOf
  <2> QED
    BY <1>2, <2>1, <2>2, <2>3, <2>4 DEF ReleaseLocal, TokenIsOne, LeaseTypes, RunsOf
<1> QED
  BY <1>1, <1>2

LEMMA CrashHold ==
  ASSUME HoldInv, NEW p \in Processes, Crash(p)
  PROVE  OneAcquires' /\ TokenIsOne' /\ LockIsOne'
<1> USE RunsBelong DEF HoldInv, LeaseCountInv
<1>1. \A r \in Runs : run'[r] \in Acquirer => run'[r] = run[r] /\ ProcessOf[OwnerOf[r]] # p
  BY DEF Crash, Acquirer
<1>2. OneAcquires'
  BY <1>1 DEF Crash, OneAcquires
<1>3. \A q \in Owners : HasToken(q)' => HasToken(q) /\ ProcessOf[q] # p
  BY <1>1 DEF Crash, HasToken, RunsOf, Acquirer
<1>4. \A q \in Owners : HasLock(q)' => HasLock(q) /\ ProcessOf[q] # p
  BY <1>1 DEF Crash, HasLock, RunsOf, Acquirer
<1>5. LockIsOne'
  BY <1>4 DEF Crash, LockIsOne, OwnersOf
<1> QED
  BY <1>1, <1>2, <1>3, <1>5 DEF Crash, TokenIsOne, RunsOf, Acquirer

LEMMA HoldStep == HoldInv /\ [LeaseNext]_leaseVars => HoldInv'
<1> SUFFICES ASSUME HoldInv, [LeaseNext]_leaseVars PROVE OneAcquires' /\ TokenIsOne' /\ LockIsOne'
  BY CountStep DEF HoldInv
<1>1. CASE UNCHANGED leaseVars
  BY <1>1 DEF leaseVars, ownerVars, lockVars, HoldInv, OneAcquires, TokenIsOne, LockIsOne,
              HasToken, HasLock, RunsOf
<1> QED
  BY <1>1, RunHold, JobHold, ReleaseHold, CrashHold DEF LeaseNext, RunStep

-----------------------------------------------------------------------------
(* Who may write. *)

\* A party that may write is there, so it is counted, and its session has the lease.
GrantsHold ==
    /\ \A x \in granted : acquired[OwnerOf[x]]
    /\ \A r \in Runs : r \in granted => run[r] # "out"
    /\ \A j \in Jobs : j \in granted => job[j] = "retained"

\* A session that has the lease has somebody who needs it.
LeaseCounted == \A o \in Owners : acquired[o] => activeRuns[o] # 0 \/ background[o] # 0

LeaseInv == HoldInv /\ GrantsHold /\ LeaseCounted

LEMMA InitLease == LeaseInit => LeaseInv
  BY InitHold DEF LeaseInit, LeaseInv, GrantsHold, LeaseCounted

\* A lease is given back when the counts are zero, and then nobody may write.
LEMMA GivenBackLease ==
  ASSUME LeaseInv, HoldInv', NEW o \in Owners, ReleaseIfIdle(o),
         \A q \in Owners \ {o} : activeRuns'[q] = activeRuns[q] /\ background'[q] = background[q],
         UNCHANGED acquiring,
         granted' \subseteq granted,
         \A r \in Runs : r \in granted' => run'[r] # "out",
         \A j \in Jobs : j \in granted' => job'[j] = "retained"
  PROVE  GrantsHold' /\ LeaseCounted'
<1> USE DEF LeaseInv, HoldInv, LeaseCountInv
<1>1. ASSUME NEW x \in granted' PROVE acquired'[OwnerOf[x]]
  <2>1. x \in Runs \/ x \in Jobs
    BY <1>1 DEF LeaseTypes, Parties
  <2>2. activeRuns'[OwnerOf[x]] # 0 \/ background'[OwnerOf[x]] # 0
    BY <1>1, <2>1, CountsSeeNext
  <2>3. acquired[OwnerOf[x]] /\ OwnerOf[x] \in Owners
    BY <1>1, <2>1, RunsBelong, JobsBelong DEF GrantsHold
  <2> QED
    BY <2>2, <2>3 DEF ReleaseIfIdle, Idle, LeaseTypes
<1>2. ASSUME NEW q \in Owners, acquired'[q] PROVE activeRuns'[q] # 0 \/ background'[q] # 0
  <2>1. CASE q = o
    <3>1. acquired[o] /\ ~Idle(o)
      BY <1>2, <2>1 DEF ReleaseIfIdle, LeaseTypes
    <3>2. ~acquiring[o]
      BY <3>1 DEF OneAcquires
    <3> QED
      BY <2>1, <3>1, <3>2 DEF Idle
  <2>2. CASE q # o
    BY <1>2, <2>2 DEF ReleaseIfIdle, LeaseTypes, LeaseCounted
  <2> QED
    BY <2>1, <2>2
<1> QED
  BY <1>1, <1>2 DEF GrantsHold, LeaseCounted

\* A step that gives no lease back and adds at most the run r, which then has it.
LEMMA Kept ==
  ASSUME LeaseInv, HoldInv', NEW r \in Runs,
         granted' \subseteq granted \cup {r},
         r \in granted' \ granted => acquired'[OwnerOf[r]],
         \A q \in Owners : acquired[q] => acquired'[q],
         \A q \in Owners : acquired'[q] /\ ~acquired[q] => q = OwnerOf[r],
         \A q \in Owners : activeRuns[q] # 0 => activeRuns'[q] # 0,
         background' = background, job' = job,
         \A s \in Runs : run[s] # "out" => run'[s] # "out",
         run'[r] # "out"
  PROVE  GrantsHold' /\ LeaseCounted'
<1> USE DEF LeaseInv, HoldInv, LeaseCountInv
<1>1. ASSUME NEW x \in granted' PROVE acquired'[OwnerOf[x]]
  <2>1. x \in Runs \/ x \in Jobs
    BY <1>1 DEF LeaseTypes, Parties
  <2> QED
    BY <1>1, <2>1, RunsBelong, JobsBelong DEF GrantsHold
<1>2. \A s \in Runs : s \in granted' => run'[s] # "out"
  BY DEF GrantsHold
<1>3. \A j \in Jobs : j \in granted' => job'[j] = "retained"
  BY LeaseAssumption DEF GrantsHold
<1>4. LeaseCounted'
  BY CountsSeeNext DEF LeaseCounted
<1> QED
  BY <1>1, <1>2, <1>3, <1>4 DEF GrantsHold

LEMMA RunLease ==
  ASSUME LeaseInv, HoldInv', NEW r \in Runs, RunStep(r)
  PROVE  GrantsHold' /\ LeaseCounted'
<1> USE RunsBelong DEF LeaseInv, HoldInv, LeaseCountInv
<1>1. CASE EndRun(r)
  <2>1. \A q \in Owners \ {OwnerOf[r]} : activeRuns'[q] = activeRuns[q] /\ background'[q] = background[q]
    BY <1>1 DEF EndRun, LeaseTypes
  <2>2. \A s \in Runs : s \in granted' => run'[s] # "out"
    BY <1>1 DEF EndRun, GrantsHold, LeaseTypes
  <2>3. \A j \in Jobs : j \in granted' => job'[j] = "retained"
    BY <1>1 DEF EndRun, GrantsHold
  <2> QED
    BY <1>1, <2>1, <2>2, <2>3, GivenBackLease DEF EndRun
<1>2. CASE BeginRun(r) \/ AskToWrite(r) \/ CancelQueued(r) \/ CancelAcquire(r)
           \/ TakeToken(r) \/ TryLockFile(r) \/ NotAcquired(r)
  <2>1. /\ granted' = granted /\ acquired' = acquired
        /\ background' = background /\ job' = job
    BY <1>2 DEF BeginRun, AskToWrite, CancelQueued, CancelAcquire, TakeToken, TryLockFile,
                NotAcquired, ownerVars
  <2>2. \A q \in Owners : activeRuns[q] # 0 => activeRuns'[q] # 0
    BY <1>2 DEF BeginRun, AskToWrite, CancelQueued, CancelAcquire, TakeToken, TryLockFile,
                NotAcquired, ownerVars, LeaseTypes
  <2>3. run'[r] # "out" /\ \A s \in Runs : run[s] # "out" => run'[s] # "out"
    BY <1>2 DEF BeginRun, AskToWrite, CancelQueued, CancelAcquire, TakeToken, TryLockFile,
                NotAcquired, Woken, LeaseTypes
  <2> QED
    BY <2>1, <2>2, <2>3, Kept
<1>3. CASE Look(r)
  <2>1. /\ acquired' = acquired /\ activeRuns' = activeRuns
        /\ background' = background /\ job' = job
    BY <1>3 DEF Look
  <2>2. granted' \subseteq granted \cup {r} /\ (r \in granted' \ granted => acquired[OwnerOf[r]])
    BY <1>3 DEF Look
  <2>3. run'[r] # "out" /\ \A s \in Runs : run[s] # "out" => run'[s] # "out"
    BY <1>3 DEF Look, LeaseTypes
  <2> QED
    BY <2>1, <2>2, <2>3, Kept
<1>4. CASE Acquired(r)
  <2>1. activeRuns[OwnerOf[r]] # 0
    BY <1>4, CountsSee DEF Acquired
  <2>2. /\ acquired' = [acquired EXCEPT ![OwnerOf[r]] = TRUE] /\ granted' = granted \cup {r}
        /\ activeRuns' = activeRuns /\ background' = background /\ job' = job
    BY <1>4, <2>1 DEF Acquired
  <2>3. run'[r] # "out" /\ \A s \in Runs : run[s] # "out" => run'[s] # "out"
    BY <1>4 DEF Acquired, Woken
  <2>4. /\ \A q \in Owners : acquired[q] => acquired'[q]
        /\ \A q \in Owners : acquired'[q] /\ ~acquired[q] => q = OwnerOf[r]
        /\ acquired'[OwnerOf[r]]
    BY <2>2 DEF LeaseTypes
  <2> QED
    BY <2>2, <2>3, <2>4, Kept
<1> QED
  BY <1>1, <1>2, <1>3, <1>4 DEF RunStep, AcquireStep

LEMMA JobLease ==
  ASSUME LeaseInv, HoldInv', NEW j \in Jobs,
         JobDone(j) \/ JobReleased(j) \/ \E r \in Runs : StartJob(r, j)
  PROVE  GrantsHold' /\ LeaseCounted'
<1> USE JobsBelong DEF LeaseInv, HoldInv, LeaseCountInv
<1>1. CASE JobReleased(j)
  <2>1. \A q \in Owners \ {OwnerOf[j]} : activeRuns'[q] = activeRuns[q] /\ background'[q] = background[q]
    BY <1>1 DEF JobReleased, LeaseTypes
  <2>2. \A i \in Jobs : i \in granted' => job'[i] = "retained"
    BY <1>1 DEF JobReleased, GrantsHold, LeaseTypes
  <2>3. \A r \in Runs : r \in granted' => run'[r] # "out"
    BY <1>1 DEF JobReleased, GrantsHold
  <2> QED
    BY <1>1, <2>1, <2>2, <2>3, GivenBackLease DEF JobReleased
<1>2. CASE JobDone(j)
  BY <1>2, LeaseAssumption DEF JobDone, GrantsHold, LeaseCounted, LeaseTypes, ownerVars
<1>3. ASSUME NEW r \in Runs, StartJob(r, j) PROVE GrantsHold' /\ LeaseCounted'
  <2>1. acquired' = acquired /\ run' = run /\ activeRuns' = activeRuns
    BY <1>3 DEF StartJob
  <2>2. \A q \in Owners : background[q] # 0 => background'[q] # 0
    BY <1>3 DEF StartJob, LeaseTypes
  <2>3. LeaseCounted'
    BY <2>1, <2>2 DEF LeaseCounted
  <2>4. r \in granted => acquired[OwnerOf[j]]
    BY <1>3 DEF StartJob, GrantsHold
  <2>5. \A x \in granted' : acquired'[OwnerOf[x]]
    BY <1>3, <2>1, <2>4 DEF StartJob, GrantsHold
  <2>6. \A s \in Runs : s \in granted' => run'[s] # "out"
    BY <1>3, <2>1, LeaseAssumption DEF StartJob, GrantsHold
  <2>7. \A i \in Jobs : i \in granted' => job'[i] = "retained"
    BY <1>3, <2>4 DEF StartJob, GrantsHold, LeaseTypes
  <2> QED
    BY <2>3, <2>5, <2>6, <2>7 DEF GrantsHold
<1> QED
  BY <1>1, <1>2, <1>3

LEMMA CrashLease ==
  ASSUME LeaseInv, NEW p \in Processes, Crash(p)
  PROVE  GrantsHold' /\ LeaseCounted'
<1> USE RunsBelong, JobsBelong DEF LeaseInv, HoldInv, LeaseCountInv
<1>1. ASSUME NEW x \in granted' PROVE acquired'[OwnerOf[x]]
  <2>1. x \in granted /\ ProcessOf[OwnerOf[x]] # p
    BY <1>1 DEF Crash
  <2>2. OwnerOf[x] \in Owners
    BY <2>1 DEF LeaseTypes, Parties
  <2> QED
    BY <2>1, <2>2 DEF Crash, GrantsHold
<1>2. \A r \in Runs : r \in granted' => run'[r] # "out"
  BY DEF Crash, GrantsHold
<1>3. \A j \in Jobs : j \in granted' => job'[j] = "retained"
  BY DEF Crash, GrantsHold
<1>4. LeaseCounted'
  BY DEF Crash, LeaseCounted
<1> QED
  BY <1>1, <1>2, <1>3, <1>4 DEF GrantsHold

LEMMA LeaseStep == LeaseInv /\ [LeaseNext]_leaseVars => LeaseInv'
<1> SUFFICES ASSUME LeaseInv, [LeaseNext]_leaseVars PROVE LeaseInv'
  OBVIOUS
<1>1. HoldInv'
  BY HoldStep DEF LeaseInv
<1>2. ASSUME NEW o \in Owners, ReleaseFile(o) \/ ReleaseLocal(o) PROVE GrantsHold' /\ LeaseCounted'
  BY <1>2 DEF ReleaseFile, ReleaseLocal, LeaseInv, GrantsHold, LeaseCounted
<1>3. ASSUME UNCHANGED leaseVars PROVE GrantsHold' /\ LeaseCounted'
  <2>1. UNCHANGED << activeRuns, background, acquired, run, job, granted >>
    BY <1>3 DEF leaseVars, ownerVars
  <2> QED
    BY <2>1 DEF LeaseInv, GrantsHold, LeaseCounted
<1>4. GrantsHold' /\ LeaseCounted'
  BY <1>1, <1>2, <1>3, RunLease, JobLease, CrashLease DEF LeaseNext, RunStep
<1> QED
  BY <1>1, <1>4 DEF LeaseInv

LEMMA LeaseAlways == LeaseSpec => []LeaseInv
  BY InitLease, LeaseStep, PTL DEF LeaseSpec

-----------------------------------------------------------------------------
(* The theorems. *)

\* The counts never exceed the runs and jobs there are, and the rest has its type.
THEOREM LeaseTypeCorrect == LeaseSpec => []LeaseTypeOK
<1>1. ASSUME LeaseInv PROVE LeaseTypeOK
  <2> USE <1>1 DEF LeaseInv, HoldInv, LeaseCountInv
  <2>1. ASSUME NEW o \in Owners PROVE activeRuns[o] \in 0..Cardinality(Runs)
    <3>1. /\ Cardinality(RunsIn(o)) <= Cardinality(Runs)
          /\ Cardinality(Runs) \in Nat
      BY FS_Subset, FS_CardinalityType, LeaseAssumption DEF RunsIn, RunsOf
    <3> QED
      BY <3>1 DEF RunsCounted, LeaseTypes
  <2>2. ASSUME NEW o \in Owners PROVE background[o] \in 0..Cardinality(Jobs)
    <3>1. /\ Cardinality(Held(o)) <= Cardinality(Jobs)
          /\ Cardinality(Jobs) \in Nat
      BY FS_Subset, FS_CardinalityType, LeaseAssumption DEF Held, JobsOf
    <3> QED
      BY <3>1 DEF JobsCounted, LeaseTypes
  <2> QED
    BY <2>1, <2>2 DEF LeaseTypes, LeaseTypeOK
<1> QED
  BY <1>1, LeaseAlways, PTL

\* As long as a run or a job that may write is there, its session has the lease:
\* neither the end of another run nor of a job gives it away.
THEOREM LeaseStays == LeaseSpec => []LeaseIsKept
<1>1. ASSUME LeaseInv PROVE LeaseIsKept
  <2> SUFFICES ASSUME NEW x \in granted
               PROVE  acquired[OwnerOf[x]] /\ lockFile = {OwnerOf[x]}
    BY DEF LeaseIsKept
  <2>1. OwnerOf[x] \in Owners
    BY <1>1, RunsBelong, JobsBelong DEF LeaseInv, HoldInv, LeaseCountInv, LeaseTypes, Parties
  <2>2. acquired[OwnerOf[x]]
    BY <1>1 DEF LeaseInv, GrantsHold
  <2> QED
    BY <1>1, <2>1, <2>2 DEF LeaseInv, HoldInv, LockIsOne, HasLock
<1> QED
  BY <1>1, LeaseAlways, PTL

\* Two parties that may write at the same time are of one session, whatever the
\* processes they run in.
THEOREM OneWriterAtATime == LeaseSpec => []OneWriter
<1>1. LeaseIsKept /\ LeaseTypes => OneWriter
  <2> SUFFICES ASSUME LeaseIsKept, NEW x \in granted, NEW y \in granted
               PROVE  OwnerOf[x] = OwnerOf[y]
    BY DEF OneWriter
  <2>1. {OwnerOf[x]} = {OwnerOf[y]}
    BY DEF LeaseIsKept
  <2> QED
    BY <2>1
<1>2. LeaseInv => LeaseTypes
  BY DEF LeaseInv, HoldInv, LeaseCountInv
<1> QED
  BY <1>1, <1>2, LeaseAlways, LeaseStays, PTL

\* A session that has the lease has a run under way or a job that is retained: the
\* last of them to end gives it back.
THEOREM LeaseGoesBack == LeaseSpec => []LeaseIsNeeded
<1>1. ASSUME LeaseInv PROVE LeaseIsNeeded
  <2> USE <1>1 DEF LeaseInv, HoldInv, LeaseCountInv
  <2> SUFFICES ASSUME NEW o \in Owners, acquired[o]
               PROVE  \/ \E r \in RunsOf(o) : run[r] # "out"
                      \/ \E j \in JobsOf(o) : job[j] \in {"retained", "closing"}
    BY DEF LeaseIsNeeded
  <2>1. CASE activeRuns[o] # 0
    <3>1. RunsIn(o) # {}
      BY <2>1, FS_EmptySet DEF RunsCounted
    <3> QED
      BY <3>1 DEF RunsIn
  <2>2. CASE background[o] # 0
    <3>1. Held(o) # {}
      BY <2>2, FS_EmptySet DEF JobsCounted
    <3> QED
      BY <3>1 DEF Held
  <2> QED
    BY <2>1, <2>2 DEF LeaseCounted
<1> QED
  BY <1>1, LeaseAlways, PTL

\* The release function finds the channel empty and the lock its own.
THEOREM ReleasesSafely == LeaseSpec => []ReleaseIsSafe
<1>1. LeaseInv => ReleaseIsSafe
  BY DEF LeaseInv, HoldInv, TokenIsOne, LockIsOne, HasToken, HasLock, ReleaseIsSafe
<1> QED
  BY <1>1, LeaseAlways, PTL

\* A session has the lease while a run or a job of it may write, gives it back
\* when the last of them ends, and the release never blocks.
THEOREM LeaseIsExactly == LeaseSpec => []LeaseIsExact
<1>1. LeaseIsKept /\ LeaseIsNeeded /\ ReleaseIsSafe => LeaseIsExact
  BY DEF LeaseIsExact
<1> QED
  BY <1>1, LeaseStays, LeaseGoesBack, ReleasesSafely, PTL
=============================================================================
