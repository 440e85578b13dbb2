--------------------------- MODULE ControllerProofs ---------------------------
(***************************************************************************)
(* For any number of turns, prompts, steers, rotations and stops, and any  *)
(* number of runs in a turn: turns are orderly and begin in order, steers  *)
(* are taken by their run, and no prompt is left without a way out.        *)
(*                                                                         *)
(* Layers: types; the gates of admission; the parked inputs; whom a stop   *)
(* is aimed at; guidance; prompts.  Each is inductive given those before.  *)
(***************************************************************************)
EXTENDS Controller, FiniteSetTheorems, SequenceTheorems, TLAPS

-----------------------------------------------------------------------------
(* The invariant. *)

TurnTypes ==
    /\ {closed, running, finishing, canceling, rotating, failed, reported} \subseteq BOOLEAN
    /\ cancel \in Turns \cup {None} /\ parked \in Seq(Sends)
    /\ at \in [Turns -> {"new", "parked", "dropped", "delivering", "done"} \cup Live]
    /\ runs \in [Turns -> 0 .. MaxRuns]
    /\ rot \in [Rotators -> {"idle", "swap"}]
    /\ stop \in [Stoppers -> {"idle", "read", "clear", "signal", "done"}]
    /\ target \in [Stoppers -> Turns \cup {None}]

SteerTypes ==
    /\ steerActive \in BOOLEAN
    /\ steerQueue \in Seq(Steers) /\ steer \in [Steers -> {"new", "queued", "settled"}]

PromptTypes ==
    /\ yolo \in BOOLEAN /\ promptMu \in Prompts \cup {None}
    /\ asked \in [Prompts -> {"idle", "queued", "waiting", "over"}]
    /\ asker \in [Prompts -> Turns \cup {None}]
    /\ pending \subseteq Prompts /\ stray \subseteq Prompts
    /\ taken \in [Prompts -> {"no", "skip", "allow", "deny"}]
    /\ reply \in [Prompts -> {"none", "allow", "deny"}]

\* A turn that runs, or whose end is being told.
Busy(t) == at[t] \in Live \cup {"delivering"}

\* The flags say who is busy: at most one turn, and no rotation beside it.
Gates ==
    /\ \A t \in Turns : at[t] \in Live <=> cancel = t
    /\ running <=> cancel # None
    /\ \A t, u \in Turns : Busy(t) /\ Busy(u) => t = u
    /\ \A t \in Turns : at[t] = "delivering" /\ ~closed => finishing
    /\ finishing => ~running /\ ~closed
    /\ rotating => ~running /\ ~finishing
    /\ \A x \in Rotators : rot[x] = "swap" => rotating
    /\ \A x, y \in Rotators : rot[x] = "swap" /\ rot[y] = "swap" => x = y

\* The parked inputs wait, each once, for a turn or the telling of its end.
Parking ==
    /\ \A i \in 1 .. Len(parked) : at[parked[i]] = "parked"
    /\ \A i, j \in 1 .. Len(parked) : parked[i] = parked[j] => i = j
    /\ closed => parked = <<>>
    /\ parked # <<>> => running \/ finishing
    /\ \A t \in Syncs : at[t] \in Live => parked = <<>>

\* A stop is aimed at a turn that has begun, once; canceling says so of the
\* turn that runs and reported of the one whose end is told.
Aim ==
    /\ ctxDone \subseteq Turns
    /\ \A c \in Stoppers : stop[c] \in {"idle", "read"} => target[c] = None
    /\ \A c \in Stoppers : stop[c] \in {"clear", "signal"} => target[c] # None
    /\ \A c \in Stoppers : target[c] # None => Busy(target[c]) \/ at[target[c]] = "done"
    /\ canceling <=> running /\ \E c \in Stoppers : target[c] = cancel
    /\ CancelIsReported

InAgent(t) == at[t] \in {"agent", "leaving"}

\* The intake is open only in a run, and what it accepted is aimed at that run.
Guidance ==
    /\ \A t \in Turns : InAgent(t) => runs[t] > 0
    /\ steerActive => \E t \in Turns : InAgent(t)
    /\ aimed \in [Steers -> (Turns \X (1 .. MaxRuns)) \cup {None}]
    /\ SteersHaveTheirRun
    /\ \A t \in Turns : at[t] = "leaving" /\ ~failed => steerQueue = <<>> /\ ~steerActive

\* A prompt that is not over belongs to a turn in its body or its agent.
Asking ==
    /\ promptMu # None => asked[promptMu] = "waiting"
    /\ \A p \in Prompts : asked[p] \in {"queued", "waiting"} =>
         asker[p] \in Turns /\ at[asker[p]] \in {"body", "agent"}
    /\ PromptsUnblock

-----------------------------------------------------------------------------
(* The steps, and what they leave alone. *)

TurnMoves(t) ==
    \/ Submit(t) \/ RunTurn(t) \/ BeginRun(t) \/ FinalAnswer(t) \/ Abort(t) \/ EndRun(t)
    \/ FinishTurn(t) \/ Delivered(t) \/ EndSync(t)

PromptMoves(p) ==
    \/ \E t \in Turns : Request(p, t)
    \/ Register(p) \/ Receive(p) \/ SeeCancelled(p) \/ TimeOut(p)
    \/ Answer(p) \/ Signal(p) \/ DismissLate(p)

StopMoves(c) == Cancel(c) \/ ClearAll(c) \/ CallCancel(c)

LEMMA Steps ==
  ASSUME [Next]_vars
  PROVE  \/ \E t \in Turns : TurnMoves(t) \/ ConsumeSteer(t)
         \/ \E x \in Rotators : BeginRotation(x) \/ EndRotation(x)
         \/ \E s \in Steers : Steer(s)
         \/ \E p \in Prompts : PromptMoves(p) \/ \E c \in Stops : Dismiss(p, c)
         \/ SetMode
         \/ Close
         \/ \E c \in Stoppers : StopMoves(c)
         \/ UNCHANGED vars
  BY DEF Next, TurnMoves, TurnStep, PromptMoves, PromptStep, AnswerStep, StopMoves, StopStep

LEMMA PromptMovesLeave ==
  ASSUME NEW p, PromptMoves(p)
  PROVE  UNCHANGED <<turnVars, steerVars, stopVars>>
  BY DEF PromptMoves, Request, Register, Receive, SeeCancelled, TimeOut, GiveUp,
         Answer, Signal, DismissLate, SendReply

LEMMA TurnMovesLeave ==
  ASSUME NEW t, TurnMoves(t)
  PROVE  UNCHANGED <<promptVars, stopVars, rot, rotating, closed>>
  BY DEF TurnMoves, Submit, RunTurn, BeginRun, FinalAnswer, Abort, EndRun, FinishTurn,
         Delivered, EndSync

-----------------------------------------------------------------------------
(* Types. *)

LEMMA InitTypes == Init => TurnTypes /\ SteerTypes /\ PromptTypes
<1> SUFFICES ASSUME Init PROVE TurnTypes /\ SteerTypes /\ PromptTypes
  OBVIOUS
<1>1. parked \in Seq(Sends) /\ steerQueue \in Seq(Steers)
  BY DEF Init
<1>2. runs \in [Turns -> 0 .. MaxRuns]
  BY ConstantsAssumption DEF Init
<1>3. TurnTypes
  BY <1>1, <1>2 DEF Init, TurnTypes
<1>4. SteerTypes
  BY <1>1 DEF Init, SteerTypes
<1>5. PromptTypes
  BY DEF Init, PromptTypes
<1> QED
  BY <1>3, <1>4, <1>5

LEMMA TurnTypesInductive == ASSUME TurnTypes, [Next]_vars PROVE TurnTypes'
<1> USE ConstantsAssumption DEF TurnTypes, Turns, Stoppers, Live
<1>1. ASSUME UNCHANGED <<turnVars, stopVars>> PROVE TurnTypes'
  BY <1>1 DEF turnVars, stopVars
<1>2. ASSUME NEW t \in Turns, TurnMoves(t) PROVE TurnTypes'
  <2> USE DEF stopVars
  <2>1. CASE Submit(t)
    <3>1. t \in Sends /\ Append(parked, t) \in Seq(Sends)
      BY <2>1, AppendProperties DEF Submit
    <3> QED
      BY <2>1, <3>1 DEF Submit, Claim
  <2>2. CASE RunTurn(t)
    BY <2>2 DEF RunTurn, Claim
  <2>3. CASE BeginRun(t)
    BY <2>3 DEF BeginRun
  <2>4. CASE FinalAnswer(t) \/ Abort(t)
    BY <2>4 DEF FinalAnswer, Abort
  <2>5. CASE EndRun(t)
    BY <2>5 DEF EndRun
  <2>6. CASE FinishTurn(t)
    BY <2>6 DEF FinishTurn, WasCancelled
  <2>7. CASE Delivered(t)
    <3>1. parked # <<>> => Head(parked) \in Sends /\ Tail(parked) \in Seq(Sends)
      BY HeadTailProperties
    <3> QED
      BY <2>7, <3>1 DEF Delivered, StartParked
  <2>8. CASE EndSync(t)
    BY <2>8 DEF EndSync
  <2> QED
    BY <1>2, <2>1, <2>2, <2>3, <2>4, <2>5, <2>6, <2>7, <2>8 DEF TurnMoves
<1>3. ASSUME NEW x \in Rotators, BeginRotation(x) \/ EndRotation(x) PROVE TurnTypes'
  BY <1>3 DEF BeginRotation, EndRotation, stopVars
<1>4. CASE Close
  <2>1. at' \in [Turns -> {"new", "parked", "dropped", "delivering", "done"} \cup Live]
    BY <1>4 DEF Close
  <2>2. parked' \in Seq(Sends)
    BY <1>4 DEF Close
  <2>3. target' \in [Stoppers -> Turns \cup {None}]
    BY <1>4 DEF Close
  <2>4. stop' \in [Stoppers -> {"idle", "read", "clear", "signal", "done"}]
    BY <1>4 DEF Close
  <2> HIDE DEF Turns, Stoppers, Live
  <2> QED
    BY <1>4, <2>1, <2>2, <2>3, <2>4 DEF Close
<1>5. ASSUME NEW c \in Stoppers, StopMoves(c) PROVE TurnTypes'
  <2> HIDE DEF Turns, Stoppers, Live
  <2>1. CASE Cancel(c)
    BY <2>1 DEF Cancel
  <2>2. CASE ClearAll(c)
    BY <2>2 DEF ClearAll, turnVars
  <2>3. CASE CallCancel(c)
    BY <2>3 DEF CallCancel
  <2> QED
    BY <1>5, <2>1, <2>2, <2>3 DEF StopMoves
<1>6. ASSUME NEW p \in Prompts, NEW c \in Stops, Dismiss(p, c) PROVE TurnTypes'
  BY <1>6 DEF Dismiss, turnVars
<1> QED
  BY <1>1, <1>2, <1>3, <1>4, <1>5, <1>6, Steps, PromptMovesLeave
     DEF ConsumeSteer, Steer, SetMode, stopVars, vars

LEMMA SteerTypesInductive == ASSUME SteerTypes, [Next]_vars PROVE SteerTypes'
<1> USE DEF SteerTypes
<1>1. ASSUME UNCHANGED steerVars PROVE SteerTypes'
  BY <1>1 DEF steerVars
<1>2. ASSUME NEW t \in Turns, TurnMoves(t) PROVE SteerTypes'
  <2>1. CASE EndRun(t)
    <3>1. steerQueue' \in Seq(Steers)
      BY <2>1 DEF EndRun, Flush
    <3> QED
      BY <2>1, <3>1 DEF EndRun, Flush
  <2>2. CASE BeginRun(t) \/ FinalAnswer(t)
    BY <2>2 DEF BeginRun, FinalAnswer
  <2> QED
    BY <1>1, <1>2, <2>1, <2>2 DEF TurnMoves, Submit, RunTurn, Abort, FinishTurn, Delivered, EndSync
<1>3. ASSUME NEW t \in Turns, ConsumeSteer(t) PROVE SteerTypes'
  BY <1>3, HeadTailProperties DEF ConsumeSteer
<1>4. ASSUME NEW s \in Steers, Steer(s) PROVE SteerTypes'
  <2>1. Append(steerQueue, s) \in Seq(Steers)
    BY AppendProperties
  <2> QED
    BY <1>4, <2>1 DEF Steer
<1> QED
  BY <1>1, <1>2, <1>3, <1>4, Steps, PromptMovesLeave
     DEF BeginRotation, EndRotation, Dismiss, SetMode, Close, StopMoves, Cancel, ClearAll,
         CallCancel, vars

LEMMA PromptTypesInductive == ASSUME PromptTypes, [Next]_vars PROVE PromptTypes'
<1> USE DEF PromptTypes
<1>1. ASSUME UNCHANGED promptVars PROVE PromptTypes'
  BY <1>1 DEF promptVars
<1>2. ASSUME NEW p \in Prompts, PromptMoves(p) PROVE PromptTypes'
  <2>1. CASE \E t \in Turns : Request(p, t)
    BY <2>1 DEF Request
  <2>2. CASE Register(p)
    BY <2>2 DEF Register, Over
  <2>3. CASE Receive(p)
    BY <2>3 DEF Receive, Over
  <2>4. CASE SeeCancelled(p) \/ TimeOut(p)
    BY <2>4 DEF SeeCancelled, TimeOut, GiveUp, Over
  <2>5. CASE Answer(p)
    BY <2>5 DEF Answer
  <2>6. CASE Signal(p) \/ DismissLate(p)
    BY <2>6 DEF Signal, DismissLate, SendReply
  <2> QED
    BY <1>2, <2>1, <2>2, <2>3, <2>4, <2>5, <2>6 DEF PromptMoves
<1>3. ASSUME NEW p \in Prompts, NEW c \in Stops, Dismiss(p, c) PROVE PromptTypes'
  BY <1>3 DEF Dismiss
<1>4. CASE SetMode
  BY <1>4 DEF SetMode, Drain
<1>5. ASSUME NEW c \in Stoppers, ClearAll(c) PROVE PromptTypes'
  BY <1>5 DEF ClearAll
<1> QED
  BY <1>1, <1>2, <1>3, <1>4, <1>5, Steps, TurnMovesLeave
     DEF ConsumeSteer, BeginRotation, EndRotation, Steer, Close, StopMoves, Cancel,
         CallCancel, vars

-----------------------------------------------------------------------------
(* Admission. *)

LEMMA ParkedHead ==
  ASSUME TurnTypes, Parking, parked # <<>>
  PROVE  /\ Head(parked) \in Sends /\ at[Head(parked)] = "parked"
         /\ Len(parked) > 0 /\ Head(parked) = parked[1]
         /\ Len(Tail(parked)) = Len(parked) - 1
         /\ \A i \in 1 .. Len(Tail(parked)) : Tail(parked)[i] = parked[i + 1]
<1>1. parked \in Seq(Sends)
  BY DEF TurnTypes
<1> QED
  BY <1>1, HeadTailProperties DEF Parking

LEMMA InitGates == Init => Gates /\ Parking
  BY ConstantsAssumption DEF Init, Gates, Parking, Busy, Turns, Live

LEMMA GatesInductive == ASSUME TurnTypes, Gates, Parking, [Next]_vars PROVE Gates'
<1>types. /\ None \notin Turns /\ cancel \in Turns \cup {None}
      /\ at \in [Turns -> {"new", "parked", "dropped", "delivering", "done"} \cup Live]
      /\ rot \in [Rotators -> {"idle", "swap"}]
      /\ {closed, running, finishing, rotating} \subseteq BOOLEAN
  BY ConstantsAssumption DEF TurnTypes, Turns
<1> USE <1>types DEF Gates, Busy, Live
<1>1. ASSUME UNCHANGED turnVars PROVE Gates'
  BY <1>1 DEF turnVars
<1>2. ASSUME NEW t \in Turns, TurnMoves(t) PROVE Gates'
  <2>1. CASE Submit(t)
    BY <2>1 DEF Submit, Claim, Refused
  <2>2. CASE RunTurn(t)
    BY <2>2 DEF RunTurn, Claim, SyncRefused
  <2>3. CASE BeginRun(t)
    BY <2>3 DEF BeginRun
  <2>4. CASE FinalAnswer(t) \/ Abort(t) \/ EndRun(t)
    <3>1. at[t] \in Live /\ at'[t] \in Live /\ \A u \in Turns \ {t} : at'[u] = at[u]
      BY <2>4 DEF FinalAnswer, Abort, EndRun
    <3>2. UNCHANGED <<closed, running, finishing, canceling, rotating, cancel, rot>>
      BY <2>4 DEF FinalAnswer, Abort, EndRun
    <3> QED
      BY <3>1, <3>2
  <2>5. CASE FinishTurn(t)
    <3>1. at[t] \in Live /\ at'[t] = "delivering" /\ \A u \in Turns \ {t} : at'[u] = at[u]
      BY <2>5 DEF FinishTurn
    <3>2. running' = FALSE /\ cancel' = None /\ finishing' = ~closed
          /\ UNCHANGED <<closed, rotating, rot>>
      BY <2>5 DEF FinishTurn
    <3> QED
      BY <3>1, <3>2
  <2>6. CASE Delivered(t)
    <3>1. at[t] = "delivering" /\ finishing' = FALSE /\ UNCHANGED <<closed, rotating, rot>>
      BY <2>6 DEF Delivered
    <3>2. CASE StartParked
      <4>1. parked # <<>> /\ ~closed /\ Head(parked) \in Turns /\ at[Head(parked)] = "parked"
        BY <3>2, ParkedHead DEF StartParked, Turns
      <4>2. at'[t] = "done" /\ at'[Head(parked)] = "body"
            /\ \A u \in Turns \ {t, Head(parked)} : at'[u] = at[u]
        BY <2>6, <3>2, <4>1 DEF Delivered
      <4>3. running' = TRUE /\ cancel' = Head(parked)
        BY <2>6, <3>2 DEF Delivered
      <4> QED
        BY <3>1, <4>1, <4>2, <4>3
    <3>3. CASE ~StartParked
      <4>1. at'[t] = "done" /\ \A u \in Turns \ {t} : at'[u] = at[u]
        BY <2>6, <3>3 DEF Delivered
      <4>2. UNCHANGED <<running, cancel>>
        BY <2>6, <3>3 DEF Delivered
      <4> QED
        BY <3>1, <4>1, <4>2
    <3> QED
      BY <3>2, <3>3
  <2>7. CASE EndSync(t)
    BY <2>7 DEF EndSync
  <2> QED
    BY <1>2, <2>1, <2>2, <2>3, <2>4, <2>5, <2>6, <2>7 DEF TurnMoves
<1>3. ASSUME NEW x \in Rotators, BeginRotation(x) \/ EndRotation(x) PROVE Gates'
  BY <1>3 DEF BeginRotation, EndRotation, RotationAdmitted
<1>4. CASE Close
  BY <1>4 DEF Close
<1>5. ASSUME NEW c \in Stoppers, StopMoves(c) PROVE Gates'
  BY <1>5, <1>1 DEF StopMoves, Cancel, ClearAll, CallCancel
<1> QED
  BY <1>1, <1>2, <1>3, <1>4, <1>5, Steps, PromptMovesLeave
     DEF ConsumeSteer, Steer, Dismiss, SetMode, vars

LEMMA ParkingInductive == ASSUME TurnTypes, Gates, Parking, [Next]_vars PROVE Parking'
<1>types. /\ Turns = Sends \cup Syncs /\ Sends \cap Syncs = {} /\ parked \in Seq(Sends)
      /\ at \in [Turns -> {"new", "parked", "dropped", "delivering", "done"} \cup Live]
      /\ {closed, running, finishing} \subseteq BOOLEAN
  BY ConstantsAssumption DEF TurnTypes, Turns
<1>live. \A u \in Turns : at[u] \in Live => running /\ at[u] # "delivering"
  BY ConstantsAssumption DEF Gates, Turns, Live
<1>entries. Len(parked) \in Nat /\ \A i \in 1 .. Len(parked) : parked[i] \in Sends
  BY <1>types
<1> USE <1>types, <1>live, <1>entries DEF Parking, Live
<1>1. ASSUME UNCHANGED turnVars PROVE Parking'
  BY <1>1 DEF turnVars
<1>2. ASSUME NEW t \in Turns, TurnMoves(t) PROVE Parking'
  <2> DEFINE Holds == UNCHANGED <<parked, closed>>
                     /\ \A u \in Turns \ {t} : at'[u] = at[u]
  <2>0. ASSUME Holds, at[t] # "parked", parked # <<>> => running' \/ finishing',
               t \in Sends \/ at[t] \in Live \/ at'[t] \notin Live \/ parked = <<>>
        PROVE  Parking'
    BY <2>0
  <2>1. CASE Submit(t)
    <3>1. t \in Sends /\ at[t] = "new" /\ UNCHANGED <<closed, finishing>>
      BY <2>1 DEF Submit
    <3>2. CASE ~Refused /\ finishing
      <4>1. parked' = Append(parked, t) /\ UNCHANGED running
        BY <2>1, <3>2 DEF Submit
      <4>2. at'[t] = "parked" /\ \A u \in Turns \ {t} : at'[u] = at[u]
        BY <2>1, <3>2 DEF Submit
      <4>3. /\ Len(parked') = Len(parked) + 1 /\ parked'[Len(parked) + 1] = t
            /\ \A i \in 1 .. Len(parked) : parked'[i] = parked[i] /\ parked[i] # t
        BY <3>1, <4>1, AppendProperties
      <4>4. Len(parked) \in Nat /\ \A i \in 1 .. Len(parked) : parked[i] \in Turns
        OBVIOUS
      <4>5. \A i \in 1 .. Len(parked') : i \in 1 .. Len(parked) \/ i = Len(parked) + 1
        BY <4>3, <4>4
      <4>6. \A u \in Syncs : at'[u] \notin Live
        BY <3>1, <3>2, <4>2 DEF Gates
      <4> QED
        BY <3>1, <3>2, <4>1, <4>2, <4>3, <4>4, <4>5, <4>6 DEF Refused
    <3>3. CASE Refused \/ ~finishing
      <4>1. Holds
        BY <2>1, <3>3 DEF Submit, Claim
      <4>2. running => running'
        BY <2>1, <3>3 DEF Submit, Claim
      <4> QED
        BY <2>0, <3>1, <4>1, <4>2
    <3> QED
      BY <3>2, <3>3
  <2>2. CASE RunTurn(t)
    <3>1. at[t] = "new" /\ Holds /\ UNCHANGED finishing /\ (running => running')
      BY <2>2 DEF RunTurn, Claim
    <3>2. at'[t] \in Live => parked = <<>>
      BY <2>2 DEF RunTurn, SyncRefused
    <3> QED
      BY <2>0, <3>1, <3>2
  <2>3. CASE BeginRun(t) \/ FinalAnswer(t) \/ Abort(t) \/ EndRun(t)
    <3>1. Holds /\ at[t] \in Live /\ UNCHANGED <<running, finishing>>
      BY <2>3 DEF BeginRun, FinalAnswer, Abort, EndRun
    <3> QED
      BY <2>0, <3>1
  <2>4. CASE FinishTurn(t)
    <3>1. Holds /\ at[t] \in Live /\ t \in Sends /\ finishing' = ~closed
      BY <2>4 DEF FinishTurn
    <3> QED
      BY <2>0, <3>1
  <2>5. CASE Delivered(t)
    <3>1. at[t] = "delivering" /\ UNCHANGED closed
      BY <2>5 DEF Delivered
    <3>2. CASE StartParked
      <4>1. parked # <<>> /\ parked' = Tail(parked) /\ running' = TRUE
        BY <2>5, <3>2 DEF Delivered, StartParked
      <4>2. Head(parked) \in Sends /\ at[Head(parked)] = "parked"
        BY <4>1, ParkedHead
      <4>3. \A u \in Turns \ {t, Head(parked)} : at'[u] = at[u]
        BY <2>5, <3>2 DEF Delivered
      <4>4. at'[t] = "done"
        BY <2>5, <3>1, <3>2, <4>2 DEF Delivered
      <4>5. \A i \in 1 .. Len(parked') : /\ i + 1 \in 1 .. Len(parked) /\ parked'[i] = parked[i + 1]
                                        /\ parked'[i] # Head(parked) /\ parked'[i] # t
        BY <3>1, <4>1, ParkedHead
      <4>6. \A u \in Syncs : at'[u] \notin Live
        BY <3>1, <4>2, <4>3, <4>4 DEF Gates, Busy
      <4>7. \A i \in 1 .. Len(parked') : at'[parked'[i]] = "parked"
        BY <4>3, <4>5
      <4>8. \A i, j \in 1 .. Len(parked') : parked'[i] = parked'[j] => i = j
        BY <4>5
      <4> QED
        BY <3>1, <3>2, <4>1, <4>6, <4>7, <4>8 DEF StartParked
    <3>3. CASE ~StartParked
      <4>1. parked = <<>>
        BY <3>3 DEF StartParked
      <4>2. parked' = <<>>
        BY <2>5, <3>3, <4>1 DEF Delivered
      <4> QED
        BY <4>2
    <3> QED
      BY <3>2, <3>3
  <2>6. CASE EndSync(t)
    <3>1. Holds /\ at[t] \in Live /\ parked = <<>>
      BY <2>6 DEF EndSync
    <3> QED
      BY <2>0, <3>1
  <2> QED
    BY <1>2, <2>1, <2>2, <2>3, <2>4, <2>5, <2>6 DEF TurnMoves
<1>3. ASSUME NEW x \in Rotators, BeginRotation(x) \/ EndRotation(x) PROVE Parking'
  BY <1>3 DEF BeginRotation, EndRotation
<1>4. CASE Close
  BY <1>4 DEF Close
<1>5. ASSUME NEW c \in Stoppers, StopMoves(c) PROVE Parking'
  BY <1>5, <1>1 DEF StopMoves, Cancel, ClearAll, CallCancel
<1> QED
  BY <1>1, <1>2, <1>3, <1>4, <1>5, Steps, PromptMovesLeave
     DEF ConsumeSteer, Steer, Dismiss, SetMode, vars

-----------------------------------------------------------------------------
(* Whom the stops are aimed at. *)

LEMMA InitAim == Init => Aim
  BY ConstantsAssumption DEF Init, Aim, CancelIsReported, Turns

\* A turn that has begun goes on to its end.
LEMMA BegunGoOn ==
  ASSUME TurnTypes, Gates, Parking, NEW t \in Turns, TurnMoves(t), NEW u \in Turns,
         Busy(u) \/ at[u] = "done"
  PROVE  at'[u] \in Live \cup {"delivering", "done"}
<1> USE DEF Busy, Live
<1>1. at \in [Turns -> {"new", "parked", "dropped", "delivering", "done"} \cup Live]
  BY DEF TurnTypes
<1>2. CASE Submit(t) \/ RunTurn(t)
  BY <1>1, <1>2 DEF Submit, RunTurn, Claim
<1>3. CASE BeginRun(t) \/ FinalAnswer(t) \/ Abort(t) \/ EndRun(t)
  BY <1>1, <1>3 DEF BeginRun, FinalAnswer, Abort, EndRun
<1>4. CASE FinishTurn(t) \/ EndSync(t)
  BY <1>1, <1>4 DEF FinishTurn, EndSync
<1>5. CASE Delivered(t)
  <2>1. parked # <<>> => Head(parked) \in Turns
    BY ParkedHead DEF Turns
  <2> QED
    BY <1>1, <1>5, <2>1 DEF Delivered, StartParked
<1> QED
  BY <1>2, <1>3, <1>4, <1>5 DEF TurnMoves

LEMMA AimInductive == ASSUME TurnTypes, Gates, Parking, Aim, [Next]_vars PROVE Aim'
<1>types. /\ None \notin Turns /\ cancel \in Turns \cup {None}
          /\ at \in [Turns -> {"new", "parked", "dropped", "delivering", "done"} \cup Live]
          /\ stop \in [Stoppers -> {"idle", "read", "clear", "signal", "done"}]
          /\ target \in [Stoppers -> Turns \cup {None}]
          /\ {closed, running, canceling, reported} \subseteq BOOLEAN
  BY ConstantsAssumption DEF TurnTypes, Turns
<1>gates. /\ \A t \in Turns : at[t] \in Live <=> cancel = t
          /\ running <=> cancel # None
          /\ \A t, u \in Turns : Busy(t) /\ Busy(u) => t = u
  BY DEF Gates
<1> USE <1>types, <1>gates DEF Aim, CancelIsReported, Busy, Live
<1>1. ASSUME UNCHANGED <<turnVars, stopVars>> PROVE Aim'
  BY <1>1 DEF turnVars, stopVars
<1>2. ASSUME NEW t \in Turns, TurnMoves(t) PROVE Aim'
  <2>0. UNCHANGED <<stop, target>>
    BY <1>2, TurnMovesLeave DEF stopVars
  <2>1. \A c \in Stoppers : target[c] # None => at'[target[c]] \in Live \cup {"delivering", "done"}
    <3> TAKE c \in Stoppers
    <3> HAVE target[c] # None
    <3>1. target[c] \in Turns /\ (Busy(target[c]) \/ at[target[c]] = "done")
      OBVIOUS
    <3>2. PICK u \in Turns : u = target[c]
      BY <3>1
    <3>3. Busy(u) \/ at[u] = "done"
      BY <3>1, <3>2
    <3>4. at'[u] \in Live \cup {"delivering", "done"}
      <4> HIDE DEF Aim, Busy, Live
      <4> QED
        BY <1>2, <3>3, BegunGoOn
    <3> QED
      BY <3>2, <3>4
  <2>2. CASE Submit(t) \/ RunTurn(t)
    <3>1. at[t] = "new" /\ UNCHANGED <<ctxDone, reported>> /\ at'[t] # "delivering"
          /\ \A u \in Turns \ {t} : at'[u] = at[u]
      BY <2>2 DEF Submit, RunTurn, Claim
    <3>2. \/ UNCHANGED <<running, cancel, canceling>>
          \/ running' = TRUE /\ cancel' = t /\ canceling' = FALSE
      BY <2>2 DEF Submit, RunTurn, Claim
    <3>3. \A c \in Stoppers : target[c] # t
      BY <3>1
    <3> QED
      BY <2>0, <2>1, <3>1, <3>2, <3>3
  <2>3. CASE BeginRun(t) \/ FinalAnswer(t) \/ Abort(t) \/ EndRun(t)
    <3>1. /\ UNCHANGED <<ctxDone, reported, running, cancel, canceling>> /\ at'[t] \in Live
          /\ \A u \in Turns \ {t} : at'[u] = at[u]
      BY <2>3 DEF BeginRun, FinalAnswer, Abort, EndRun
    <3> QED
      BY <2>0, <2>1, <3>1
  <2>4. CASE FinishTurn(t)
    <3>1. /\ at[t] = "body" /\ UNCHANGED ctxDone
          /\ reported' = canceling /\ running' = FALSE /\ canceling' = FALSE
          /\ at'[t] = "delivering" /\ \A u \in Turns \ {t} : at'[u] = at[u]
      BY <2>4 DEF FinishTurn, WasCancelled
    <3>2. cancel = t /\ \A u \in Turns \ {t} : at[u] # "delivering"
      BY <3>1
    <3>3. canceling <=> \E c \in Stoppers : target[c] = t
      BY <3>2
    <3> QED
      BY <2>0, <2>1, <3>1, <3>2, <3>3
  <2>5. CASE Delivered(t)
    <3>1. at[t] = "delivering" /\ ctxDone' \subseteq ctxDone /\ at'[t] # "delivering"
      <4>1. parked # <<>> => Head(parked) \in Turns /\ at[Head(parked)] = "parked"
        BY ParkedHead DEF Turns
      <4> QED
        BY <2>5, <4>1 DEF Delivered, StartParked
    <3>2. \A u \in Turns : at'[u] # "delivering"
      BY <2>5, <3>1 DEF Delivered
    <3>3. cancel = None /\ ~canceling
      BY <3>1
    <3>4. \/ UNCHANGED <<running, cancel, canceling>>
          \/ /\ running' = TRUE /\ canceling' = FALSE
             /\ \A c \in Stoppers : target[c] # cancel'
      <4>1. CASE StartParked
        <5>1. Head(parked) \in Turns /\ at[Head(parked)] = "parked"
          BY <4>1, ParkedHead DEF StartParked, Turns
        <5> QED
          BY <2>5, <4>1, <5>1 DEF Delivered
      <4> QED
        BY <2>5, <4>1 DEF Delivered
    <3> QED
      BY <2>0, <2>1, <3>1, <3>2, <3>3, <3>4
  <2>6. CASE EndSync(t)
    <3>1. /\ ctxDone' \subseteq ctxDone /\ UNCHANGED reported
          /\ running' = FALSE /\ canceling' = FALSE
          /\ at'[t] = "done" /\ \A u \in Turns \ {t} : at'[u] = at[u]
      BY <2>6 DEF EndSync
    <3> QED
      BY <2>0, <2>1, <3>1
  <2> QED
    BY <1>2, <2>2, <2>3, <2>4, <2>5, <2>6 DEF TurnMoves
<1>3. ASSUME NEW c \in Stoppers, Cancel(c) PROVE Aim'
  BY <1>3 DEF Cancel
<1>4. CASE Close
  BY <1>4 DEF Close, Stoppers
<1>5. ASSUME NEW c \in Stoppers, ClearAll(c) \/ CallCancel(c) PROVE Aim'
  BY <1>5 DEF ClearAll, CallCancel, CancelContext, turnVars
<1>6. ASSUME NEW p \in Prompts, NEW c \in Stops, Dismiss(p, c) PROVE Aim'
  BY <1>6 DEF Dismiss, turnVars, Stoppers
<1>7. ASSUME NEW x \in Rotators, BeginRotation(x) \/ EndRotation(x) PROVE Aim'
  BY <1>7 DEF BeginRotation, EndRotation, stopVars
<1> QED
  BY <1>1, <1>2, <1>3, <1>4, <1>5, <1>6, <1>7, Steps, PromptMovesLeave
     DEF ConsumeSteer, Steer, SetMode, StopMoves, stopVars, vars

-----------------------------------------------------------------------------
(* Guidance. *)

LEMMA InitGuidance == Init => Guidance
  BY DEF Init, Guidance, SteersHaveTheirRun, InAgent, Turns

LEMMA GuidanceInductive ==
  ASSUME TurnTypes, SteerTypes, Gates, Parking, Guidance, [Next]_vars
  PROVE  Guidance'
<1>types. /\ at \in [Turns -> {"new", "parked", "dropped", "delivering", "done"} \cup Live]
          /\ runs \in [Turns -> 0 .. MaxRuns] /\ MaxRuns \in Nat
          /\ steerQueue \in Seq(Steers) /\ steer \in [Steers -> {"new", "queued", "settled"}]
          /\ {failed, steerActive} \subseteq BOOLEAN
  BY ConstantsAssumption DEF TurnTypes, SteerTypes
<1>one. \A t, u \in Turns : Busy(t) /\ Busy(u) => t = u
  BY DEF Gates
<1> USE <1>types, <1>one DEF Guidance, SteersHaveTheirRun, InAgent, ThisRun, Live, Busy
<1>1. ASSUME UNCHANGED <<runs, failed, steerVars>>,
             \A u \in Turns : at'[u] = at[u] \/ ({at[u], at'[u]} \cap {"agent", "leaving"} = {})
      PROVE  Guidance'
  BY <1>1 DEF steerVars
<1>2. ASSUME NEW t \in Turns, TurnMoves(t) PROVE Guidance'
  <2>1. CASE Submit(t) \/ RunTurn(t)
    BY <1>1, <2>1 DEF Submit, RunTurn, Claim
  <2>2. CASE BeginRun(t)
    <3>1. /\ at[t] = "body" /\ at'[t] = "agent" /\ \A u \in Turns \ {t} : at'[u] = at[u]
          /\ runs'[t] = runs[t] + 1 /\ UNCHANGED <<failed, steerQueue, steer, aimed>>
      BY <2>2 DEF BeginRun
    <3>2. \A u \in Turns : ~InAgent(u)
      BY <3>1
    <3>3. \A s \in Steers : steer[s] # "queued"
      BY <3>2
    <3>4. \A u \in Turns \ {t} : at'[u] \notin {"agent", "leaving"}
      BY <3>1, <3>2
    <3>5. runs[t] + 1 > 0
      OBVIOUS
    <3> QED
      BY <3>1, <3>3, <3>4, <3>5
  <2>3. CASE FinalAnswer(t)
    <3>1. /\ at[t] = "agent" /\ at'[t] = "leaving" /\ \A u \in Turns \ {t} : at'[u] = at[u]
          /\ steerActive' = FALSE /\ steerQueue = <<>>
          /\ UNCHANGED <<runs, failed, steerQueue, steer, aimed>>
      BY <2>3 DEF FinalAnswer, IntakeIdle
    <3> QED
      BY <3>1
  <2>4. CASE Abort(t)
    <3>1. /\ at[t] = "agent" /\ at'[t] = "leaving" /\ \A u \in Turns \ {t} : at'[u] = at[u]
          /\ failed' = TRUE /\ UNCHANGED <<runs, steerVars>>
      BY <2>4 DEF Abort
    <3> QED
      BY <3>1 DEF steerVars
  <2>5. CASE EndRun(t)
    <3>1. /\ at[t] = "leaving" /\ at'[t] = "body" /\ \A u \in Turns \ {t} : at'[u] = at[u]
          /\ steerActive' = FALSE /\ UNCHANGED runs
          /\ aimed' = [s \in Steers |-> None] /\ \A s \in Steers : steer'[s] # "queued"
      BY <2>5 DEF EndRun, Flush
    <3>2. \A u \in Turns : at'[u] \notin {"agent", "leaving"}
      BY <3>1
    <3> QED
      BY <3>1, <3>2
  <2>6. CASE FinishTurn(t)
    BY <1>1, <2>6 DEF FinishTurn
  <2>7. CASE Delivered(t)
    <3>1. parked # <<>> => Head(parked) \in Turns /\ at[Head(parked)] = "parked"
      BY ParkedHead DEF Turns
    <3> QED
      BY <1>1, <2>7, <3>1 DEF Delivered, StartParked
  <2>8. CASE EndSync(t)
    BY <1>1, <2>8 DEF EndSync
  <2> QED
    BY <1>2, <2>1, <2>2, <2>3, <2>4, <2>5, <2>6, <2>7, <2>8 DEF TurnMoves
<1>3. ASSUME NEW t \in Turns, ConsumeSteer(t) PROVE Guidance'
  <2>1. /\ steerQueue # <<>> /\ Head(steerQueue) \in Steers
        /\ UNCHANGED <<at, runs, failed, steerActive>>
    BY <1>3, HeadTailProperties DEF ConsumeSteer, turnVars
  <2>2. /\ steer'[Head(steerQueue)] = "settled"
        /\ \A s \in Steers \ {Head(steerQueue)} : steer'[s] = steer[s] /\ aimed'[s] = aimed[s]
        /\ aimed' \in [Steers -> (Turns \X (1 .. MaxRuns)) \cup {None}]
    BY <1>3, <2>1 DEF ConsumeSteer
  <2> QED
    BY <2>1, <2>2
<1>4. ASSUME NEW s \in Steers, Steer(s) PROVE Guidance'
  <2>1. UNCHANGED <<at, runs, failed, steerActive>>
    BY <1>4 DEF Steer, turnVars
  <2>2. CASE steerActive
    <3> DEFINE run == CHOOSE t \in Turns : at[t] \in {"agent", "leaving"}
    <3>1. run \in Turns /\ InAgent(run)
      BY <2>2
    <3>2. /\ aimed' = [aimed EXCEPT ![s] = ThisRun(run)]
          /\ steer' = [steer EXCEPT ![s] = "queued"]
      BY <1>4, <2>2 DEF Steer, IntakeOpen
    <3>3. ThisRun(run) \in Turns \X (1 .. MaxRuns)
      BY <3>1
    <3> HIDE DEF run
    <3>4. aimed' \in [Steers -> (Turns \X (1 .. MaxRuns)) \cup {None}]
      BY <3>2, <3>3
    <3> QED
      BY <2>1, <2>2, <3>1, <3>2, <3>4
  <2>3. CASE ~steerActive
    BY <1>4, <2>1, <2>3 DEF Steer, IntakeOpen
  <2> QED
    BY <2>2, <2>3
<1>5. CASE Close
  BY <1>1, <1>5 DEF Close
<1>6. ASSUME UNCHANGED <<at, runs, failed, steerVars>> PROVE Guidance'
  BY <1>1, <1>6
<1> QED
  BY <1>2, <1>3, <1>4, <1>5, <1>6, Steps, PromptMovesLeave
     DEF BeginRotation, EndRotation, Dismiss, SetMode, StopMoves, Cancel, ClearAll, CallCancel,
         turnVars, vars

-----------------------------------------------------------------------------
(* Prompts. *)

LEMMA InitAsking == Init => Asking
  BY DEF Init, Asking, PromptsUnblock, Blocked

LEMMA AskingInductive ==
  ASSUME TurnTypes, PromptTypes, Gates, Parking, Aim, Asking, [Next]_vars
  PROVE  Asking'
<1>types. /\ None \notin Turns /\ None \notin Prompts
          /\ at \in [Turns -> {"new", "parked", "dropped", "delivering", "done"} \cup Live]
          /\ stop \in [Stoppers -> {"idle", "read", "clear", "signal", "done"}]
          /\ target \in [Stoppers -> Turns \cup {None}]
          /\ Closer \in Stoppers /\ Stops \subseteq Stoppers
          /\ promptMu \in Prompts \cup {None} /\ pending \subseteq Prompts /\ Asks \subseteq Prompts
          /\ asked \in [Prompts -> {"idle", "queued", "waiting", "over"}]
          /\ asker \in [Prompts -> Turns \cup {None}]
          /\ taken \in [Prompts -> {"no", "skip", "allow", "deny"}]
          /\ reply \in [Prompts -> {"none", "allow", "deny"}]
  BY ConstantsAssumption DEF TurnTypes, PromptTypes, Turns, Stoppers
<1>aim. \A t \in Turns : at[t] \in Live <=> cancel = t
  BY DEF Gates
<1> USE <1>types, <1>aim DEF Asking, PromptsUnblock, Blocked, OnItsWay, Live
<1>1. ASSUME UNCHANGED <<at, ctxDone, promptVars, stopVars>> PROVE Asking'
  BY <1>1 DEF promptVars, stopVars
<1>2. ASSUME NEW t \in Turns, TurnMoves(t) PROVE Asking'
  <2>0. UNCHANGED <<promptVars, stopVars>>
    BY <1>2, TurnMovesLeave
  <2>1. ASSUME \A u \in Turns \ {t} : at[u] \in {"body", "agent"} => at'[u] = at[u],
               at[t] \notin {"body", "agent"} \/ at'[t] \in {"body", "agent"} \/ Waiting(t) = {},
               ctxDone' = ctxDone
                 \/ (ctxDone' = ctxDone \ {t} /\ (at[t] = "delivering" \/ Waiting(t) = {}))
        PROVE  Asking'
    BY <2>0, <2>1 DEF promptVars, stopVars, Waiting
  <2>2. CASE Submit(t) \/ RunTurn(t)
    BY <2>1, <2>2 DEF Submit, RunTurn, Claim
  <2>3. CASE BeginRun(t) \/ FinalAnswer(t) \/ Abort(t) \/ EndRun(t)
    BY <2>1, <2>3 DEF BeginRun, FinalAnswer, Abort, EndRun
  <2>4. CASE FinishTurn(t) \/ EndSync(t)
    BY <2>1, <2>4 DEF FinishTurn, EndSync
  <2>5. CASE Delivered(t)
    <3>1. parked # <<>> => Head(parked) \in Turns /\ at[Head(parked)] = "parked"
      BY ParkedHead DEF Turns
    <3> QED
      BY <2>1, <2>5, <3>1 DEF Delivered, StartParked
  <2> QED
    BY <1>2, <2>2, <2>3, <2>4, <2>5 DEF TurnMoves
<1>3. ASSUME NEW p \in Prompts, PromptMoves(p) PROVE Asking'
  <2>0. UNCHANGED <<at, ctxDone, stop, target>>
    BY <1>3, PromptMovesLeave DEF turnVars, stopVars
  <2>1. CASE \E t \in Turns : Request(p, t)
    BY <2>0, <2>1 DEF Request
  <2>2. CASE Register(p)
    BY <2>0, <2>2 DEF Register, Over
  <2>3. CASE Receive(p)
    BY <2>0, <2>3 DEF Receive, Over
  <2>4. CASE SeeCancelled(p) \/ TimeOut(p)
    BY <2>0, <2>4 DEF SeeCancelled, TimeOut, GiveUp, Over
  <2>5. CASE Answer(p)
    BY <2>0, <2>5 DEF Answer
  <2>6. CASE Signal(p) \/ DismissLate(p)
    BY <2>0, <2>6 DEF Signal, DismissLate, SendReply
  <2> QED
    BY <1>3, <2>1, <2>2, <2>3, <2>4, <2>5, <2>6 DEF PromptMoves
<1>4. ASSUME NEW p \in Prompts, NEW c \in Stops, Dismiss(p, c) PROVE Asking'
  BY <1>4 DEF Dismiss, turnVars
<1>5. CASE SetMode
  BY <1>5 DEF SetMode, Drain, turnVars, stopVars
<1>6. ASSUME NEW c \in Stoppers, Cancel(c) PROVE Asking'
  BY <1>6 DEF Cancel, promptVars
<1>7. CASE Close
  BY <1>7 DEF Close, promptVars
<1>8. ASSUME NEW c \in Stoppers, ClearAll(c) PROVE Asking'
  BY <1>8 DEF ClearAll, turnVars
<1>9. ASSUME NEW c \in Stoppers, CallCancel(c) PROVE Asking'
  BY <1>9 DEF CallCancel, CancelContext, promptVars
<1> QED
  BY <1>1, <1>2, <1>3, <1>4, <1>5, <1>6, <1>7, <1>8, <1>9, Steps
     DEF ConsumeSteer, BeginRotation, EndRotation, Steer, StopMoves, stopVars, turnVars, vars

-----------------------------------------------------------------------------
(* The theorems. *)

IInv ==
    /\ TurnTypes /\ SteerTypes /\ PromptTypes
    /\ Gates /\ Parking /\ Aim /\ Guidance /\ Asking

\* Whoever calls, steers, answers, cancels, rotates or closes at the same time,
\* the controller's state satisfies the invariant.
THEOREM Invariance == Spec => []IInv
<1>1. Init => IInv
  BY InitTypes, InitGates, InitAim, InitGuidance, InitAsking DEF IInv
<1>2. IInv /\ [Next]_vars => IInv'
  BY TurnTypesInductive, SteerTypesInductive, PromptTypesInductive, GatesInductive,
     ParkingInductive, AimInductive, GuidanceInductive, AskingInductive DEF IInv
<1> QED
  BY <1>1, <1>2, PTL DEF Spec

LEMMA Typed == IInv => TypeOK
<1> SUFFICES ASSUME IInv PROVE TypeOK
  OBVIOUS
<1>1. (running <=> \E t \in Turns : at[t] \in Live) /\ ((cancel # None) <=> running)
  <2>1. None \notin Turns /\ cancel \in Turns \cup {None}
    BY ConstantsAssumption DEF IInv, TurnTypes, Turns
  <2> QED
    BY <2>1 DEF IInv, Gates
<1>2. ctxDone \subseteq Turns /\ aimed \in [Steers -> (Turns \X (1 .. MaxRuns)) \cup {None}]
      /\ (promptMu # None => asked[promptMu] = "waiting")
  BY DEF IInv, Aim, Guidance, Asking
<1> QED
  BY <1>1, <1>2 DEF IInv, TypeOK, TurnTypes, SteerTypes, PromptTypes

LEMMA Exclusive == IInv => OneAtATime
<1> SUFFICES ASSUME IInv PROVE OneAtATime
  OBVIOUS
<1> DEFINE B == {t \in Turns : at[t] \in Live \/ (at[t] = "delivering" /\ ~closed)}
           R == {x \in Rotators : rot[x] = "swap"}
<1>1. \A a, b \in B \cup R : a = b
  <2>1. \A t, u \in B : t = u
    BY DEF IInv, Gates, Busy
  <2>2. \A x, y \in R : x = y
    BY DEF IInv, Gates
  <2>3. B = {} \/ R = {}
    <3>1. ASSUME NEW t \in B PROVE running \/ finishing
      BY ConstantsAssumption DEF IInv, Gates, Turns
    <3>2. ASSUME NEW x \in R PROVE ~running /\ ~finishing
      BY DEF IInv, Gates
    <3> QED
      BY <3>1, <3>2
  <2> QED
    BY <2>1, <2>2, <2>3
<1>2. B \cup R = {} \/ \E a : B \cup R = {a}
  BY <1>1
<1>3. Cardinality(B \cup R) \in {0, 1}
  BY <1>2, FS_EmptySet, FS_Singleton
<1> QED
  BY <1>3 DEF OneAtATime

\* A session runs one turn at a time and is never swapped under one, and the
\* turn that ends says of itself whether it was cancelled.
THEOREM TurnsOrderly == Spec => []TurnsAreOrderly
<1>1. IInv => TurnsAreOrderly
  BY Typed, Exclusive DEF TurnsAreOrderly, IInv, Aim
<1> QED
  BY <1>1, Invariance, PTL

\* Accepted guidance waits for the run that accepted it, and is left over only
\* if that run failed.
THEOREM SteersTaken == Spec => []SteersAreTaken
<1>1. IInv => SteersAreTaken
  BY DEF IInv, Guidance, SteersAreTaken, UnappliedOnlyOnFailure
<1> QED
  BY <1>1, Invariance, PTL

\* Whatever is answered, withdrawn, allowed by a new posture or cancelled at the
\* same time: a prompt under a live context keeps a way out, unless a Cancel
\* that had read an earlier turn's function dropped it.
THEOREM PromptsHaveAWayOut == Spec => []PromptsUnblock
<1>1. IInv => PromptsUnblock
  BY DEF IInv, Asking
<1> QED
  BY <1>1, Invariance, PTL

\* Which turn a step begins.
LEMMA Begins ==
  ASSUME IInv, [Next]_vars, NEW t \in Turns, at[t] \in {"new", "parked"}, at'[t] \in Live
  PROVE  ~closed /\ (parked # <<>> => t = Head(parked))
<1>1. ~UNCHANGED at
  BY DEF Live
<1>2. ASSUME NEW u \in Turns, TurnMoves(u) PROVE ~closed /\ (parked # <<>> => t = Head(parked))
  <2>types. at \in [Turns -> {"new", "parked", "dropped", "delivering", "done"} \cup Live]
    BY DEF IInv, TurnTypes
  <2>1. CASE Submit(u)
    <3>1. ~Refused /\ ~finishing
      BY <2>1, <2>types DEF Submit, Live
    <3> QED
      BY <3>1 DEF Refused, IInv, Parking
  <2>2. CASE RunTurn(u)
    <3>1. ~SyncRefused
      BY <2>2, <2>types DEF RunTurn, Live
    <3> QED
      BY <3>1 DEF SyncRefused, IInv, Parking
  <2>3. CASE Delivered(u)
    <3>1. StartParked
      BY <2>3, <2>types DEF Delivered, Live
    <3>2. \A v \in Turns \ {u, Head(parked)} : at'[v] = at[v]
      BY <2>3, <3>1, <2>types DEF Delivered
    <3>3. at[u] = "delivering"
      BY <2>3 DEF Delivered
    <3> QED
      BY <3>1, <3>2, <3>3 DEF StartParked, Live
  <2>4. CASE BeginRun(u) \/ FinalAnswer(u) \/ Abort(u) \/ EndRun(u)
    BY <2>4, <2>types DEF BeginRun, FinalAnswer, Abort, EndRun, Live
  <2>5. CASE FinishTurn(u) \/ EndSync(u)
    BY <2>5, <2>types DEF FinishTurn, EndSync, Live
  <2> QED
    BY <1>2, <2>1, <2>2, <2>3, <2>4, <2>5 DEF TurnMoves
<1>3. ~Close
  BY DEF Close, Live
<1> QED
  BY <1>1, <1>2, <1>3, Steps, PromptMovesLeave
     DEF ConsumeSteer, BeginRotation, EndRotation, Steer, Dismiss, SetMode, StopMoves, Cancel,
         ClearAll, CallCancel, turnVars, vars

\* No turn begins on a closed controller, and none before the inputs parked
\* ahead of it.
THEOREM TurnsInOrder == Spec => TurnsBeginInOrder
<1>1. IInv /\ [Next]_vars =>
        [closed => \A t \in Turns : at[t] \in {"new", "parked"} => at'[t] \notin Live]_vars
  BY Begins
<1>2. IInv /\ [Next]_vars =>
        [\A t \in Turns : (at[t] \in {"new", "parked"} /\ at'[t] \in Live /\ parked # <<>>)
                           => t = Head(parked)]_vars
  BY Begins
<1>3. Spec => NothingStartsClosed
  BY <1>1, Invariance, PTL DEF Spec, NothingStartsClosed
<1>4. Spec => ParkedGoFirst
  BY <1>2, Invariance, PTL DEF Spec, ParkedGoFirst
<1> QED
  BY <1>3, <1>4 DEF TurnsBeginInOrder
=============================================================================
