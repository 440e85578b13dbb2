------------------------------ MODULE Controller ------------------------------
(***************************************************************************)
(* The turns of a controller (internal/control/controller.go,              *)
(* admission_guard.go), the guidance the user gives while one runs         *)
(* (internal/agent/agent.go), and the prompts a turn puts to the user      *)
(* (approval.go).  Front-ends submit, steer, answer, cancel, rotate the    *)
(* session and close from goroutines of their own; c.mu, steerMu and       *)
(* approvalManager.mu are each held for one step of the model, and what    *)
(* the code does between two critical sections is another step.            *)
(*                                                                         *)
(* A turn's body runs the agent up to MaxRuns times: the goal loop and an  *)
(* approved plan start another run in the same turn.  What the model says  *)
(* and which tools it calls is a free choice.                              *)
(***************************************************************************)
EXTENDS Integers, Sequences, FiniteSets

CONSTANTS
    Sends,      \* inputs submitted to run asynchronously (runGuarded), numbered
    Syncs,      \* inputs run by a transport that waits (RunTurn)
    Steers,     \* texts typed to guide a running turn (TrySteer)
    Prompts,    \* decisions tool calls ask of the user
    Asks,       \* those of them that are questions (Ask), never auto-allowed
    Rotators,   \* goroutines that rotate or rewind the session
    Stops,      \* calls of Cancel
    Closer,     \* the call of Close
    MaxRuns,    \* bound: agent runs in one turn
    None

ASSUME ConstantsAssumption ==
    /\ Sends \subseteq Nat /\ Sends \cap Syncs = {} /\ None \notin Sends \cup Syncs \cup Prompts
    /\ Asks \subseteq Prompts
    /\ Closer \notin Stops
    /\ MaxRuns \in Nat \ {0}

Turns == Sends \cup Syncs
Stoppers == Stops \cup {Closer}

VARIABLES
    closed, running, finishing, canceling, rotating,
    cancel,     \* the turn whose context c.cancel cancels
    parked,     \* c.parkedTurns
    at,         \* how far each turn is
    runs,       \* how often it has run the agent
    ctxDone,    \* turns under way whose context was cancelled
    failed,     \* the run that is leaving ended in an error
    reported,   \* the TurnDone under delivery says its turn was cancelled
    rot,        \* how far each rotation is
    steerActive, steerQueue,
    steer,      \* what became of each steer
    aimed,      \* the run that accepted it
    yolo,       \* the approval posture allows ordinary calls
    promptMu,   \* the prompt that holds it
    asked,      \* how far each prompt is
    asker,      \* the turn that asks
    pending,    \* approvals and asks: what the user can still answer
    taken,      \* an answer whose prompt is removed but not signalled yet
    reply,      \* the prompt's buffered channel
    stop,       \* how far each Cancel or Close is
    target,     \* the turn whose cancel function it read
    stray       \* prompts dropped by a Cancel aimed at an earlier turn

turnVars == <<closed, running, finishing, canceling, rotating, cancel, parked,
              at, runs, ctxDone, failed, reported, rot>>
steerVars == <<steerActive, steerQueue, steer, aimed>>
promptVars == <<yolo, promptMu, asked, asker, pending, taken, reply, stray>>
stopVars == <<stop, target>>
vars == <<turnVars, steerVars, promptVars, stopVars>>

Live == {"body", "agent", "leaving"}
Waiting(t) == {p \in Prompts : asker[p] = t /\ asked[p] \in {"queued", "waiting"}}
ThisRun(t) == <<t, runs[t]>>

-----------------------------------------------------------------------------
TypeOK ==
    /\ {closed, running, finishing, canceling, rotating, failed, reported,
        steerActive, yolo} \subseteq BOOLEAN
    /\ cancel \in Turns \cup {None} /\ parked \in Seq(Sends)
    /\ at \in [Turns -> {"new", "parked", "dropped", "delivering", "done"} \cup Live]
    /\ runs \in [Turns -> 0 .. MaxRuns]
    /\ ctxDone \subseteq Turns
    /\ rot \in [Rotators -> {"idle", "swap"}]
    /\ steerQueue \in Seq(Steers)
    /\ steer \in [Steers -> {"new", "queued", "settled"}]
    /\ aimed \in [Steers -> (Turns \X (1 .. MaxRuns)) \cup {None}]
    /\ promptMu \in Prompts \cup {None}
    /\ asked \in [Prompts -> {"idle", "queued", "waiting", "over"}]
    /\ asker \in [Prompts -> Turns \cup {None}]
    /\ pending \subseteq Prompts /\ stray \subseteq Prompts
    /\ taken \in [Prompts -> {"no", "skip", "allow", "deny"}]
    /\ reply \in [Prompts -> {"none", "allow", "deny"}]
    /\ stop \in [Stoppers -> {"idle", "read", "clear", "signal", "done"}]
    /\ target \in [Stoppers -> Turns \cup {None}]
    /\ running <=> \E t \in Turns : at[t] \in Live
    /\ (cancel # None) <=> running
    /\ promptMu # None => asked[promptMu] = "waiting"

Init ==
    /\ closed = FALSE /\ running = FALSE /\ finishing = FALSE /\ canceling = FALSE
    /\ rotating = FALSE /\ cancel = None /\ parked = <<>>
    /\ at = [t \in Turns |-> "new"] /\ runs = [t \in Turns |-> 0]
    /\ ctxDone = {} /\ failed = FALSE /\ reported = FALSE
    /\ rot = [x \in Rotators |-> "idle"]
    /\ steerActive = FALSE /\ steerQueue = <<>>
    /\ steer = [s \in Steers |-> "new"] /\ aimed = [s \in Steers |-> None]
    /\ yolo = FALSE /\ promptMu = None /\ pending = {} /\ stray = {}
    /\ asked = [p \in Prompts |-> "idle"] /\ asker = [p \in Prompts |-> None]
    /\ taken = [p \in Prompts |-> "no"] /\ reply = [p \in Prompts |-> "none"]
    /\ stop = [c \in Stoppers |-> "idle"] /\ target = [c \in Stoppers |-> None]

-----------------------------------------------------------------------------
(* Admission.  Every gate is read and the turn claimed in one critical section. *)

\* The part of an admission that claims the turn; q is what stays parked.
Claim(t, q) ==
    /\ running' = TRUE /\ cancel' = t /\ canceling' = FALSE
    /\ at' = [at EXCEPT ![t] = "body"]
    /\ parked' = q

\* Faulty: the seal of a closed controller is not looked at.
Refused_NotClosed == rotating \/ running
Refused == closed \/ rotating \/ running

\* admitGuardedTurn: an input is refused, parked for the delivery of TurnDone
\* to end, or begins its turn.
Submit(t) ==
    /\ at[t] = "new" /\ t \in Sends
    /\ \A u \in Sends : u < t => at[u] # "new"     \* numbered as they come
    /\ IF Refused
       THEN /\ at' = [at EXCEPT ![t] = "dropped"]
            /\ UNCHANGED <<running, cancel, canceling, parked>>
       ELSE IF finishing
       THEN /\ at' = [at EXCEPT ![t] = "parked"]
            /\ parked' = Append(parked, t)
            /\ UNCHANGED <<running, cancel, canceling>>
       ELSE Claim(t, parked)
    /\ UNCHANGED <<closed, finishing, rotating, runs, ctxDone, failed, reported, rot,
                   steerVars, promptVars, stopVars>>

\* Faulty: the delivery of the last turn's end does not refuse it.
SyncRefused_Delivering == running \/ rotating \/ closed
SyncRefused == running \/ finishing \/ rotating \/ closed

\* RunTurn: a waiting caller is told ErrTurnRunning instead of being parked.
RunTurn(t) ==
    /\ at[t] = "new" /\ t \in Syncs
    /\ IF SyncRefused
       THEN /\ at' = [at EXCEPT ![t] = "dropped"]
            /\ UNCHANGED <<running, cancel, canceling, parked>>
       ELSE Claim(t, parked)
    /\ UNCHANGED <<closed, finishing, rotating, runs, ctxDone, failed, reported, rot,
                   steerVars, promptVars, stopVars>>

-----------------------------------------------------------------------------
(* The turn. *)

\* Agent.Run opens the intake of guidance.
BeginRun(t) ==
    /\ at[t] = "body" /\ runs[t] < MaxRuns
    /\ at' = [at EXCEPT ![t] = "agent"]
    /\ runs' = [runs EXCEPT ![t] = @ + 1]
    /\ steerActive' = TRUE
    /\ UNCHANGED <<closed, running, finishing, canceling, rotating, cancel, parked, ctxDone,
                   failed, reported, rot, steerQueue, steer, aimed,
                   promptVars, stopVars>>

\* A round of the tool loop takes one text from the queue into the session.
ConsumeSteer(t) ==
    /\ at[t] = "agent" /\ Waiting(t) = {} /\ steerQueue # <<>>
    /\ steer' = [steer EXCEPT ![Head(steerQueue)] = "settled"]
    /\ aimed' = [aimed EXCEPT ![Head(steerQueue)] = None]
    /\ steerQueue' = Tail(steerQueue)
    /\ UNCHANGED <<turnVars, steerActive, promptVars, stopVars>>

\* Faulty: the queue is not looked at again.
IntakeIdle_Always == TRUE
IntakeIdle == steerQueue = <<>>

\* closeSteerIntakeIfIdle: the final answer only stands if no guidance waits.
FinalAnswer(t) ==
    /\ at[t] = "agent" /\ Waiting(t) = {} /\ IntakeIdle
    /\ steerActive' = FALSE
    /\ at' = [at EXCEPT ![t] = "leaving"]
    /\ UNCHANGED <<closed, running, finishing, canceling, rotating, cancel, parked, runs,
                   ctxDone, failed, reported, rot, steerQueue, steer, aimed,
                   promptVars, stopVars>>

\* The run ends with an error: the provider's, a limit's, or the cancellation's.
Abort(t) ==
    /\ at[t] = "agent" /\ Waiting(t) = {}
    /\ at' = [at EXCEPT ![t] = "leaving"]
    /\ failed' = TRUE
    /\ UNCHANGED <<closed, running, finishing, canceling, rotating, cancel, parked, runs,
                   ctxDone, reported, rot, steerVars, promptVars, stopVars>>

\* flushSteerQueue: what was not consumed is recorded as not applied.
Flush(t) ==
    /\ steerActive' = FALSE
    /\ steerQueue' = <<>>
    /\ steer' = [s \in Steers |-> IF steer[s] = "queued" THEN "settled" ELSE steer[s]]
    /\ aimed' = [s \in Steers |-> None]

EndRun(t) ==
    /\ at[t] = "leaving"
    /\ Flush(t)
    /\ at' = [at EXCEPT ![t] = "body"]
    /\ failed' = FALSE
    /\ UNCHANGED <<closed, running, finishing, canceling, rotating, cancel, parked, runs,
                   ctxDone, reported, rot, promptVars, stopVars>>

\* Faulty: the context is asked instead of what was requested.
WasCancelled_Context(t) == t \in ctxDone
WasCancelled(t) == canceling

\* finishGuardedTurn, first half: the turn is over, but admission stays closed
\* until everybody has been told.
FinishTurn(t) ==
    /\ at[t] = "body" /\ t \in Sends /\ Waiting(t) = {}
    /\ reported' = WasCancelled(t)
    /\ running' = FALSE /\ cancel' = None /\ canceling' = FALSE
    /\ finishing' = ~closed
    /\ at' = [at EXCEPT ![t] = "delivering"]
    /\ UNCHANGED <<closed, rotating, parked, runs, ctxDone, failed, rot,
                   steerVars, promptVars, stopVars>>

\* Faulty: after a cancelled turn nothing is started.
StartParked_NotCancelled == ~closed /\ parked # <<>> /\ ~reported
StartParked == ~closed /\ parked # <<>>

\* finishGuardedTurn, second half: the gate opens and the oldest parked turn
\* goes through it in one critical section.
Delivered(t) ==
    /\ at[t] = "delivering"
    /\ finishing' = FALSE
    /\ IF StartParked
       THEN /\ at' = [at EXCEPT ![t] = "done", ![Head(parked)] = "body"]
            /\ parked' = Tail(parked)
            /\ running' = TRUE /\ cancel' = Head(parked) /\ canceling' = FALSE
       ELSE /\ at' = [at EXCEPT ![t] = "done"]
            /\ UNCHANGED <<running, cancel, canceling, parked>>
    /\ ctxDone' = ctxDone \ {t} /\ reported' = FALSE
    /\ UNCHANGED <<closed, rotating, runs, failed, rot,
                   steerVars, promptVars, stopVars>>

\* RunTurn returns to its caller, who delivers the result itself.
EndSync(t) ==
    /\ at[t] = "body" /\ t \in Syncs /\ Waiting(t) = {}
    /\ running' = FALSE /\ cancel' = None /\ canceling' = FALSE
    /\ at' = [at EXCEPT ![t] = "done"]
    /\ ctxDone' = ctxDone \ {t}
    /\ UNCHANGED <<closed, finishing, rotating, parked, runs, failed, reported, rot,
                   steerVars, promptVars, stopVars>>

-----------------------------------------------------------------------------
(* Rotation of the session: NewSession, ClearSession, Branch, Rewind, Compact. *)

\* Faulty: the delivery of TurnDone does not count as a turn.
RotationAdmitted_Delivering == ~running /\ ~rotating
RotationAdmitted == ~running /\ ~finishing /\ ~rotating

\* beginRotation.
BeginRotation(x) ==
    /\ rot[x] = "idle" /\ RotationAdmitted
    /\ rotating' = TRUE
    /\ rot' = [rot EXCEPT ![x] = "swap"]
    /\ UNCHANGED <<closed, running, finishing, canceling, cancel, parked, at, runs, ctxDone,
                   failed, reported, steerVars, promptVars, stopVars>>

\* Saving the old session, putting the new one in its place, endRotation.
EndRotation(x) ==
    /\ rot[x] = "swap"
    /\ rotating' = FALSE
    /\ rot' = [rot EXCEPT ![x] = "idle"]
    /\ UNCHANGED <<closed, running, finishing, canceling, cancel, parked, at, runs, ctxDone,
                   failed, reported, steerVars, promptVars, stopVars>>

-----------------------------------------------------------------------------
(* Guidance. *)

\* Faulty: a text is queued whether or not a run is there to take it.
IntakeOpen_Always == TRUE
IntakeOpen == steerActive

\* Agent.Steer looks at the intake under steerMu.  TrySteer has looked at
\* c.running before, which refuses nothing more: the intake is only open in a turn.
Steer(s) ==
    /\ steer[s] = "new"
    /\ IF IntakeOpen
       THEN /\ steerQueue' = Append(steerQueue, s)
            /\ steer' = [steer EXCEPT ![s] = "queued"]
            /\ aimed' = [aimed EXCEPT ![s] =
                   IF \E t \in Turns : at[t] \in {"agent", "leaving"}
                   THEN ThisRun(CHOOSE t \in Turns : at[t] \in {"agent", "leaving"})
                   ELSE None]
       ELSE /\ steer' = [steer EXCEPT ![s] = "settled"]
            /\ UNCHANGED <<steerQueue, aimed>>
    /\ UNCHANGED <<turnVars, steerActive, promptVars, stopVars>>

-----------------------------------------------------------------------------
(* Prompts.  promptMu is held from the check to the answer. *)

\* preApprovedForDecisionOptions: the posture allows ordinary calls, never questions.
PreApproved(p) == yolo /\ p \notin Asks

\* requestApprovalDecisionWithOptions and Ask, up to promptMu: from a tool call,
\* or for the plan a run has ended with, which is no ordinary call either.
Request(p, t) ==
    /\ asked[p] = "idle"
    /\ at[t] = "agent" \/ (at[t] = "body" /\ runs[t] > 0 /\ p \in Asks)
    /\ asker' = [asker EXCEPT ![p] = IF PreApproved(p) THEN None ELSE t]
    /\ asked' = [asked EXCEPT ![p] = IF PreApproved(p) THEN "over" ELSE "queued"]
    /\ UNCHANGED <<turnVars, steerVars, stopVars, yolo, promptMu, pending, taken, reply, stray>>

\* The call is over, and the lock given to the next.
\* Faulty: the lock is not given back.
Over_KeepsLock(p) ==
    /\ asked' = [asked EXCEPT ![p] = "over"]
    /\ asker' = [asker EXCEPT ![p] = None]
    /\ reply' = [reply EXCEPT ![p] = "none"]
    /\ stray' = stray \ {p}
    /\ UNCHANGED promptMu
Over(p) ==
    /\ asked' = [asked EXCEPT ![p] = "over"]
    /\ asker' = [asker EXCEPT ![p] = None]
    /\ reply' = [reply EXCEPT ![p] = "none"]
    /\ stray' = stray \ {p}
    /\ promptMu' = None

\* The lock is taken, the posture looked at once more, and the prompt registered.
Register(p) ==
    /\ asked[p] = "queued" /\ promptMu = None
    /\ IF PreApproved(p)
       THEN Over(p) /\ UNCHANGED pending
       ELSE /\ asked' = [asked EXCEPT ![p] = "waiting"]
            /\ promptMu' = p
            /\ pending' = pending \cup {p}
            /\ UNCHANGED <<asker, reply, stray>>
    /\ UNCHANGED <<turnVars, steerVars, stopVars, yolo, taken>>

\* The select: the reply ...
Receive(p) ==
    /\ asked[p] = "waiting" /\ reply[p] # "none"
    /\ Over(p)
    /\ UNCHANGED <<turnVars, steerVars, stopVars, yolo, pending, taken>>

\* ... or the end of the context; the prompt is withdrawn.
GiveUp(p) ==
    /\ Over(p)
    /\ pending' = pending \ {p}
    /\ UNCHANGED <<turnVars, steerVars, stopVars, yolo, taken>>
SeeCancelled(p) == asked[p] = "waiting" /\ asker[p] \in ctxDone /\ GiveUp(p)
\* approvalTimeout, where a front-end sets one.
TimeOut(p) == asked[p] = "waiting" /\ GiveUp(p)

\* Approve and AnswerQuestion take the prompt off the table first ...
Answer(p) ==
    /\ p \in pending
    /\ pending' = pending \ {p}
    /\ \E a \in IF p \in Asks THEN {"skip", "allow"} ELSE {"deny", "allow"} :
         taken' = [taken EXCEPT ![p] = a]
    /\ UNCHANGED <<turnVars, steerVars, stopVars, yolo, promptMu, asked, asker, reply, stray>>

\* ... and signal the waiter later; one that gave up meanwhile reads no answer.
SendReply(p, a) ==
    /\ taken' = [taken EXCEPT ![p] = "no"]
    /\ reply' = [reply EXCEPT ![p] = IF asked[p] = "over" THEN "none" ELSE a]
    /\ UNCHANGED <<turnVars, steerVars, yolo, promptMu, asked, asker, pending, stray>>
Signal(p) ==
    /\ taken[p] \in {"allow", "deny"}
    /\ SendReply(p, taken[p])
    /\ UNCHANGED stopVars
\* A question answered without a selection ends the turn by a call of Cancel;
\* with no turn left, the empty answer is sent.
Dismiss(p, c) ==
    /\ taken[p] = "skip" /\ cancel # None /\ stop[c] = "idle"
    /\ taken' = [taken EXCEPT ![p] = "no"]
    /\ stop' = [stop EXCEPT ![c] = "read"]
    /\ UNCHANGED <<turnVars, steerVars, target, yolo, promptMu, asked, asker, pending, reply, stray>>
DismissLate(p) ==
    /\ taken[p] = "skip" /\ cancel = None
    /\ SendReply(p, "deny")
    /\ UNCHANGED stopVars

\* Faulty: the drained approvals are not handed on to be signalled.
Drain_Silent(ps) == UNCHANGED taken
Drain(ps) == taken' = [p \in Prompts |-> IF p \in ps THEN "allow" ELSE taken[p]]

\* ApplyToolApprovalMode: setMode takes what the new posture allows off the table.
\* The switch back to a stricter posture takes nothing and is left out.
SetMode ==
    /\ ~yolo /\ yolo' = TRUE
    /\ pending' = pending \cap Asks
    /\ Drain(pending \ Asks)
    /\ UNCHANGED <<turnVars, steerVars, stopVars, promptMu, asked, asker, reply, stray>>

-----------------------------------------------------------------------------
(* Cancel and Close: read the cancel function, clear the prompts, call it. *)

Cancel(c) ==
    /\ c \in Stops /\ stop[c] \in {"idle", "read"}
    /\ target' = [target EXCEPT ![c] = cancel]
    /\ stop' = [stop EXCEPT ![c] = IF cancel = None THEN "done" ELSE "clear"]
    /\ canceling' = (canceling \/ cancel # None)
    /\ UNCHANGED <<closed, running, finishing, rotating, cancel, parked, at, runs, ctxDone,
                   failed, reported, rot, steerVars, promptVars>>

Close ==
    /\ stop[Closer] = "idle"
    /\ closed' = TRUE /\ finishing' = FALSE /\ parked' = <<>>
    /\ at' = [t \in Turns |-> IF at[t] = "parked" THEN "dropped" ELSE at[t]]
    /\ target' = [target EXCEPT ![Closer] = cancel]
    /\ stop' = [stop EXCEPT ![Closer] = IF cancel = None THEN "done" ELSE "clear"]
    /\ canceling' = (canceling \/ cancel # None)
    /\ UNCHANGED <<running, rotating, cancel, runs, ctxDone, failed, reported, rot,
                   steerVars, promptVars>>

\* clearAll does not signal: the waiters are to see their context cancelled.
ClearAll(c) ==
    /\ stop[c] = "clear"
    /\ pending' = {}
    /\ stray' = stray \cup {p \in pending : asker[p] # target[c]}
    /\ stop' = [stop EXCEPT ![c] = "signal"]
    /\ UNCHANGED <<turnVars, steerVars, target, yolo, promptMu, asked, asker, taken, reply>>

\* Faulty: the context is only cancelled while the turn still has the agent running.
CancelContext_Agent(t) == IF at[t] \in {"agent", "leaving"} THEN {t} ELSE {}
CancelContext(t) == {t}

CallCancel(c) ==
    /\ stop[c] = "signal"
    /\ ctxDone' = ctxDone \cup {t \in CancelContext(target[c]) : at[t] # "done"}
    /\ stop' = [stop EXCEPT ![c] = "done"]
    /\ UNCHANGED <<closed, running, finishing, canceling, rotating, cancel, parked, at, runs,
                   failed, reported, rot, steerVars, promptVars, target>>

-----------------------------------------------------------------------------
TurnStep(t) ==
    \/ BeginRun(t) \/ ConsumeSteer(t) \/ FinalAnswer(t) \/ Abort(t) \/ EndRun(t)
    \/ FinishTurn(t) \/ Delivered(t) \/ EndSync(t)
PromptStep(p) == Register(p) \/ Receive(p) \/ SeeCancelled(p)
AnswerStep(p) == Signal(p) \/ DismissLate(p) \/ \E c \in Stops : Dismiss(p, c)
StopStep(c) ==
    \/ ClearAll(c) \/ CallCancel(c)
    \/ stop[c] = "read" /\ Cancel(c)

Next ==
    \/ \E t \in Turns : Submit(t) \/ RunTurn(t) \/ TurnStep(t)
    \/ \E x \in Rotators : BeginRotation(x) \/ EndRotation(x)
    \/ \E s \in Steers : Steer(s)
    \/ \E p \in Prompts :
         \/ \E t \in Turns : Request(p, t)
         \/ PromptStep(p) \/ TimeOut(p) \/ Answer(p) \/ AnswerStep(p)
    \/ SetMode
    \/ Close
    \/ \E c \in Stoppers : Cancel(c) \/ StopStep(c)

Spec == Init /\ [][Next]_vars

\* Goroutines that can go on do; users need not type, answer or cancel.  All
\* steps of Progress but a rotation's are finitely many, so that one fairness
\* condition for them together is as good as one for each.
Progress ==
    \/ \E t \in Turns : TurnStep(t)
    \/ \E p \in Prompts : PromptStep(p) \/ AnswerStep(p)
    \/ \E c \in Stoppers : StopStep(c)
FairSpec == Spec /\ WF_vars(Progress)

-----------------------------------------------------------------------------
(* Properties. *)

\* The session is never swapped under a turn, two turns never run at once, and
\* none begins while the end of the last one is still being told: a late
\* TurnDone would take the transport of the new turn (finishGuardedTurn,
\* beginRotation).  After Close nobody is admitted, so telling may go on.
OneAtATime ==
    Cardinality({t \in Turns : at[t] \in Live \/ (at[t] = "delivering" /\ ~closed)}
                \cup {x \in Rotators : rot[x] = "swap"}) <= 1

\* While an input is parked no other turn begins: nothing slips in between the
\* end of a turn and the inputs that waited for it (the drain of
\* finishGuardedTurn).
ParkedGoFirst ==
    [][\A t \in Turns :
         (at[t] \in {"new", "parked"} /\ at'[t] \in Live /\ parked # <<>>) => t = Head(parked)]_vars

\* Guidance waits only for the run that accepted it, and never outlives it
\* into another turn, where it would be a stale task (flushSteerQueue).
SteersHaveTheirRun ==
    \A s \in Steers : steer[s] = "queued" =>
        \E t \in Turns : at[t] \in {"agent", "leaving"} /\ aimed[s] = ThisRun(t)

\* Accepted guidance goes unapplied only if its run failed: a run that ends
\* with an answer has taken all of it (closeSteerIntakeIfIdle).
UnappliedOnlyOnFailure ==
    \A t \in Turns : at[t] = "leaving" /\ ~failed => steerQueue = <<>>

\* A call that waits for the user under a live context can be answered, is
\* being answered, or is about to be cancelled.  The exception is what a Cancel
\* that read an earlier turn's function clears by mistake; EveryPromptUnblocks
\* is the claim without it.
OnItsWay(p) ==
    \/ p \in pending \/ taken[p] # "no" \/ reply[p] # "none"
    \/ \E c \in Stoppers :
         stop[c] = "read" \/ (stop[c] \in {"clear", "signal"} /\ target[c] = asker[p])
Blocked(p) == asked[p] = "waiting" /\ asker[p] \notin ctxDone
PromptsUnblock == \A p \in Prompts : Blocked(p) => OnItsWay(p) \/ p \in stray
EveryPromptUnblocks == \A p \in Prompts : Blocked(p) => OnItsWay(p)

\* TurnDone says "cancelled" exactly of the turns Cancel or Close was aimed at,
\* however late the context was cancelled (finishGuardedTurn reads canceling).
CancelIsReported ==
    \A t \in Turns : at[t] = "delivering" => (reported <=> \E c \in Stoppers : target[c] = t)

\* No turn begins once the controller is closed: it would run on freed resources.
NothingStartsClosed ==
    [][closed => \A t \in Turns : at[t] \in {"new", "parked"} => at'[t] \notin Live]_vars

\* Cancel and Close end the turn they are aimed at, whatever it waits for.
\* There are finitely many of them, so that it is enough that again and again
\* all that were called have got their way.
StopsEnd ==
    []<>(\A c \in Stoppers : target[c] # None => stop[c] = "done" /\ at[target[c]] = "done")

\* Parked inputs begin or are discarded by Close, unless a turn before them
\* waits for the user.
ParkedStarts ==
    []<>(parked = <<>> \/ \E p \in Prompts : asked[p] = "waiting")
\* A session runs one turn at a time, and the turn that ends says of itself what
\* happened to it (the two promises of admitGuardedTurn and finishGuardedTurn).
TurnsAreOrderly == TypeOK /\ OneAtATime /\ CancelIsReported

\* Guidance that Steer accepted is taken by the run that accepted it, unless
\* that run failed (closeSteerIntakeIfIdle and flushSteerQueue).
SteersAreTaken == SteersHaveTheirRun /\ UnappliedOnlyOnFailure

\* A turn begins only on a controller that is open, and never before the inputs
\* parked ahead of it (admitGuardedTurn, finishGuardedTurn).
TurnsBeginInOrder == NothingStartsClosed /\ ParkedGoFirst

\* Nothing a turn waits for stops the session: what is stopped ends, and what
\* is parked begins or is discarded.
TurnsMoveOn == StopsEnd /\ ParkedStarts
=============================================================================
