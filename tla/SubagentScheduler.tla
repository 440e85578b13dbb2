------------------------- MODULE SubagentScheduler -------------------------
(***************************************************************************)
(* The slots and write claims of a session's sub-agents                    *)
(* (internal/agent/scheduler.go, write_claims.go).  A sub-agent acquires a *)
(* slot, at once or from the queue, and a writer claims the paths it may   *)
(* write.  The parent agent's own write tools reserve their paths for the  *)
(* length of a call.  A nested sub-agent runs in a call of its parent, and *)
(* is refused rather than queued.                                          *)
(*                                                                         *)
(* Every step is one critical section of the scheduler's mutex, or what a  *)
(* goroutine does between two of them.                                     *)
(* Operators named Operation_Fault are mutants of Operation.               *)
(***************************************************************************)
EXTENDS Naturals, FiniteSets, Sequences

CONSTANTS
    Agents,         \* sub-agents; each runs once
    Writes,         \* calls of the parent's write tools; each runs once
    Paths,          \* the paths that claims cover
    Requester,      \* the sub-agent a nested one runs for, else NoAgent
    NoAgent,
    MaxTotal,       \* maxTotal
    MaxWriters      \* maxWriters

ASSUME LimitsAssumption ==
    \* NormalizeConcurrencyLimits
    /\ MaxTotal \in Nat \ {0} /\ MaxWriters \in 1..MaxTotal
ASSUME AgentsAssumption ==
    /\ IsFiniteSet(Agents) /\ IsFiniteSet(Writes)
    /\ NoAgent \notin Agents
    /\ Requester \in [Agents -> Agents \union {NoAgent}]

\* A claim is the set of paths it covers: a whole-workspace claim covers all,
\* a claim of a directory covers what is below it, a reader's covers none.
Claims == (SUBSET Paths) \ {{}}
Requests == [writer: {FALSE}, paths: {{}}] \union [writer: {TRUE}, paths: Claims]
Overlaps(a, b) == a \intersect b # {}

Nested(a) == Requester[a] # NoAgent

VARIABLES
    activeTotal, activeWriters,
    activeClaims,    \* sequence of the claims of running sub-agents
    parentClaims,    \* sequence of the claims of the parent's write calls
    waiters,         \* sequence of the queued sub-agents
    state,           \* progress of each sub-agent
    request,         \* what each has asked for
    ready,           \* sub-agents whose ready channel is closed
    cancelled,       \* sub-agents whose context is cancelled
    writing,         \* writing[w]: the paths a write call holds, else {}
    wrote            \* the write calls that have started

counters == <<activeTotal, activeWriters, activeClaims>>
vars == <<counters, parentClaims, waiters, state, request, ready, cancelled, writing, wrote>>

States == {"new", "queued", "leaving", "dropped", "running", "done"}
Reader == [writer |-> FALSE, paths |-> {}]

Init ==
    /\ activeTotal = 0 /\ activeWriters = 0 /\ activeClaims = <<>>
    /\ parentClaims = <<>> /\ waiters = <<>>
    /\ state = [a \in Agents |-> "new"]
    /\ request = [a \in Agents |-> Reader]
    /\ ready = {} /\ cancelled = {}
    /\ writing = [w \in Writes |-> {}] /\ wrote = {}

-----------------------------------------------------------------------------
(* What is done under the mutex, on a record of the counters.              *)

Slots == [total |-> activeTotal, writers |-> activeWriters, claims |-> activeClaims]

\* Faulty: the parent's write calls are not looked at.
CanStart_NoParents(s, parents, req) ==
    /\ s.total < MaxTotal
    /\ req.writer =>
        /\ s.writers < MaxWriters
        /\ \A i \in DOMAIN s.claims : ~Overlaps(s.claims[i], req.paths)

\* canStartLocked, with the parent's claims parents.
CanStart(s, parents, req) ==
    /\ s.total < MaxTotal
    /\ req.writer =>
        /\ s.writers < MaxWriters
        /\ \A i \in DOMAIN s.claims : ~Overlaps(s.claims[i], req.paths)
        /\ \A i \in DOMAIN parents : ~Overlaps(parents[i], req.paths)

\* activateLocked
Activate(s, req) ==
    IF req.writer
    THEN [total |-> s.total + 1, writers |-> s.writers + 1, claims |-> Append(s.claims, req.paths)]
    ELSE [s EXCEPT !.total = @ + 1]

\* removeClaim: the first equal claim goes.
RemoveClaim(claims, paths) ==
    LET equal == {i \in DOMAIN claims : claims[i] = paths}
        first == CHOOSE i \in equal : \A k \in equal : i <= k
    IN IF equal = {} THEN claims
       ELSE SubSeq(claims, 1, first - 1) \o SubSeq(claims, first + 1, Len(claims))

\* Faulty: a reader gives back a writer's place.
Deactivate_Writers(s, req) ==
    [s EXCEPT !.total = @ - 1, !.writers = @ - 1, !.claims = RemoveClaim(@, req.paths)]

\* deactivateLocked
Deactivate(s, req) ==
    IF req.writer
    THEN [total |-> s.total - 1, writers |-> s.writers - 1, claims |-> RemoveClaim(s.claims, req.paths)]
    ELSE [s EXCEPT !.total = @ - 1]

\* Faulty: the pass ends at the first request that cannot start.
Pump_Head(s, parents, queue) ==
    IF queue # <<>> /\ CanStart(s, parents, request[Head(queue)])
    THEN [slots |-> Activate(s, request[Head(queue)]), started |-> {Head(queue)},
          left |-> Tail(queue)]
    ELSE [slots |-> s, started |-> {}, left |-> queue]

\* pumpWaitersLocked: one pass in the order of the queue starts whatever can.
Pump(s, parents, queue) ==
    LET pass[i \in 0..Len(queue)] ==
          IF i = 0 THEN [slots |-> s, started |-> {}, left |-> <<>>]
          ELSE LET a == queue[i]
                   acc == pass[i - 1]
               IN IF CanStart(acc.slots, parents, request[a])
                  THEN [slots |-> Activate(acc.slots, request[a]), started |-> acc.started \union {a},
                         left |-> acc.left]
                  ELSE [acc EXCEPT !.left = Append(@, a)]
    IN pass[Len(queue)]

SetSlots(s) ==
    activeTotal' = s.total /\ activeWriters' = s.writers /\ activeClaims' = s.claims

\* A release: the slots become s, and the queue is pumped.
PumpWith(s, parents) ==
    LET pumped == Pump(s, parents, waiters) IN
    /\ SetSlots(pumped.slots)
    /\ waiters' = pumped.left
    /\ ready' = ready \union pumped.started

-----------------------------------------------------------------------------
\* Faulty: nested requests queue like the others.
Acquire_NestedQueues(a) ==
    /\ state[a] = "new"
    /\ Nested(a) => state[Requester[a]] = "running"
    /\ \E req \in Requests :
        /\ request' = [request EXCEPT ![a] = req]
        /\ IF CanStart(Slots, parentClaims, req)
           THEN /\ SetSlots(Activate(Slots, req))
                /\ state' = [state EXCEPT ![a] = "running"]
                /\ UNCHANGED waiters
           ELSE /\ waiters' = Append(waiters, a)
                /\ state' = [state EXCEPT ![a] = "queued"]
                /\ UNCHANGED counters
    /\ UNCHANGED <<parentClaims, ready, cancelled, writing, wrote>>

\* Acquire: the request starts at once, is refused when nested, or queues.  A
\* nested sub-agent is asked for in a call of its running requester.
Acquire(a) ==
    /\ state[a] = "new"
    /\ Nested(a) => state[Requester[a]] = "running"
    /\ \E req \in Requests :
        /\ request' = [request EXCEPT ![a] = req]
        /\ \/ /\ CanStart(Slots, parentClaims, req)
              /\ SetSlots(Activate(Slots, req))
              /\ state' = [state EXCEPT ![a] = "running"]
              /\ UNCHANGED waiters
           \/ /\ ~CanStart(Slots, parentClaims, req) /\ Nested(a)
              /\ state' = [state EXCEPT ![a] = "done"]
              /\ UNCHANGED <<counters, waiters>>
           \/ /\ ~CanStart(Slots, parentClaims, req) /\ ~Nested(a)
              /\ waiters' = Append(waiters, a)
              /\ state' = [state EXCEPT ![a] = "queued"]
              /\ UNCHANGED counters
    /\ UNCHANGED <<parentClaims, ready, cancelled, writing, wrote>>

\* The select of a queued request sees its ready channel ...
Wake(a) ==
    /\ state[a] = "queued" /\ a \in ready
    /\ state' = [state EXCEPT ![a] = "running"]
    /\ UNCHANGED <<counters, parentClaims, waiters, request, ready, cancelled, writing, wrote>>

\* ... or its cancelled context, whichever it picks when both are there.
SeeCancel(a) ==
    /\ state[a] = "queued" /\ a \in cancelled
    /\ state' = [state EXCEPT ![a] = "leaving"]
    /\ UNCHANGED <<counters, parentClaims, waiters, request, ready, cancelled, writing, wrote>>

\* removeWaiterLocked: the others stay, in their order.
Without(queue, a) ==
    LET kept[i \in 0..Len(queue)] ==
          IF i = 0 THEN <<>>
          ELSE IF queue[i] = a THEN kept[i - 1] ELSE Append(kept[i - 1], queue[i])
    IN kept[Len(queue)]

RemoveWaiter(a) ==
    /\ state[a] = "leaving"
    /\ waiters' = Without(waiters, a)
    /\ state' = [state EXCEPT ![a] = "dropped"]
    /\ UNCHANGED <<counters, parentClaims, request, ready, cancelled, writing, wrote>>

\* Faulty: the slot of a request activated too late is kept.
LeaveQueue_Leak(a) ==
    /\ state[a] = "dropped"
    /\ state' = [state EXCEPT ![a] = "done"]
    /\ UNCHANGED <<counters, parentClaims, waiters, request, ready, cancelled, writing, wrote>>

\* A request that was activated before it was removed gives its slot back.
LeaveQueue(a) ==
    /\ state[a] = "dropped"
    /\ state' = [state EXCEPT ![a] = "done"]
    /\ IF a \in ready THEN PumpWith(Deactivate(Slots, request[a]), parentClaims)
       ELSE UNCHANGED <<counters, waiters, ready>>
    /\ UNCHANGED <<parentClaims, request, cancelled, writing, wrote>>

\* The release of a sub-agent that ends, with the calls it made.
Release(a) ==
    /\ state[a] = "running"
    /\ \A b \in Agents : Requester[b] = a => state[b] \in {"new", "done"}
    /\ state' = [state EXCEPT ![a] = "done"]
    /\ PumpWith(Deactivate(Slots, request[a]), parentClaims)
    /\ UNCHANGED <<parentClaims, request, cancelled, writing, wrote>>

\* The turn, the job or the user cancels the context of a request.
CancelContext(a) ==
    /\ state[a] = "queued" /\ a \notin cancelled
    /\ cancelled' = cancelled \union {a}
    /\ UNCHANGED <<counters, parentClaims, waiters, state, request, ready, writing, wrote>>

\* ReserveParentWrite: refused on any overlap (the call then fails).
ReserveParentWrite(w) ==
    /\ w \notin wrote /\ wrote' = wrote \union {w}
    /\ \E paths \in Claims :
        /\ \A i \in DOMAIN activeClaims : ~Overlaps(activeClaims[i], paths)
        /\ \A i \in DOMAIN parentClaims : ~Overlaps(parentClaims[i], paths)
        /\ writing' = [writing EXCEPT ![w] = paths]
        /\ parentClaims' = Append(parentClaims, paths)
    /\ UNCHANGED <<counters, waiters, state, request, ready, cancelled>>

ReleaseParentWrite(w) ==
    /\ writing[w] # {}
    /\ writing' = [writing EXCEPT ![w] = {}]
    /\ parentClaims' = RemoveClaim(parentClaims, writing[w])
    /\ PumpWith(Slots, parentClaims')
    /\ UNCHANGED <<state, request, cancelled, wrote>>

Progress(a) == Wake(a) \/ RemoveWaiter(a) \/ LeaveQueue(a) \/ Release(a)

Next ==
    \/ \E a \in Agents : Acquire(a) \/ SeeCancel(a) \/ CancelContext(a) \/ Progress(a)
    \/ \E w \in Writes : ReserveParentWrite(w) \/ ReleaseParentWrite(w)

Spec == Init /\ [][Next]_vars

\* Goroutines run, sub-agents end and the calls of the parent return.  That
\* some of them moves is enough here, since each runs once.
FairSpec ==
    Spec /\ WF_vars(\/ \E a \in Agents : Progress(a)
                    \/ \E w \in Writes : ReleaseParentWrite(w))

-----------------------------------------------------------------------------
\* Types of the state.
TypeOK ==
    /\ activeTotal \in Nat /\ activeWriters \in Nat
    /\ activeClaims \in Seq(Claims) /\ parentClaims \in Seq(Claims)
    /\ waiters \in Seq(Agents)
    /\ state \in [Agents -> States] /\ request \in [Agents -> Requests]
    /\ ready \subseteq Agents /\ cancelled \subseteq Agents
    /\ writing \in [Writes -> SUBSET Paths] /\ wrote \subseteq Writes

\* Who holds a slot: running sub-agents, and those activated in the queue.
Holders == {a \in Agents :
    \/ state[a] = "running"
    \/ state[a] \in {"queued", "leaving", "dropped"} /\ a \in ready}
HoldingWriters == {a \in Holders : request[a].writer}

\* The counters agree with who holds a slot, whatever was cancelled and when:
\* no slot leaks and none is given back twice.
AccountsAgree ==
    /\ TypeOK
    /\ activeTotal = Cardinality(Holders)
    /\ activeWriters = Cardinality(HoldingWriters)
    /\ \A c \in Claims : Cardinality({i \in DOMAIN activeClaims : activeClaims[i] = c})
                           = Cardinality({a \in HoldingWriters : request[a].paths = c})

\* Whoever may write runs within the limits and apart from every other writer,
\* the parent's own write calls included.
WritersApart ==
    /\ Cardinality(Holders) <= MaxTotal /\ Cardinality(HoldingWriters) <= MaxWriters
    /\ \A a, b \in HoldingWriters :
        a # b => ~Overlaps(request[a].paths, request[b].paths)
    /\ \A a \in HoldingWriters, w \in Writes : ~Overlaps(request[a].paths, writing[w])

\* No wake-up is lost: with the mutex free, nothing queued could have started.
NothingCouldStart ==
    \A i \in DOMAIN waiters : ~CanStart(Slots, parentClaims, request[waiters[i]])

\* No sub-agent waits for itself: whatever is queued, nested calls included,
\* every queued sub-agent gets its slot or leaves once arrivals cease.  (While
\* they do not, a wide claim can be overtaken for ever.)
QueueDrains ==
    (\E a \in Agents : state[a] = "queued") ~> (\A a \in Agents : state[a] # "queued")
=============================================================================
