------------------------ MODULE SubagentSchedulerProofs ------------------------
(***************************************************************************)
(* For any number of sub-agents, write calls and paths, and any limits:    *)
(* the counters agree with who holds a slot, writers are apart, and no     *)
(* queued sub-agent is left that could start.                              *)
(*                                                                         *)
(* Claims in force are disjoint and not empty, so that the list of claims  *)
(* names each holding writer's once.  Releases rest on that: the first     *)
(* equal claim that removeClaim finds is the one to go.                    *)
(***************************************************************************)
EXTENDS SubagentScheduler, WellFoundedInduction, FiniteSetTheorems, SequenceTheorems, TLAPS

-----------------------------------------------------------------------------
(* Induction over the natural numbers with a set for the induction         *)
(* hypothesis, and what it says of the functions that the model defines by *)
(* recursion: they exist, and compute what their definition says.          *)

Less == {ss \in Nat \X Nat : ss[1] < ss[2]}

LEMMA LessIsWellFounded == IsWellFoundedOn(Less, Nat)
<1>1. OpToRel(<, Nat) = Less
  BY Zenon DEF OpToRel, Less
<1> QED
  BY <1>1, Zenon, NatLessThanWellFounded

\* What holds of 0, and of n + 1 if of n, holds of all natural numbers.
THEOREM SetInduction ==
  ASSUME NEW S, 0 \in S, \A n \in Nat : n \in S => n + 1 \in S
  PROVE  Nat \subseteq S
<1> DEFINE T == Nat \ S
<1> SUFFICES ASSUME T # {} PROVE FALSE
  OBVIOUS
<1>1. PICK m \in T : \A y \in T : ~(<<y, m>> \in Less)
  BY LessIsWellFounded, WFMin
<1>2. m # 0 /\ m \in Nat
  OBVIOUS
<1>3. m - 1 \in Nat /\ <<m - 1, m>> \in Less
  BY <1>2 DEF Less
<1>4. m - 1 \in S
  BY <1>1, <1>3
<1> QED
  BY <1>2, <1>3, <1>4

\* f holds the results of n rounds of a loop that starts with b and makes the
\* result x of round i - 1 into g[<<i, x>>] in round i.
IsLoop(f, b, g, n) == f[0] = b /\ \A i \in 1 .. n : f[i] = g[<<i, f[i - 1]>>]

\* Such a loop has results for any number of rounds.
THEOREM LoopExists ==
  ASSUME NEW X, NEW b \in X, NEW g \in [Nat \X X -> X], NEW n \in Nat
  PROVE  \E f \in [0 .. n -> X] : IsLoop(f, b, g, n)
<1> USE DEF IsLoop
<1> DEFINE S == {k \in Nat : \E f \in [0 .. k -> X] : IsLoop(f, b, g, k)}
<1>1. 0 \in S
  <2> DEFINE f == [i \in 0 .. 0 |-> b]
  <2>1. f \in [0 .. 0 -> X] /\ f[0] = b
    OBVIOUS
  <2>2. \A i \in 1 .. 0 : f[i] = g[<<i, f[i - 1]>>]
    OBVIOUS
  <2> HIDE DEF f
  <2> QED
    BY <2>1, <2>2
<1>2. ASSUME NEW k \in Nat, k \in S PROVE k + 1 \in S
  <2>1. PICK f \in [0 .. k -> X] : IsLoop(f, b, g, k)
    BY <1>2
  <2> DEFINE h == [i \in 0 .. k + 1 |-> IF i = k + 1 THEN g[<<i, f[k]>>] ELSE f[i]]
  <2>2. h \in [0 .. k + 1 -> X]
    OBVIOUS
  <2>3. h[0] = b
    BY <2>1
  <2>4. ASSUME NEW i \in 1 .. k + 1 PROVE h[i] = g[<<i, h[i - 1]>>]
    BY <2>1
  <2> HIDE DEF h
  <2> QED
    BY <2>2, <2>3, <2>4
<1> HIDE DEF S
<1>3. Nat \subseteq S
  BY <1>1, <1>2, SetInduction
<1> QED
  BY <1>3 DEF S

-----------------------------------------------------------------------------
(* The invariant. *)

Once(q) == \A i, j \in DOMAIN q : q[i] = q[j] => i = j

Entries(q) == {q[i] : i \in DOMAIN q}

WritersOf(H, req) == {a \in H : req[a].writer}

\* The slots s are those of the sub-agents H, who have asked for req, beside the
\* parent's claims.
Books(s, H, req, parents) ==
    /\ s.total = Cardinality(H) /\ s.total <= MaxTotal
    /\ s.writers = Cardinality(WritersOf(H, req)) /\ s.writers <= MaxWriters
    /\ s.claims \in Seq(Claims) /\ Once(s.claims)
    /\ Entries(s.claims) = {req[a].paths : a \in WritersOf(H, req)}
    /\ \A a, b \in WritersOf(H, req) : a # b => ~Overlaps(req[a].paths, req[b].paths)
    /\ \A a \in WritersOf(H, req), c \in Entries(parents) : ~Overlaps(c, req[a].paths)

\* The parent's claims are what its calls hold, apart from each other.
ParentBooks ==
    /\ parentClaims \in Seq(Claims) /\ Once(parentClaims)
    /\ Entries(parentClaims) = {writing[w] : w \in Writes} \ {{}}
    /\ \A v, w \in Writes : v # w => ~Overlaps(writing[v], writing[w])
    /\ \A w \in Writes : writing[w] # {} => w \in wrote

\* Who waits has not been started, and waits once.
Queue ==
    /\ Once(waiters)
    /\ \A a \in Entries(waiters) : state[a] \in {"queued", "leaving"} /\ a \notin ready
    /\ \A a \in ready : state[a] # "new"

StateTypes ==
    /\ waiters \in Seq(Agents)
    /\ state \in [Agents -> States] /\ request \in [Agents -> Requests]
    /\ ready \subseteq Agents /\ cancelled \subseteq Agents
    /\ writing \in [Writes -> SUBSET Paths] /\ wrote \subseteq Writes

IInv ==
    /\ StateTypes
    /\ Books(Slots, Holders, request, parentClaims)
    /\ ParentBooks /\ Queue /\ NothingCouldStart

-----------------------------------------------------------------------------
(* The loop of pumpWaitersLocked. *)

SlotsOf == [total : Nat, writers : Nat, claims : Seq(Claims)]

\* One round of it, on the request of a.
Round(acc, parents, a) ==
    IF CanStart(acc.slots, parents, request[a])
    THEN [slots |-> Activate(acc.slots, request[a]), started |-> acc.started \union {a},
                         left |-> acc.left]
    ELSE [acc EXCEPT !.left = Append(@, a)]

Rounds == [slots : SlotsOf, started : SUBSET Agents, left : Seq(Agents)]

LEMMA ActivateType ==
  ASSUME NEW s \in SlotsOf, NEW req \in Requests
  PROVE  Activate(s, req) \in SlotsOf
<1>1. req.writer => req.paths \in Claims
  BY DEF Requests
<1>2. req.writer => Append(s.claims, req.paths) \in Seq(Claims)
  BY <1>1, AppendProperties DEF SlotsOf
<1> QED
  BY <1>2 DEF Activate, SlotsOf

LEMMA RoundType ==
  ASSUME NEW acc \in Rounds, NEW parents, NEW a \in Agents, request \in [Agents -> Requests]
  PROVE  Round(acc, parents, a) \in Rounds
<1>1. Activate(acc.slots, request[a]) \in SlotsOf
  BY ActivateType DEF Rounds
<1>2. Append(acc.left, a) \in Seq(Agents)
  BY AppendProperties DEF Rounds
<1> QED
  BY <1>1, <1>2 DEF Round, Rounds

LEMMA PumpRounds ==
  ASSUME NEW s \in SlotsOf, NEW parents, NEW queue \in Seq(Agents),
         request \in [Agents -> Requests]
  PROVE  \E f \in [0 .. Len(queue) -> Rounds] :
           /\ f[0] = [slots |-> s, started |-> {}, left |-> <<>>]
           /\ \A i \in 1 .. Len(queue) : f[i] = Round(f[i - 1], parents, queue[i])
           /\ Pump(s, parents, queue) = f[Len(queue)]
<1> DEFINE n == Len(queue)
           base == [slots |-> s, started |-> {}, left |-> <<>>]
           g == [z \in Nat \X Rounds |->
                   IF z[1] \in 1 .. n THEN Round(z[2], parents, queue[z[1]]) ELSE base]
           Loop(f) == [i \in 0 .. n |->
              IF i = 0 THEN [slots |-> s, started |-> {}, left |-> <<>>]
              ELSE LET a == queue[i]
                       acc == f[i - 1]
                   IN IF CanStart(acc.slots, parents, request[a])
                      THEN [slots |-> Activate(acc.slots, request[a]), started |-> acc.started \union {a},
                         left |-> acc.left]
                      ELSE [acc EXCEPT !.left = Append(@, a)]]
           pass == CHOOSE f : f = Loop(f)
<1>0. n \in Nat /\ \A i \in 1 .. n : queue[i] \in Agents
  OBVIOUS
<1>1. base \in Rounds
  BY DEF Rounds
<1>2. g \in [Nat \X Rounds -> Rounds]
  BY <1>0, <1>1, RoundType
<1> HIDE DEF base, g, n, Loop, pass
<1>3. PICK f \in [0 .. n -> Rounds] : IsLoop(f, base, g, n)
  BY <1>0, <1>1, <1>2, LoopExists
<1>4. \A i \in 1 .. n : f[i] = Round(f[i - 1], parents, queue[i])
  <2> TAKE i \in 1 .. n
  <2>1. i \in Nat /\ i - 1 \in 0 .. n
    BY <1>0
  <2>2. f[i - 1] \in Rounds
    BY <2>1
  <2> QED
    BY <1>3, <2>1, <2>2 DEF g, IsLoop
<1>5. f = Loop(f)
  <2>1. ASSUME NEW i \in 0 .. n PROVE f[i] = Loop(f)[i]
    <3>1. CASE i = 0
      BY <1>0, <1>3, <3>1 DEF base, Loop, IsLoop
    <3>2. CASE i # 0
      <4>1. i \in 1 .. n
        BY <1>0, <3>2
      <4>2. Loop(f)[i] = Round(f[i - 1], parents, queue[i])
        BY <1>0, <3>2 DEF Loop, Round
      <4> QED
        BY <1>4, <4>1, <4>2
    <3> QED
      BY <3>1, <3>2
  <2>2. DOMAIN Loop(f) = 0 .. n /\ Loop(f) = [i \in 0 .. n |-> Loop(f)[i]]
    BY DEF Loop
  <2> QED BY <2>1, <2>2, <1>3
<1>6. pass = Loop(pass)
  BY <1>5 DEF pass
<1>7. Pump(s, parents, queue) = pass[n]
  BY Zenon DEF Pump, n, pass, Loop
<1>8. DOMAIN pass = 0 .. n /\ pass = [i \in 0 .. n |-> pass[i]] /\ pass[0] = base
  BY <1>0, <1>6 DEF Loop, base
<1>9. ASSUME NEW i \in 1 .. n PROVE pass[i] = Round(pass[i - 1], parents, queue[i])
  <2>1. i \in 0 .. n /\ i # 0
    BY <1>0
  <2>2. Loop(pass)[i] = Round(pass[i - 1], parents, queue[i])
    BY <2>1 DEF Loop, Round
  <2> QED
    BY <1>6, <2>2
<1>10. \A i \in 0 .. n : pass[i] \in Rounds
  <2> DEFINE S == {i \in Nat : i \in 0 .. n => pass[i] \in Rounds}
  <2>1. 0 \in S
    BY <1>1, <1>8
  <2>2. ASSUME NEW i \in Nat, i \in S PROVE i + 1 \in S
    <3> SUFFICES ASSUME i + 1 \in 0 .. n PROVE pass[i + 1] \in Rounds
      OBVIOUS
    <3>1. i \in 0 .. n /\ i + 1 \in 1 .. n /\ (i + 1) - 1 = i
      BY <1>0
    <3>2. pass[i] \in Rounds /\ queue[i + 1] \in Agents
      BY <2>2, <3>1, <1>0
    <3>3. pass[i + 1] = Round(pass[i], parents, queue[i + 1])
      BY <1>9, <3>1
    <3> QED
      BY <3>2, <3>3, RoundType
  <2> HIDE DEF S
  <2>3. Nat \subseteq S
    BY <2>1, <2>2, SetInduction
  <2> QED
    BY <2>3, <1>0 DEF S
<1> QED
  BY <1>7, <1>8, <1>9, <1>10 DEF base, n

-----------------------------------------------------------------------------
(* Slots taken and given back. *)

LEMMA AppendEntries ==
  ASSUME NEW S, NEW q \in Seq(S), NEW x \in S
  PROVE  /\ Append(q, x) \in Seq(S) /\ Entries(Append(q, x)) = Entries(q) \union {x}
         /\ Once(q) /\ x \notin Entries(q) => Once(Append(q, x))
<1>1. /\ Append(q, x) \in Seq(S) /\ Len(Append(q, x)) = Len(q) + 1
      /\ \A i \in 1 .. Len(q) : Append(q, x)[i] = q[i]
      /\ Append(q, x)[Len(q) + 1] = x
  BY AppendProperties
<1>2. /\ Len(q) \in Nat /\ DOMAIN q = 1 .. Len(q)
      /\ DOMAIN Append(q, x) = 1 .. Len(q) + 1
  BY <1>1
<1>3. Entries(Append(q, x)) = Entries(q) \union {x}
  BY <1>1, <1>2 DEF Entries
<1>4. ASSUME Once(q), x \notin Entries(q) PROVE Once(Append(q, x))
  <2> SUFFICES ASSUME NEW i \in 1 .. Len(q) + 1, NEW j \in 1 .. Len(q) + 1,
                      Append(q, x)[i] = Append(q, x)[j]
               PROVE  i = j
    BY <1>2 DEF Once
  <2>1. CASE i \in 1 .. Len(q) /\ j \in 1 .. Len(q)
    BY <1>1, <1>2, <1>4, <2>1 DEF Once
  <2>2. CASE i \notin 1 .. Len(q) \/ j \notin 1 .. Len(q)
    BY <1>1, <1>2, <1>4, <2>2 DEF Entries
  <2> QED
    BY <2>1, <2>2
<1> QED
  BY <1>1, <1>3, <1>4

\* removeClaim takes one claim off a list that names each once.
LEMMA RemoveClaimEntries ==
  ASSUME NEW S, NEW q \in Seq(S), Once(q), NEW c \in Entries(q)
  PROVE  /\ RemoveClaim(q, c) \in Seq(S) /\ Once(RemoveClaim(q, c))
         /\ Entries(RemoveClaim(q, c)) = Entries(q) \ {c}
<1>1. PICK k \in DOMAIN q : q[k] = c
  BY DEF Entries
<1>2. {i \in DOMAIN q : q[i] = c} = {k}
  BY <1>1 DEF Once
<1>3. RemoveClaim(q, c) = SubSeq(q, 1, k - 1) \o SubSeq(q, k + 1, Len(q))
  <2>1. (CHOOSE i \in {k} : \A j \in {k} : i <= j) = k
    BY <1>1
  <2> QED
    BY <1>2, <2>1 DEF RemoveClaim
<1> DEFINE n == Len(q)
           r == SubSeq(q, 1, k - 1) \o SubSeq(q, k + 1, n)
<1>4. n \in Nat /\ n = Len(q) /\ DOMAIN q = 1 .. n /\ k \in 1 .. n /\ k \in Int
      /\ \A i \in 1 .. n : q[i] \in S
  BY <1>1
<1> HIDE DEF n
<1>5. /\ SubSeq(q, 1, k - 1) \in Seq(S) /\ Len(SubSeq(q, 1, k - 1)) = k - 1
      /\ \A i \in 1 .. k - 1 : SubSeq(q, 1, k - 1)[i] = q[i]
  BY <1>4, SubSeqProperties
<1>6. /\ SubSeq(q, k + 1, n) \in Seq(S) /\ Len(SubSeq(q, k + 1, n)) = n - k
      /\ \A i \in 1 .. n - k : SubSeq(q, k + 1, n)[i] = q[k + i]
  BY <1>4, SubSeqProperties
<1>7. /\ r \in Seq(S) /\ Len(r) = n - 1
      /\ \A i \in 1 .. n - 1 : r[i] = IF i < k THEN q[i] ELSE q[i + 1]
  <2> DEFINE x == SubSeq(q, 1, k - 1)
             y == SubSeq(q, k + 1, n)
  <2>1. x \in Seq(S) /\ Len(x) = k - 1 /\ y \in Seq(S) /\ Len(y) = n - k
    BY <1>5, <1>6
  <2> HIDE DEF x, y
  <2>2. /\ x \o y \in Seq(S) /\ Len(x \o y) = n - 1
        /\ \A i \in 1 .. n - 1 : (x \o y)[i] = IF i <= k - 1 THEN x[i] ELSE y[i - (k - 1)]
    <3>1. /\ x \o y \in Seq(S) /\ Len(x \o y) = (k - 1) + (n - k)
          /\ \A i \in 1 .. (k - 1) + (n - k) :
               (x \o y)[i] = IF i <= k - 1 THEN x[i] ELSE y[i - (k - 1)]
      <4>1. /\ x \o y \in Seq(S) /\ Len(x \o y) = Len(x) + Len(y)
            /\ \A i \in 1 .. Len(x) + Len(y) :
                 (x \o y)[i] = IF i <= Len(x) THEN x[i] ELSE y[i - Len(x)]
        BY <2>1, ConcatProperties
      <4> QED
        BY <2>1, <4>1
    <3>2. (k - 1) + (n - k) = n - 1
      BY <1>4
    <3> QED
      BY <3>1, <3>2
  <2>3. ASSUME NEW i \in 1 .. n - 1 PROVE (x \o y)[i] = IF i < k THEN q[i] ELSE q[i + 1]
    <3>1. CASE i < k
      <4>1. i \in 1 .. k - 1 /\ i <= k - 1
        BY <1>4, <3>1
      <4>2. x[i] = q[i]
        BY <1>5, <4>1 DEF x
      <4> QED
        BY <2>2, <3>1, <4>1, <4>2
    <3>2. CASE ~(i < k)
      <4>1. i - (k - 1) \in 1 .. n - k /\ k + (i - (k - 1)) = i + 1
        BY <1>4, <3>2
      <4>2. y[i - (k - 1)] = q[i + 1]
        BY <1>6, <4>1 DEF y
      <4> QED
        BY <1>4, <2>2, <3>2, <4>2
    <3> QED
      BY <3>1, <3>2
  <2> QED
    BY <2>2, <2>3 DEF x, y
<1> HIDE DEF r
<1>8. DOMAIN r = 1 .. n - 1
  BY <1>7
<1>9. Once(r)
  <2>1. \A i, j \in 1 .. n : q[i] = q[j] => i = j
    BY <1>4 DEF Once
  <2>2. ASSUME NEW i \in 1 .. n - 1, NEW j \in 1 .. n - 1, r[i] = r[j] PROVE i = j
    <3>1. {i, i + 1, j, j + 1} \subseteq 1 .. n
      BY <1>4
    <3>2. (i < k \/ i >= k) /\ (j < k \/ j >= k)
      BY <1>4
    <3>3. (IF i < k THEN q[i] ELSE q[i + 1]) = (IF j < k THEN q[j] ELSE q[j + 1])
      BY <1>7, <2>2
    <3> QED
      BY <1>4, <2>1, <3>1, <3>2, <3>3
  <2> QED
    BY <1>8, <2>2 DEF Once
<1>10. Entries(r) = Entries(q) \ {c}
  <2>1. ASSUME NEW i \in 1 .. n - 1 PROVE r[i] \in Entries(q) \ {c}
    <3>1. \E j \in 1 .. n : j # k /\ r[i] = q[j]
      BY <1>4, <1>7
    <3> QED
      BY <1>1, <1>4, <3>1 DEF Entries, Once
  <2>2. ASSUME NEW j \in 1 .. n, j # k PROVE \E i \in 1 .. n - 1 : r[i] = q[j]
    <3>1. CASE j < k
      BY <1>4, <1>7, <3>1
    <3>2. CASE j > k
      <4>1. j - 1 \in 1 .. n - 1 /\ r[j - 1] = q[j]
        BY <1>4, <1>7, <3>2
      <4> QED
        BY <4>1
    <3> QED
      BY <2>2, <3>1, <3>2, <1>4
  <2> QED
    <3>1. Entries(r) \subseteq Entries(q) \ {c}
      BY <1>8, <2>1 DEF Entries
    <3>2. ASSUME NEW x \in Entries(q) \ {c} PROVE x \in Entries(r)
      <4>1. PICK j \in 1 .. n : x = q[j]
        BY <1>4 DEF Entries
      <4>2. j # k
        BY <1>1, <4>1
      <4> QED
        BY <1>8, <2>2, <4>1, <4>2 DEF Entries
    <3> QED
      BY <3>1, <3>2
<1> QED
  BY <1>3, <1>4, <1>7, <1>9, <1>10 DEF r

LEMMA Types == ASSUME NEW req \in [Agents -> Requests] PROVE
    \A a \in Agents : req[a].writer \in BOOLEAN
                      /\ (req[a].writer => req[a].paths \in Claims)
  BY DEF Requests

LEMMA NoEmptyClaim == {} \notin Claims
  BY DEF Claims

\* activateLocked on a request that can start.
LEMMA ActivateBooks ==
  ASSUME NEW s \in SlotsOf, NEW H \in SUBSET Agents, NEW parents \in Seq(Claims),
         NEW req \in [Agents -> Requests],
         Books(s, H, req, parents), NEW a \in Agents \ H, CanStart(s, parents, req[a])
  PROVE  Books(Activate(s, req[a]), H \union {a}, req, parents)
<1> DEFINE t == Activate(s, req[a])
           I == H \union {a}
           W == WritersOf(H, req)
           paths(b) == req[b].paths
<1>1. IsFiniteSet(H) /\ IsFiniteSet(W) /\ W \subseteq H /\ a \notin W
  BY AgentsAssumption, FS_Subset DEF WritersOf
<1>2. /\ Cardinality(I) = Cardinality(H) + 1 /\ Cardinality(W \union {a}) = Cardinality(W) + 1
      /\ Cardinality(H) \in Nat /\ Cardinality(W) \in Nat
  BY <1>1, FS_AddElement, FS_CardinalityType
<1>3. s.total < MaxTotal /\ s.total = Cardinality(H) /\ s.writers = Cardinality(W)
      /\ s.writers <= MaxWriters
  BY DEF CanStart, Books
<1>4. t.total <= MaxTotal /\ t.total = Cardinality(I)
  BY <1>2, <1>3, LimitsAssumption DEF Activate, SlotsOf
<1>5. CASE ~req[a].writer
  <2>1. WritersOf(I, req) = W /\ t.writers = s.writers /\ t.claims = s.claims
    BY <1>5 DEF WritersOf, Activate, SlotsOf
  <2> QED
    BY <1>4, <2>1 DEF Books
<1>6. CASE req[a].writer
  <2>1. WritersOf(I, req) = W \union {a}
    BY <1>6 DEF WritersOf
  <2>2. t.writers = s.writers + 1 /\ t.claims = Append(s.claims, paths(a))
    BY <1>6 DEF Activate
  <2>3. paths(a) \in Claims /\ paths(a) # {}
    BY <1>6, Types, NoEmptyClaim
  <2> HIDE DEF t, W, paths
  <2>4. /\ s.claims \in Seq(Claims) /\ Once(s.claims)
        /\ Entries(s.claims) = {paths(b) : b \in W}
        /\ \A b, c \in W : b # c => ~Overlaps(paths(b), paths(c))
        /\ \A b \in W, c \in Entries(parents) : ~Overlaps(c, paths(b))
    BY DEF Books, W, paths
  <2>5. /\ s.writers < MaxWriters
        /\ \A c \in Entries(s.claims) : ~Overlaps(c, paths(a))
        /\ \A c \in Entries(parents) : ~Overlaps(c, paths(a))
    BY <1>6 DEF CanStart, Entries, paths
  <2>6. paths(a) \notin Entries(s.claims)
    BY <2>3, <2>5 DEF Overlaps
  <2>7. /\ t.claims \in Seq(Claims) /\ Once(t.claims)
        /\ Entries(t.claims) = Entries(s.claims) \union {paths(a)}
    BY <2>2, <2>3, <2>4, <2>6, AppendEntries
  <2>8. Entries(t.claims) = {paths(b) : b \in W \union {a}}
    BY <2>4, <2>7
  <2>9. \A b, c \in W \union {a} : b # c => ~Overlaps(paths(b), paths(c))
    BY <2>4, <2>5 DEF Overlaps
  <2>10. t.writers = Cardinality(W \union {a}) /\ t.writers <= MaxWriters
    BY <1>2, <1>3, <2>2, <2>5, LimitsAssumption
  <2> QED
    BY <1>4, <2>1, <2>4, <2>5, <2>7, <2>8, <2>9, <2>10 DEF Books, t, paths
<1> QED
  BY <1>5, <1>6, Types

\* deactivateLocked of a request that holds a slot.
LEMMA DeactivateBooks ==
  ASSUME NEW s \in SlotsOf, NEW H \in SUBSET Agents, NEW parents \in Seq(Claims),
         NEW req \in [Agents -> Requests],
         Books(s, H, req, parents), NEW a \in H
  PROVE  /\ Deactivate(s, req[a]) \in SlotsOf
         /\ Books(Deactivate(s, req[a]), H \ {a}, req, parents)
<1> DEFINE t == Deactivate(s, req[a])
           I == H \ {a}
           W == WritersOf(H, req)
           paths(b) == req[b].paths
<1>1. IsFiniteSet(H) /\ IsFiniteSet(W) /\ W \subseteq H /\ a \in Agents
  BY AgentsAssumption, FS_Subset DEF WritersOf
<1>2. /\ Cardinality(I) = Cardinality(H) - 1 /\ (a \in W => Cardinality(W \ {a}) = Cardinality(W) - 1)
      /\ Cardinality(I) \in Nat /\ (a \in W => Cardinality(W \ {a}) \in Nat)
      /\ Cardinality(H) \in Nat /\ Cardinality(W) \in Nat
  BY <1>1, FS_RemoveElement, FS_CardinalityType
<1>3. s.total <= MaxTotal /\ s.total = Cardinality(H) /\ s.writers = Cardinality(W)
      /\ s.writers <= MaxWriters
  BY DEF Books
<1>4. t.total <= MaxTotal /\ t.total = Cardinality(I) /\ t.total \in Nat
  BY <1>2, <1>3, LimitsAssumption DEF Deactivate, SlotsOf
<1>5. CASE ~req[a].writer
  <2>1. WritersOf(I, req) = W /\ t.writers = s.writers /\ t.claims = s.claims /\ t \in SlotsOf
    BY <1>4, <1>5 DEF WritersOf, Deactivate, SlotsOf
  <2> QED
    BY <1>4, <2>1 DEF Books
<1>6. CASE req[a].writer
  <2>1. WritersOf(I, req) = W \ {a} /\ a \in W
    BY <1>6 DEF WritersOf
  <2>2. t.writers = s.writers - 1 /\ t.claims = RemoveClaim(s.claims, paths(a))
    BY <1>6 DEF Deactivate
  <2>3. paths(a) \in Claims /\ \A b \in W : paths(b) # {}
    BY <1>1, <1>6, Types, NoEmptyClaim DEF WritersOf
  <2> HIDE DEF t, W, paths
  <2>4. /\ s.claims \in Seq(Claims) /\ Once(s.claims)
        /\ Entries(s.claims) = {paths(b) : b \in W}
        /\ \A b, c \in W : b # c => ~Overlaps(paths(b), paths(c))
        /\ \A b \in W, c \in Entries(parents) : ~Overlaps(c, paths(b))
    BY DEF Books, W, paths
  <2>5. \A b \in W \ {a} : paths(b) # paths(a)
    BY <2>1, <2>3, <2>4 DEF Overlaps
  <2>6. paths(a) \in Entries(s.claims)
    BY <2>1, <2>4
  <2>7. /\ t.claims \in Seq(Claims) /\ Once(t.claims)
        /\ Entries(t.claims) = Entries(s.claims) \ {paths(a)}
    BY <2>2, <2>4, <2>6, RemoveClaimEntries
  <2>8. Entries(t.claims) = {paths(b) : b \in W \ {a}}
    BY <2>4, <2>5, <2>7
  <2>9. t.writers = Cardinality(W \ {a}) /\ t.writers <= MaxWriters /\ t.writers \in Nat
    BY <1>2, <1>3, <2>1, <2>2, LimitsAssumption
  <2>10. t \in SlotsOf
    BY <1>4, <1>6, <2>7, <2>9 DEF Deactivate, SlotsOf, t
  <2> QED
    BY <1>4, <2>1, <2>4, <2>7, <2>8, <2>9, <2>10 DEF Books, t, paths
<1> QED
  BY <1>1, <1>5, <1>6, Types

\* What cannot start cannot start after another did.
LEMMA StillCannotStart ==
  ASSUME NEW s \in SlotsOf, NEW parents \in Seq(Claims), NEW req \in Requests,
         NEW other \in Requests, ~CanStart(s, parents, req)
  PROVE  ~CanStart(Activate(s, other), parents, req)
<1>1. /\ Activate(s, other).total = s.total + 1 /\ Activate(s, other).writers \in {s.writers, s.writers + 1}
      /\ s.total \in Nat /\ s.writers \in Nat /\ s.claims \in Seq(Claims)
  BY DEF Activate, SlotsOf, Requests
<1>2. \A i \in DOMAIN s.claims : i \in DOMAIN Activate(s, other).claims
                                 /\ Activate(s, other).claims[i] = s.claims[i]
  <2>1. CASE ~other.writer
    BY <2>1 DEF Activate, SlotsOf
  <2>2. CASE other.writer
    <3>1. Activate(s, other).claims = Append(s.claims, other.paths) /\ other.paths \in Claims
      BY <2>2 DEF Activate, Requests
    <3> QED
      BY <1>1, <3>1, AppendProperties
  <2> QED
    BY <2>1, <2>2
<1> QED
  BY <1>1, <1>2, LimitsAssumption DEF CanStart

\* A pass that has gone over the requests of seen has started some of them, and
\* kept those that cannot start.
Passed(r, seen, H, parents) ==
    /\ r \in Rounds
    /\ r.started \subseteq seen /\ Books(r.slots, H \union r.started, request, parents)
    /\ Once(r.left) /\ Entries(r.left) = seen \ r.started
    /\ \A a \in Entries(r.left) : ~CanStart(r.slots, parents, request[a])

LEMMA RoundPasses ==
  ASSUME NEW H \in SUBSET Agents, NEW parents \in Seq(Claims), request \in [Agents -> Requests],
         NEW seen \in SUBSET Agents, NEW r, Passed(r, seen, H, parents),
         NEW a \in Agents \ (seen \union H)
  PROVE  Passed(Round(r, parents, a), seen \union {a}, H, parents)
<1>1. /\ r \in Rounds /\ r.slots \in SlotsOf /\ r.started \in SUBSET Agents /\ r.left \in Seq(Agents)
      /\ Round(r, parents, a) \in Rounds
  BY RoundType DEF Passed, Rounds
<1>2. /\ r.started \subseteq seen /\ Books(r.slots, H \union r.started, request, parents)
      /\ Once(r.left) /\ Entries(r.left) = seen \ r.started
      /\ \A b \in Entries(r.left) : ~CanStart(r.slots, parents, request[b])
  BY DEF Passed
<1>3. CASE CanStart(r.slots, parents, request[a])
  <2>1. /\ Round(r, parents, a).slots = Activate(r.slots, request[a])
        /\ Round(r, parents, a).started = r.started \union {a}
        /\ Round(r, parents, a).left = r.left
    BY <1>3 DEF Round
  <2>2. Books(Activate(r.slots, request[a]), (H \union r.started) \union {a}, request, parents)
    BY <1>1, <1>2, <1>3, ActivateBooks
  <2>3. (H \union r.started) \union {a} = H \union (r.started \union {a})
    OBVIOUS
  <2>4. \A b \in Entries(r.left) : ~CanStart(Activate(r.slots, request[a]), parents, request[b])
    <3> TAKE b \in Entries(r.left)
    <3>1. b \in Agents /\ request[a] \in Requests /\ request[b] \in Requests
      BY <1>2
    <3> QED
      BY <1>1, <1>2, <3>1, StillCannotStart
  <2> QED
    BY <1>1, <1>2, <2>1, <2>2, <2>3, <2>4 DEF Passed
<1>4. CASE ~CanStart(r.slots, parents, request[a])
  <2>1. /\ Round(r, parents, a).slots = r.slots /\ Round(r, parents, a).started = r.started
        /\ Round(r, parents, a).left = Append(r.left, a)
    BY <1>1, <1>4 DEF Round, Rounds
  <2>2. Entries(Append(r.left, a)) = Entries(r.left) \union {a} /\ Once(Append(r.left, a))
    BY <1>1, <1>2, AppendEntries
  <2> QED
    BY <1>1, <1>2, <1>4, <2>1, <2>2 DEF Passed
<1> QED
  BY <1>3, <1>4

LEMMA PumpPasses ==
  ASSUME NEW s \in SlotsOf, NEW H \in SUBSET Agents, NEW parents \in Seq(Claims),
         request \in [Agents -> Requests], Books(s, H, request, parents),
         NEW queue \in Seq(Agents), Once(queue), Entries(queue) \intersect H = {}
  PROVE  Passed(Pump(s, parents, queue), Entries(queue), H, parents)
<1> DEFINE n == Len(queue)
           seen(i) == {queue[j] : j \in 1 .. i}
<1>1. n \in Nat /\ DOMAIN queue = 1 .. n /\ \A i \in 1 .. n : queue[i] \in Agents \ H
  BY DEF Entries
<1>2. PICK f \in [0 .. n -> Rounds] :
        /\ f[0] = [slots |-> s, started |-> {}, left |-> <<>>]
        /\ \A i \in 1 .. n : f[i] = Round(f[i - 1], parents, queue[i])
        /\ Pump(s, parents, queue) = f[n]
  BY PumpRounds, ZenonT(60)
<1> HIDE DEF n
<1> DEFINE S == {i \in Nat : i \in 0 .. n => Passed(f[i], seen(i), H, parents)}
<1>3. 0 \in S
  <2>1. seen(0) = {}
    OBVIOUS
  <2>2. f[0] \in Rounds
    <3>1. 0 \in 0 .. n
      BY <1>1
    <3> HIDE DEF S
    <3> QED
      BY <3>1
  <2>3. H \union {} = H /\ Entries(<<>>) = {} /\ Once(<<>>)
    BY DEF Entries, Once
  <2>4. f[0].slots = s /\ f[0].started = {} /\ f[0].left = <<>>
    BY <1>2
  <2> HIDE DEF seen
  <2>5. Passed(f[0], seen(0), H, parents)
    BY <2>1, <2>2, <2>3, <2>4 DEF Passed
  <2> QED
    BY <2>5
<1>4. ASSUME NEW i \in Nat, i \in S PROVE i + 1 \in S
  <2> SUFFICES ASSUME i + 1 \in 0 .. n PROVE Passed(f[i + 1], seen(i + 1), H, parents)
    OBVIOUS
  <2>1. i \in 0 .. n /\ i + 1 \in 1 .. n /\ (i + 1) - 1 = i
    BY <1>1
  <2>2. f[i + 1] = Round(f[i], parents, queue[i + 1])
    BY <1>2, <2>1
  <2>3. \A j \in 1 .. i : j \in 1 .. n /\ j # i + 1
    BY <1>1, <2>1
  <2>4. seen(i + 1) = seen(i) \union {queue[i + 1]}
    <3>1. 1 .. i + 1 = (1 .. i) \union {i + 1}
      BY <2>1
    <3> QED
      BY <3>1
  <2>5. queue[i + 1] \in Agents \ (seen(i) \union H)
    BY <1>1, <2>1, <2>3 DEF Once
  <2>6. seen(i) \in SUBSET Agents
    BY <1>1, <2>3
  <2>7. Passed(f[i], seen(i), H, parents)
    BY <1>4, <2>1
  <2> HIDE DEF seen
  <2> QED
    BY <2>2, <2>4, <2>5, <2>6, <2>7, RoundPasses
<1> HIDE DEF S
<1>5. Nat \subseteq S
  BY <1>3, <1>4, SetInduction
<1>6. Passed(f[n], seen(n), H, parents)
  <2>1. n \in S /\ n \in 0 .. n
    BY <1>1, <1>5
  <2> HIDE DEF seen
  <2> QED
    BY <2>1 DEF S
<1>7. seen(n) = Entries(queue)
  BY <1>1 DEF Entries
<1> HIDE DEF seen
<1> QED
  BY <1>2, <1>6, <1>7

\* removeWaiterLocked takes the one entry off.
LEMMA WithoutEntries ==
  ASSUME NEW queue \in Seq(Agents), Once(queue), NEW a
  PROVE  /\ Without(queue, a) \in Seq(Agents) /\ Once(Without(queue, a))
         /\ Entries(Without(queue, a)) = Entries(queue) \ {a}
<1> DEFINE n == Len(queue)
           X == Seq(Agents)
           next(x, i) == IF queue[i] = a THEN x ELSE Append(x, queue[i])
           g == [z \in Nat \X X |-> IF z[1] \in 1 .. n THEN next(z[2], z[1]) ELSE <<>>]
           Loop(f) == [i \in 0 .. n |->
              IF i = 0 THEN <<>>
              ELSE IF queue[i] = a THEN f[i - 1] ELSE Append(f[i - 1], queue[i])]
           kept == CHOOSE f : f = Loop(f)
           seen(i) == {queue[j] : j \in 1 .. i}
<1>1. n \in Nat /\ DOMAIN queue = 1 .. n /\ \A i \in 1 .. n : queue[i] \in Agents
  OBVIOUS
<1>2. <<>> \in X /\ g \in [Nat \X X -> X]
  <2>1. <<>> \in X
    OBVIOUS
  <2>2. ASSUME NEW x \in X, NEW i \in 1 .. n PROVE next(x, i) \in X
    BY <1>1, AppendProperties
  <2> HIDE DEF next, n, X
  <2> QED
    BY <2>1, <2>2
<1> HIDE DEF n, X, g, Loop, kept
<1>3. PICK f \in [0 .. n -> X] : IsLoop(f, <<>>, g, n)
  BY <1>1, <1>2, LoopExists
<1>4. f = Loop(f)
  <2>1. ASSUME NEW i \in 0 .. n PROVE f[i] = Loop(f)[i]
    <3>1. CASE i = 0
      BY <1>1, <1>3, <3>1 DEF Loop, IsLoop
    <3>2. CASE i # 0
      <4>1. i \in 1 .. n /\ i - 1 \in 0 .. n /\ i \in Nat
        BY <1>1, <3>2
      <4>2. f[i] = g[<<i, f[i - 1]>>] /\ f[i - 1] \in X
        BY <1>3, <4>1 DEF IsLoop
      <4>3. f[i] = next(f[i - 1], i)
        BY <4>1, <4>2 DEF g
      <4> QED
        BY <3>2, <4>3 DEF Loop
    <3> QED
      BY <3>1, <3>2
  <2>2. DOMAIN Loop(f) = 0 .. n /\ Loop(f) = [i \in 0 .. n |-> Loop(f)[i]]
    BY DEF Loop
  <2> QED
    BY <1>3, <2>1, <2>2
<1>5. kept = Loop(kept)
  BY <1>4 DEF kept
<1>6. Without(queue, a) = kept[n]
  BY Zenon DEF Without, n, kept, Loop
<1>7. kept[0] = <<>> /\ \A i \in 1 .. n : kept[i] = next(kept[i - 1], i)
  <2>1. kept[0] = <<>>
    BY <1>1, <1>5 DEF Loop
  <2>2. ASSUME NEW i \in 1 .. n PROVE kept[i] = next(kept[i - 1], i)
    <3>1. i \in 0 .. n /\ i # 0
      BY <1>1
    <3>2. Loop(kept)[i] = next(kept[i - 1], i)
      BY <3>1 DEF Loop
    <3> QED
      BY <1>5, <3>2
  <2> QED
    BY <2>1, <2>2
<1> DEFINE Good(x, i) == x \in Seq(Agents) /\ Once(x) /\ Entries(x) = seen(i) \ {a}
           S == {i \in Nat : i \in 0 .. n => Good(kept[i], i)}
<1>8. 0 \in S
  <2>1. seen(0) = {} /\ Entries(<<>>) = {} /\ Once(<<>>)
    BY DEF Entries, Once
  <2>2. kept[0] \in Seq(Agents)
    BY <1>7
  <2> HIDE DEF seen
  <2>3. Good(kept[0], 0)
    BY <1>7, <2>1, <2>2
  <2> QED
    BY <2>3
<1>9. ASSUME NEW i \in Nat, i \in S PROVE i + 1 \in S
  <2> SUFFICES ASSUME i + 1 \in 0 .. n PROVE Good(kept[i + 1], i + 1)
    OBVIOUS
  <2>1. i \in 0 .. n /\ i + 1 \in 1 .. n /\ (i + 1) - 1 = i
    BY <1>1
  <2>2. kept[i + 1] = next(kept[i], i + 1) /\ queue[i + 1] \in Agents
    BY <1>1, <1>7, <2>1
  <2>3. seen(i + 1) = seen(i) \union {queue[i + 1]}
    <3>1. 1 .. i + 1 = (1 .. i) \union {i + 1}
      BY <2>1
    <3> QED
      BY <3>1
  <2>4. queue[i + 1] \notin seen(i)
    <3>1. \A j \in 1 .. i : j \in 1 .. n /\ j # i + 1
      BY <1>1, <2>1
    <3> QED
      BY <1>1, <2>1, <3>1 DEF Once
  <2>5. Good(kept[i], i)
    BY <1>9, <2>1
  <2> HIDE DEF seen
  <2>6. CASE queue[i + 1] = a
    BY <2>2, <2>3, <2>4, <2>5, <2>6
  <2>7. CASE queue[i + 1] # a
    BY <2>2, <2>3, <2>4, <2>5, <2>7, AppendEntries
  <2> QED
    BY <2>6, <2>7
<1> HIDE DEF S
<1>10. Nat \subseteq S
  BY <1>8, <1>9, SetInduction
<1>11. Good(kept[n], n)
  <2>1. n \in S /\ n \in 0 .. n
    BY <1>1, <1>10
  <2> HIDE DEF Good
  <2> QED
    BY <2>1 DEF S
<1>12. seen(n) = Entries(queue)
  BY <1>1 DEF Entries
<1> HIDE DEF seen
<1> QED
  BY <1>6, <1>11, <1>12

-----------------------------------------------------------------------------
(* The invariant holds. *)

LEMMA SlotsTyped ==
  ASSUME NEW H \in SUBSET Agents, NEW req, NEW parents, Books(Slots, H, req, parents)
  PROVE  Slots \in SlotsOf
<1>1. IsFiniteSet(H) /\ IsFiniteSet(WritersOf(H, req))
  BY AgentsAssumption, FS_Subset DEF WritersOf
<1>2. Cardinality(H) \in Nat /\ Cardinality(WritersOf(H, req)) \in Nat
  BY <1>1, FS_CardinalityType
<1> QED
  BY <1>2 DEF Books, Slots, SlotsOf

\* What a release leaves, whoever gave back what.
LEMMA PumpWithKeeps ==
  ASSUME request \in [Agents -> Requests], waiters \in Seq(Agents), Once(waiters),
         NEW s \in SlotsOf, NEW H \in SUBSET Agents, NEW parents \in Seq(Claims),
         Books(s, H, request, parents), Entries(waiters) \intersect H = {},
         PumpWith(s, parents)
  PROVE  \E started \in SUBSET Entries(waiters) :
           /\ ready' = ready \union started
           /\ Books(Slots', H \union started, request, parents)
           /\ waiters' \in Seq(Agents) /\ Once(waiters')
           /\ Entries(waiters') = Entries(waiters) \ started
           /\ \A i \in DOMAIN waiters' : ~CanStart(Slots', parents, request[waiters'[i]])
<1> DEFINE r == Pump(s, parents, waiters)
<1>1. Passed(r, Entries(waiters), H, parents)
  BY PumpPasses
<1>2. /\ activeTotal' = r.slots.total /\ activeWriters' = r.slots.writers
      /\ activeClaims' = r.slots.claims /\ waiters' = r.left /\ ready' = ready \union r.started
  BY DEF PumpWith, SetSlots
<1> HIDE DEF r
<1>3. r.slots \in SlotsOf /\ r.left \in Seq(Agents)
  BY <1>1 DEF Passed, Rounds
<1>4. Slots' = r.slots
  BY <1>2, <1>3 DEF Slots, SlotsOf
<1> QED
  BY <1>1, <1>2, <1>3, <1>4 DEF Passed, Entries

LEMMA InitInv == Init => IInv
<1> SUFFICES ASSUME Init PROVE IInv
  OBVIOUS
<1>1. StateTypes
  BY DEF Init, StateTypes, States, Requests, Reader
<1>2. Holders = {} /\ WritersOf({}, request) = {}
  BY DEF Init, Holders, WritersOf
<1>3. Slots.total = 0 /\ Slots.writers = 0 /\ Slots.claims = <<>> /\ Entries(<<>>) = {} /\ Once(<<>>)
  BY DEF Init, Slots, Entries, Once
<1>4. <<>> \in Seq(Claims)
  OBVIOUS
<1>5. Books(Slots, Holders, request, parentClaims)
  <2>1. Cardinality({}) = 0 /\ 0 <= MaxTotal /\ 0 <= MaxWriters
    BY FS_EmptySet, LimitsAssumption
  <2>2. {request[a].paths : a \in {}} = {}
    OBVIOUS
  <2> QED
    BY <1>2, <1>3, <1>4, <2>1, <2>2 DEF Books
<1>6. ParentBooks
  BY <1>3, <1>4 DEF Init, ParentBooks, Overlaps
<1>7. Queue /\ NothingCouldStart
  BY <1>3 DEF Init, Queue, NothingCouldStart
<1> QED
  BY <1>1, <1>5, <1>6, <1>7 DEF IInv

\* A request that is not of a holder may be changed, and claims of the parent go.
LEMMA BooksDepend ==
  ASSUME NEW s, NEW H \in SUBSET Agents, NEW q, NEW r, NEW parents, NEW fewer,
         Books(s, H, q, parents),
         \A a \in H : q[a] = r[a], Entries(fewer) \subseteq Entries(parents)
  PROVE  Books(s, H, r, fewer)
<1>1. WritersOf(H, q) = WritersOf(H, r) /\ \A a \in WritersOf(H, r) : a \in H
  BY DEF WritersOf
<1>2. {q[a].paths : a \in WritersOf(H, q)} = {r[a].paths : a \in WritersOf(H, r)}
  BY <1>1
<1> QED
  BY <1>1, <1>2 DEF Books

LEMMA AcquireKeeps == ASSUME IInv, NEW a \in Agents, Acquire(a) PROVE IInv'
<1>1. /\ state[a] = "new" /\ UNCHANGED <<parentClaims, ready, cancelled, writing, wrote>>
      /\ state' \in [Agents -> States] /\ \A b \in Agents \ {a} : state'[b] = state[b]
  BY DEF Acquire, IInv, StateTypes, States
<1>2. PICK req \in Requests :
        /\ request' = [request EXCEPT ![a] = req]
        /\ \/ /\ CanStart(Slots, parentClaims, req)
              /\ SetSlots(Activate(Slots, req))
              /\ state' = [state EXCEPT ![a] = "running"]
              /\ UNCHANGED waiters
           \/ /\ ~CanStart(Slots, parentClaims, req) /\ Nested(a)
              /\ state' = [state EXCEPT ![a] = "done"]
              /\ UNCHANGED <<counters, waiters>>
           \/ /\ ~CanStart(Slots, parentClaims, req) /\ ~Nested(a)
              /\ waiters' = Append(waiters, a)
              /\ state' = [state EXCEPT ![a] = "queued"]
              /\ UNCHANGED counters
  BY DEF Acquire
<1>3. /\ request' \in [Agents -> Requests] /\ request'[a] = req
      /\ \A b \in Agents \ {a} : request'[b] = request[b]
  BY <1>2 DEF IInv, StateTypes
<1>4. /\ a \notin Holders /\ a \notin ready /\ a \notin Entries(waiters) /\ Holders \in SUBSET Agents
      /\ waiters \in Seq(Agents) /\ Entries(waiters) \subseteq Agents /\ parentClaims \in Seq(Claims)
  BY <1>1 DEF IInv, StateTypes, Holders, Queue, Entries, ParentBooks
<1>5. Books(Slots, Holders, request', parentClaims) /\ Slots \in SlotsOf
  BY <1>3, <1>4, BooksDepend, SlotsTyped DEF IInv
<1>6. \A b \in Entries(waiters) : ~CanStart(Slots, parentClaims, request'[b])
  BY <1>3, <1>4 DEF IInv, NothingCouldStart, Entries
<1>7. ParentBooks'
  BY <1>1 DEF IInv, ParentBooks
<1>8. CASE /\ CanStart(Slots, parentClaims, req) /\ SetSlots(Activate(Slots, req))
           /\ state' = [state EXCEPT ![a] = "running"] /\ UNCHANGED waiters
  <2>1. Activate(Slots, req) \in SlotsOf
    BY <1>5, ActivateType
  <2>2. Slots' = Activate(Slots, req)
    BY <1>8, <2>1 DEF SetSlots, Slots, SlotsOf
  <2>3. Holders' = Holders \union {a}
    BY <1>1, <1>8 DEF Holders, IInv, StateTypes
  <2>4. Books(Slots', Holders', request', parentClaims')
    BY <1>1, <1>2, <1>3, <1>4, <1>5, <1>8, <2>2, <2>3, ActivateBooks
  <2>5. StateTypes'
    BY <1>1, <1>3, <1>4, <1>8 DEF IInv, StateTypes
  <2>6. Queue'
    BY <1>1, <1>4, <1>8 DEF IInv, Queue, Entries
  <2>7. NothingCouldStart'
    <3>1. ASSUME NEW b \in Entries(waiters) PROVE ~CanStart(Slots', parentClaims, request'[b])
      <4>1. request'[b] \in Requests
        BY <1>3, <1>4
      <4> QED
        BY <1>4, <1>5, <1>6, <2>2, <4>1, StillCannotStart
    <3> QED
      BY <1>1, <1>8, <3>1 DEF NothingCouldStart, Entries
  <2> QED
    BY <1>7, <2>4, <2>5, <2>6, <2>7 DEF IInv
<1>9. CASE /\ state' = [state EXCEPT ![a] = "done"] /\ UNCHANGED <<counters, waiters>>
  <2>1. Slots' = Slots /\ Holders' = Holders
    BY <1>1, <1>4, <1>9 DEF Holders, IInv, StateTypes, Slots, counters
  <2>2. StateTypes'
    BY <1>1, <1>3, <1>4, <1>9 DEF IInv, StateTypes
  <2>3. Queue'
    BY <1>1, <1>4, <1>9 DEF IInv, Queue, Entries
  <2>4. NothingCouldStart'
    BY <1>1, <1>6, <1>9, <2>1 DEF NothingCouldStart, Entries
  <2> QED
    BY <1>1, <1>5, <1>7, <2>1, <2>2, <2>3, <2>4 DEF IInv
<1>10. CASE /\ ~CanStart(Slots, parentClaims, req) /\ waiters' = Append(waiters, a)
            /\ state' = [state EXCEPT ![a] = "queued"] /\ UNCHANGED counters
  <2>1. Slots' = Slots /\ Holders' = Holders
    BY <1>1, <1>4, <1>10 DEF Holders, IInv, StateTypes, Slots, counters
  <2>2. waiters' \in Seq(Agents) /\ Entries(waiters') = Entries(waiters) \union {a} /\ Once(waiters')
    BY <1>4, <1>10, AppendEntries DEF IInv, Queue
  <2>3. StateTypes'
    BY <1>1, <1>3, <2>2 DEF IInv, StateTypes
  <2>4. Queue'
    <3>1. state'[a] = "queued"
      BY <1>1, <1>10 DEF IInv, StateTypes
    <3> QED
      BY <1>1, <1>4, <2>2, <3>1 DEF IInv, Queue, StateTypes
  <2>5. NothingCouldStart'
    <3>1. \A b \in Entries(waiters') : ~CanStart(Slots, parentClaims, request'[b])
      BY <1>3, <1>6, <1>10, <2>2
    <3> QED
      BY <1>1, <2>1, <3>1 DEF NothingCouldStart, Entries
  <2> QED
    BY <1>1, <1>5, <1>7, <2>1, <2>3, <2>4, <2>5 DEF IInv
<1> QED
  BY <1>2, <1>8, <1>9, <1>10

\* Steps of a sub-agent in the queue that take and give nothing.
LEMMA MovesKeep ==
  ASSUME IInv, NEW a \in Agents,
         Wake(a) \/ SeeCancel(a) \/ CancelContext(a) \/ RemoveWaiter(a)
                 \/ (LeaveQueue(a) /\ a \notin ready)
  PROVE  IInv'
<1>1. /\ UNCHANGED <<counters, parentClaims, request, ready, writing, wrote>>
      /\ cancelled' \in SUBSET Agents
  BY DEF Wake, SeeCancel, CancelContext, RemoveWaiter, LeaveQueue, IInv, StateTypes
<1>2. Slots' = Slots /\ ParentBooks'
  BY <1>1 DEF Slots, counters, IInv, ParentBooks
<1>3. /\ state' \in [Agents -> States] /\ \A b \in Agents \ {a} : state'[b] = state[b]
      /\ Holders' = Holders /\ state'[a] # "new"
  <2>1. state \in [Agents -> States] /\ ready \subseteq Agents
    BY DEF IInv, StateTypes
  <2>2. CASE Wake(a)
    BY <1>1, <2>1, <2>2 DEF Wake, Holders, States
  <2>3. CASE SeeCancel(a) \/ RemoveWaiter(a)
    BY <1>1, <2>1, <2>3 DEF SeeCancel, RemoveWaiter, Holders, States
  <2>4. CASE CancelContext(a)
    BY <1>1, <2>1, <2>4 DEF CancelContext, Holders, States
  <2>5. CASE LeaveQueue(a) /\ a \notin ready
    BY <1>1, <2>1, <2>5 DEF LeaveQueue, Holders, States
  <2> QED
    BY <2>2, <2>3, <2>4, <2>5
<1>4. /\ waiters' \in Seq(Agents) /\ Once(waiters') /\ Entries(waiters') \subseteq Entries(waiters)
      /\ a \in Entries(waiters') => state'[a] \in {"queued", "leaving"}
  <2>1. waiters \in Seq(Agents) /\ Once(waiters) /\ \A b \in Entries(waiters) :
                                    state[b] \in {"queued", "leaving"} /\ b \notin ready
    BY DEF IInv, StateTypes, Queue
  <2>2. CASE RemoveWaiter(a)
    BY <2>1, <2>2, WithoutEntries DEF RemoveWaiter
  <2>3. CASE ~RemoveWaiter(a)
    <3>1. UNCHANGED waiters
      BY <2>3 DEF Wake, SeeCancel, CancelContext, LeaveQueue
    <3>2. a \in Entries(waiters) => state'[a] \in {"queued", "leaving"}
      BY <2>1, <2>3 DEF Wake, SeeCancel, CancelContext, LeaveQueue, IInv, StateTypes
    <3> QED
      BY <2>1, <3>1, <3>2
  <2> QED
    BY <2>2, <2>3
<1>5. StateTypes'
  BY <1>1, <1>3, <1>4 DEF IInv, StateTypes
<1>6. Queue'
  <2>1. Entries(waiters) \subseteq Agents /\ ready \subseteq Agents
    BY DEF IInv, StateTypes, Entries
  <2> QED
    BY <1>1, <1>3, <1>4, <2>1 DEF IInv, Queue
<1>7. NothingCouldStart'
  BY <1>1, <1>2, <1>4 DEF IInv, NothingCouldStart, Entries
<1> QED
  BY <1>1, <1>2, <1>3, <1>5, <1>6, <1>7 DEF IInv

\* The release of a holder, from its run or from the queue it left.
LEMMA ReleaseKeeps ==
  ASSUME IInv, NEW a \in Agents, Release(a) \/ (LeaveQueue(a) /\ a \in ready)
  PROVE  IInv'
<1>1. /\ state' = [state EXCEPT ![a] = "done"]
      /\ PumpWith(Deactivate(Slots, request[a]), parentClaims)
      /\ UNCHANGED <<parentClaims, request, cancelled, writing, wrote>>
      /\ a \in Holders /\ Holders \in SUBSET Agents
  BY DEF Release, LeaveQueue, Holders
<1>2. /\ request \in [Agents -> Requests] /\ waiters \in Seq(Agents) /\ Once(waiters)
      /\ state \in [Agents -> States] /\ ready \subseteq Agents
      /\ parentClaims \in Seq(Claims) /\ Slots \in SlotsOf
      /\ Books(Slots, Holders, request, parentClaims)
      /\ Entries(waiters) \subseteq Agents
  BY <1>1, SlotsTyped DEF IInv, StateTypes, Queue, ParentBooks, Entries
<1>3. \A b \in Entries(waiters) : state[b] \in {"queued", "leaving"} /\ b \notin ready
  BY DEF IInv, Queue
<1>4. Entries(waiters) \intersect Holders = {}
  BY <1>3 DEF Holders
<1> DEFINE s == Deactivate(Slots, request[a])
           H == Holders \ {a}
<1>5. s \in SlotsOf /\ Books(s, H, request, parentClaims)
  BY <1>1, <1>2, DeactivateBooks
<1>6. PICK started \in SUBSET Entries(waiters) :
        /\ ready' = ready \union started
        /\ Books(Slots', H \union started, request, parentClaims)
        /\ waiters' \in Seq(Agents) /\ Once(waiters')
        /\ Entries(waiters') = Entries(waiters) \ started
        /\ \A i \in DOMAIN waiters' : ~CanStart(Slots', parentClaims, request[waiters'[i]])
  <2> HIDE DEF s
  <2>1. H \in SUBSET Agents /\ Entries(waiters) \intersect H = {} /\ PumpWith(s, parentClaims)
    BY <1>1, <1>4 DEF s
  <2> QED
    BY <1>2, <1>5, <2>1, PumpWithKeeps
<1>7. /\ state' \in [Agents -> States] /\ state'[a] = "done" /\ a \notin Entries(waiters)
      /\ \A b \in Agents \ {a} : state'[b] = state[b]
  BY <1>1, <1>2, <1>4 DEF States
<1>8. Holders' = H \union started
  <2>1. ASSUME NEW b \in Agents PROVE b \in Holders' <=> b \in H \union started
    BY <1>2, <1>3, <1>6, <1>7 DEF Holders
  <2>2. Holders' \subseteq Agents /\ H \union started \subseteq Agents
    BY <1>2 DEF Holders
  <2> QED
    BY <2>1, <2>2
<1>9. StateTypes'
  BY <1>1, <1>2, <1>6, <1>7 DEF IInv, StateTypes
<1>10. ParentBooks'
  BY <1>1 DEF IInv, ParentBooks
<1>11. Queue'
  <2>1. \A b \in ready' : state'[b] # "new"
    BY <1>2, <1>3, <1>6, <1>7 DEF IInv, Queue
  <2> QED
    BY <1>2, <1>3, <1>6, <1>7, <2>1 DEF Queue
<1>12. NothingCouldStart'
  BY <1>1, <1>6 DEF NothingCouldStart
<1> QED
  BY <1>1, <1>6, <1>8, <1>9, <1>10, <1>11, <1>12 DEF IInv

LEMMA ReserveKeeps == ASSUME IInv, NEW w \in Writes, ReserveParentWrite(w) PROVE IInv'
<1>1. PICK paths \in Claims :
        /\ \A i \in DOMAIN activeClaims : ~Overlaps(activeClaims[i], paths)
        /\ \A i \in DOMAIN parentClaims : ~Overlaps(parentClaims[i], paths)
        /\ writing' = [writing EXCEPT ![w] = paths]
        /\ parentClaims' = Append(parentClaims, paths)
  BY DEF ReserveParentWrite
<1>2. /\ UNCHANGED <<counters, waiters, state, request, ready, cancelled>>
      /\ w \notin wrote /\ wrote' = wrote \union {w}
  BY DEF ReserveParentWrite
<1>3. Slots' = Slots /\ Holders' = Holders /\ Slots.claims = activeClaims
  BY <1>2 DEF Slots, Holders, counters
<1>4. StateTypes' /\ paths \in SUBSET Paths /\ paths # {} /\ writing \in [Writes -> SUBSET Paths]
  BY <1>1, <1>2 DEF IInv, StateTypes, Claims
<1>5. /\ parentClaims \in Seq(Claims) /\ Once(parentClaims)
      /\ Entries(parentClaims) = {writing[v] : v \in Writes} \ {{}}
      /\ \A u, v \in Writes : u # v => ~Overlaps(writing[u], writing[v])
      /\ \A v \in Writes : writing[v] # {} => v \in wrote
  BY DEF IInv, ParentBooks
<1>6. \A c \in Entries(parentClaims) : ~Overlaps(c, paths)
  BY <1>1 DEF Entries
<1>7. paths \notin Entries(parentClaims)
  BY <1>4, <1>6 DEF Overlaps
<1>8. /\ parentClaims' \in Seq(Claims) /\ Once(parentClaims')
      /\ Entries(parentClaims') = Entries(parentClaims) \union {paths}
  BY <1>1, <1>5, <1>7, AppendEntries
<1>9. writing[w] = {} /\ writing'[w] = paths /\ \A v \in Writes \ {w} : writing'[v] = writing[v]
  BY <1>1, <1>2, <1>4, <1>5
<1>10. ParentBooks'
  <2>1. Entries(parentClaims') = {writing'[v] : v \in Writes} \ {{}}
    BY <1>4, <1>5, <1>8, <1>9
  <2>2. \A v \in Writes \ {w} : ~Overlaps(writing[v], paths)
    BY <1>5, <1>6 DEF Overlaps
  <2>3. \A u, v \in Writes : u # v => ~Overlaps(writing'[u], writing'[v])
    BY <1>5, <1>9, <2>2 DEF Overlaps
  <2>4. \A v \in Writes : writing'[v] # {} => v \in wrote'
    BY <1>2, <1>5, <1>9
  <2> QED
    BY <1>8, <2>1, <2>3, <2>4 DEF ParentBooks
<1>11. Books(Slots, Holders, request, parentClaims')
  <2>1. Books(Slots, Holders, request, parentClaims)
    BY DEF IInv
  <2>2. \A a \in WritersOf(Holders, request) : ~Overlaps(paths, request[a].paths)
    <3>1. \A c \in Entries(activeClaims) : ~Overlaps(c, paths)
      BY <1>1 DEF Entries
    <3> QED
      BY <1>3, <2>1, <3>1 DEF Books, Overlaps
  <2> QED
    BY <1>8, <2>1, <2>2 DEF Books
<1>12. Queue'
  BY <1>2 DEF IInv, Queue
<1>13. NothingCouldStart'
  <2>1. \A i \in DOMAIN parentClaims : i \in DOMAIN parentClaims' /\ parentClaims'[i] = parentClaims[i]
    BY <1>1, <1>5, AppendProperties
  <2>2. \A i \in DOMAIN waiters : ~CanStart(Slots, parentClaims', request[waiters[i]])
    BY <2>1 DEF IInv, NothingCouldStart, CanStart
  <2> QED
    BY <1>2, <1>3, <2>2 DEF NothingCouldStart
<1> QED
  BY <1>2, <1>3, <1>4, <1>10, <1>11, <1>12, <1>13 DEF IInv

LEMMA ReleaseWriteKeeps == ASSUME IInv, NEW w \in Writes, ReleaseParentWrite(w) PROVE IInv'
<1>1. /\ writing[w] # {} /\ writing' = [writing EXCEPT ![w] = {}]
      /\ parentClaims' = RemoveClaim(parentClaims, writing[w])
      /\ PumpWith(Slots, parentClaims')
      /\ UNCHANGED <<state, request, cancelled, wrote>>
  BY DEF ReleaseParentWrite
<1>2. /\ parentClaims \in Seq(Claims) /\ Once(parentClaims)
      /\ Entries(parentClaims) = {writing[v] : v \in Writes} \ {{}}
      /\ \A u, v \in Writes : u # v => ~Overlaps(writing[u], writing[v])
      /\ \A v \in Writes : writing[v] # {} => v \in wrote
      /\ writing \in [Writes -> SUBSET Paths]
  BY DEF IInv, ParentBooks, StateTypes
<1>3. /\ parentClaims' \in Seq(Claims) /\ Once(parentClaims')
      /\ Entries(parentClaims') = Entries(parentClaims) \ {writing[w]}
  BY <1>1, <1>2, RemoveClaimEntries
<1>4. writing'[w] = {} /\ \A v \in Writes \ {w} : writing'[v] = writing[v]
  BY <1>1, <1>2
<1>5. ParentBooks'
  <2>1. \A v \in Writes \ {w} : writing[v] # writing[w]
    BY <1>1, <1>2 DEF Overlaps
  <2>2. Entries(parentClaims') = {writing'[v] : v \in Writes} \ {{}}
    BY <1>2, <1>3, <1>4, <2>1
  <2>3. \A u, v \in Writes : u # v => ~Overlaps(writing'[u], writing'[v])
    BY <1>2, <1>4 DEF Overlaps
  <2>4. \A v \in Writes : writing'[v] # {} => v \in wrote'
    BY <1>1, <1>2, <1>4
  <2> QED
    BY <1>3, <2>2, <2>3, <2>4 DEF ParentBooks
<1>6. /\ request \in [Agents -> Requests] /\ waiters \in Seq(Agents) /\ Once(waiters)
      /\ state \in [Agents -> States] /\ ready \subseteq Agents /\ Holders \in SUBSET Agents
      /\ Entries(waiters) \subseteq Agents
  BY DEF IInv, StateTypes, Queue, Entries, Holders
<1>7. \A b \in Entries(waiters) : state[b] \in {"queued", "leaving"} /\ b \notin ready
  BY DEF IInv, Queue
<1>8. Entries(waiters) \intersect Holders = {}
  BY <1>7 DEF Holders
<1>9. Slots \in SlotsOf /\ Books(Slots, Holders, request, parentClaims')
  BY <1>3, <1>6, SlotsTyped, BooksDepend DEF IInv
<1>10. PICK started \in SUBSET Entries(waiters) :
        /\ ready' = ready \union started
        /\ Books(Slots', Holders \union started, request, parentClaims')
        /\ waiters' \in Seq(Agents) /\ Once(waiters')
        /\ Entries(waiters') = Entries(waiters) \ started
        /\ \A i \in DOMAIN waiters' : ~CanStart(Slots', parentClaims', request[waiters'[i]])
  BY <1>1, <1>3, <1>6, <1>8, <1>9, PumpWithKeeps
<1>11. Holders' = Holders \union started
  <2>1. ASSUME NEW b \in Agents PROVE b \in Holders' <=> b \in Holders \union started
    BY <1>1, <1>7, <1>10 DEF Holders
  <2> QED
    BY <1>6, <2>1 DEF Holders
<1>12. StateTypes'
  BY <1>1, <1>6, <1>10 DEF IInv, StateTypes
<1>13. Queue'
  BY <1>1, <1>6, <1>7, <1>10 DEF IInv, Queue
<1>14. NothingCouldStart'
  BY <1>1, <1>10 DEF NothingCouldStart
<1> QED
  BY <1>1, <1>5, <1>10, <1>11, <1>12, <1>13, <1>14 DEF IInv

LEMMA StutterKeeps == ASSUME IInv, UNCHANGED vars PROVE IInv'
<1>1. UNCHANGED <<Slots, Holders>>
  BY DEF Slots, Holders, vars, counters
<1>2. StateTypes' /\ ParentBooks' /\ Queue'
  BY DEF IInv, StateTypes, ParentBooks, Queue, vars
<1>3. NothingCouldStart'
  BY <1>1 DEF IInv, NothingCouldStart, vars
<1> QED
  BY <1>1, <1>2, <1>3 DEF IInv, vars

\* However requests arrive, are cancelled, activated and released, the
\* scheduler's state satisfies the invariant.
THEOREM Invariance == Spec => []IInv
<1>1. IInv /\ [Next]_vars => IInv'
  BY AcquireKeeps, MovesKeep, ReleaseKeeps, ReserveKeeps, ReleaseWriteKeeps, StutterKeeps
     DEF Next, Progress
<1> QED
  BY <1>1, InitInv, PTL DEF Spec

-----------------------------------------------------------------------------
(* The theorems. *)

\* The counters agree with who holds a slot: no slot leaks, and none is given
\* back twice, whenever a request is cancelled and however late it is activated.
THEOREM AccountsHold == Spec => []AccountsAgree
<1>1. ASSUME IInv PROVE AccountsAgree
  <2>1. Holders \in SUBSET Agents /\ HoldingWriters = WritersOf(Holders, request)
    BY DEF Holders, HoldingWriters, WritersOf
  <2>2. Slots \in SlotsOf /\ Books(Slots, Holders, request, parentClaims)
    BY <1>1, <2>1, SlotsTyped DEF IInv
  <2>3. TypeOK
    BY <1>1, <2>2 DEF IInv, StateTypes, ParentBooks, TypeOK, Slots, SlotsOf
  <2>4. activeTotal = Cardinality(Holders) /\ activeWriters = Cardinality(HoldingWriters)
    BY <2>1, <2>2 DEF Books, Slots
  <2>5. ASSUME NEW c \in Claims
        PROVE  Cardinality({i \in DOMAIN activeClaims : activeClaims[i] = c})
                 = Cardinality({a \in HoldingWriters : request[a].paths = c})
    <3> DEFINE I == {i \in DOMAIN activeClaims : activeClaims[i] = c}
               A == {a \in HoldingWriters : request[a].paths = c}
    <3>1. /\ \A i, j \in I : i = j
          /\ Entries(activeClaims) = {request[a].paths : a \in HoldingWriters}
      BY <2>1, <2>2 DEF Books, Slots, Once
    <3>2. \A a, b \in A : a = b
      <4>1. c # {}
        BY NoEmptyClaim
      <4> QED
        BY <2>1, <2>2, <4>1 DEF Books, Overlaps
    <3>3. I = {} <=> A = {}
      BY <3>1 DEF Entries
    <3>4. (I = {} \/ \E i : I = {i}) /\ (A = {} \/ \E a : A = {a})
      BY <3>1, <3>2
    <3> QED
      BY <3>3, <3>4, FS_EmptySet, FS_Singleton
  <2> QED
    BY <2>3, <2>4, <2>5 DEF AccountsAgree
<1> QED
  BY <1>1, Invariance, PTL

\* Whoever may write stays within the limits and apart from every other writer,
\* the parent's own write calls included.
THEOREM WritersStayApart == Spec => []WritersApart
<1>1. ASSUME IInv PROVE WritersApart
  <2>1. HoldingWriters = WritersOf(Holders, request)
    BY DEF HoldingWriters, WritersOf
  <2>2. Books(Slots, Holders, request, parentClaims)
    BY <1>1 DEF IInv
  <2>3. ASSUME NEW a \in HoldingWriters, NEW w \in Writes
        PROVE  ~Overlaps(request[a].paths, writing[w])
    <3>1. CASE writing[w] = {}
      BY <3>1 DEF Overlaps
    <3>2. CASE writing[w] # {}
      <4>1. writing[w] \in Entries(parentClaims)
        BY <1>1, <3>2 DEF IInv, ParentBooks
      <4> QED
        BY <2>1, <2>2, <4>1 DEF Books, Overlaps
    <3> QED
      BY <3>1, <3>2
  <2> QED
    BY <2>1, <2>2, <2>3 DEF Books, WritersApart
<1> QED
  BY <1>1, Invariance, PTL

\* No wake-up is lost: what is queued could not start.
THEOREM NoWakeUpLost == Spec => []NothingCouldStart
<1>1. IInv => NothingCouldStart
  BY DEF IInv
<1> QED
  BY <1>1, Invariance, PTL
=============================================================================
