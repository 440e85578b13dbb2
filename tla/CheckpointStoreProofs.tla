------------------------ MODULE CheckpointStoreProofs ------------------------
(***************************************************************************)
(* Proofs about CheckpointStore: for every workspace, any callers and      *)
(* bounds.                                                                 *)
(*                                                                         *)
(* Numbers, types and the numbers of turns, holds always and the rest is   *)
(* inductive relative to it.  Seen keeps what the user wrote apart from    *)
(* what the tools left, also always.  Kept says which payloads are there:  *)
(* it needs that no call is under way when the next turn sweeps.  Exact    *)
(* compares the captures with what the tools changed: it needs the same,   *)
(* and that no restart left a capture without a fingerprint.  Background   *)
(* sub-agents break the first premise, restarts the second; README.md,     *)
(* section 4, says how.                                                    *)
(*                                                                         *)
(* The actions change one field of a record in a map of a map.  Each       *)
(* helper has a lemma, its View, that says which entries of the maps       *)
(* change and how; the proofs about the actions use the views only.        *)
(***************************************************************************)
EXTENDS CheckpointStore, WellFoundedInduction, TLAPS

(* Least and greatest numbers. *)

Less == {ss \in Nat \X Nat : ss[1] < ss[2]}

\* The order of the numbers, as the library's theorem on least elements wants it.
LEMMA LessIsWellFounded == IsWellFoundedOn(Less, Nat)
<1>1. OpToRel(<, Nat) = Less
  BY Zenon DEF OpToRel, Less
<1> QED
  BY <1>1, Zenon, NatLessThanWellFounded

\* A set of numbers has a least one, and Min returns it.
LEMMA MinIsLeast ==
  ASSUME NEW S \in SUBSET Nat, S # {}
  PROVE  Min(S) \in S /\ \A y \in S : Min(S) <= y
<1>1. PICK m \in S : \A y \in S : ~(<<y, m>> \in Less)
  BY LessIsWellFounded, WFMin
<1>2. ASSUME NEW y \in S PROVE m <= y
  <2>1. y \in Nat /\ m \in Nat /\ ~(<<y, m>> \in Less)
    BY <1>1
  <2>2. ~(y < m)
    BY <2>1 DEF Less
  <2> QED
    BY <2>1, <2>2
<1> QED
  BY <1>2 DEF Min

\* A set of numbers up to n has a greatest one, and Max returns it.
LEMMA MaxIsGreatest ==
  ASSUME NEW n \in Nat, NEW S \in SUBSET (0 .. n), S # {}
  PROVE  Max(S) \in S /\ \A y \in S : y <= Max(S)
<1> DEFINE T == {n - x : x \in S}
<1>1. T \in SUBSET Nat /\ T # {}
  <2>1. ASSUME NEW x \in S PROVE n - x \in Nat
    <3>1. x \in 0 .. n
      OBVIOUS
    <3> QED
      BY <3>1
  <2> QED
    BY <2>1
<1>2. PICK m \in T : \A y \in T : m <= y
  <2> HIDE DEF T
  <2> QED
    BY <1>1, MinIsLeast
<1>3. PICK x \in S : m = n - x
  BY <1>2
<1>4. \A y \in S : y <= x
  BY <1>2, <1>3
<1> QED
  BY <1>4 DEF Max

-----------------------------------------------------------------------------
(* The types of the store. *)

SnapMaps == UNION {[D -> Snaps] : D \in SUBSET Files}
Checkpoints == [snaps : SnapMaps, gap : BOOLEAN, expired : BOOLEAN]
IsStore(m) == m \in [DOMAIN m -> Checkpoints] /\ DOMAIN m \subseteq Turns

Types ==
    /\ disk \in [Files -> Contents]
    /\ IsStore(ckpts) /\ IsStore(saved)
    /\ cur \in {0} \cup DOMAIN ckpts
    /\ blobs \subseteq Contents /\ pinned \subseteq Contents
    /\ turn \in 1..(MaxTurns + 1) /\ running \in BOOLEAN
    /\ step \in [Callers -> {"idle", "read", "captured", "called", "bash"}]
    /\ target \in [Callers -> Files] /\ image \in [Callers -> Contents]
    /\ spawned \in [Background -> 0..MaxTurns]
    /\ before \subseteq Turns \X Files \X Contents
    /\ untracked \subseteq Turns /\ edited \subseteq Files
    /\ writes \in 0..MaxWrites /\ edits \in 0..MaxEdits
    /\ faults \in 0..MaxFaults /\ crashes \in 0..MaxCrashes

\* A call belongs to a turn or to a sub-agent that one spawned, and turns and
\* sub-agents have a current checkpoint.
Sessions ==
    /\ \A c \in Callers : step[c] # "idle" => InTurn(c)
    /\ running => cur # 0
    /\ \A b \in Background : spawned[b] # 0 => cur # 0

Numbers == Types /\ Sessions /\ NumbersAreFresh

\* What the captures of a checkpoint are made of ...
LEMMA SnapFacts ==
  ASSUME NEW s \in SnapMaps
  PROVE  /\ DOMAIN s \subseteq Files
         /\ \A f \in DOMAIN s : /\ s[f] \in Snaps /\ s[f] = [pre |-> s[f].pre, after |-> s[f].after]
                                /\ s[f].pre \in Contents /\ s[f].after \in Contents \cup {Unknown}
BY DEF SnapMaps, Snaps

\* ... and the checkpoints of a store.
LEMMA StoreFacts ==
  ASSUME NEW m, IsStore(m), NEW u \in DOMAIN m
  PROVE  /\ u \in Turns /\ u \in Nat \ {0}
         /\ m[u] \in Checkpoints
         /\ m[u].snaps \in SnapMaps /\ m[u].gap \in BOOLEAN /\ m[u].expired \in BOOLEAN
         /\ m[u] = [snaps |-> m[u].snaps, gap |-> m[u].gap, expired |-> m[u].expired]
BY StoreAssumption DEF IsStore, Checkpoints, Turns

\* The model's own type invariant follows.
LEMMA TypesAreTypeOK == Types => TypeOK
<1> SUFFICES ASSUME Types PROVE TypeOK
  OBVIOUS
<1>1. ASSUME NEW m, IsStore(m), NEW u \in DOMAIN m PROVE Checkpoint(m[u])
  <2>1. m[u] \in Checkpoints /\ m[u].snaps \in SnapMaps
    BY <1>1, StoreFacts
  <2>2. DOMAIN m[u] = {"snaps", "gap", "expired"} /\ m[u].gap \in BOOLEAN /\ m[u].expired \in BOOLEAN
    BY <2>1 DEF Checkpoints
  <2> QED
    BY <2>1, <2>2, SnapFacts DEF Checkpoint
<1> QED
  BY <1>1 DEF Types, TypeOK, IsStore

\* The empty map is a map of captures, and of checkpoints.
LEMMA EmptyIsTyped == << >> \in SnapMaps /\ DOMAIN << >> = {}
<1>1. << >> \in [{} -> Snaps] /\ DOMAIN << >> = {}
  OBVIOUS
<1> QED
  BY <1>1 DEF SnapMaps

\* What becomes of a store when some of its checkpoints expire.
Aged(m, n) ==
    /\ IsStore(n) /\ DOMAIN n = DOMAIN m
    /\ \A u \in DOMAIN m : /\ n[u].snaps = m[u].snaps
                           /\ n[u] = m[u] \/ (n[u].gap = TRUE /\ n[u].expired = TRUE)

LEMMA ExpireView == ASSUME NEW m, IsStore(m), NEW S PROVE Aged(m, Expire(m, S))
<1>1. DOMAIN Expire(m, S) = DOMAIN m
  BY DEF Expire
<1>2. ASSUME NEW u \in DOMAIN m
      PROVE  /\ Expire(m, S)[u] \in Checkpoints
             /\ Expire(m, S)[u].snaps = m[u].snaps
             /\ \/ Expire(m, S)[u] = m[u]
                \/ Expire(m, S)[u].gap = TRUE /\ Expire(m, S)[u].expired = TRUE
  BY StoreFacts DEF Expire, Checkpoints
<1>3. Expire(m, S) = [u \in DOMAIN m |-> Expire(m, S)[u]]
  BY DEF Expire
<1>4. Expire(m, S) \in [DOMAIN m -> Checkpoints]
  BY <1>2, <1>3
<1> QED
  BY <1>1, <1>2, <1>4 DEF IsStore, Aged

\* The payloads of a store.
PayloadsIn(m, B) == \A u \in DOMAIN m : Payloads(m[u]) \subseteq B

\* The payloads a checkpoint names: the same captures name the same, and expiry takes
\* them away.
LEMMA SamePayloads ==
  ASSUME NEW c, NEW d, c.snaps = d.snaps, c.expired = d.expired
  PROVE  Payloads(c) = Payloads(d)
BY Zenon DEF Payloads

LEMMA AgedPayloads ==
  ASSUME NEW m, NEW n, NEW B, Aged(m, n), PayloadsIn(m, B)
  PROVE  PayloadsIn(n, B)
BY DEF Aged, PayloadsIn, Payloads

\* Garbage collection lets checkpoints expire, and sweeps no payload of those
\* that have not, nor of a manifest.
LEMMA CollectView ==
  ASSUME NEW m, IsStore(m)
  PROVE  /\ Aged(m, Collect(m).ckpts)
         /\ Collect(m).blobs \subseteq blobs
         /\ pinned \subseteq blobs => pinned \subseteq Collect(m).blobs
         /\ PayloadsIn(m, blobs) => PayloadsIn(Collect(m).ckpts, Collect(m).blobs)
<1> DEFINE retained == Expire(m, Overdue(m))
           kept == IF Overdue(m) = {} THEN blobs ELSE blobs \cap Live(retained)
           rest == { u \in WithFiles(m) : ~retained[u].expired }
           left(k) == IF k = 0 THEN kept ELSE kept \cap Live(Expire(retained, Oldest(rest, k)))
           n == Cardinality(rest)
           k == Min({ i \in 0..n : Cardinality(left(i)) <= BlobQuota } \cup {n})
           final == Expire(retained, Oldest(rest, k))
<1>1. Collect(m) = [ckpts |-> final, blobs |-> left(k)]
  BY Zenon DEF Collect
<1>2. Collect(m).ckpts = final /\ Collect(m).blobs = left(k)
  BY <1>1
<1> HIDE DEF k, n
<1>3. Aged(m, retained)
  <2> HIDE DEF kept, rest, final
  <2> QED
    BY ExpireView
<1> HIDE DEF retained, rest
<1>4. Aged(retained, final)
  <2>1. IsStore(retained)
    BY <1>3 DEF Aged
  <2> QED
    BY <2>1, ExpireView
<1> HIDE DEF final
<1>5. Aged(m, final)
  BY <1>3, <1>4 DEF Aged
<1>6. ASSUME NEW s, NEW B PROVE PayloadsIn(s, B) => PayloadsIn(s, B \cap Live(s))
  BY DEF PayloadsIn, Live
<1>7. pinned \subseteq blobs => pinned \subseteq left(k)
  BY DEF Live
<1>8. ASSUME PayloadsIn(m, blobs) PROVE PayloadsIn(final, left(k))
  <2>1. PayloadsIn(retained, blobs)
    BY <1>3, <1>8, AgedPayloads
  <2>2. PayloadsIn(retained, kept)
    BY <2>1, <1>6
  <2>3. PayloadsIn(final, kept)
    BY <2>2, <1>4, AgedPayloads
  <2>4. PayloadsIn(final, kept \cap Live(final))
    BY <2>3, <1>6
  <2> HIDE DEF kept
  <2>5. left(k) = kept \/ left(k) = kept \cap Live(final)
    BY DEF final
  <2> QED
    BY <2>3, <2>4, <2>5
<1>9. left(k) \subseteq blobs
  OBVIOUS
<1> QED
  BY <1>2, <1>5, <1>7, <1>8, <1>9
-----------------------------------------------------------------------------
(* What the actions do to the checkpoints and to their files. *)

\* A checkpoint file is what it was, or the checkpoint in memory.
Copies ==
    \A u \in DOMAIN saved' :
        \/ u \in DOMAIN ckpts' /\ saved'[u] = ckpts'[u]
        \/ u \in DOMAIN saved /\ saved'[u] = saved[u]

\* Persist writes one turn's file as the checkpoint is, or no file.
LEMMA PersistView ==
  ASSUME IsStore(saved), faults \in 0..MaxFaults, IsStore(ckpts'), NEW u \in DOMAIN ckpts', Persist(u)
  PROVE  /\ IsStore(saved') /\ faults' \in 0..MaxFaults /\ Copies
         /\ \A v \in DOMAIN saved' : v # u => v \in DOMAIN saved /\ saved'[v] = saved[v]
<1>1. CASE saved' = Saving(ckpts', {u}) /\ UNCHANGED faults
  <2> PICK m : m = ckpts'
    OBVIOUS
  <2>1. IsStore(m) /\ {u} \subseteq DOMAIN m /\ saved' = Saving(m, {u})
    BY <1>1
  <2>2. /\ IsStore(saved') /\ DOMAIN saved' = DOMAIN saved \cup {u}
        /\ \A v \in {u} : saved'[v] = m[v]
        /\ \A v \in DOMAIN saved \ {u} : saved'[v] = saved[v]
    BY <1>1, <2>1 DEF Saving, IsStore
  <2> QED
    BY <1>1, <2>2 DEF Copies
<1>2. CASE faults < MaxFaults /\ faults' = faults + 1 /\ UNCHANGED saved
  BY <1>2, StoreAssumption DEF Copies
<1> QED
  BY <1>1, <1>2 DEF Persist

\* The store m with a gap in checkpoint u.
SetGap(m, u) == [m EXCEPT ![u].gap = TRUE]

\* Recording a gap changes the gap of one checkpoint.
LEMMA GapView ==
  ASSUME NEW m, IsStore(m), NEW u, u \in DOMAIN m
  PROVE  /\ IsStore(SetGap(m, u)) /\ DOMAIN SetGap(m, u) = DOMAIN m
         /\ SetGap(m, u)[u].gap = TRUE
         /\ \A v \in DOMAIN m : v # u => SetGap(m, u)[v] = m[v]
         /\ \A v \in DOMAIN m : /\ SetGap(m, u)[v].snaps = m[v].snaps
                                /\ SetGap(m, u)[v].expired = m[v].expired
                                /\ m[v].gap => SetGap(m, u)[v].gap
<1> PICK n : n = [m EXCEPT ![u].gap = TRUE]
  OBVIOUS
<1>1. DOMAIN n = DOMAIN m /\ \A v \in DOMAIN m : v # u => n[v] = m[v]
  BY DEF IsStore
<1>2. m[u].snaps \in SnapMaps /\ m[u].expired \in BOOLEAN
  BY StoreFacts
<1>3. n[u] = [snaps |-> m[u].snaps, gap |-> TRUE, expired |-> m[u].expired]
  BY StoreFacts, ZenonT(60) DEF IsStore, Checkpoints
<1>4. [snaps |-> m[u].snaps, gap |-> TRUE, expired |-> m[u].expired] \in Checkpoints
  BY <1>2 DEF Checkpoints
<1>5. ASSUME NEW v \in DOMAIN m PROVE n[v] \in Checkpoints
  <2>1. CASE v = u
    BY <2>1, <1>3, <1>4
  <2>2. CASE v # u
    BY <2>2, <1>1, StoreFacts
  <2> QED
    BY <2>1, <2>2
<1>6. n = [v \in DOMAIN m |-> n[v]]
  BY DEF IsStore
<1>7. IsStore(n)
  BY <1>1, <1>5, <1>6 DEF IsStore
<1>8. \A v \in DOMAIN m : n[v].snaps = m[v].snaps /\ n[v].expired = m[v].expired /\ (m[v].gap => n[v].gap)
  BY <1>1, <1>3
<1> QED
  BY <1>1, <1>3, <1>7, <1>8 DEF SetGap

\* The note for background writers changes gaps only.
LEMMA NoteView ==
  ASSUME IsStore(ckpts), cur \in {0} \cup DOMAIN ckpts
  PROVE  LET n == NoteCrossTurnBackgroundWriter
         IN  /\ IsStore(n) /\ DOMAIN n = DOMAIN ckpts
             /\ \A u \in DOMAIN ckpts : /\ n[u].snaps = ckpts[u].snaps
                                        /\ n[u].expired = ckpts[u].expired
                                        /\ ckpts[u].gap => n[u].gap
<1> PICK n : n = NoteCrossTurnBackgroundWriter
  OBVIOUS
<1>1. CASE n = ckpts
  BY <1>1
<1>2. CASE n = SetGap(ckpts, cur) /\ cur \in DOMAIN ckpts
  <2>1. cur \in DOMAIN ckpts
    BY <1>2
  <2>2. /\ IsStore(SetGap(ckpts, cur)) /\ DOMAIN SetGap(ckpts, cur) = DOMAIN ckpts
        /\ \A u \in DOMAIN ckpts : /\ SetGap(ckpts, cur)[u].snaps = ckpts[u].snaps
                                   /\ SetGap(ckpts, cur)[u].expired = ckpts[u].expired
                                   /\ ckpts[u].gap => SetGap(ckpts, cur)[u].gap
    BY <2>1, GapView
  <2> QED
    BY <1>2, <2>2
<1>3. n = ckpts \/ (n = SetGap(ckpts, cur) /\ cur \in DOMAIN ckpts)
  BY DEF NoteCrossTurnBackgroundWriter, SetGap
<1> QED
  BY <1>1, <1>2, <1>3

\* Begin adds an empty checkpoint; others may get a gap or expire.
LEMMA BeginView ==
  ASSUME Types, NumbersAreFresh, Begin
  PROVE  /\ IsStore(ckpts') /\ DOMAIN ckpts' = DOMAIN ckpts \cup {turn} /\ turn \notin DOMAIN ckpts
         /\ DOMAIN ckpts'[turn].snaps = {}
         /\ \A u \in DOMAIN ckpts : /\ ckpts'[u].snaps = ckpts[u].snaps
                                    /\ ckpts[u].gap => ckpts'[u].gap
         /\ IsStore(saved') /\ Copies /\ faults' \in 0..MaxFaults
         /\ DOMAIN saved' \subseteq DOMAIN saved \cup DOMAIN ckpts'
         /\ \A u \in DOMAIN saved \cap DOMAIN ckpts :
               saved'[u] = ckpts'[u] \/ (saved'[u] = saved[u] /\ Payloads(ckpts'[u]) = Payloads(ckpts[u]))
         /\ blobs' \subseteq blobs
         /\ pinned \subseteq blobs => pinned \subseteq blobs'
         /\ PayloadsIn(ckpts, blobs) => PayloadsIn(ckpts', blobs')
<1> PICK noted : noted = NoteCrossTurnBackgroundWriter
  OBVIOUS
<1> PICK opened : opened = With(noted, turn, EmptyCheckpoint)
  OBVIOUS
<1>1. /\ IsStore(noted) /\ DOMAIN noted = DOMAIN ckpts
      /\ \A u \in DOMAIN ckpts : /\ noted[u].snaps = ckpts[u].snaps /\ noted[u].expired = ckpts[u].expired
                                 /\ ckpts[u].gap => noted[u].gap
  BY NoteView DEF Types
<1>2. turn \in Turns /\ turn \notin DOMAIN ckpts /\ turn \in Nat
  <2>1. turn \in Nat /\ turn <= MaxTurns /\ turn >= 1
    BY StoreAssumption DEF Types, Begin
  <2> QED
    BY <2>1, StoreAssumption DEF NumbersAreFresh, Turns
<1>3. EmptyCheckpoint \in Checkpoints /\ DOMAIN EmptyCheckpoint.snaps = {}
  BY EmptyIsTyped DEF EmptyCheckpoint, Checkpoints
<1>4. IsStore(opened) /\ DOMAIN opened = DOMAIN ckpts \cup {turn}
  BY <1>1, <1>2, <1>3 DEF With, IsStore
<1>5. opened[turn] = EmptyCheckpoint /\ \A u \in DOMAIN ckpts : opened[u] = noted[u]
  BY <1>1, <1>2 DEF With
<1>6. /\ DOMAIN opened[turn].snaps = {}
      /\ \A u \in DOMAIN ckpts : /\ opened[u].snaps = ckpts[u].snaps
                                 /\ opened[u].expired = ckpts[u].expired
                                 /\ ckpts[u].gap => opened[u].gap
  BY <1>1, <1>3, <1>5
<1>7. /\ \A u \in DOMAIN ckpts : Payloads(opened[u]) = Payloads(ckpts[u])
      /\ Payloads(opened[turn]) = {}
  <2>1. Payloads(opened[turn]) = {}
    <3>1. DOMAIN opened[turn].snaps = {}
      BY <1>6
    <3> QED
      BY <3>1 DEF Payloads, Existing
  <2>2. ASSUME NEW u \in DOMAIN ckpts PROVE Payloads(opened[u]) = Payloads(ckpts[u])
    BY <1>6, SamePayloads
  <2> QED
    BY <2>1, <2>2
<1>8. PayloadsIn(ckpts, blobs) => PayloadsIn(opened, blobs)
  BY <1>4, <1>7 DEF PayloadsIn
<1>9. PICK done : done = Collect(opened)
  OBVIOUS
<1>10. /\ Aged(opened, done.ckpts) /\ done.blobs \subseteq blobs
       /\ pinned \subseteq blobs => pinned \subseteq done.blobs
       /\ PayloadsIn(opened, blobs) => PayloadsIn(done.ckpts, done.blobs)
  BY <1>4, <1>9, CollectView
<1>11. CASE /\ ckpts' = done.ckpts /\ blobs' = done.blobs
            /\ saved' = Saving(ckpts', {turn} \cup { u \in DOMAIN ckpts : done.ckpts[u] # ckpts[u] })
            /\ UNCHANGED faults
  <2>1. IsStore(ckpts') /\ DOMAIN ckpts' = DOMAIN ckpts \cup {turn}
    BY <1>4, <1>10, <1>11 DEF Aged
  <2>2. /\ DOMAIN ckpts'[turn].snaps = {}
        /\ \A u \in DOMAIN ckpts : /\ ckpts'[u].snaps = ckpts[u].snaps
                                   /\ ckpts[u].gap => ckpts'[u].gap
    BY <1>4, <1>6, <1>10, <1>11 DEF Aged
  <2> DEFINE U == {turn} \cup { u \in DOMAIN ckpts : done.ckpts[u] # ckpts[u] }
  <2>3. /\ IsStore(saved') /\ DOMAIN saved' = DOMAIN saved \cup U
        /\ \A u \in U : saved'[u] = ckpts'[u]
        /\ \A u \in DOMAIN saved \ U : saved'[u] = saved[u]
    <3>1. U \subseteq DOMAIN ckpts'
      BY <2>1
    <3>2. saved' = Saving(ckpts', U) /\ IsStore(saved)
      BY <1>11 DEF Types
    <3> HIDE DEF U
    <3> PICK m : m = ckpts'
      OBVIOUS
    <3>3. IsStore(m) /\ U \subseteq DOMAIN m /\ saved' = Saving(m, U) /\ IsStore(saved)
      BY <2>1, <3>1, <3>2
    <3>4. /\ IsStore(Saving(m, U)) /\ DOMAIN Saving(m, U) = DOMAIN saved \cup U
          /\ \A u \in U : Saving(m, U)[u] = m[u]
          /\ \A u \in DOMAIN saved \ U : Saving(m, U)[u] = saved[u]
      BY <3>3 DEF Saving, IsStore
    <3> QED
      BY <3>3, <3>4
  <2>4. \A u \in DOMAIN ckpts \ U : ckpts'[u] = ckpts[u]
    BY <1>11
  <2>5. U \subseteq DOMAIN ckpts'
    BY <2>1
  <2> HIDE DEF U
  <2>6. Copies
    BY <2>3, <2>5 DEF Copies
  <2>7. ASSUME NEW u \in DOMAIN saved \cap DOMAIN ckpts
        PROVE  saved'[u] = ckpts'[u] \/ (saved'[u] = saved[u] /\ Payloads(ckpts'[u]) = Payloads(ckpts[u]))
    <3>1. CASE u \in U
      BY <2>3, <3>1
    <3>2. CASE u \notin U
      <4>1. saved'[u] = saved[u] /\ ckpts'[u] = ckpts[u]
        BY <2>3, <2>4, <3>2
      <4> QED
        BY <4>1
    <3> QED
      BY <3>1, <3>2
  <2>8. faults' \in 0..MaxFaults
    BY <1>11 DEF Types
  <2>9. PayloadsIn(ckpts, blobs) => PayloadsIn(ckpts', blobs')
    BY <1>8, <1>10, <1>11
  <2>10. blobs' \subseteq blobs /\ (pinned \subseteq blobs => pinned \subseteq blobs')
    BY <1>10, <1>11
  <2>11. DOMAIN saved' \subseteq DOMAIN saved \cup DOMAIN ckpts'
    BY <2>3, <2>5
  <2> QED
    BY <1>2, <2>1, <2>2, <2>3, <2>6, <2>7, <2>8, <2>9, <2>10, <2>11
<1>12. CASE /\ faults < MaxFaults /\ faults' = faults + 1
            /\ ckpts' = CollectNothing(opened).ckpts /\ blobs' = CollectNothing(opened).blobs
            /\ UNCHANGED saved
  <2>1. ckpts' = opened /\ (blobs' = blobs \/ blobs' = blobs \cap Live(opened))
    BY <1>12 DEF CollectNothing
  <2>2. blobs' \subseteq blobs /\ (pinned \subseteq blobs => pinned \subseteq blobs')
    BY <2>1 DEF Live
  <2>3. PayloadsIn(opened, blobs) => PayloadsIn(opened, blobs')
    BY <2>1 DEF PayloadsIn, Live
  <2>4. Copies /\ IsStore(saved') /\ DOMAIN saved' \subseteq DOMAIN saved \cup DOMAIN ckpts'
    BY <1>12 DEF Copies, Types
  <2>5. faults' \in 0..MaxFaults
    BY <1>12, StoreAssumption DEF Types
  <2>6. \A u \in DOMAIN saved \cap DOMAIN ckpts :
          saved'[u] = saved[u] /\ Payloads(ckpts'[u]) = Payloads(ckpts[u])
    BY <1>7, <1>12, <2>1
  <2> QED
    BY <1>2, <1>4, <1>6, <1>8, <2>1, <2>2, <2>3, <2>4, <2>5, <2>6
<1>13. \/ /\ ckpts' = done.ckpts /\ blobs' = done.blobs
          /\ saved' = Saving(ckpts', {turn} \cup { u \in DOMAIN ckpts : done.ckpts[u] # ckpts[u] })
          /\ UNCHANGED faults
       \/ /\ faults < MaxFaults /\ faults' = faults + 1
          /\ ckpts' = CollectNothing(opened).ckpts /\ blobs' = CollectNothing(opened).blobs
          /\ UNCHANGED saved
  BY <1>9, Zenon DEF Begin
<1> QED
  BY <1>11, <1>12, <1>13
\* The store m with the captures s in checkpoint u.
SetSnaps(m, u, s) == [m EXCEPT ![u].snaps = s]

\* Captures of one turn may change, and nothing else of the store.
LEMMA SnapsView ==
  ASSUME NEW m, IsStore(m), NEW u, u \in DOMAIN m, NEW s, s \in SnapMaps
  PROVE  /\ IsStore(SetSnaps(m, u, s)) /\ DOMAIN SetSnaps(m, u, s) = DOMAIN m
         /\ SetSnaps(m, u, s)[u].snaps = s /\ SetSnaps(m, u, s)[u].gap = m[u].gap
         /\ SetSnaps(m, u, s)[u].expired = m[u].expired
         /\ \A v \in DOMAIN m : v # u => SetSnaps(m, u, s)[v] = m[v]
<1> PICK n : n = [m EXCEPT ![u].snaps = s]
  OBVIOUS
<1>1. DOMAIN n = DOMAIN m /\ \A v \in DOMAIN m : v # u => n[v] = m[v]
  BY DEF IsStore
<1>2. m[u].gap \in BOOLEAN /\ m[u].expired \in BOOLEAN
  BY StoreFacts
<1>3. n[u] = [snaps |-> s, gap |-> m[u].gap, expired |-> m[u].expired]
  BY StoreFacts DEF IsStore, Checkpoints
<1>4. [snaps |-> s, gap |-> m[u].gap, expired |-> m[u].expired] \in Checkpoints
  BY <1>2 DEF Checkpoints
<1>5. ASSUME NEW v \in DOMAIN m PROVE n[v] \in Checkpoints
  <2>1. CASE v = u
    BY <2>1, <1>3, <1>4
  <2>2. CASE v # u
    BY <2>2, <1>1, StoreFacts
  <2> QED
    BY <2>1, <2>2
<1>6. n = [v \in DOMAIN m |-> n[v]]
  BY DEF IsStore
<1>7. IsStore(n)
  BY <1>1, <1>5, <1>6 DEF IsStore
<1> QED
  BY <1>1, <1>3, <1>7 DEF SetSnaps

\* One more capture: the others stay.
LEMMA WithView ==
  ASSUME NEW s, s \in SnapMaps, NEW f, f \in Files, NEW x, x \in Snaps
  PROVE  /\ With(s, f, x) \in SnapMaps /\ DOMAIN With(s, f, x) = DOMAIN s \cup {f}
         /\ With(s, f, x)[f] = x
         /\ \A g \in DOMAIN s : g # f => With(s, f, x)[g] = s[g]
<1> PICK w : w = With(s, f, x)
  OBVIOUS
<1>2. DOMAIN w = DOMAIN s \cup {f} /\ w[f] = x
  BY DEF With
<1>3. \A g \in DOMAIN s : g # f => w[g] = s[g]
  BY DEF With
<1>4. \A g \in DOMAIN w : w[g] \in Snaps
  BY <1>2, <1>3, SnapFacts
<1>5. DOMAIN w \subseteq Files
  BY <1>2, SnapFacts
<1>6. w \in [DOMAIN w -> Snaps]
  BY <1>4 DEF With
<1>7. w \in SnapMaps
  BY <1>5, <1>6 DEF SnapMaps
<1> QED
  BY <1>2, <1>3, <1>7

\* The first capture of a file in a turn is recorded in the current checkpoint.
LEMMA RecordView ==
  ASSUME Types, NEW c \in Callers, CaptureRecords(c)
  PROVE  /\ IsStore(ckpts') /\ DOMAIN ckpts' = DOMAIN ckpts
         /\ \A u \in DOMAIN ckpts : /\ ckpts'[u].gap = ckpts[u].gap
                                    /\ ckpts'[u].expired = ckpts[u].expired
                                    /\ u # cur => ckpts'[u] = ckpts[u]
         /\ \/ ckpts' = ckpts /\ saved' = saved /\ (cur # 0 => target[c] \in DOMAIN ckpts[cur].snaps)
            \/ /\ cur # 0 /\ cur \in DOMAIN ckpts /\ target[c] \notin DOMAIN ckpts[cur].snaps
               /\ DOMAIN ckpts'[cur].snaps = DOMAIN ckpts[cur].snaps \cup {target[c]}
               /\ ckpts'[cur].snaps[target[c]].pre = image[c]
               /\ ckpts'[cur].snaps[target[c]].after = Unknown
               /\ \A g \in DOMAIN ckpts[cur].snaps : ckpts'[cur].snaps[g] = ckpts[cur].snaps[g]
         /\ IsStore(saved') /\ Copies /\ faults' \in 0..MaxFaults
         /\ \A v \in DOMAIN saved' : v # cur => v \in DOMAIN saved /\ saved'[v] = saved[v]
         /\ cur = 0 => saved' = saved
<1>1. CASE ~(cur # 0 /\ target[c] \notin DOMAIN ckpts[cur].snaps)
  <2>1. ckpts' = ckpts /\ saved' = saved /\ faults' = faults
    BY <1>1 DEF CaptureRecords
  <2> QED
    BY <1>1, <2>1 DEF Types, Copies
<1>2. CASE cur # 0 /\ target[c] \notin DOMAIN ckpts[cur].snaps
  <2> PICK x : x = [pre |-> image[c], after |-> Unknown]
    OBVIOUS
  <2> DEFINE s == With(ckpts[cur].snaps, target[c], x)
  <2>1. cur \in DOMAIN ckpts /\ target[c] \in Files /\ image[c] \in Contents
    BY <1>2 DEF Types
  <2>2. ckpts' = SetSnaps(ckpts, cur, s) /\ Persist(cur)
    BY <1>2 DEF CaptureRecords, SetSnaps
  <2>3. IsStore(ckpts) /\ ckpts[cur].snaps \in SnapMaps
    BY <2>1, StoreFacts DEF Types
  <2>4. /\ s \in SnapMaps /\ DOMAIN s = DOMAIN ckpts[cur].snaps \cup {target[c]}
        /\ s[target[c]].pre = image[c] /\ s[target[c]].after = Unknown
        /\ \A g \in DOMAIN ckpts[cur].snaps : g # target[c] => s[g] = ckpts[cur].snaps[g]
    <3>1. x \in Snaps /\ x.pre = image[c] /\ x.after = Unknown
      BY <2>1 DEF Snaps
    <3>2. PICK k, f : k = ckpts[cur].snaps /\ f = target[c]
      OBVIOUS
    <3>3. k \in SnapMaps /\ f \in Files
      BY <2>1, <2>3, <3>2
    <3>4. /\ With(k, f, x) \in SnapMaps /\ DOMAIN With(k, f, x) = DOMAIN k \cup {f}
          /\ With(k, f, x)[f] = x
          /\ \A g \in DOMAIN k : g # f => With(k, f, x)[g] = k[g]
      BY <3>1, <3>3, WithView
    <3>5. s = With(k, f, x)
      BY <3>2
    <3> HIDE DEF s
    <3> QED
      BY <3>1, <3>2, <3>4, <3>5
  <2> HIDE DEF s
  <2>5. /\ IsStore(ckpts') /\ DOMAIN ckpts' = DOMAIN ckpts
        /\ ckpts'[cur].snaps = s /\ ckpts'[cur].gap = ckpts[cur].gap
        /\ ckpts'[cur].expired = ckpts[cur].expired
        /\ \A v \in DOMAIN ckpts : v # cur => ckpts'[v] = ckpts[v]
    BY <2>1, <2>2, <2>3, <2>4, SnapsView
  <2>6. /\ IsStore(saved') /\ faults' \in 0..MaxFaults /\ Copies
        /\ \A v \in DOMAIN saved' : v # cur => v \in DOMAIN saved /\ saved'[v] = saved[v]
    BY <2>1, <2>2, <2>5, PersistView DEF Types
  <2> QED
    BY <1>2, <2>1, <2>4, <2>5, <2>6
<1> QED
  BY <1>1, <1>2

\* The turns that captured a file.
LEMMA OwnersView ==
  ASSUME Types, NEW f \in Files, NEW t \in Nat, TurnsWith(f, t) # {}
  PROVE  /\ Max(TurnsWith(f, t)) \in TurnsWith(f, t)
         /\ \A u \in TurnsWith(f, t) : u <= Max(TurnsWith(f, t))
         /\ Min(TurnsWith(f, t)) \in TurnsWith(f, t)
         /\ \A u \in TurnsWith(f, t) : Min(TurnsWith(f, t)) <= u
<1>1. TurnsWith(f, t) \subseteq 0 .. MaxTurns /\ MaxTurns \in Nat
  BY StoreAssumption DEF TurnsWith, From, Types, IsStore, Turns
<1>2. TurnsWith(f, t) \in SUBSET (0 .. MaxTurns) /\ TurnsWith(f, t) \in SUBSET Nat
  BY <1>1
<1> HIDE DEF TurnsWith
<1> QED
  BY <1>1, <1>2, MaxIsGreatest, MinIsLeast

LEMMA HasTurns ==
  ASSUME Types, NEW f, NEW t \in Nat, NEW u
  PROVE  u \in TurnsWith(f, t) <=> u \in DOMAIN ckpts /\ u >= t /\ f \in DOMAIN ckpts[u].snaps
BY DEF TurnsWith, From

\* The content found after a call is recorded with the newest capture of the file.
LEMMA AfterView ==
  ASSUME Types, NEW c \in Callers, CaptureAfter(c), NEW f, f = target[c]
  PROVE  /\ IsStore(ckpts') /\ DOMAIN ckpts' = DOMAIN ckpts
         /\ \A u \in DOMAIN ckpts : /\ ckpts'[u].gap = ckpts[u].gap
                                    /\ ckpts'[u].expired = ckpts[u].expired
                                    /\ DOMAIN ckpts'[u].snaps = DOMAIN ckpts[u].snaps
         /\ \A u \in DOMAIN ckpts : \A g \in DOMAIN ckpts[u].snaps :
               /\ ckpts'[u].snaps[g].pre = ckpts[u].snaps[g].pre
               /\ \/ ckpts'[u].snaps[g].after = ckpts[u].snaps[g].after
                  \/ g = f /\ ckpts'[u].snaps[g].after = disk[f]
         /\ \A u \in DOMAIN ckpts :
               /\ f \in DOMAIN ckpts[u].snaps
               /\ \A v \in DOMAIN ckpts : f \in DOMAIN ckpts[v].snaps => v <= u
               => ckpts'[u].snaps[f].after = disk[f]
         /\ IsStore(saved') /\ Copies /\ faults' \in 0..MaxFaults
         /\ DOMAIN saved' \subseteq DOMAIN saved \cup DOMAIN ckpts'
<1>1. f \in Files /\ disk[f] \in Contents /\ IsStore(ckpts) /\ IsStore(saved)
  BY DEF Types
<1>2. CASE TurnsWith(f, 0) = {}
  <2>1. ckpts' = ckpts /\ saved' = saved /\ faults' = faults
    BY <1>2 DEF CaptureAfter
  <2>2. \A u \in DOMAIN ckpts : f \notin DOMAIN ckpts[u].snaps
    BY <1>1, <1>2, StoreFacts DEF TurnsWith, From
  <2> QED
    BY <1>1, <2>1, <2>2 DEF Types, Copies
<1>3. CASE TurnsWith(f, 0) # {}
  <2> PICK u : u = Max(TurnsWith(f, 0))
    OBVIOUS
  <2>1. u \in DOMAIN ckpts /\ f \in DOMAIN ckpts[u].snaps /\ u \in Nat
    BY <1>1, <1>3, OwnersView, StoreFacts DEF TurnsWith, From
  <2>2. \A v \in DOMAIN ckpts : f \in DOMAIN ckpts[v].snaps => v <= u
    BY <1>1, <1>3, OwnersView, HasTurns, StoreFacts
  <2> PICK s : s = ckpts[u].snaps
    OBVIOUS
  <2> DEFINE w == [s EXCEPT ![f].after = disk[f]]
  <2>3. s \in SnapMaps
    BY <1>1, <2>1, StoreFacts
  <2>4. /\ DOMAIN w = DOMAIN s /\ w[f].pre = s[f].pre /\ w[f].after = disk[f]
        /\ \A g \in DOMAIN s : g # f => w[g] = s[g]
    BY <2>1, <2>3 DEF SnapMaps, Snaps
  <2>5. w \in SnapMaps
    BY <1>1, <2>1, <2>3 DEF SnapMaps, Snaps
  <2>6. ckpts' = SetSnaps(ckpts, u, w) /\ Persist(u)
    BY <1>3 DEF CaptureAfter, SetSnaps
  <2> HIDE DEF w
  <2>7. /\ IsStore(ckpts') /\ DOMAIN ckpts' = DOMAIN ckpts
        /\ ckpts'[u].snaps = w /\ ckpts'[u].gap = ckpts[u].gap
        /\ ckpts'[u].expired = ckpts[u].expired
        /\ \A v \in DOMAIN ckpts : v # u => ckpts'[v] = ckpts[v]
    BY <1>1, <2>1, <2>5, <2>6, SnapsView
  <2>8. /\ IsStore(saved') /\ faults' \in 0..MaxFaults /\ Copies
        /\ \A v \in DOMAIN saved' : v # u => v \in DOMAIN saved /\ saved'[v] = saved[v]
    BY <2>1, <2>6, <2>7, PersistView DEF Types
  <2>9. ASSUME NEW v \in DOMAIN ckpts
        PROVE  /\ ckpts'[v].gap = ckpts[v].gap /\ ckpts'[v].expired = ckpts[v].expired
               /\ DOMAIN ckpts'[v].snaps = DOMAIN ckpts[v].snaps
               /\ \A g \in DOMAIN ckpts[v].snaps :
                    /\ ckpts'[v].snaps[g].pre = ckpts[v].snaps[g].pre
                    /\ \/ ckpts'[v].snaps[g].after = ckpts[v].snaps[g].after
                       \/ g = f /\ ckpts'[v].snaps[g].after = disk[f]
    BY <2>1, <2>4, <2>7
  <2>10. ASSUME NEW v \in DOMAIN ckpts, f \in DOMAIN ckpts[v].snaps,
               \A x \in DOMAIN ckpts : f \in DOMAIN ckpts[x].snaps => x <= v
         PROVE ckpts'[v].snaps[f].after = disk[f]
    <3>1. v \in Nat /\ u <= v /\ v <= u
      BY <1>1, <2>1, <2>2, <2>10, StoreFacts
    <3> QED
      BY <2>1, <2>4, <2>7, <3>1
  <2>11. DOMAIN saved' \subseteq DOMAIN saved \cup DOMAIN ckpts'
    BY <2>1, <2>7, <2>8
  <2> QED
    BY <2>7, <2>8, <2>9, <2>10, <2>11
<1> QED
  BY <1>2, <1>3
\* A shell command leaves a gap in the current checkpoint.
LEMMA BashView ==
  ASSUME Types, NEW c \in Callers, BashStarts(c)
  PROVE  /\ IsStore(ckpts') /\ DOMAIN ckpts' = DOMAIN ckpts
         /\ \A u \in DOMAIN ckpts : /\ ckpts'[u].snaps = ckpts[u].snaps
                                    /\ ckpts'[u].expired = ckpts[u].expired
                                    /\ ckpts[u].gap => ckpts'[u].gap
         /\ cur # 0 => ckpts'[cur].gap = TRUE
         /\ IsStore(saved') /\ Copies /\ faults' \in 0..MaxFaults
         /\ DOMAIN saved' \subseteq DOMAIN saved \cup DOMAIN ckpts'
<1>1. IsStore(ckpts) /\ IsStore(saved) /\ (cur # 0 => cur \in DOMAIN ckpts)
  BY DEF Types
<1>2. /\ IsStore(ckpts') /\ DOMAIN ckpts' = DOMAIN ckpts
      /\ \A u \in DOMAIN ckpts : /\ ckpts'[u].snaps = ckpts[u].snaps
                                 /\ ckpts'[u].expired = ckpts[u].expired
                                 /\ ckpts[u].gap => ckpts'[u].gap
      /\ cur # 0 => ckpts'[cur].gap = TRUE
  <2>1. CASE cur # 0
    <3>1. ckpts' = SetGap(ckpts, cur)
      BY <2>1 DEF BashStarts, SetGap
    <3> QED
      BY <1>1, <2>1, <3>1, GapView, ZenonT(60)
  <2>2. CASE cur = 0
    BY <1>1, <2>2 DEF BashStarts
  <2> QED
    BY <2>1, <2>2
<1>3. CASE cur # 0 /\ Persist(cur)
  <2>1. cur \in DOMAIN ckpts'
    BY <1>1, <1>2, <1>3
  <2>2. /\ IsStore(saved') /\ faults' \in 0..MaxFaults /\ Copies
        /\ \A v \in DOMAIN saved' : v # cur => v \in DOMAIN saved /\ saved'[v] = saved[v]
    BY <1>1, <1>2, <1>3, <2>1, PersistView DEF Types
  <2> QED
    BY <1>2, <2>1, <2>2
<1>4. CASE ckpts' = ckpts /\ UNCHANGED << saved, faults >>
  <2>1. saved' = saved /\ faults' = faults
    BY <1>4
  <2> QED
    BY <1>1, <1>2, <2>1 DEF Types, Copies
<1> QED
  BY <1>3, <1>4 DEF BashStarts

\* Truncation keeps the turns before t as they are.
LEMMA TruncateView ==
  ASSUME Types, NEW t \in Turns, TruncateFrom(t)
  PROVE  /\ IsStore(ckpts') /\ DOMAIN ckpts' = { u \in DOMAIN ckpts : u < t }
         /\ \A u \in DOMAIN ckpts' : ckpts'[u] = ckpts[u]
         /\ IsStore(saved') /\ DOMAIN saved' = { u \in DOMAIN saved : u < t } /\ Copies
         /\ \A u \in DOMAIN saved' : saved'[u] = saved[u]
         /\ faults' = faults /\ turn' = t
         /\ cur' = 0 \/ (cur' = cur /\ cur \in DOMAIN ckpts')
         /\ before' \subseteq before /\ untracked' \subseteq untracked
BY StoreAssumption DEF Types, TruncateFrom, IsStore, Copies, Turns

\* The files come back as they were captured first.
LEMMA RevisionView ==
  ASSUME Types, NEW t \in Nat, NEW f \in FilesFrom(t)
  PROVE  /\ f \in Files
         /\ EarliestRevision(f, t).pre \in Contents
         /\ EarliestRevision(f, t).after \in Contents \cup {Unknown}
         /\ \E u \in TurnsWith(f, t) :
               /\ \A v \in TurnsWith(f, t) : v <= u
               /\ EarliestRevision(f, t).after = ckpts[u].snaps[f].after
         /\ \E u \in TurnsWith(f, t) :
               /\ \A v \in TurnsWith(f, t) : u <= v
               /\ EarliestRevision(f, t).pre = ckpts[u].snaps[f].pre
<1>1. f \in Files /\ TurnsWith(f, t) # {}
  BY DEF FilesFrom
<1> PICK lo, hi : lo = Min(TurnsWith(f, t)) /\ hi = Max(TurnsWith(f, t))
  OBVIOUS
<1>2. /\ lo \in TurnsWith(f, t) /\ \A v \in TurnsWith(f, t) : lo <= v
      /\ hi \in TurnsWith(f, t) /\ \A v \in TurnsWith(f, t) : v <= hi
  BY <1>1, OwnersView
<1>3. EarliestRevision(f, t).pre = ckpts[lo].snaps[f].pre
  BY DEF EarliestRevision
<1>4. EarliestRevision(f, t).after = ckpts[hi].snaps[f].after
  BY DEF EarliestRevision
<1>5. /\ lo \in DOMAIN ckpts /\ f \in DOMAIN ckpts[lo].snaps
      /\ hi \in DOMAIN ckpts /\ f \in DOMAIN ckpts[hi].snaps
  BY <1>2, HasTurns
<1>6. ckpts[lo].snaps \in SnapMaps /\ ckpts[hi].snaps \in SnapMaps
  BY <1>5, StoreFacts DEF Types
<1>7. ckpts[lo].snaps[f].pre \in Contents /\ ckpts[hi].snaps[f].after \in Contents \cup {Unknown}
  BY <1>5, <1>6, SnapFacts
<1> QED
  BY <1>1, <1>2, <1>3, <1>4, <1>7

\* A rewind of files changes what it restores, and forgets what the user did to it.
LEMMA RestoreView ==
  ASSUME Types, NEW t \in Turns, RestoreFiles(t)
  PROVE  /\ disk' \in [Files -> Contents]
         /\ \A f \in Files : /\ f \in FilesFrom(t) => f \notin edited'
                             /\ f \notin FilesFrom(t) => disk'[f] = disk[f]
         /\ blobs' \subseteq Contents /\ pinned' \subseteq Contents
         /\ blobs \subseteq blobs' /\ (pinned \subseteq blobs => pinned' \subseteq blobs')
         /\ edited' \subseteq edited
<1>1. t \in Nat
  BY StoreAssumption DEF Turns
<1>2. PayloadsOf(t) \subseteq Contents
  BY <1>1, RevisionView DEF PayloadsOf, Existing
<1>3. Existing({ disk[f] : f \in FilesFrom(t) }) \subseteq Contents
  BY DEF Types, Existing, FilesFrom
<1>4. PICK both : /\ both \subseteq Contents
                  /\ pinned' = pinned \cup both /\ blobs' = blobs \cup both
  BY <1>2, <1>3 DEF RestoreFiles
<1>5. ASSUME NEW f \in Files PROVE Restored(t)[f] \in Contents
  BY <1>1, <1>5, RevisionView DEF Restored, Types
<1>6. disk' = Restored(t) /\ edited' = edited \ FilesFrom(t)
  BY DEF RestoreFiles
<1>7. disk' \in [Files -> Contents]
  BY <1>5, <1>6 DEF Restored
<1>8. \A f \in Files : f \notin FilesFrom(t) => disk'[f] = disk[f]
  BY <1>6 DEF Restored
<1> QED
  BY <1>4, <1>6, <1>7, <1>8 DEF Types

-----------------------------------------------------------------------------
(* Types, calls within turns, fresh numbers. *)

LEMMA NextContent ==
  ASSUME Types, writes < MaxWrites \/ edits < MaxEdits
  PROVE  /\ NewContent \in Contents /\ NewContent # Absent /\ NewContent \in Nat /\ NewContent < Unknown
         /\ writes < MaxWrites => writes + 1 \in 0..MaxWrites
         /\ edits < MaxEdits => edits + 1 \in 0..MaxEdits
BY StoreAssumption DEF Types, NewContent, Contents, Absent, Unknown

\* Types and numbers, action by action.
LEMMA Initial == Init => Numbers
<1> SUFFICES ASSUME Init PROVE Numbers
  OBVIOUS
<1>1. IsStore(<< >>)
  <2>1. << >> \in [{} -> Checkpoints] /\ DOMAIN << >> = {}
    OBVIOUS
  <2> QED
    BY <2>1 DEF IsStore
<1>2. 1 \in Contents /\ Absent \in Contents /\ 1 \in 1..(MaxTurns + 1)
  BY StoreAssumption DEF Contents, Absent
<1>3. Types
  <2>1. disk \in [Files -> Contents] /\ IsStore(ckpts) /\ IsStore(saved) /\ cur = 0
    BY <1>1, <1>2 DEF Init
  <2>2. /\ blobs \subseteq Contents /\ pinned \subseteq Contents
        /\ before \subseteq Turns \X Files \X Contents
        /\ untracked \subseteq Turns /\ edited \subseteq Files
    BY DEF Init
  <2>3. /\ step \in [Callers -> {"idle", "read", "captured", "called", "bash"}]
        /\ target \in [Callers -> Files] /\ image \in [Callers -> Contents]
    BY <1>2 DEF Init
  <2>4. spawned \in [Background -> 0..MaxTurns]
    BY StoreAssumption DEF Init
  <2>5. /\ writes \in 0..MaxWrites /\ edits \in 0..MaxEdits
        /\ faults \in 0..MaxFaults /\ crashes \in 0..MaxCrashes
        /\ turn \in 1..(MaxTurns + 1)
    BY <1>2, StoreAssumption DEF Init
  <2>6. running \in BOOLEAN
    BY DEF Init
  <2> QED
    BY <2>1, <2>2, <2>3, <2>4, <2>5, <2>6 DEF Types
<1>4. Sessions
  BY DEF Init, Sessions, InTurn
<1>5. NumbersAreFresh
  BY EmptyIsTyped DEF Init, NumbersAreFresh
<1> QED
  BY <1>3, <1>4, <1>5 DEF Numbers
LEMMA BeginNumbers == ASSUME Numbers, Begin PROVE Numbers'
<1> USE DEF Numbers
<1>1. /\ IsStore(ckpts') /\ DOMAIN ckpts' = DOMAIN ckpts \cup {turn}
      /\ IsStore(saved') /\ DOMAIN saved' \subseteq DOMAIN saved \cup DOMAIN ckpts'
      /\ blobs' \subseteq blobs /\ faults' \in 0..MaxFaults
  BY BeginView
<1>2. /\ cur' = turn /\ turn' = turn + 1 /\ running' = TRUE /\ turn <= MaxTurns
      /\ disk' = disk /\ pinned' = pinned /\ step' = step /\ target' = target /\ image' = image
      /\ spawned' = spawned /\ before' = before /\ untracked' = untracked /\ edited' = edited
      /\ writes' = writes /\ edits' = edits /\ crashes' = crashes
  BY DEF Begin, callVars, history, counters
<1>3. turn \in Nat \ {0} /\ turn' \in 1..(MaxTurns + 1)
  BY <1>2, StoreAssumption DEF Types
<1>4. Types'
  BY <1>1, <1>2, <1>3 DEF Types
<1>5. Sessions'
  BY <1>2, <1>3 DEF Sessions, InTurn
<1>6. NumbersAreFresh'
  <2>1. ASSUME NEW u \in DOMAIN ckpts' \cup DOMAIN saved' PROVE u < turn'
    <3>1. u = turn \/ u \in DOMAIN ckpts \cup DOMAIN saved
      BY <1>1
    <3>2. u \in Nat
      BY <1>1, StoreFacts, <2>1 DEF IsStore, Turns
    <3>3. u = turn \/ u < turn
      BY <3>1 DEF NumbersAreFresh
    <3> QED
      BY <1>2, <1>3, <3>2, <3>3
  <2> QED
    BY <2>1 DEF NumbersAreFresh
<1> QED
  BY <1>4, <1>5, <1>6

\* The steps of turns and calls that leave the checkpoints alone.
LEMMA EndTurnNumbers == ASSUME Numbers, EndTurn PROVE Numbers'
<1>1. /\ running' = FALSE /\ ForegroundIdle
      /\ ckpts' = ckpts /\ cur' = cur /\ saved' = saved /\ faults' = faults
      /\ blobs' = blobs /\ pinned' = pinned /\ turn' = turn
      /\ disk' = disk /\ step' = step /\ target' = target /\ image' = image
      /\ spawned' = spawned /\ before' = before /\ untracked' = untracked /\ edited' = edited
      /\ writes' = writes /\ edits' = edits /\ crashes' = crashes
  BY DEF EndTurn, storeVars, blobVars, callVars, history, counters
<1>2. Types'
  BY <1>1 DEF Numbers, Types
<1>3. Sessions'
  BY <1>1 DEF Numbers, Sessions, InTurn, ForegroundIdle
<1>4. NumbersAreFresh'
  BY <1>1 DEF Numbers, NumbersAreFresh
<1> QED
  BY <1>2, <1>3, <1>4 DEF Numbers

LEMMA SpawnNumbers == ASSUME Numbers, NEW b \in Background, Spawn(b) PROVE Numbers'
<1>1. /\ running /\ spawned' = [spawned EXCEPT ![b] = cur]
      /\ ckpts' = ckpts /\ cur' = cur /\ saved' = saved /\ faults' = faults
      /\ blobs' = blobs /\ pinned' = pinned /\ turn' = turn
      /\ disk' = disk /\ step' = step /\ target' = target /\ image' = image
      /\ running' = running /\ before' = before /\ untracked' = untracked /\ edited' = edited
      /\ writes' = writes /\ edits' = edits /\ crashes' = crashes
  BY DEF Spawn, storeVars, blobVars, callVars, history, counters
<1>2. cur \in 1..MaxTurns
  BY <1>1 DEF Numbers, Types, Sessions, IsStore, Turns
<1>3. spawned' \in [Background -> 0..MaxTurns]
  BY <1>1, <1>2, StoreAssumption DEF Numbers, Types
<1>4. Types'
  BY <1>1, <1>3 DEF Numbers, Types
<1>5. \A d \in Background : spawned[d] # 0 => spawned'[d] # 0
  BY <1>1, <1>2 DEF Numbers, Types
<1>6. Sessions'
  <2>1. \A c \in Callers : step[c] # "idle" => InTurn(c)'
    <3> SUFFICES ASSUME NEW c \in Callers, step[c] # "idle" PROVE InTurn(c)'
      OBVIOUS
    <3>1. InTurn(c)
      BY DEF Numbers, Sessions
    <3> QED
      BY <1>1, <1>5, <3>1 DEF InTurn, Callers
  <2> QED
    BY <1>1, <2>1 DEF Numbers, Sessions
<1>7. NumbersAreFresh'
  BY <1>1 DEF Numbers, NumbersAreFresh
<1> QED
  BY <1>4, <1>6, <1>7 DEF Numbers

LEMMA FinishNumbers == ASSUME Numbers, NEW b \in Background, Finish(b) PROVE Numbers'
<1>1. /\ step[b] = "idle" /\ spawned' = [spawned EXCEPT ![b] = 0]
      /\ ckpts' = ckpts /\ cur' = cur /\ saved' = saved /\ faults' = faults
      /\ blobs' = blobs /\ pinned' = pinned /\ turn' = turn
      /\ disk' = disk /\ step' = step /\ target' = target /\ image' = image
      /\ running' = running /\ before' = before /\ untracked' = untracked /\ edited' = edited
      /\ writes' = writes /\ edits' = edits /\ crashes' = crashes
  BY DEF Finish, storeVars, blobVars, callVars, history, counters
<1>2. spawned' \in [Background -> 0..MaxTurns]
  BY <1>1, StoreAssumption DEF Numbers, Types
<1>3. Types'
  BY <1>1, <1>2 DEF Numbers, Types
<1>4. \A d \in Background : (d # b => spawned'[d] = spawned[d]) /\ (d = b => spawned'[d] = 0)
  BY <1>1 DEF Numbers, Types
<1>5. Sessions'
  <2>1. \A c \in Callers : step[c] # "idle" => InTurn(c)'
    <3> SUFFICES ASSUME NEW c \in Callers, step[c] # "idle" PROVE InTurn(c)'
      OBVIOUS
    <3>1. InTurn(c) /\ c # b
      BY <1>1 DEF Numbers, Sessions
    <3> QED
      BY <1>1, <1>4, <3>1 DEF InTurn, Callers
  <2> QED
    BY <1>1, <1>4, <2>1 DEF Numbers, Sessions
<1>6. NumbersAreFresh'
  BY <1>1 DEF Numbers, NumbersAreFresh
<1> QED
  BY <1>3, <1>5, <1>6 DEF Numbers
\* A caller that takes a step within its turn.
LEMMA CallSessions ==
  ASSUME Numbers, NEW c \in Callers, NEW s, step' = [step EXCEPT ![c] = s], InTurn(c),
         UNCHANGED << cur, running, spawned >>
  PROVE  Sessions'
<1>1. cur' = cur /\ running' = running /\ spawned' = spawned
  OBVIOUS
<1>2. \A d \in Callers : d # c => step'[d] = step[d]
  BY DEF Numbers, Types
<1>3. \A d \in Callers : step'[d] # "idle" => InTurn(d)
  BY <1>2 DEF Numbers, Sessions
<1> QED
  BY <1>1, <1>3 DEF Numbers, Sessions, InTurn

LEMMA ReadsNumbers ==
  ASSUME Numbers, NEW c \in Callers, NEW f \in Files, CaptureReads(c, f) PROVE Numbers'
<1>1. /\ step' = [step EXCEPT ![c] = "read"] /\ InTurn(c)
      /\ target' = [target EXCEPT ![c] = f] /\ image' = [image EXCEPT ![c] = disk[f]]
      /\ blobs' = blobs \cup Existing({disk[f]})
      /\ ckpts' = ckpts /\ cur' = cur /\ saved' = saved /\ faults' = faults
      /\ pinned' = pinned /\ turn' = turn /\ disk' = disk /\ spawned' = spawned
      /\ running' = running /\ before' = before /\ untracked' = untracked /\ edited' = edited
      /\ writes' = writes /\ edits' = edits /\ crashes' = crashes
  BY DEF CaptureReads, MayCall, storeVars, history, counters
<1>2. disk[f] \in Contents
  BY DEF Numbers, Types
<1>3. /\ step' \in [Callers -> {"idle", "read", "captured", "called", "bash"}]
      /\ target' \in [Callers -> Files] /\ image' \in [Callers -> Contents]
  BY <1>1, <1>2 DEF Numbers, Types
<1>4. blobs' \subseteq Contents
  BY <1>1, <1>2 DEF Numbers, Types, Existing
<1>5. Types'
  BY <1>1, <1>3, <1>4 DEF Numbers, Types
<1>6. Sessions'
  BY <1>1, CallSessions
<1>7. NumbersAreFresh'
  BY <1>1 DEF Numbers, NumbersAreFresh
<1> QED
  BY <1>5, <1>6, <1>7 DEF Numbers

LEMMA RecordNumbers == ASSUME Numbers, NEW c \in Callers, CaptureRecords(c) PROVE Numbers'
<1>1. /\ step[c] = "read" /\ step' = [step EXCEPT ![c] = "captured"]
      /\ cur' = cur /\ blobs' = blobs /\ pinned' = pinned /\ turn' = turn /\ disk' = disk
      /\ target' = target /\ image' = image /\ spawned' = spawned
      /\ running' = running /\ before' = before /\ untracked' = untracked /\ edited' = edited
      /\ writes' = writes /\ edits' = edits /\ crashes' = crashes
  BY DEF CaptureRecords, blobVars, history, counters
<1>2. /\ IsStore(ckpts') /\ DOMAIN ckpts' = DOMAIN ckpts /\ IsStore(saved') /\ faults' \in 0..MaxFaults
      /\ Copies
  BY RecordView DEF Numbers
<1>3. step' \in [Callers -> {"idle", "read", "captured", "called", "bash"}]
  BY <1>1 DEF Numbers, Types
<1>4. Types'
  BY <1>1, <1>2, <1>3 DEF Numbers, Types
<1>5. Sessions'
  <2>1. InTurn(c)
    BY <1>1 DEF Numbers, Sessions
  <2> QED
    BY <1>1, <2>1, CallSessions
<1>6. NumbersAreFresh'
  BY <1>1, <1>2 DEF Numbers, NumbersAreFresh, Copies
<1> QED
  BY <1>4, <1>5, <1>6 DEF Numbers

LEMMA AttemptView ==
  ASSUME Numbers, NEW f \in Files, NEW c \in Callers, step[c] # "idle", Attempt(f)
  PROVE  before' \subseteq Turns \X Files \X Contents
<1>1. cur # 0 /\ cur \in Turns
  <2>1. InTurn(c)
    BY DEF Numbers, Sessions
  <2>2. cur # 0
    BY <2>1 DEF Numbers, Sessions, InTurn, Callers
  <2> QED
    BY <2>2 DEF Numbers, Types, IsStore
<1>2. disk[f] \in Contents
  BY DEF Numbers, Types
<1>3. before' = before \/ before' = before \cup {<< cur, f, disk[f] >>}
  BY DEF Attempt
<1>4. << cur, f, disk[f] >> \in Turns \X Files \X Contents
  BY <1>1, <1>2
<1> QED
  BY <1>3, <1>4 DEF Numbers, Types

LEMMA ToolWritesNumbers == ASSUME Numbers, NEW c \in Callers, ToolWrites(c) PROVE Numbers'
<1>1. /\ step[c] = "captured" /\ step' = [step EXCEPT ![c] = "called"] /\ writes < MaxWrites
      /\ disk' = [disk EXCEPT ![target[c]] = NewContent] /\ writes' = writes + 1
      /\ Attempt(target[c])
      /\ ckpts' = ckpts /\ cur' = cur /\ saved' = saved /\ faults' = faults
      /\ blobs' = blobs /\ pinned' = pinned /\ turn' = turn
      /\ target' = target /\ image' = image /\ spawned' = spawned
      /\ running' = running /\ untracked' = untracked /\ edited' = edited
      /\ edits' = edits /\ crashes' = crashes
  BY DEF ToolWrites, storeVars, blobVars
<1>2. NewContent \in Contents /\ writes' \in 0..MaxWrites
  BY <1>1, NextContent DEF Numbers
<1>3. disk' \in [Files -> Contents]
  BY <1>1, <1>2 DEF Numbers, Types
<1>4. step' \in [Callers -> {"idle", "read", "captured", "called", "bash"}]
  BY <1>1 DEF Numbers, Types
<1>5. before' \subseteq Turns \X Files \X Contents
  <2>1. target[c] \in Files /\ step[c] # "idle"
    BY <1>1 DEF Numbers, Types
  <2> QED
    BY <1>1, <2>1, AttemptView
<1>6. Types'
  BY <1>1, <1>2, <1>3, <1>4, <1>5 DEF Numbers, Types
<1>7. Sessions'
  <2>1. InTurn(c)
    BY <1>1 DEF Numbers, Sessions
  <2> QED
    BY <1>1, <2>1, CallSessions
<1>8. NumbersAreFresh'
  BY <1>1 DEF Numbers, NumbersAreFresh
<1> QED
  BY <1>6, <1>7, <1>8 DEF Numbers

LEMMA ToolFailsNumbers == ASSUME Numbers, NEW c \in Callers, ToolFails(c) PROVE Numbers'
<1>1. /\ step[c] = "captured" /\ step' = [step EXCEPT ![c] = "called"]
      /\ Attempt(target[c])
      /\ ckpts' = ckpts /\ cur' = cur /\ saved' = saved /\ faults' = faults
      /\ blobs' = blobs /\ pinned' = pinned /\ turn' = turn /\ disk' = disk
      /\ target' = target /\ image' = image /\ spawned' = spawned
      /\ running' = running /\ untracked' = untracked /\ edited' = edited
      /\ writes' = writes /\ edits' = edits /\ crashes' = crashes
  BY DEF ToolFails, storeVars, blobVars, counters
<1>2. step' \in [Callers -> {"idle", "read", "captured", "called", "bash"}]
  BY <1>1 DEF Numbers, Types
<1>3. before' \subseteq Turns \X Files \X Contents
  <2>1. target[c] \in Files /\ step[c] # "idle"
    BY <1>1 DEF Numbers, Types
  <2> QED
    BY <1>1, <2>1, AttemptView
<1>4. Types'
  BY <1>1, <1>2, <1>3 DEF Numbers, Types
<1>5. Sessions'
  <2>1. InTurn(c)
    BY <1>1 DEF Numbers, Sessions
  <2> QED
    BY <1>1, <2>1, CallSessions
<1>6. NumbersAreFresh'
  BY <1>1 DEF Numbers, NumbersAreFresh
<1> QED
  BY <1>4, <1>5, <1>6 DEF Numbers

LEMMA AfterNumbers == ASSUME Numbers, NEW c \in Callers, CaptureAfter(c) PROVE Numbers'
<1>1. /\ step[c] = "called" /\ step' = [step EXCEPT ![c] = "idle"]
      /\ edited' = edited \ {target[c]}
      /\ cur' = cur /\ blobs' = blobs /\ pinned' = pinned /\ turn' = turn /\ disk' = disk
      /\ target' = target /\ image' = image /\ spawned' = spawned
      /\ running' = running /\ before' = before /\ untracked' = untracked
      /\ writes' = writes /\ edits' = edits /\ crashes' = crashes
  BY DEF CaptureAfter, blobVars, counters
<1>2. /\ IsStore(ckpts') /\ DOMAIN ckpts' = DOMAIN ckpts /\ IsStore(saved') /\ faults' \in 0..MaxFaults
      /\ DOMAIN saved' \subseteq DOMAIN saved \cup DOMAIN ckpts'
  BY AfterView DEF Numbers
<1>3. step' \in [Callers -> {"idle", "read", "captured", "called", "bash"}]
  BY <1>1 DEF Numbers, Types
<1>4. Types'
  BY <1>1, <1>2, <1>3 DEF Numbers, Types
<1>5. Sessions'
  <2>1. InTurn(c)
    BY <1>1 DEF Numbers, Sessions
  <2> QED
    BY <1>1, <2>1, CallSessions
<1>6. NumbersAreFresh'
  BY <1>1, <1>2 DEF Numbers, NumbersAreFresh
<1> QED
  BY <1>4, <1>5, <1>6 DEF Numbers

LEMMA BashStartsNumbers == ASSUME Numbers, NEW c \in Callers, BashStarts(c) PROVE Numbers'
<1>1. /\ InTurn(c) /\ step' = [step EXCEPT ![c] = "bash"]
      /\ cur' = cur /\ blobs' = blobs /\ pinned' = pinned /\ turn' = turn /\ disk' = disk
      /\ target' = target /\ image' = image /\ spawned' = spawned
      /\ running' = running /\ before' = before /\ untracked' = untracked /\ edited' = edited
      /\ writes' = writes /\ edits' = edits /\ crashes' = crashes
  BY DEF BashStarts, MayCall, blobVars, history, counters
<1>2. /\ IsStore(ckpts') /\ DOMAIN ckpts' = DOMAIN ckpts /\ IsStore(saved') /\ faults' \in 0..MaxFaults
      /\ DOMAIN saved' \subseteq DOMAIN saved \cup DOMAIN ckpts'
  BY BashView DEF Numbers
<1>3. step' \in [Callers -> {"idle", "read", "captured", "called", "bash"}]
  BY <1>1 DEF Numbers, Types
<1>4. Types'
  BY <1>1, <1>2, <1>3 DEF Numbers, Types
<1>5. Sessions'
  BY <1>1, CallSessions
<1>6. NumbersAreFresh'
  BY <1>1, <1>2 DEF Numbers, NumbersAreFresh
<1> QED
  BY <1>4, <1>5, <1>6 DEF Numbers

LEMMA BashWritesNumbers ==
  ASSUME Numbers, NEW c \in Callers, NEW f \in Files, BashWrites(c, f) PROVE Numbers'
<1>1. /\ step[c] = "bash" /\ writes < MaxWrites /\ disk' = [disk EXCEPT ![f] = NewContent]
      /\ writes' = writes + 1 /\ untracked' = untracked \cup {cur}
      /\ ckpts' = ckpts /\ cur' = cur /\ saved' = saved /\ faults' = faults
      /\ blobs' = blobs /\ pinned' = pinned /\ turn' = turn
      /\ step' = step /\ target' = target /\ image' = image /\ spawned' = spawned
      /\ running' = running /\ before' = before /\ edited' = edited
      /\ edits' = edits /\ crashes' = crashes
  BY DEF BashWrites, storeVars, blobVars, callVars
<1>2. NewContent \in Contents /\ writes' \in 0..MaxWrites
  BY <1>1, NextContent DEF Numbers
<1>3. disk' \in [Files -> Contents]
  BY <1>1, <1>2 DEF Numbers, Types
<1>4. untracked' \subseteq Turns
  <2>1. InTurn(c)
    BY <1>1 DEF Numbers, Sessions
  <2>2. cur # 0
    BY <2>1 DEF Numbers, Sessions, InTurn, Callers
  <2> QED
    BY <1>1, <2>2 DEF Numbers, Types, IsStore
<1>5. Types'
  BY <1>1, <1>2, <1>3, <1>4 DEF Numbers, Types
<1>6. Sessions'
  BY <1>1 DEF Numbers, Sessions, InTurn
<1>7. NumbersAreFresh'
  BY <1>1 DEF Numbers, NumbersAreFresh
<1> QED
  BY <1>5, <1>6, <1>7 DEF Numbers

LEMMA BashEndsNumbers == ASSUME Numbers, NEW c \in Callers, BashEnds(c) PROVE Numbers'
<1>1. /\ step[c] = "bash" /\ step' = [step EXCEPT ![c] = "idle"]
      /\ ckpts' = ckpts /\ cur' = cur /\ saved' = saved /\ faults' = faults
      /\ blobs' = blobs /\ pinned' = pinned /\ turn' = turn /\ disk' = disk
      /\ target' = target /\ image' = image /\ spawned' = spawned
      /\ running' = running /\ before' = before /\ untracked' = untracked /\ edited' = edited
      /\ writes' = writes /\ edits' = edits /\ crashes' = crashes
  BY DEF BashEnds, storeVars, blobVars, history, counters
<1>2. step' \in [Callers -> {"idle", "read", "captured", "called", "bash"}]
  BY <1>1 DEF Numbers, Types
<1>3. Types'
  BY <1>1, <1>2 DEF Numbers, Types
<1>4. Sessions'
  <2>1. InTurn(c)
    BY <1>1 DEF Numbers, Sessions
  <2> QED
    BY <1>1, <2>1, CallSessions
<1>5. NumbersAreFresh'
  BY <1>1 DEF Numbers, NumbersAreFresh
<1> QED
  BY <1>3, <1>4, <1>5 DEF Numbers
LEMMA QuietSessions ==
  ASSUME Quiet, UNCHANGED << running, step, spawned >>
  PROVE  Sessions'
<1>1. running' = running /\ step' = step /\ spawned' = spawned
  OBVIOUS
<1> QED
  BY <1>1 DEF Quiet, Sessions

LEMMA RewindCodeNumbers == ASSUME Numbers, NEW t \in Turns, RewindCode(t) PROVE Numbers'
<1>1. /\ Quiet /\ RestoreFiles(t)
      /\ ckpts' = ckpts /\ cur' = cur /\ saved' = saved /\ faults' = faults /\ turn' = turn
      /\ step' = step /\ target' = target /\ image' = image /\ spawned' = spawned
      /\ running' = running /\ before' = before /\ untracked' = untracked
      /\ writes' = writes /\ edits' = edits /\ crashes' = crashes
  BY DEF RewindCode, storeVars, callVars, counters
<1>2. /\ disk' \in [Files -> Contents] /\ blobs' \subseteq Contents /\ pinned' \subseteq Contents
      /\ edited' \subseteq edited
  BY <1>1, RestoreView DEF Numbers
<1>3. Types'
  BY <1>1, <1>2 DEF Numbers, Types
<1>4. Sessions'
  BY <1>1, QuietSessions
<1>5. NumbersAreFresh'
  BY <1>1 DEF Numbers, NumbersAreFresh
<1> QED
  BY <1>3, <1>4, <1>5 DEF Numbers

LEMMA TruncateNumbers ==
  ASSUME Numbers, NEW t \in Turns, TruncateFrom(t), Quiet,
         UNCHANGED << running, callVars, spawned, counters >>,
         disk' \in [Files -> Contents], blobs' \subseteq Contents, pinned' \subseteq Contents,
         edited' \subseteq edited
  PROVE  Numbers'
<1>1. /\ step' = step /\ target' = target /\ image' = image /\ spawned' = spawned
      /\ running' = running /\ writes' = writes /\ edits' = edits /\ crashes' = crashes
  BY DEF callVars, counters
<1>2. /\ IsStore(ckpts') /\ DOMAIN ckpts' = { u \in DOMAIN ckpts : u < t }
      /\ IsStore(saved') /\ DOMAIN saved' = { u \in DOMAIN saved : u < t }
      /\ faults' = faults /\ turn' = t
      /\ cur' = 0 \/ (cur' = cur /\ cur \in DOMAIN ckpts')
      /\ before' \subseteq before /\ untracked' \subseteq untracked
  BY TruncateView DEF Numbers
<1>3. t \in 1..(MaxTurns + 1)
  BY StoreAssumption DEF Turns
<1>4. Types'
  BY <1>1, <1>2, <1>3 DEF Numbers, Types
<1>5. Sessions'
  BY <1>1, QuietSessions
<1>6. NumbersAreFresh'
  BY <1>2 DEF NumbersAreFresh
<1> QED
  BY <1>4, <1>5, <1>6 DEF Numbers

LEMMA RewindConversationNumbers ==
  ASSUME Numbers, NEW t \in Turns, RewindConversation(t) PROVE Numbers'
<1>1. /\ Quiet /\ TruncateFrom(t) /\ UNCHANGED << running, callVars, spawned, counters >>
      /\ disk' = disk /\ blobs' = blobs /\ pinned' = pinned /\ edited' = edited
  BY DEF RewindConversation, blobVars
<1> QED
  BY <1>1, TruncateNumbers DEF Numbers, Types

LEMMA RewindBothNumbers == ASSUME Numbers, NEW t \in Turns, RewindBoth(t) PROVE Numbers'
<1>1. /\ Quiet /\ TruncateFrom(t) /\ UNCHANGED << running, callVars, spawned, counters >>
  BY DEF RewindBoth
<1>2. /\ disk' \in [Files -> Contents] /\ blobs' \subseteq Contents /\ pinned' \subseteq Contents
      /\ edited' \subseteq edited
  <2>1. CASE UNCHANGED << disk, blobVars, edited >>
    BY <2>1 DEF Numbers, Types, blobVars
  <2>2. CASE RestoreFiles(t)
    BY <2>2, RestoreView DEF Numbers
  <2> QED
    BY <2>1, <2>2 DEF RewindBoth
<1> QED
  BY <1>1, <1>2, TruncateNumbers

LEMMA EditNumbers == ASSUME Numbers, NEW f \in Files, ManualEdit(f) PROVE Numbers'
<1>1. /\ edits < MaxEdits /\ disk' = [disk EXCEPT ![f] = NewContent]
      /\ edits' = edits + 1 /\ edited' = edited \cup {f}
      /\ ckpts' = ckpts /\ cur' = cur /\ saved' = saved /\ faults' = faults
      /\ blobs' = blobs /\ pinned' = pinned /\ turn' = turn
      /\ step' = step /\ target' = target /\ image' = image /\ spawned' = spawned
      /\ running' = running /\ before' = before /\ untracked' = untracked
      /\ writes' = writes /\ crashes' = crashes
  BY DEF ManualEdit, storeVars, blobVars, callVars
<1>2. NewContent \in Contents /\ edits' \in 0..MaxEdits
  BY <1>1, NextContent DEF Numbers
<1>3. disk' \in [Files -> Contents]
  BY <1>1, <1>2 DEF Numbers, Types
<1>4. Types'
  BY <1>1, <1>2, <1>3 DEF Numbers, Types
<1>5. Sessions'
  BY <1>1 DEF Numbers, Sessions, InTurn
<1>6. NumbersAreFresh'
  BY <1>1 DEF Numbers, NumbersAreFresh
<1> QED
  BY <1>4, <1>5, <1>6 DEF Numbers

LEMMA RestartNumbers == ASSUME Numbers, Restart PROVE Numbers'
<1>1. /\ crashes < MaxCrashes /\ crashes' = crashes + 1
      /\ ckpts' = saved /\ cur' = 0 /\ turn' = NextTurn(DOMAIN saved) /\ running' = FALSE
      /\ step' = [c \in Callers |-> "idle"] /\ spawned' = [b \in Background |-> 0]
      /\ disk' = disk /\ saved' = saved /\ blobs' = blobs /\ pinned' = pinned
      /\ target' = target /\ image' = image
      /\ before' = before /\ untracked' = untracked /\ edited' = edited
      /\ writes' = writes /\ edits' = edits /\ faults' = faults
  BY DEF Restart, blobVars, history
<1> PICK S, m : S = DOMAIN saved \cup {0} /\ m = Max(S)
  OBVIOUS
<1>2. S \in SUBSET (0 .. MaxTurns) /\ S # {} /\ MaxTurns \in Nat
  BY StoreAssumption DEF Numbers, Types, IsStore, Turns
<1>3. m \in S /\ \A u \in S : u <= m
  BY <1>2, MaxIsGreatest
<1>4. turn' = m + 1
  BY <1>1 DEF NextTurn
<1>5. m \in 0 .. MaxTurns
  BY <1>2, <1>3
<1>6. turn' \in 1 .. (MaxTurns + 1)
  BY <1>2, <1>4, <1>5
<1>7. crashes' \in 0 .. MaxCrashes
  BY <1>1, StoreAssumption DEF Numbers, Types
<1>8. step' \in [Callers -> {"idle", "read", "captured", "called", "bash"}]
  BY <1>1
<1>9. spawned' \in [Background -> 0..MaxTurns]
  BY <1>1, StoreAssumption
<1>10. Types'
  BY <1>1, <1>6, <1>7, <1>8, <1>9 DEF Numbers, Types
<1>11. Sessions'
  BY <1>1 DEF Sessions
<1>12. NumbersAreFresh'
  <2> SUFFICES ASSUME NEW u \in DOMAIN saved PROVE u < turn'
    BY <1>1 DEF NumbersAreFresh
  <2>1. u \in S /\ u \in 0 .. MaxTurns
    BY <1>2
  <2> QED
    BY <1>3, <1>4, <1>5, <2>1
<1> QED
  BY <1>10, <1>11, <1>12 DEF Numbers

\* Every step keeps the types, the sessions and the numbers.
LEMMA NumbersStay == ASSUME Numbers, [Next]_vars PROVE Numbers'
<1>1. CASE UNCHANGED vars
  <2>1. /\ ckpts' = ckpts /\ cur' = cur /\ saved' = saved /\ faults' = faults
        /\ blobs' = blobs /\ pinned' = pinned /\ turn' = turn /\ disk' = disk
        /\ step' = step /\ target' = target /\ image' = image /\ spawned' = spawned
        /\ running' = running /\ before' = before /\ untracked' = untracked /\ edited' = edited
        /\ writes' = writes /\ edits' = edits /\ crashes' = crashes
    BY <1>1 DEF vars, storeVars, blobVars, callVars, history, counters
  <2> QED
    BY <2>1 DEF Numbers, Types, Sessions, InTurn, NumbersAreFresh
<1>2. ASSUME NEW c \in Callers, CallNext(c) PROVE Numbers'
  BY <1>2, ReadsNumbers, RecordNumbers, ToolWritesNumbers, ToolFailsNumbers, AfterNumbers,
     BashStartsNumbers, BashWritesNumbers, BashEndsNumbers DEF CallNext
<1> QED
  BY <1>1, <1>2, BeginNumbers, EndTurnNumbers, SpawnNumbers, FinishNumbers, RewindCodeNumbers,
     RewindConversationNumbers, RewindBothNumbers, EditNumbers, RestartNumbers DEF Next

\* For every workspace, any callers and all bounds: types are kept, calls belong to a turn
\* or a sub-agent that runs, and turn numbers are fresh.
THEOREM Typed == Spec => []Numbers
<1>1. Init => Numbers
  BY Initial
<1>2. Numbers /\ [Next]_vars => Numbers'
  BY NumbersStay
<1> QED
  BY <1>1, <1>2, PTL DEF Spec

\* For every workspace, any callers and all bounds: a new turn takes a number that no
\* checkpoint has, in memory or on disk.
THEOREM NumbersStayFresh == Spec => []NumbersAreFresh
<1>1. Numbers => NumbersAreFresh
  BY DEF Numbers
<1> QED
  BY <1>1, Typed, PTL
-----------------------------------------------------------------------------
(* What the user wrote is not what a tool left. *)

\* Captures are older than the next content, and no fingerprint is that of a file
\* the user changed since.
Fits(s) ==
    \A f \in DOMAIN s :
        /\ s[f].pre < NewContent
        /\ s[f].after = Unknown \/ s[f].after < NewContent
        /\ f \in edited => s[f].after # disk[f]

Past ==
    /\ \A f \in Files : disk[f] < NewContent
    /\ \A c \in Callers : image[c] < NewContent

Seen ==
    /\ Past
    /\ \A u \in DOMAIN ckpts : Fits(ckpts[u].snaps)
    /\ \A u \in DOMAIN saved : Fits(saved[u].snaps)

\* How contents change: a file the user changed stays, or has the next content.
Drift ==
    /\ NewContent <= NewContent'
    /\ \A f \in Files : f \in edited' =>
          \/ f \in edited /\ disk'[f] = disk[f]
          \/ disk'[f] = NewContent /\ NewContent < Unknown

LEMMA ContentFacts ==
  ASSUME Numbers
  PROVE  /\ NewContent \in Nat /\ Unknown \in Nat
         /\ \A x \in Contents : x \in Nat /\ x < Unknown
         /\ \A f \in Files : disk[f] \in Contents /\ disk[f] \in Nat
         /\ \A c \in Callers : image[c] \in Contents /\ image[c] \in Nat
BY StoreAssumption DEF Numbers, Types, NewContent, Unknown, Contents

LEMMA NewContentIsNat == ASSUME Numbers' PROVE NewContent' \in Nat
<1>1. writes' \in 0..MaxWrites /\ edits' \in 0..MaxEdits
  BY DEF Numbers, Types
<1>2. writes' \in Nat /\ edits' \in Nat
  BY <1>1, StoreAssumption
<1>3. \A x, y \in Nat : x + y + 2 \in Nat
  OBVIOUS
<1>4. writes' + edits' + 2 \in Nat
  BY <1>2, <1>3
<1> QED
  BY <1>4 DEF NewContent

\* Captures that fit go on fitting when contents drift.
LEMMA FitsLater ==
  ASSUME Numbers, Numbers', Drift, NEW s \in SnapMaps, Fits(s)
  PROVE  Fits(s)'
<1> SUFFICES ASSUME NEW f \in DOMAIN s
             PROVE  /\ s[f].pre < NewContent'
                    /\ s[f].after = Unknown \/ s[f].after < NewContent'
                    /\ f \in edited' => s[f].after # disk'[f]
  BY DEF Fits, Unknown
<1>1. /\ f \in Files /\ s[f].pre \in Nat /\ s[f].after \in Nat
      /\ NewContent \in Nat /\ NewContent' \in Nat /\ Unknown \in Nat
  <2>1. f \in Files /\ s[f].pre \in Contents /\ s[f].after \in Contents \cup {Unknown}
    BY SnapFacts
  <2>2. NewContent' \in Nat
    BY NewContentIsNat
  <2> QED
    BY <2>1, <2>2, ContentFacts
<1>2. /\ s[f].pre < NewContent /\ (s[f].after = Unknown \/ s[f].after < NewContent)
      /\ f \in edited => s[f].after # disk[f]
  BY DEF Fits
<1>3. NewContent <= NewContent'
  BY DEF Drift
<1>4. f \in edited' => s[f].after # disk'[f]
  BY <1>1, <1>2 DEF Drift
<1> QED
  BY <1>1, <1>2, <1>3, <1>4

LEMMA CapturesTyped ==
  ASSUME Numbers
  PROVE  /\ \A u \in DOMAIN ckpts : ckpts[u].snaps \in SnapMaps
         /\ \A u \in DOMAIN saved : saved[u].snaps \in SnapMaps
BY StoreFacts DEF Numbers, Types

\* The files of the checkpoints follow from the checkpoints.
LEMMA SeenLater ==
  ASSUME Numbers, Numbers', Seen, Drift, Copies, Past',
         \A u \in DOMAIN ckpts' : Fits(ckpts[u].snaps)'
  PROVE  Seen'
<1>1. ASSUME NEW u \in DOMAIN saved' PROVE Fits(saved[u].snaps)'
  <2>1. CASE u \in DOMAIN ckpts' /\ saved'[u] = ckpts'[u]
    BY <2>1 DEF Fits
  <2>2. CASE u \in DOMAIN saved /\ saved'[u] = saved[u]
    <3> PICK s : s = saved[u].snaps
      OBVIOUS
    <3>1. s \in SnapMaps /\ Fits(s) /\ saved'[u].snaps = s
      BY <2>2, CapturesTyped DEF Seen
    <3>2. Fits(s)'
      BY <3>1, FitsLater
    <3> QED
      BY <3>1, <3>2 DEF Fits
  <2> QED
    BY <2>1, <2>2 DEF Copies
<1> QED
  BY <1>1 DEF Seen

\* Captures that stay as they are.
LEMMA SameSnaps ==
  ASSUME Numbers, Numbers', Seen, Drift, NEW u \in DOMAIN ckpts, NEW v \in DOMAIN ckpts',
         ckpts'[v].snaps = ckpts[u].snaps
  PROVE  Fits(ckpts[v].snaps)'
<1> PICK s : s = ckpts[u].snaps
  OBVIOUS
<1>1. s \in SnapMaps /\ Fits(s) /\ ckpts'[v].snaps = s
  BY CapturesTyped DEF Seen
<1>2. Fits(s)'
  BY <1>1, FitsLater
<1> QED
  BY <1>1, <1>2 DEF Fits

LEMMA SeenSame ==
  ASSUME Numbers, Numbers', Seen, Drift, Past', ckpts' = ckpts, saved' = saved
  PROVE  Seen'
<1>1. Copies
  BY DEF Copies
<1>2. \A u \in DOMAIN ckpts' : Fits(ckpts[u].snaps)'
  BY SameSnaps
<1> QED
  BY <1>1, <1>2, SeenLater

\* Drift and Past' if files and edits do not change, or one file gets a new content.
LEMMA Still ==
  ASSUME Numbers, Seen, disk' = disk, edited' \subseteq edited, UNCHANGED << writes, edits >>
  PROVE  Drift /\ NewContent' = NewContent /\ (image' = image => Past')
<1>1. NewContent' = NewContent /\ NewContent \in Nat
  BY ContentFacts DEF NewContent
<1> QED
  BY <1>1 DEF Drift, Seen, Past

\* A write of the next content drifts, and what there is stays older than the next.
LEMMA FreshContent ==
  ASSUME Numbers, Seen, NEW f \in Files, disk' = [disk EXCEPT ![f] = NewContent],
         edited' \subseteq edited \cup {f}, image' = image,
         \/ writes < MaxWrites /\ writes' = writes + 1 /\ edits' = edits
         \/ edits < MaxEdits /\ edits' = edits + 1 /\ writes' = writes
  PROVE  Drift /\ Past'
<1>1. NewContent \in Nat /\ NewContent < Unknown /\ NewContent' = NewContent + 1
  BY StoreAssumption DEF Numbers, Types, NewContent, Unknown
<1>2. /\ \A g \in Files : disk[g] \in Nat /\ disk[g] < NewContent
      /\ \A c \in Callers : image[c] \in Nat /\ image[c] < NewContent
  BY ContentFacts DEF Seen, Past
<1>3. /\ \A g \in Files : g # f => disk'[g] = disk[g]
      /\ disk'[f] = NewContent
  BY DEF Numbers, Types
<1>4. Drift
  BY <1>1, <1>3 DEF Drift
<1>5. Past'
  BY <1>1, <1>2, <1>3 DEF Past
<1> QED
  BY <1>4, <1>5

\* Nothing is captured at first; then action by action.
LEMMA SeenInit == Init => Seen
<1> SUFFICES ASSUME Init PROVE Seen
  OBVIOUS
<1>1. NewContent = 2
  BY DEF Init, NewContent
<1>2. Past
  BY <1>1 DEF Init, Past, Absent
<1> QED
  BY <1>2, EmptyIsTyped DEF Init, Seen

LEMMA SeenBegin == ASSUME Numbers, Numbers', Seen, Begin PROVE Seen'
<1>1. /\ disk' = disk /\ edited' \subseteq edited /\ image' = image /\ UNCHANGED << writes, edits >>
  BY DEF Begin, callVars, history, counters
<1>2. Drift /\ Past'
  BY <1>1, Still
<1>3. /\ DOMAIN ckpts' = DOMAIN ckpts \cup {turn} /\ DOMAIN ckpts'[turn].snaps = {}
      /\ \A u \in DOMAIN ckpts : ckpts'[u].snaps = ckpts[u].snaps
      /\ Copies
  BY BeginView DEF Numbers
<1>4. ASSUME NEW u \in DOMAIN ckpts' PROVE Fits(ckpts[u].snaps)'
  <2>1. CASE u = turn
    BY <1>3, <2>1 DEF Fits
  <2>2. CASE u \in DOMAIN ckpts
    BY <1>2, <1>3, <2>2, SameSnaps
  <2> QED
    BY <1>3, <2>1, <2>2
<1> QED
  BY <1>2, <1>3, <1>4, SeenLater

LEMMA SeenRecord == ASSUME Numbers, Numbers', Seen, NEW c \in Callers, CaptureRecords(c) PROVE Seen'
<1>1. /\ disk' = disk /\ edited' = edited /\ image' = image /\ writes' = writes /\ edits' = edits
  BY DEF CaptureRecords, history, counters
<1>2. Drift /\ Past' /\ NewContent' = NewContent
  BY <1>1, Still
<1>3. /\ DOMAIN ckpts' = DOMAIN ckpts /\ Copies
      /\ \A u \in DOMAIN ckpts : u # cur => ckpts'[u] = ckpts[u]
  BY RecordView DEF Numbers
<1>4. ASSUME NEW u \in DOMAIN ckpts' PROVE Fits(ckpts[u].snaps)'
  <2>1. CASE ckpts'[u].snaps = ckpts[u].snaps
    BY <1>2, <1>3, <2>1, SameSnaps
  <2>2. CASE /\ u = cur
             /\ DOMAIN ckpts'[cur].snaps = DOMAIN ckpts[cur].snaps \cup {target[c]}
             /\ ckpts'[cur].snaps[target[c]].pre = image[c]
             /\ ckpts'[cur].snaps[target[c]].after = Unknown
             /\ \A g \in DOMAIN ckpts[cur].snaps : ckpts'[cur].snaps[g] = ckpts[cur].snaps[g]
    <3>1. Fits(ckpts[u].snaps) /\ ckpts[u].snaps \in SnapMaps
      BY <1>3, CapturesTyped DEF Seen
    <3>2. image[c] < NewContent /\ target[c] \in Files /\ disk[target[c]] # Unknown
      BY ContentFacts DEF Seen, Past, Numbers, Types
    <3>3. ASSUME NEW g \in DOMAIN ckpts'[u].snaps
          PROVE  /\ ckpts'[u].snaps[g].pre < NewContent
                 /\ ckpts'[u].snaps[g].after = Unknown \/ ckpts'[u].snaps[g].after < NewContent
                 /\ g \in edited => ckpts'[u].snaps[g].after # disk[g]
      <4>1. CASE g \in DOMAIN ckpts[u].snaps
        BY <2>2, <3>1, <4>1 DEF Fits
      <4>2. CASE g = target[c]
        BY <2>2, <3>2, <4>2
      <4> QED
        BY <2>2, <4>1, <4>2
    <3> QED
      BY <1>1, <1>2, <3>3 DEF Fits, Unknown
  <2> QED
    BY <1>3, <2>1, <2>2, RecordView DEF Numbers
<1> QED
  BY <1>2, <1>3, <1>4, SeenLater

LEMMA SeenAfter == ASSUME Numbers, Numbers', Seen, NEW c \in Callers, CaptureAfter(c) PROVE Seen'
<1> PICK f : f = target[c]
  OBVIOUS
<1>1. /\ disk' = disk /\ edited' = edited \ {f} /\ image' = image /\ writes' = writes /\ edits' = edits
  BY DEF CaptureAfter, counters
<1>2. Drift /\ Past' /\ NewContent' = NewContent
  BY <1>1, Still
<1>3. /\ DOMAIN ckpts' = DOMAIN ckpts /\ Copies
      /\ \A u \in DOMAIN ckpts : DOMAIN ckpts'[u].snaps = DOMAIN ckpts[u].snaps
      /\ \A u \in DOMAIN ckpts : \A g \in DOMAIN ckpts[u].snaps :
            /\ ckpts'[u].snaps[g].pre = ckpts[u].snaps[g].pre
            /\ \/ ckpts'[u].snaps[g].after = ckpts[u].snaps[g].after
               \/ g = f /\ ckpts'[u].snaps[g].after = disk[f]
  BY AfterView DEF Numbers
<1>4. ASSUME NEW u \in DOMAIN ckpts' PROVE Fits(ckpts[u].snaps)'
  <2>1. Fits(ckpts[u].snaps) /\ u \in DOMAIN ckpts
    BY <1>3 DEF Seen
  <2>2. f \in Files /\ disk[f] < NewContent
    BY DEF Seen, Past, Numbers, Types
  <2>3. ASSUME NEW g \in DOMAIN ckpts'[u].snaps
        PROVE  /\ ckpts'[u].snaps[g].pre < NewContent
               /\ ckpts'[u].snaps[g].after = Unknown \/ ckpts'[u].snaps[g].after < NewContent
               /\ g \in edited' => ckpts'[u].snaps[g].after # disk[g]
    <3>1. g \in DOMAIN ckpts[u].snaps
      BY <1>3, <2>1
    <3>2. /\ ckpts[u].snaps[g].pre < NewContent
          /\ ckpts[u].snaps[g].after = Unknown \/ ckpts[u].snaps[g].after < NewContent
          /\ g \in edited => ckpts[u].snaps[g].after # disk[g]
      BY <2>1, <3>1 DEF Fits
    <3>3. CASE ckpts'[u].snaps[g].after = ckpts[u].snaps[g].after
      BY <1>1, <1>3, <2>1, <3>1, <3>2, <3>3
    <3>4. CASE g = f /\ ckpts'[u].snaps[g].after = disk[f]
      BY <1>1, <1>3, <2>1, <2>2, <3>1, <3>2, <3>4
    <3> QED
      BY <1>3, <2>1, <3>1, <3>3, <3>4
  <2> QED
    BY <1>1, <1>2, <2>3 DEF Fits, Unknown
<1> QED
  BY <1>2, <1>3, <1>4, SeenLater
LEMMA SeenBash == ASSUME Numbers, Numbers', Seen, NEW c \in Callers, BashStarts(c) PROVE Seen'
<1>1. /\ disk' = disk /\ edited' = edited /\ image' = image /\ writes' = writes /\ edits' = edits
  BY DEF BashStarts, history, counters
<1>2. Drift /\ Past'
  BY <1>1, Still
<1>3. /\ DOMAIN ckpts' = DOMAIN ckpts /\ Copies
      /\ \A u \in DOMAIN ckpts : ckpts'[u].snaps = ckpts[u].snaps
  BY BashView DEF Numbers
<1> QED
  BY <1>2, <1>3, SameSnaps, SeenLater

LEMMA SeenReads ==
  ASSUME Numbers, Numbers', Seen, NEW c \in Callers, NEW f \in Files, CaptureReads(c, f) PROVE Seen'
<1>1. /\ disk' = disk /\ edited' = edited /\ writes' = writes /\ edits' = edits
      /\ ckpts' = ckpts /\ saved' = saved /\ image' = [image EXCEPT ![c] = disk[f]]
  BY DEF CaptureReads, history, counters, storeVars
<1>2. Drift /\ NewContent' = NewContent
  BY <1>1, Still
<1>3. Past'
  BY <1>1, <1>2 DEF Past, Seen, Numbers, Types
<1> QED
  BY <1>1, <1>2, <1>3, SeenSame

LEMMA SeenTool ==
  ASSUME Numbers, Numbers', Seen, NEW c \in Callers, ToolWrites(c) \/ ToolFails(c) PROVE Seen'
<1>1. /\ edited' \subseteq edited \cup {target[c]} /\ edited' \subseteq edited
      /\ ckpts' = ckpts /\ saved' = saved /\ image' = image
      /\ target[c] \in Files
  BY DEF ToolWrites, ToolFails, storeVars, Numbers, Types
<1>2. CASE /\ disk' = [disk EXCEPT ![target[c]] = NewContent]
           /\ writes < MaxWrites /\ writes' = writes + 1 /\ edits' = edits
  BY <1>1, <1>2, FreshContent, SeenSame
<1>3. CASE disk' = disk /\ UNCHANGED << writes, edits >>
  BY <1>1, <1>3, Still, SeenSame
<1> QED
  BY <1>2, <1>3 DEF ToolWrites, ToolFails, counters

LEMMA SeenBashWrites ==
  ASSUME Numbers, Numbers', Seen, NEW c \in Callers, NEW f \in Files, BashWrites(c, f) PROVE Seen'
<1>1. /\ edited' \subseteq edited \cup {f}
      /\ ckpts' = ckpts /\ saved' = saved /\ image' = image
      /\ disk' = [disk EXCEPT ![f] = NewContent]
      /\ writes < MaxWrites /\ writes' = writes + 1 /\ edits' = edits
  BY DEF BashWrites, storeVars, callVars
<1> QED
  BY <1>1, FreshContent, SeenSame

LEMMA SeenEdit == ASSUME Numbers, Numbers', Seen, NEW f \in Files, ManualEdit(f) PROVE Seen'
<1>1. /\ edited' \subseteq edited \cup {f}
      /\ ckpts' = ckpts /\ saved' = saved /\ image' = image
      /\ disk' = [disk EXCEPT ![f] = NewContent]
      /\ edits < MaxEdits /\ edits' = edits + 1 /\ writes' = writes
  BY DEF ManualEdit, storeVars, callVars
<1> QED
  BY <1>1, FreshContent, SeenSame

\* A rewind brings back contents that are captured, in files the user did not change
\* since, or that are free to be overwritten.
LEMMA RestoreDrift ==
  ASSUME Numbers, Seen, NEW t \in Turns, RestoreFiles(t), UNCHANGED << image, writes, edits >>
  PROVE  Drift /\ Past'
<1>1. /\ \A f \in Files : /\ f \in FilesFrom(t) => f \notin edited'
                          /\ f \notin FilesFrom(t) => disk'[f] = disk[f]
      /\ edited' \subseteq edited
  BY RestoreView DEF Numbers
<1>2. NewContent' = NewContent /\ image' = image /\ NewContent \in Nat
  BY ContentFacts DEF NewContent
<1>3. Drift
  BY <1>1, <1>2 DEF Drift
<1>4. ASSUME NEW f \in Files PROVE disk'[f] < NewContent
  <2>1. CASE f \in FilesFrom(t)
    <3>1. disk'[f] = EarliestRevision(f, t).pre /\ t \in Nat
      BY <2>1, StoreAssumption DEF RestoreFiles, Restored, Turns
    <3>2. PICK u \in TurnsWith(f, t) : EarliestRevision(f, t).pre = ckpts[u].snaps[f].pre
      BY <2>1, <3>1, RevisionView DEF Numbers
    <3>3. u \in DOMAIN ckpts /\ f \in DOMAIN ckpts[u].snaps
      BY DEF TurnsWith, From
    <3> QED
      BY <3>1, <3>2, <3>3 DEF Seen, Fits
  <2>2. CASE f \notin FilesFrom(t)
    BY <1>1, <2>2 DEF Seen, Past
  <2> QED
    BY <2>1, <2>2
<1>5. Past'
  BY <1>2, <1>4 DEF Past, Seen
<1> QED
  BY <1>3, <1>5

LEMMA SeenRewindCode ==
  ASSUME Numbers, Numbers', Seen, NEW t \in Turns, RewindCode(t) PROVE Seen'
<1>1. /\ RestoreFiles(t) /\ UNCHANGED << image, writes, edits >>
      /\ ckpts' = ckpts /\ saved' = saved
  BY DEF RewindCode, storeVars, callVars, counters
<1> QED
  BY <1>1, RestoreDrift, SeenSame

LEMMA SeenTruncate ==
  ASSUME Numbers, Numbers', Seen, NEW t \in Turns, TruncateFrom(t), Drift, Past' PROVE Seen'
<1>1. /\ DOMAIN ckpts' \subseteq DOMAIN ckpts /\ Copies
      /\ \A u \in DOMAIN ckpts' : ckpts'[u] = ckpts[u]
  BY TruncateView DEF Numbers
<1> QED
  BY <1>1, SameSnaps, SeenLater

LEMMA SeenRewinds ==
  ASSUME Numbers, Numbers', Seen, NEW t \in Turns, RewindConversation(t) \/ RewindBoth(t) PROVE Seen'
<1>1. TruncateFrom(t) /\ UNCHANGED << image, writes, edits >>
  BY DEF RewindConversation, RewindBoth, callVars, counters
<1>2. CASE disk' = disk /\ edited' = edited
  <2>1. edited' \subseteq edited /\ image' = image
    BY <1>1, <1>2
  <2> QED
    BY <1>1, <1>2, <2>1, Still, SeenTruncate
<1>3. CASE RestoreFiles(t)
  BY <1>1, <1>3, RestoreDrift, SeenTruncate
<1> QED
  BY <1>2, <1>3 DEF RewindConversation, RewindBoth

LEMMA SeenRestart == ASSUME Numbers, Numbers', Seen, Restart PROVE Seen'
<1>1. /\ disk' = disk /\ edited' \subseteq edited /\ image' = image /\ UNCHANGED << writes, edits >>
      /\ ckpts' = saved /\ saved' = saved
  BY DEF Restart, history
<1>2. Drift /\ Past'
  BY <1>1, Still
<1>3. ASSUME NEW u \in DOMAIN saved PROVE Fits(saved[u].snaps)' /\ Fits(ckpts[u].snaps)'
  <2> PICK s : s = saved[u].snaps
    OBVIOUS
  <2>1. s \in SnapMaps /\ Fits(s) /\ saved'[u].snaps = s /\ ckpts'[u].snaps = s
    BY <1>1, CapturesTyped DEF Seen
  <2>2. Fits(s)'
    BY <1>2, <2>1, FitsLater
  <2> QED
    BY <2>1, <2>2 DEF Fits
<1> QED
  BY <1>1, <1>2, <1>3 DEF Seen

\* Every step keeps what the user wrote apart from what tools left.
LEMMA SeenStays == ASSUME Numbers, Numbers', Seen, [Next]_vars PROVE Seen'
<1>1. CASE \/ UNCHANGED vars \/ EndTurn \/ (\E b \in Background : Spawn(b) \/ Finish(b))
           \/ (\E c \in Callers : BashEnds(c))
  <2>1. /\ disk' = disk /\ edited' \subseteq edited /\ image' = image /\ UNCHANGED << writes, edits >>
        /\ ckpts' = ckpts /\ saved' = saved
    BY <1>1 DEF vars, EndTurn, Spawn, Finish, BashEnds, storeVars, callVars, history, counters
  <2> QED
    BY <2>1, Still, SeenSame
<1>2. ASSUME NEW c \in Callers, CallNext(c), ~BashEnds(c) PROVE Seen'
  BY <1>2, SeenReads, SeenRecord, SeenTool, SeenAfter, SeenBash, SeenBashWrites DEF CallNext
<1> QED
  BY <1>1, <1>2, SeenBegin, SeenRewindCode, SeenRewinds, SeenEdit, SeenRestart DEF Next

\* Every capture is older than the next content, and no fingerprint recorded by
\* CaptureAfter is that of a file the user changed since.
THEOREM AlwaysSeen == Spec => []Seen
<1>1. Init => Seen
  BY SeenInit
<1>2. Numbers /\ Numbers' /\ Seen /\ [Next]_vars => Seen'
  BY SeenStays
<1> QED
  BY <1>1, <1>2, Typed, PTL DEF Spec

\* A file the user changed differs from its last fingerprint, so the revert conflicts.
LEMMA SeenMeansRefused == Numbers /\ Seen => RevertSeesManualEdits
<1> SUFFICES ASSUME Numbers, Seen, NEW f \in edited, RevertIsClean(f) PROVE FALSE
  BY DEF RevertSeesManualEdits
<1>1. f \in FilesFrom(0) /\ EarliestRevision(f, 0).after = disk[f]
  BY DEF RevertIsClean
<1>2. PICK u \in TurnsWith(f, 0) : EarliestRevision(f, 0).after = ckpts[u].snaps[f].after
  BY <1>1, RevisionView DEF Numbers
<1>3. u \in DOMAIN ckpts /\ f \in DOMAIN ckpts[u].snaps
  BY DEF TurnsWith, From
<1> QED
  BY <1>1, <1>2, <1>3 DEF Seen, Fits

\* For every workspace, any callers and all bounds: the revert of a single file is never
\* offered without a conflict when the user wrote the file after the last tool call on it.
THEOREM RevertsSeeManualEdits == Spec => []RevertSeesManualEdits
<1>1. Numbers /\ Seen => RevertSeesManualEdits
  BY SeenMeansRefused
<1> QED
  BY <1>1, Typed, AlwaysSeen, PTL
-----------------------------------------------------------------------------
(* The sweep spares what can still be restored. *)

\* A checkpoint file names no payload that its checkpoint in memory does not name.
FilesAgree ==
    /\ DOMAIN saved \subseteq DOMAIN ckpts
    /\ \A u \in DOMAIN saved : Payloads(saved[u]) \subseteq Payloads(ckpts[u])

Kept ==
    /\ PayloadsIn(ckpts, blobs)
    /\ FilesAgree
    /\ pinned \subseteq blobs
    /\ \A c \in Callers : step[c] = "read" => Existing({image[c]}) \subseteq blobs

\* Checkpoints with the same preimages name the same payloads.
LEMMA SamePres ==
  ASSUME NEW c, NEW d, DOMAIN c.snaps = DOMAIN d.snaps, c.expired = d.expired,
         \A f \in DOMAIN d.snaps : c.snaps[f].pre = d.snaps[f].pre
  PROVE  Payloads(c) = Payloads(d)
<1>1. { c.snaps[f].pre : f \in DOMAIN c.snaps } = { d.snaps[f].pre : f \in DOMAIN d.snaps }
  OBVIOUS
<1> QED
  BY <1>1, Zenon DEF Payloads

\* Files go on agreeing with the checkpoints when one of these changes with its file, or
\* without it because the write failed.
LEMMA AgreeLater ==
  ASSUME FilesAgree, Copies, DOMAIN saved' \subseteq DOMAIN saved \cup DOMAIN ckpts',
         DOMAIN ckpts \subseteq DOMAIN ckpts',
         \A u \in DOMAIN ckpts : Payloads(ckpts[u]) \subseteq Payloads(ckpts'[u])
  PROVE  FilesAgree'
<1>1. DOMAIN saved' \subseteq DOMAIN ckpts'
  BY DEF FilesAgree
<1>2. ASSUME NEW u \in DOMAIN saved' PROVE Payloads(saved'[u]) \subseteq Payloads(ckpts'[u])
  <2>1. CASE u \in DOMAIN ckpts' /\ saved'[u] = ckpts'[u]
    BY <2>1
  <2>2. CASE u \in DOMAIN saved /\ saved'[u] = saved[u]
    <3>1. u \in DOMAIN ckpts /\ Payloads(saved[u]) \subseteq Payloads(ckpts[u])
      BY <2>2 DEF FilesAgree
    <3> QED
      BY <2>2, <3>1
  <2> QED
    BY <2>1, <2>2 DEF Copies
<1> QED
  BY <1>1, <1>2 DEF FilesAgree, Payloads

\* Without background sub-agents no call is under way between turns.
LEMMA IdleBetweenTurns ==
  ASSUME Numbers, Background = {}, ~running
  PROVE  \A c \in Callers : step[c] = "idle"
BY DEF Numbers, Sessions, InTurn, Callers

\* The sweep: nothing is between reading a file and recording it, because no call is
\* under way when a turn begins.
LEMMA KeptBegin == ASSUME Numbers, Background = {}, Kept, Begin PROVE Kept'
<1>1. ~running /\ pinned' = pinned /\ step' = step
  BY DEF Begin, callVars
<1>2. \A c \in Callers : step'[c] = "idle"
  BY <1>1, IdleBetweenTurns
<1>3. /\ DOMAIN ckpts' = DOMAIN ckpts \cup {turn}
      /\ Copies
      /\ DOMAIN saved' \subseteq DOMAIN saved \cup DOMAIN ckpts'
      /\ \A u \in DOMAIN saved \cap DOMAIN ckpts :
            saved'[u] = ckpts'[u] \/ (saved'[u] = saved[u] /\ Payloads(ckpts'[u]) = Payloads(ckpts[u]))
      /\ pinned \subseteq blobs => pinned \subseteq blobs'
      /\ PayloadsIn(ckpts, blobs) => PayloadsIn(ckpts', blobs')
  BY BeginView DEF Numbers
<1>4. PayloadsIn(ckpts, blobs)' /\ pinned' \subseteq blobs'
  BY <1>1, <1>3 DEF Kept, PayloadsIn
<1>5. FilesAgree'
  <2>1. DOMAIN saved' \subseteq DOMAIN ckpts'
    BY <1>3 DEF Kept, FilesAgree
  <2>2. ASSUME NEW u \in DOMAIN saved' PROVE Payloads(saved'[u]) \subseteq Payloads(ckpts'[u])
    <3>1. CASE saved'[u] = ckpts'[u]
      BY <3>1
    <3>2. CASE saved'[u] # ckpts'[u]
      <4>1. u \in DOMAIN saved /\ u \in DOMAIN ckpts
        BY <1>3, <3>2 DEF Copies, Kept, FilesAgree
      <4>2. saved'[u] = saved[u] /\ Payloads(ckpts'[u]) = Payloads(ckpts[u])
        BY <1>3, <3>2, <4>1
      <4> QED
        BY <4>1, <4>2 DEF Kept, FilesAgree
    <3> QED
      BY <3>1, <3>2
  <2> QED
    BY <2>1, <2>2 DEF FilesAgree, Payloads
<1> QED
  BY <1>2, <1>4, <1>5 DEF Kept

\* A capture names the payload its call has put.
LEMMA KeptRecord == ASSUME Numbers, Kept, NEW c \in Callers, CaptureRecords(c) PROVE Kept'
<1>1. /\ step[c] = "read" /\ step' = [step EXCEPT ![c] = "captured"]
      /\ blobs' = blobs /\ pinned' = pinned /\ image' = image
  BY DEF CaptureRecords, blobVars
<1>2. /\ DOMAIN ckpts' = DOMAIN ckpts /\ Copies
      /\ \A u \in DOMAIN ckpts : /\ ckpts'[u].expired = ckpts[u].expired
                                 /\ u # cur => ckpts'[u] = ckpts[u]
  BY RecordView DEF Numbers
<1>3. ASSUME NEW u \in DOMAIN ckpts
      PROVE  /\ Payloads(ckpts[u]) \subseteq Payloads(ckpts'[u])
             /\ Payloads(ckpts'[u]) \subseteq blobs
  <2>1. Payloads(ckpts[u]) \subseteq blobs /\ Existing({image[c]}) \subseteq blobs
    BY <1>1 DEF Kept, PayloadsIn
  <2>2. CASE ckpts'[u] = ckpts[u]
    BY <2>1, <2>2
  <2>3. CASE /\ u = cur
             /\ DOMAIN ckpts'[cur].snaps = DOMAIN ckpts[cur].snaps \cup {target[c]}
             /\ ckpts'[cur].snaps[target[c]].pre = image[c]
             /\ \A g \in DOMAIN ckpts[cur].snaps : ckpts'[cur].snaps[g] = ckpts[cur].snaps[g]
    <3>1. CASE ckpts[u].expired
      BY <1>2, <3>1 DEF Payloads
    <3>2. CASE ~ckpts[u].expired
      <4>1. ~ckpts'[u].expired
        BY <1>2, <3>2
      <4>2. /\ Payloads(ckpts[u]) = Existing({ ckpts[u].snaps[f].pre : f \in DOMAIN ckpts[u].snaps })
            /\ Payloads(ckpts'[u]) = Existing({ ckpts'[u].snaps[f].pre : f \in DOMAIN ckpts'[u].snaps })
        BY <3>2, <4>1 DEF Payloads
      <4>3. Payloads(ckpts[u]) \subseteq Payloads(ckpts'[u])
        BY <2>3, <4>2 DEF Existing
      <4>4. Payloads(ckpts'[u]) \subseteq Payloads(ckpts[u]) \cup Existing({image[c]})
        BY <2>3, <4>2 DEF Existing
      <4> QED
        BY <2>1, <4>3, <4>4
    <3> QED
      BY <3>1, <3>2
  <2> QED
    BY <2>2, <2>3, RecordView DEF Numbers
<1>4. PayloadsIn(ckpts, blobs)'
  BY <1>1, <1>2, <1>3 DEF PayloadsIn
<1>5. FilesAgree'
  <2>1. DOMAIN saved' \subseteq DOMAIN saved \cup DOMAIN ckpts'
    BY <1>2 DEF Copies
  <2> QED
    BY <1>2, <1>3, <2>1, AgreeLater DEF Kept
<1>6. \A d \in Callers : step'[d] = "read" => step[d] = "read"
  BY <1>1 DEF Numbers, Types
<1> QED
  BY <1>1, <1>4, <1>5, <1>6 DEF Kept

\* Steps that keep the payloads of all checkpoints.
LEMMA KeptSame ==
  ASSUME Kept, Copies, DOMAIN saved' \subseteq DOMAIN saved \cup DOMAIN ckpts',
         DOMAIN ckpts' = DOMAIN ckpts,
         \A u \in DOMAIN ckpts : Payloads(ckpts'[u]) = Payloads(ckpts[u]),
         blobs \subseteq blobs', pinned' \subseteq blobs',
         \A c \in Callers : step'[c] = "read" => Existing({image'[c]}) \subseteq blobs'
  PROVE  Kept'
<1>1. PayloadsIn(ckpts, blobs)'
  BY DEF Kept, PayloadsIn
<1>2. FilesAgree'
  BY AgreeLater DEF Kept
<1> QED
  BY <1>1, <1>2 DEF Kept

LEMMA KeptAfter == ASSUME Numbers, Kept, NEW c \in Callers, CaptureAfter(c) PROVE Kept'
<1>1. /\ step' = [step EXCEPT ![c] = "idle"]
      /\ blobs' = blobs /\ pinned' = pinned /\ image' = image
  BY DEF CaptureAfter, blobVars
<1>2. /\ DOMAIN ckpts' = DOMAIN ckpts /\ Copies
      /\ DOMAIN saved' \subseteq DOMAIN saved \cup DOMAIN ckpts'
      /\ \A u \in DOMAIN ckpts : /\ ckpts'[u].expired = ckpts[u].expired
                                 /\ DOMAIN ckpts'[u].snaps = DOMAIN ckpts[u].snaps
      /\ \A u \in DOMAIN ckpts : \A g \in DOMAIN ckpts[u].snaps :
            ckpts'[u].snaps[g].pre = ckpts[u].snaps[g].pre
  BY AfterView DEF Numbers
<1>3. ASSUME NEW u \in DOMAIN ckpts PROVE Payloads(ckpts'[u]) = Payloads(ckpts[u])
  <2> PICK x, y : x = ckpts'[u] /\ y = ckpts[u]
    OBVIOUS
  <2>1. /\ DOMAIN x.snaps = DOMAIN y.snaps /\ x.expired = y.expired
        /\ \A f \in DOMAIN y.snaps : x.snaps[f].pre = y.snaps[f].pre
    BY <1>2
  <2>2. Payloads(x) = Payloads(y)
    BY <2>1, SamePres
  <2> QED
    BY <2>2
<1>4. \A d \in Callers : step'[d] = "read" => step[d] = "read"
  BY <1>1 DEF Numbers, Types
<1>5. \A d \in Callers : step'[d] = "read" => Existing({image'[d]}) \subseteq blobs'
  BY <1>1, <1>4 DEF Kept
<1> QED
  BY <1>1, <1>2, <1>3, <1>5, KeptSame DEF Kept

LEMMA KeptBash == ASSUME Numbers, Kept, NEW c \in Callers, BashStarts(c) PROVE Kept'
<1>1. /\ step' = [step EXCEPT ![c] = "bash"]
      /\ blobs' = blobs /\ pinned' = pinned /\ image' = image
  BY DEF BashStarts, blobVars
<1>2. /\ DOMAIN ckpts' = DOMAIN ckpts /\ Copies
      /\ DOMAIN saved' \subseteq DOMAIN saved \cup DOMAIN ckpts'
      /\ \A u \in DOMAIN ckpts : /\ ckpts'[u].expired = ckpts[u].expired
                                 /\ ckpts'[u].snaps = ckpts[u].snaps
  BY BashView DEF Numbers
<1>3. ASSUME NEW u \in DOMAIN ckpts PROVE Payloads(ckpts'[u]) = Payloads(ckpts[u])
  BY <1>2, SamePayloads
<1>4. \A d \in Callers : step'[d] = "read" => step[d] = "read"
  BY <1>1 DEF Numbers, Types
<1>5. \A d \in Callers : step'[d] = "read" => Existing({image'[d]}) \subseteq blobs'
  BY <1>1, <1>4 DEF Kept
<1> QED
  BY <1>1, <1>2, <1>3, <1>5, KeptSame DEF Kept

\* Steps that leave the checkpoints and their files alone.
LEMMA KeptAlone ==
  ASSUME Kept, ckpts' = ckpts, saved' = saved, blobs \subseteq blobs', pinned' \subseteq blobs',
         \A c \in Callers : step'[c] = "read" => Existing({image'[c]}) \subseteq blobs'
  PROVE  Kept'
<1>1. PayloadsIn(ckpts, blobs)'
  BY DEF Kept, PayloadsIn, Payloads
<1>2. FilesAgree'
  BY DEF Kept, FilesAgree, Payloads
<1> QED
  BY <1>1, <1>2 DEF Kept

LEMMA KeptReads ==
  ASSUME Numbers, Kept, NEW c \in Callers, NEW f \in Files, CaptureReads(c, f) PROVE Kept'
<1>1. /\ ckpts' = ckpts /\ saved' = saved /\ pinned' = pinned
      /\ blobs' = blobs \cup Existing({disk[f]})
      /\ step' = [step EXCEPT ![c] = "read"] /\ image' = [image EXCEPT ![c] = disk[f]]
  BY DEF CaptureReads, storeVars
<1>2. /\ image'[c] = disk[f]
      /\ \A d \in Callers : d # c => step'[d] = step[d] /\ image'[d] = image[d]
  BY <1>1 DEF Numbers, Types
<1>3. ASSUME NEW d \in Callers, step'[d] = "read" PROVE Existing({image'[d]}) \subseteq blobs'
  <2>1. CASE d = c
    BY <1>1, <1>2, <2>1
  <2>2. CASE d # c
    BY <1>1, <1>2, <1>3, <2>2 DEF Kept
  <2> QED
    BY <2>1, <2>2
<1> QED
  BY <1>1, <1>3, KeptAlone DEF Kept

\* Calls that go on from "captured", "called" or "bash", and what is not a call.
LEMMA KeptCalls ==
  ASSUME Numbers, Kept, NEW c \in Callers, NEW f \in Files,
         ToolWrites(c) \/ ToolFails(c) \/ BashWrites(c, f) \/ BashEnds(c)
  PROVE  Kept'
<1>1. /\ ckpts' = ckpts /\ saved' = saved /\ pinned' = pinned /\ blobs' = blobs /\ image' = image
  BY DEF ToolWrites, ToolFails, BashWrites, BashEnds, storeVars, blobVars, callVars
<1>2. step' = step \/ step' = [step EXCEPT ![c] = "called"] \/ step' = [step EXCEPT ![c] = "idle"]
  BY DEF ToolWrites, ToolFails, BashWrites, BashEnds, callVars
<1>3. \A d \in Callers : step'[d] = "read" => step[d] = "read"
  BY <1>2 DEF Numbers, Types
<1> QED
  BY <1>1, <1>3, KeptAlone DEF Kept

LEMMA KeptOther ==
  ASSUME Kept, ckpts' = ckpts, saved' = saved, UNCHANGED << blobVars, callVars >>
  PROVE  Kept'
<1>1. blobs' = blobs /\ pinned' = pinned /\ step' = step /\ image' = image
  BY DEF blobVars, callVars
<1> QED
  BY <1>1, KeptAlone DEF Kept

\* Rewinds add what they name.
LEMMA KeptRewindCode == ASSUME Numbers, Kept, NEW t \in Turns, RewindCode(t) PROVE Kept'
<1>1. ckpts' = ckpts /\ saved' = saved /\ step' = step /\ image' = image /\ RestoreFiles(t)
  BY DEF RewindCode, storeVars, callVars
<1>2. blobs \subseteq blobs' /\ pinned' \subseteq blobs'
  BY <1>1, RestoreView DEF Kept, Numbers
<1> QED
  BY <1>1, <1>2, KeptAlone DEF Kept

LEMMA KeptRewinds ==
  ASSUME Numbers, Kept, NEW t \in Turns, RewindConversation(t) \/ RewindBoth(t) PROVE Kept'
<1>1. TruncateFrom(t) /\ step' = step /\ image' = image
  BY DEF RewindConversation, RewindBoth, callVars
<1>2. blobs \subseteq blobs' /\ pinned' \subseteq blobs'
  <2>1. CASE UNCHANGED << blobs, pinned >>
    BY <2>1 DEF Kept
  <2>2. CASE RestoreFiles(t)
    BY <2>2, RestoreView DEF Kept, Numbers
  <2> QED
    BY <2>1, <2>2 DEF RewindConversation, RewindBoth, blobVars
<1>3. /\ DOMAIN ckpts' = { u \in DOMAIN ckpts : u < t }
      /\ \A u \in DOMAIN ckpts' : ckpts'[u] = ckpts[u]
      /\ DOMAIN saved' = { u \in DOMAIN saved : u < t }
      /\ \A u \in DOMAIN saved' : saved'[u] = saved[u]
  BY <1>1, TruncateView DEF Numbers
<1>4. PayloadsIn(ckpts, blobs)'
  <2>1. ASSUME NEW u \in DOMAIN ckpts' PROVE Payloads(ckpts'[u]) \subseteq blobs'
    BY <1>2, <1>3 DEF Kept, PayloadsIn
  <2> QED
    BY <2>1 DEF PayloadsIn, Payloads
<1>5. FilesAgree'
  <2>1. DOMAIN saved' \subseteq DOMAIN ckpts'
    BY <1>3 DEF Kept, FilesAgree
  <2>2. ASSUME NEW u \in DOMAIN saved' PROVE Payloads(saved'[u]) \subseteq Payloads(ckpts'[u])
    <3>1. u \in DOMAIN saved /\ saved'[u] = saved[u] /\ ckpts'[u] = ckpts[u]
      BY <1>3, <2>1
    <3> QED
      BY <3>1 DEF Kept, FilesAgree
  <2> QED
    BY <2>1, <2>2 DEF FilesAgree, Payloads
<1> QED
  BY <1>1, <1>2, <1>4, <1>5 DEF Kept

LEMMA KeptRestart == ASSUME Numbers, Kept, Restart PROVE Kept'
<1>1. /\ ckpts' = saved /\ saved' = saved /\ blobs' = blobs /\ pinned' = pinned
      /\ step' = [c \in Callers |-> "idle"]
  BY DEF Restart, blobVars
<1>2. ASSUME NEW u \in DOMAIN saved PROVE Payloads(saved[u]) \subseteq blobs
  BY DEF Kept, FilesAgree, PayloadsIn
<1>3. PayloadsIn(ckpts, blobs)'
  BY <1>1, <1>2 DEF PayloadsIn
<1>4. FilesAgree'
  BY <1>1 DEF FilesAgree
<1> QED
  BY <1>1, <1>3, <1>4 DEF Kept

\* Every step keeps the payloads.
LEMMA KeptStays == ASSUME Numbers, Background = {}, Kept, [Next]_vars PROVE Kept'
<1>1. CASE UNCHANGED vars \/ EndTurn \/ (\E f \in Files : ManualEdit(f))
  <2>1. ckpts' = ckpts /\ saved' = saved /\ UNCHANGED << blobVars, callVars >>
    BY <1>1 DEF vars, EndTurn, ManualEdit, storeVars
  <2> QED
    BY <2>1, KeptOther
<1>2. ASSUME NEW c \in Callers, CallNext(c) PROVE Kept'
  <2> target[c] \in Files
    BY DEF Numbers, Types
  <2> QED
    BY <1>2, KeptReads, KeptRecord, KeptAfter, KeptBash, KeptCalls DEF CallNext
<1> QED
  BY <1>1, <1>2, KeptBegin, KeptRewindCode, KeptRewinds, KeptRestart DEF Next

\* Without background sub-agents, which may still be between reading a file and recording
\* it when the next turn sweeps, and whatever fails or restarts: the sweep never removes a
\* blob that a checkpoint, its file or a manifest names.
THEOREM PayloadsAreKept == ASSUME Background = {} PROVE Spec => []PayloadsKept
<1>1. Init => Kept
  BY EmptyIsTyped DEF Init, Kept, PayloadsIn, FilesAgree
<1>2. Numbers /\ Kept /\ [Next]_vars => Kept'
  BY KeptStays
<1>3. Kept => PayloadsKept
  <2> SUFFICES ASSUME Kept PROVE PayloadsKept
    OBVIOUS
  <2>1. \A u \in DOMAIN saved : Payloads(saved[u]) \subseteq blobs
    BY DEF Kept, FilesAgree, PayloadsIn
  <2> QED
    BY <2>1 DEF Kept, PayloadsIn, PayloadsKept
<1> QED
  BY <1>1, <1>2, <1>3, Typed, PTL DEF Spec
-----------------------------------------------------------------------------
(* Rewinds are exact until the first restart, without background sub-agents. *)

Tried(u, f) == \E x \in Contents : << u, f, x >> \in before

\* Two calls under way are on different files, and a shell command is alone.
Apart ==
    \A c, d \in Callers : c # d /\ step[c] # "idle" /\ step[d] # "idle" =>
        step[c] # "bash" /\ target[c] # target[d]

\* What a call knows: the file is as it was read, and captured, from before the first
\* call on it in this turn.
Calls ==
    \A c \in Callers :
        /\ step[c] = "read" =>
              /\ image[c] = disk[target[c]]
              /\ target[c] \in DOMAIN ckpts[cur].snaps => Tried(cur, target[c])
        /\ step[c] \in {"captured", "called"} => target[c] \in DOMAIN ckpts[cur].snaps
        /\ step[c] = "captured" =>
              Tried(cur, target[c]) \/ ckpts[cur].snaps[target[c]].pre = disk[target[c]]
        /\ step[c] = "bash" => ckpts[cur].gap = TRUE

\* What a tool was called for is captured as it was before ...
Firsts ==
    \A u \in Turns, f \in Files, x \in Contents : << u, f, x >> \in before =>
        u \in DOMAIN ckpts /\ f \in DOMAIN ckpts[u].snaps /\ ckpts[u].snaps[f].pre = x

\* ... and what is captured, but for a call under way, a tool was called for ...
Lasts ==
    \A u \in DOMAIN ckpts : \A f \in DOMAIN ckpts[u].snaps :
        Tried(u, f) \/ (u = cur /\ \E c \in Callers : step[c] = "captured" /\ target[c] = f)

\* ... and has a fingerprint.
Prints ==
    \A u \in DOMAIN ckpts : \A f \in DOMAIN ckpts[u].snaps :
        ckpts[u].snaps[f].after = Unknown =>
            u = cur /\ \E c \in Callers : step[c] \in {"captured", "called"} /\ target[c] = f

Newest == cur # 0 => \A u \in DOMAIN ckpts : u <= cur

\* An unobserved write is in a turn with a gap.
Gaps == untracked \subseteq DOMAIN ckpts /\ \A u \in untracked : ckpts[u].gap = TRUE

Exact == Apart /\ Calls /\ Firsts /\ Lasts /\ Prints /\ Newest /\ Gaps

\* Without sub-agents a call under way is in the current turn.
LEMMA InTheTurn ==
  ASSUME Numbers, Background = {}, NEW c \in Callers, step[c] # "idle"
  PROVE  running /\ cur # 0 /\ cur \in DOMAIN ckpts /\ cur \in Turns
BY DEF Numbers, Sessions, InTurn, Callers, Types, IsStore

LEMMA BeforeFacts ==
  ASSUME Numbers, NEW w \in before
  PROVE  w[1] \in Turns /\ w[2] \in Files /\ w[3] \in Contents /\ w = << w[1], w[2], w[3] >>
BY DEF Numbers, Types

\* No file is captured or changed at first; then action by action.
LEMMA ExactInit == Init => Exact
<1> SUFFICES ASSUME Init PROVE Exact
  OBVIOUS
<1>1. /\ \A c \in Callers : step[c] = "idle"
      /\ before = {} /\ untracked = {} /\ DOMAIN ckpts = {} /\ cur = 0
  BY EmptyIsTyped DEF Init
<1> QED
  BY <1>1 DEF Exact, Apart, Calls, Firsts, Lasts, Prints, Newest, Gaps

LEMMA ExactBegin == ASSUME Numbers, Background = {}, Exact, Begin PROVE Exact'
<1>1. /\ ~running /\ cur' = turn /\ step' = step /\ target' = target /\ image' = image
      /\ before' = before /\ untracked' = untracked /\ disk' = disk
  BY DEF Begin, callVars, history
<1>2. \A c \in Callers : step[c] = "idle"
  BY <1>1, IdleBetweenTurns
<1>3. /\ DOMAIN ckpts' = DOMAIN ckpts \cup {turn} /\ turn \notin DOMAIN ckpts
      /\ DOMAIN ckpts'[turn].snaps = {}
      /\ \A u \in DOMAIN ckpts : /\ ckpts'[u].snaps = ckpts[u].snaps
                                 /\ ckpts[u].gap => ckpts'[u].gap
      /\ IsStore(ckpts')
  BY BeginView DEF Numbers
<1>4. Apart' /\ Calls'
  BY <1>1, <1>2 DEF Apart, Calls
<1>5. Firsts'
  <2> SUFFICES ASSUME NEW u \in Turns, NEW f \in Files, NEW x \in Contents, << u, f, x >> \in before
               PROVE  u \in DOMAIN ckpts' /\ f \in DOMAIN ckpts'[u].snaps /\ ckpts'[u].snaps[f].pre = x
    BY <1>1 DEF Firsts, Contents
  <2>1. u \in DOMAIN ckpts /\ f \in DOMAIN ckpts[u].snaps /\ ckpts[u].snaps[f].pre = x
    BY DEF Exact, Firsts
  <2> QED
    BY <1>3, <2>1
<1>6. Lasts'
  BY <1>1, <1>2, <1>3 DEF Exact, Lasts, Tried, Contents
<1>7. Prints'
  BY <1>1, <1>2, <1>3 DEF Exact, Prints, Unknown
<1>8. Newest'
  <2>1. \A u \in DOMAIN ckpts : u < turn /\ u \in Nat /\ turn \in Nat
    BY StoreFacts, StoreAssumption DEF Numbers, NumbersAreFresh, Types
  <2>2. turn <= turn
    BY StoreAssumption DEF Numbers, Types
  <2> QED
    BY <1>1, <1>3, <2>1, <2>2 DEF Newest
<1>9. Gaps'
  <2>1. ASSUME NEW u \in untracked PROVE u \in DOMAIN ckpts' /\ ckpts'[u].gap = TRUE
    <3>1. u \in DOMAIN ckpts /\ ckpts[u].gap = TRUE
      BY DEF Exact, Gaps
    <3>2. ckpts'[u].gap \in BOOLEAN
      BY <1>3, <3>1 DEF IsStore, Checkpoints
    <3> QED
      BY <1>3, <3>1, <3>2
  <2> QED
    BY <1>1, <2>1 DEF Gaps
<1> QED
  BY <1>4, <1>5, <1>6, <1>7, <1>8, <1>9 DEF Exact

LEMMA ExactReads ==
  ASSUME Numbers, Background = {}, Exact, NEW c \in Callers, NEW f \in Files, CaptureReads(c, f)
  PROVE  Exact'
<1>1. /\ ckpts' = ckpts /\ cur' = cur /\ before' = before /\ untracked' = untracked /\ disk' = disk
      /\ step[c] = "idle" /\ ~Busy(f)
  BY DEF CaptureReads, storeVars, history, MayCall
<1>2. /\ step'[c] = "read" /\ target'[c] = f /\ image'[c] = disk[f]
      /\ \A d \in Callers : d # c => step'[d] = step[d] /\ target'[d] = target[d] /\ image'[d] = image[d]
  BY DEF CaptureReads, Numbers, Types
<1>3. \A d \in Callers : step[d] # "bash" /\ (step[d] # "idle" => target[d] # f)
  BY <1>1 DEF Busy
<1>4. Apart'
  BY <1>1, <1>2, <1>3 DEF Exact, Apart
<1>5. ASSUME f \in DOMAIN ckpts[cur].snaps, cur \in DOMAIN ckpts PROVE Tried(cur, f)
  BY <1>3, <1>5 DEF Exact, Lasts
<1>6. cur \in DOMAIN ckpts
  <2>1. InTurn(c) /\ cur # 0
    BY DEF CaptureReads, MayCall, Numbers, Sessions, InTurn, Callers
  <2> QED
    BY <2>1 DEF Numbers, Types
<1>7. Calls'
  <2> SUFFICES ASSUME NEW d \in Callers
      PROVE /\ step'[d] = "read" =>
                 /\ image'[d] = disk[target'[d]]
                 /\ target'[d] \in DOMAIN ckpts[cur].snaps => Tried(cur, target'[d])
            /\ step'[d] \in {"captured", "called"} => target'[d] \in DOMAIN ckpts[cur].snaps
            /\ step'[d] = "captured" =>
                 Tried(cur, target'[d]) \/ ckpts[cur].snaps[target'[d]].pre = disk[target'[d]]
            /\ step'[d] = "bash" => ckpts[cur].gap = TRUE
    BY <1>1 DEF Calls, Tried, Contents
  <2>1. CASE d = c
    BY <1>2, <1>5, <1>6, <2>1
  <2>2. CASE d # c
    BY <1>2, <2>2 DEF Exact, Calls
  <2> QED
    BY <2>1, <2>2
<1>8. Lasts'
  <2>1. \A d \in Callers : step[d] = "captured" => step'[d] = "captured" /\ target'[d] = target[d]
    BY <1>1, <1>2
  <2> QED
    BY <1>1, <2>1 DEF Exact, Lasts, Tried, Contents
<1>9. Prints'
  <2>1. \A d \in Callers : step[d] \in {"captured", "called"} => step'[d] = step[d] /\ target'[d] = target[d]
    BY <1>1, <1>2
  <2> QED
    BY <1>1, <2>1 DEF Exact, Prints, Unknown
<1>10. Firsts' /\ Newest' /\ Gaps'
  BY <1>1 DEF Exact, Firsts, Newest, Gaps, Contents
<1> QED
  BY <1>4, <1>7, <1>8, <1>9, <1>10 DEF Exact

LEMMA ExactRecord ==
  ASSUME Numbers, Background = {}, Exact, NEW c \in Callers, CaptureRecords(c) PROVE Exact'
<1> PICK f : f = target[c]
  OBVIOUS
<1>1. /\ cur' = cur /\ before' = before /\ untracked' = untracked /\ disk' = disk
      /\ target' = target /\ image' = image /\ step[c] = "read"
  BY DEF CaptureRecords, history
<1>2. step'[c] = "captured" /\ \A d \in Callers : d # c => step'[d] = step[d]
  BY DEF CaptureRecords, Numbers, Types
<1>3. cur # 0 /\ cur \in DOMAIN ckpts /\ f \in Files
  BY <1>1, InTheTurn DEF Numbers, Types
<1>4. image[c] = disk[f] /\ (f \in DOMAIN ckpts[cur].snaps => Tried(cur, f))
  BY <1>1 DEF Exact, Calls
<1>5. \A d \in Callers : d # c /\ step[d] # "idle" => target[d] # f /\ step[d] # "bash"
  BY <1>1 DEF Exact, Apart
<1>6. /\ DOMAIN ckpts' = DOMAIN ckpts
      /\ \A u \in DOMAIN ckpts : /\ ckpts'[u].gap = ckpts[u].gap
                                 /\ u # cur => ckpts'[u] = ckpts[u]
  BY RecordView DEF Numbers
<1>7. /\ DOMAIN ckpts'[cur].snaps = DOMAIN ckpts[cur].snaps \cup {f}
      /\ \A g \in DOMAIN ckpts[cur].snaps : ckpts'[cur].snaps[g] = ckpts[cur].snaps[g]
      /\ f \notin DOMAIN ckpts[cur].snaps => ckpts'[cur].snaps[f].pre = disk[f]
  BY <1>3, <1>4, RecordView DEF Numbers
<1>8. Apart'
  BY <1>1, <1>2 DEF Exact, Apart
<1>9. Calls'
  <2> SUFFICES ASSUME NEW d \in Callers
      PROVE /\ step'[d] = "read" =>
                 /\ image[d] = disk[target[d]]
                 /\ target[d] \in DOMAIN ckpts'[cur].snaps => Tried(cur, target[d])
            /\ step'[d] \in {"captured", "called"} => target[d] \in DOMAIN ckpts'[cur].snaps
            /\ step'[d] = "captured" =>
                 Tried(cur, target[d]) \/ ckpts'[cur].snaps[target[d]].pre = disk[target[d]]
            /\ step'[d] = "bash" => ckpts'[cur].gap = TRUE
    BY <1>1 DEF Calls, Tried, Contents
  <2>1. CASE d = c
    BY <1>2, <1>4, <1>7, <2>1
  <2>2. CASE d # c
    <3>1. /\ step'[d] = step[d]
          /\ step[d] = "read" =>
               /\ image[d] = disk[target[d]]
               /\ target[d] \in DOMAIN ckpts[cur].snaps => Tried(cur, target[d])
          /\ step[d] \in {"captured", "called"} => target[d] \in DOMAIN ckpts[cur].snaps
          /\ step[d] = "captured" =>
               Tried(cur, target[d]) \/ ckpts[cur].snaps[target[d]].pre = disk[target[d]]
          /\ step[d] = "bash" => ckpts[cur].gap = TRUE
      BY <1>2, <2>2 DEF Exact, Calls
    <3> QED
      BY <1>3, <1>5, <1>6, <1>7, <2>2, <3>1
  <2> QED
    BY <2>1, <2>2
<1>10. Firsts'
  <2> SUFFICES ASSUME NEW u \in Turns, NEW g \in Files, NEW x \in Contents, << u, g, x >> \in before
               PROVE  u \in DOMAIN ckpts' /\ g \in DOMAIN ckpts'[u].snaps /\ ckpts'[u].snaps[g].pre = x
    BY <1>1 DEF Firsts, Contents
  <2>1. u \in DOMAIN ckpts /\ g \in DOMAIN ckpts[u].snaps /\ ckpts[u].snaps[g].pre = x
    BY DEF Exact, Firsts
  <2> QED
    BY <1>6, <1>7, <2>1
<1>11. Lasts'
  <2> SUFFICES ASSUME NEW u \in DOMAIN ckpts, NEW g \in DOMAIN ckpts'[u].snaps
               PROVE  \/ Tried(u, g)
                      \/ u = cur /\ \E d \in Callers : step'[d] = "captured" /\ target[d] = g
    BY <1>1, <1>6 DEF Lasts, Tried, Contents
  <2>1. CASE g \in DOMAIN ckpts[u].snaps
    <3>1. \A d \in Callers : step[d] = "captured" => step'[d] = "captured"
      BY <1>2
    <3> QED
      BY <2>1, <3>1 DEF Exact, Lasts
  <2>2. CASE u = cur /\ g = f
    BY <1>2, <2>2
  <2> QED
    BY <1>6, <1>7, <2>1, <2>2
<1>12. Prints'
  <2> SUFFICES ASSUME NEW u \in DOMAIN ckpts, NEW g \in DOMAIN ckpts'[u].snaps,
                      ckpts'[u].snaps[g].after = Unknown
               PROVE  u = cur /\ \E d \in Callers : step'[d] \in {"captured", "called"} /\ target[d] = g
    BY <1>1, <1>6 DEF Prints, Unknown
  <2>1. CASE g \in DOMAIN ckpts[u].snaps
    <3>1. \A d \in Callers : step[d] \in {"captured", "called"} => step'[d] \in {"captured", "called"}
      BY <1>1, <1>2
    <3>2. ckpts[u].snaps[g].after = Unknown
      BY <1>6, <1>7, <2>1
    <3> QED
      BY <2>1, <3>1, <3>2 DEF Exact, Prints
  <2>2. CASE u = cur /\ g = f
    BY <1>2, <2>2
  <2> QED
    BY <1>6, <1>7, <2>1, <2>2
<1>13. Newest' /\ Gaps'
  BY <1>1, <1>6 DEF Exact, Newest, Gaps
<1> QED
  BY <1>8, <1>9, <1>10, <1>11, <1>12, <1>13 DEF Exact
\* The first call on a file in a turn is what its capture is from.
LEMMA ExactTool ==
  ASSUME Numbers, Background = {}, Exact, NEW c \in Callers, ToolWrites(c) \/ ToolFails(c)
  PROVE  Exact'
<1> PICK f : f = target[c]
  OBVIOUS
<1>1. /\ ckpts' = ckpts /\ cur' = cur /\ untracked' = untracked
      /\ target' = target /\ image' = image /\ step[c] = "captured"
  BY DEF ToolWrites, ToolFails, storeVars
<1>2. step'[c] = "called" /\ \A d \in Callers : d # c => step'[d] = step[d]
  BY DEF ToolWrites, ToolFails, Numbers, Types
<1>3. cur \in DOMAIN ckpts /\ cur \in Turns /\ f \in Files /\ disk[f] \in Contents
  BY <1>1, InTheTurn DEF Numbers, Types
<1>4. \A g \in Files : g # f => disk'[g] = disk[g]
  BY DEF ToolWrites, ToolFails, Numbers, Types
<1>5. \A d \in Callers : d # c /\ step[d] # "idle" => target[d] # f /\ step[d] # "bash"
  BY <1>1 DEF Exact, Apart
<1>6. \A d \in Callers : target[d] \in Files
  BY DEF Numbers, Types
<1>7. /\ f \in DOMAIN ckpts[cur].snaps
      /\ Tried(cur, f) \/ ckpts[cur].snaps[f].pre = disk[f]
  BY <1>1 DEF Exact, Calls
<1>8. \/ before' = before /\ Tried(cur, f)
      \/ before' = before \cup {<< cur, f, disk[f] >>} /\ ~Tried(cur, f)
  BY DEF ToolWrites, ToolFails, Attempt, Tried
<1>9. before \subseteq before' /\ \E x \in Contents : << cur, f, x >> \in before'
  BY <1>3, <1>8 DEF Tried
<1>10. \A u, g : Tried(u, g) => \E x \in Contents : << u, g, x >> \in before'
  BY <1>9 DEF Tried
<1>11. Apart'
  BY <1>1, <1>2 DEF Exact, Apart
<1>12. Calls'
  <2> SUFFICES ASSUME NEW d \in Callers
      PROVE /\ step'[d] = "read" =>
                 /\ image[d] = disk'[target[d]]
                 /\ target[d] \in DOMAIN ckpts[cur].snaps =>
                      \E x \in Contents : << cur, target[d], x >> \in before'
            /\ step'[d] \in {"captured", "called"} => target[d] \in DOMAIN ckpts[cur].snaps
            /\ step'[d] = "captured" =>
                 \/ \E x \in Contents : << cur, target[d], x >> \in before'
                 \/ ckpts[cur].snaps[target[d]].pre = disk'[target[d]]
            /\ step'[d] = "bash" => ckpts[cur].gap = TRUE
    BY <1>1 DEF Calls, Tried, Contents
  <2>1. CASE d = c
    BY <1>2, <1>7, <2>1
  <2>2. CASE d # c
    <3>1. /\ step'[d] = step[d]
          /\ step[d] = "read" =>
               /\ image[d] = disk[target[d]]
               /\ target[d] \in DOMAIN ckpts[cur].snaps => Tried(cur, target[d])
          /\ step[d] \in {"captured", "called"} => target[d] \in DOMAIN ckpts[cur].snaps
          /\ step[d] = "captured" =>
               Tried(cur, target[d]) \/ ckpts[cur].snaps[target[d]].pre = disk[target[d]]
          /\ step[d] = "bash" => ckpts[cur].gap = TRUE
      BY <1>2, <2>2 DEF Exact, Calls
    <3>2. step[d] # "idle" => disk'[target[d]] = disk[target[d]]
      BY <1>4, <1>5, <1>6, <2>2
    <3> QED
      BY <1>10, <3>1, <3>2
  <2> QED
    BY <2>1, <2>2
<1>13. Firsts'
  <2> SUFFICES ASSUME NEW u \in Turns, NEW g \in Files, NEW x \in Contents, << u, g, x >> \in before'
               PROVE  u \in DOMAIN ckpts /\ g \in DOMAIN ckpts[u].snaps /\ ckpts[u].snaps[g].pre = x
    BY <1>1 DEF Firsts, Contents
  <2>1. CASE << u, g, x >> \in before
    BY <2>1 DEF Exact, Firsts
  <2>2. CASE << u, g, x >> = << cur, f, disk[f] >> /\ ~Tried(cur, f)
    <3>1. u = cur /\ g = f /\ x = disk[f]
      BY <2>2
    <3> QED
      BY <1>3, <1>7, <2>2, <3>1
  <2> QED
    BY <1>8, <2>1, <2>2
<1>14. Lasts'
  <2> SUFFICES ASSUME NEW u \in DOMAIN ckpts, NEW g \in DOMAIN ckpts[u].snaps
               PROVE  \/ \E x \in Contents : << u, g, x >> \in before'
                      \/ u = cur /\ \E d \in Callers : step'[d] = "captured" /\ target[d] = g
    BY <1>1 DEF Lasts, Tried, Contents
  <2>1. CASE Tried(u, g)
    BY <1>10, <2>1
  <2>2. CASE u = cur /\ \E d \in Callers : step[d] = "captured" /\ target[d] = g
    <3>1. PICK d \in Callers : step[d] = "captured" /\ target[d] = g
      BY <2>2
    <3>2. CASE d = c
      BY <1>9, <2>2, <3>1, <3>2
    <3>3. CASE d # c
      BY <1>2, <2>2, <3>1, <3>3
    <3> QED
      BY <3>2, <3>3
  <2> QED
    BY <2>1, <2>2 DEF Exact, Lasts
<1>15. Prints'
  <2>1. \A d \in Callers : step[d] \in {"captured", "called"} => step'[d] \in {"captured", "called"}
    BY <1>2
  <2> QED
    BY <1>1, <2>1 DEF Exact, Prints, Unknown
<1>16. Newest' /\ Gaps'
  BY <1>1 DEF Exact, Newest, Gaps
<1> QED
  BY <1>11, <1>12, <1>13, <1>14, <1>15, <1>16 DEF Exact

LEMMA ExactAfter ==
  ASSUME Numbers, Background = {}, Exact, NEW c \in Callers, CaptureAfter(c) PROVE Exact'
<1> PICK f : f = target[c]
  OBVIOUS
<1>1. /\ cur' = cur /\ before' = before /\ untracked' = untracked /\ disk' = disk
      /\ target' = target /\ image' = image /\ step[c] = "called"
  BY DEF CaptureAfter
<1>2. step'[c] = "idle" /\ \A d \in Callers : d # c => step'[d] = step[d]
  BY DEF CaptureAfter, Numbers, Types
<1>3. cur \in DOMAIN ckpts /\ f \in Files /\ disk[f] # Unknown /\ cur # 0
  BY <1>1, InTheTurn, ContentFacts, SMTT(60) DEF Numbers, Types
<1>4. f \in DOMAIN ckpts[cur].snaps
  BY <1>1 DEF Exact, Calls
<1>5. \A u \in DOMAIN ckpts : u <= cur
  BY <1>3 DEF Exact, Newest
<1>6. /\ DOMAIN ckpts' = DOMAIN ckpts
      /\ \A u \in DOMAIN ckpts : /\ ckpts'[u].gap = ckpts[u].gap
                                 /\ DOMAIN ckpts'[u].snaps = DOMAIN ckpts[u].snaps
      /\ \A u \in DOMAIN ckpts : \A g \in DOMAIN ckpts[u].snaps :
            /\ ckpts'[u].snaps[g].pre = ckpts[u].snaps[g].pre
            /\ \/ ckpts'[u].snaps[g].after = ckpts[u].snaps[g].after
               \/ g = f /\ ckpts'[u].snaps[g].after = disk[f]
      /\ ckpts'[cur].snaps[f].after = disk[f]
  BY <1>3, <1>4, <1>5, AfterView DEF Numbers
<1>7. Apart'
  BY <1>1, <1>2 DEF Exact, Apart
<1>8. Calls'
  <2> SUFFICES ASSUME NEW d \in Callers
      PROVE /\ step'[d] = "read" =>
                 /\ image[d] = disk[target[d]]
                 /\ target[d] \in DOMAIN ckpts'[cur].snaps => Tried(cur, target[d])
            /\ step'[d] \in {"captured", "called"} => target[d] \in DOMAIN ckpts'[cur].snaps
            /\ step'[d] = "captured" =>
                 Tried(cur, target[d]) \/ ckpts'[cur].snaps[target[d]].pre = disk[target[d]]
            /\ step'[d] = "bash" => ckpts'[cur].gap = TRUE
    BY <1>1 DEF Calls, Tried, Contents
  <2>1. CASE d = c
    BY <1>2, <2>1
  <2>2. CASE d # c
    <3>1. /\ step'[d] = step[d]
          /\ step[d] = "read" =>
               /\ image[d] = disk[target[d]]
               /\ target[d] \in DOMAIN ckpts[cur].snaps => Tried(cur, target[d])
          /\ step[d] \in {"captured", "called"} => target[d] \in DOMAIN ckpts[cur].snaps
          /\ step[d] = "captured" =>
               Tried(cur, target[d]) \/ ckpts[cur].snaps[target[d]].pre = disk[target[d]]
          /\ step[d] = "bash" => ckpts[cur].gap = TRUE
      BY <1>2, <2>2 DEF Exact, Calls
    <3> QED
      BY <1>3, <1>6, <3>1
  <2> QED
    BY <2>1, <2>2
<1>9. Firsts'
  <2> SUFFICES ASSUME NEW u \in Turns, NEW g \in Files, NEW x \in Contents, << u, g, x >> \in before
               PROVE  u \in DOMAIN ckpts' /\ g \in DOMAIN ckpts'[u].snaps /\ ckpts'[u].snaps[g].pre = x
    BY <1>1 DEF Firsts, Contents
  <2>1. u \in DOMAIN ckpts /\ g \in DOMAIN ckpts[u].snaps /\ ckpts[u].snaps[g].pre = x
    BY DEF Exact, Firsts
  <2> QED
    BY <1>6, <2>1
<1>10. Lasts'
  <2> SUFFICES ASSUME NEW u \in DOMAIN ckpts, NEW g \in DOMAIN ckpts[u].snaps
               PROVE  \/ Tried(u, g)
                      \/ u = cur /\ \E d \in Callers : step'[d] = "captured" /\ target[d] = g
    BY <1>1, <1>6 DEF Lasts, Tried, Contents
  <2>1. \A d \in Callers : step[d] = "captured" => step'[d] = "captured"
    BY <1>1, <1>2
  <2> QED
    BY <2>1 DEF Exact, Lasts
<1>11. Prints'
  <2> SUFFICES ASSUME NEW u \in DOMAIN ckpts, NEW g \in DOMAIN ckpts[u].snaps,
                      ckpts'[u].snaps[g].after = Unknown
               PROVE  u = cur /\ \E d \in Callers : step'[d] \in {"captured", "called"} /\ target[d] = g
    BY <1>1, <1>6 DEF Prints, Unknown
  <2>1. ckpts[u].snaps[g].after = Unknown
    BY <1>3, <1>6
  <2>2. u = cur /\ \E d \in Callers : step[d] \in {"captured", "called"} /\ target[d] = g
    BY <2>1 DEF Exact, Prints
  <2>3. PICK d \in Callers : step[d] \in {"captured", "called"} /\ target[d] = g
    BY <2>2
  <2>4. d # c
    BY <1>3, <1>6, <2>2, <2>3
  <2> QED
    BY <1>2, <2>2, <2>3, <2>4
<1>12. Newest' /\ Gaps'
  BY <1>1, <1>6 DEF Exact, Newest, Gaps
<1> QED
  BY <1>7, <1>8, <1>9, <1>10, <1>11, <1>12 DEF Exact

\* A shell command starts alone and leaves a gap.
LEMMA ExactBash ==
  ASSUME Numbers, Background = {}, Exact, NEW c \in Callers, BashStarts(c) PROVE Exact'
<1>1. /\ cur' = cur /\ before' = before /\ untracked' = untracked /\ disk' = disk
      /\ target' = target /\ image' = image /\ \A d \in Callers : step[d] = "idle"
  BY DEF BashStarts, history
<1>2. step'[c] = "bash" /\ \A d \in Callers : d # c => step'[d] = "idle"
  BY <1>1 DEF BashStarts, Numbers, Types
<1>3. cur # 0
  BY DEF BashStarts, MayCall, Numbers, Sessions, InTurn, Callers
<1>4. /\ DOMAIN ckpts' = DOMAIN ckpts /\ ckpts'[cur].gap = TRUE
      /\ \A u \in DOMAIN ckpts : /\ ckpts'[u].snaps = ckpts[u].snaps
                                 /\ ckpts[u].gap => ckpts'[u].gap
      /\ IsStore(ckpts')
  BY <1>3, BashView DEF Numbers
<1>5. Apart'
  BY <1>1, <1>2 DEF Apart
<1>6. Calls'
  BY <1>1, <1>2, <1>4 DEF Calls
<1>7. Firsts'
  <2> SUFFICES ASSUME NEW u \in Turns, NEW f \in Files, NEW x \in Contents, << u, f, x >> \in before
               PROVE  u \in DOMAIN ckpts' /\ f \in DOMAIN ckpts'[u].snaps /\ ckpts'[u].snaps[f].pre = x
    BY <1>1 DEF Firsts, Contents
  <2>1. u \in DOMAIN ckpts /\ f \in DOMAIN ckpts[u].snaps /\ ckpts[u].snaps[f].pre = x
    BY DEF Exact, Firsts
  <2> QED
    BY <1>4, <2>1
<1>8. Lasts' /\ Prints'
  BY <1>1, <1>4 DEF Exact, Lasts, Prints, Tried, Contents, Unknown
<1>9. Gaps'
  <2>1. ASSUME NEW u \in untracked PROVE u \in DOMAIN ckpts' /\ ckpts'[u].gap = TRUE
    <3>1. u \in DOMAIN ckpts /\ ckpts[u].gap = TRUE
      BY DEF Exact, Gaps
    <3>2. ckpts'[u].gap \in BOOLEAN
      BY <1>4, <3>1 DEF IsStore, Checkpoints
    <3> QED
      BY <1>4, <3>1, <3>2
  <2> QED
    BY <1>1, <2>1 DEF Gaps
<1>10. Newest'
  BY <1>1, <1>4 DEF Exact, Newest
<1> QED
  BY <1>5, <1>6, <1>7, <1>8, <1>9, <1>10 DEF Exact

LEMMA ExactBashWrites ==
  ASSUME Numbers, Background = {}, Exact, NEW c \in Callers, NEW f \in Files, BashWrites(c, f)
  PROVE  Exact'
<1>1. /\ ckpts' = ckpts /\ cur' = cur /\ before' = before /\ untracked' = untracked \cup {cur}
      /\ step' = step /\ target' = target /\ image' = image /\ step[c] = "bash"
  BY DEF BashWrites, storeVars, callVars
<1>2. \A d \in Callers : step[d] = "idle" \/ d = c
  BY <1>1 DEF Exact, Apart
<1>3. cur \in DOMAIN ckpts /\ ckpts[cur].gap = TRUE
  BY <1>1, InTheTurn DEF Exact, Calls
<1>4. Apart'
  BY <1>1 DEF Exact, Apart
<1>5. Calls'
  BY <1>1, <1>2, <1>3 DEF Calls
<1>6. Firsts' /\ Newest'
  BY <1>1 DEF Exact, Firsts, Newest, Contents
<1>7. Lasts' /\ Prints'
  BY <1>1 DEF Exact, Lasts, Prints, Tried, Contents, Unknown
<1>8. Gaps'
  BY <1>1, <1>3 DEF Exact, Gaps
<1> QED
  BY <1>4, <1>5, <1>6, <1>7, <1>8 DEF Exact

LEMMA ExactBashEnds ==
  ASSUME Numbers, Exact, NEW c \in Callers, BashEnds(c) PROVE Exact'
<1>1. /\ ckpts' = ckpts /\ cur' = cur /\ before' = before /\ untracked' = untracked /\ disk' = disk
      /\ target' = target /\ image' = image /\ step[c] = "bash"
  BY DEF BashEnds, storeVars, history
<1>2. step'[c] = "idle" /\ \A d \in Callers : d # c => step'[d] = step[d]
  BY DEF BashEnds, Numbers, Types
<1>3. \A d \in Callers : step'[d] # "idle" => step'[d] = step[d]
  BY <1>2
<1>4. Apart'
  BY <1>1, <1>3 DEF Exact, Apart
<1>5. Calls'
  BY <1>1, <1>3 DEF Exact, Calls, Tried, Contents
<1>6. Firsts' /\ Newest' /\ Gaps'
  BY <1>1 DEF Exact, Firsts, Newest, Gaps, Contents
<1>7. \A d \in Callers : step[d] \in {"captured", "called"} => step'[d] = step[d]
  BY <1>1, <1>2
<1>8. Lasts' /\ Prints'
  BY <1>1, <1>7 DEF Exact, Lasts, Prints, Tried, Contents, Unknown
<1> QED
  BY <1>4, <1>5, <1>6, <1>8 DEF Exact

\* Without calls under way the files may change.
LEMMA ExactQuiet ==
  ASSUME Exact, \A c \in Callers : step[c] = "idle" \/ disk'[target[c]] = disk[target[c]],
         UNCHANGED << ckpts, cur, before, untracked, step, target, image >>
  PROVE  Exact'
<1>1. /\ ckpts' = ckpts /\ cur' = cur /\ before' = before /\ untracked' = untracked
      /\ target' = target /\ image' = image /\ step' = step
  OBVIOUS
<1>2. Apart'
  BY <1>1 DEF Exact, Apart
<1>3. Calls'
  BY <1>1 DEF Exact, Calls, Tried, Contents
<1>4. Firsts' /\ Newest' /\ Gaps'
  BY <1>1 DEF Exact, Firsts, Newest, Gaps, Contents
<1>5. Lasts' /\ Prints'
  BY <1>1 DEF Exact, Lasts, Prints, Tried, Contents, Unknown
<1> QED
  BY <1>2, <1>3, <1>4, <1>5 DEF Exact

LEMMA ExactTruncate ==
  ASSUME Numbers, Exact, NEW t \in Turns, Quiet, TruncateFrom(t), UNCHANGED << callVars >>
  PROVE  Exact'
<1>1. /\ \A c \in Callers : step[c] = "idle"
      /\ step' = step /\ target' = target /\ image' = image
      /\ before' = { w \in before : w[1] < t } /\ untracked' = { u \in untracked : u < t }
  BY DEF Quiet, callVars, TruncateFrom
<1>2. /\ DOMAIN ckpts' = { u \in DOMAIN ckpts : u < t }
      /\ \A u \in DOMAIN ckpts' : ckpts'[u] = ckpts[u]
      /\ cur' = 0 \/ (cur' = cur /\ cur \in DOMAIN ckpts')
  BY TruncateView DEF Numbers
<1>3. Apart' /\ Calls'
  BY <1>1 DEF Apart, Calls
<1>4. Firsts'
  <2> SUFFICES ASSUME NEW u \in Turns, NEW f \in Files, NEW x \in Contents, << u, f, x >> \in before'
               PROVE  u \in DOMAIN ckpts' /\ f \in DOMAIN ckpts'[u].snaps /\ ckpts'[u].snaps[f].pre = x
    BY DEF Firsts, Contents
  <2>1. << u, f, x >> \in before /\ u < t
    BY <1>1
  <2>2. u \in DOMAIN ckpts /\ f \in DOMAIN ckpts[u].snaps /\ ckpts[u].snaps[f].pre = x
    BY <2>1 DEF Exact, Firsts
  <2> QED
    BY <1>2, <2>1, <2>2
<1>5. Lasts'
  <2> SUFFICES ASSUME NEW u \in DOMAIN ckpts', NEW f \in DOMAIN ckpts'[u].snaps
               PROVE  \E x \in Contents : << u, f, x >> \in before'
    BY DEF Lasts, Tried, Contents
  <2>1. u \in DOMAIN ckpts /\ u < t /\ f \in DOMAIN ckpts[u].snaps
    BY <1>2
  <2>2. Tried(u, f)
    BY <1>1, <2>1 DEF Exact, Lasts
  <2>3. PICK x \in Contents : << u, f, x >> \in before
    BY <2>2 DEF Tried
  <2>4. << u, f, x >>[1] < t
    BY <2>1
  <2> QED
    BY <1>1, <2>3, <2>4
<1>6. Prints'
  <2> SUFFICES ASSUME NEW u \in DOMAIN ckpts', NEW f \in DOMAIN ckpts'[u].snaps
               PROVE  ckpts'[u].snaps[f].after # Unknown
    BY DEF Prints, Unknown
  <2> QED
    BY <1>1, <1>2 DEF Exact, Prints
<1>7. Newest'
  BY <1>2 DEF Exact, Newest
<1>8. Gaps'
  BY <1>1, <1>2 DEF Exact, Gaps
<1> QED
  BY <1>3, <1>4, <1>5, <1>6, <1>7, <1>8 DEF Exact

\* Every step but a restart keeps the captures exact.
LEMMA ExactStays ==
  ASSUME Numbers, Background = {}, Exact, [Next]_vars, ~Restart PROVE Exact'
<1>1. CASE UNCHANGED vars \/ EndTurn
  <2>1. UNCHANGED << ckpts, cur, before, untracked, step, target, image >> /\ disk' = disk
    BY <1>1 DEF vars, EndTurn, storeVars, callVars, history
  <2> QED
    BY <2>1, ExactQuiet
<1>2. ASSUME NEW f \in Files, ManualEdit(f) PROVE Exact'
  <2>1. UNCHANGED << ckpts, cur, before, untracked, step, target, image >>
    BY <1>2 DEF ManualEdit, storeVars, callVars
  <2>2. \A c \in Callers : step[c] = "idle" \/ disk'[target[c]] = disk[target[c]]
    <3>1. \A c \in Callers : step[c] = "idle" \/ (target[c] # f /\ target[c] \in Files)
      BY <1>2 DEF ManualEdit, Busy, Numbers, Types
    <3> QED
      BY <1>2, <3>1 DEF ManualEdit, Numbers, Types
  <2> QED
    BY <2>1, <2>2, ExactQuiet
<1>3. ASSUME NEW t \in Turns, RewindCode(t) PROVE Exact'
  <2>1. UNCHANGED << ckpts, cur, before, untracked, step, target, image >>
    BY <1>3 DEF RewindCode, storeVars, callVars
  <2>2. \A c \in Callers : step[c] = "idle"
    BY <1>3 DEF RewindCode, Quiet
  <2> QED
    BY <2>1, <2>2, ExactQuiet
<1>4. ASSUME NEW t \in Turns, RewindConversation(t) \/ RewindBoth(t) PROVE Exact'
  <2>1. Quiet /\ TruncateFrom(t) /\ UNCHANGED << callVars >>
    BY <1>4 DEF RewindConversation, RewindBoth
  <2> QED
    BY <2>1, ExactTruncate
<1>5. ASSUME NEW c \in Callers, CallNext(c) PROVE Exact'
  BY <1>5, ExactReads, ExactRecord, ExactTool, ExactAfter, ExactBash, ExactBashWrites, ExactBashEnds
     DEF CallNext
<1> QED
  BY <1>1, <1>2, <1>3, <1>4, <1>5, ExactBegin DEF Next

\* While no restart is counted there was none.
LEMMA RestartsCounted == ASSUME Numbers, [Next]_vars, crashes' = 0 PROVE ~Restart /\ crashes = 0
<1>1. crashes \in Nat
  BY StoreAssumption DEF Numbers, Types
<1>2. Restart => crashes' = crashes + 1
  BY DEF Restart
<1>3. ~Restart => crashes' = crashes
  BY DEF Next, vars, counters, Begin, EndTurn, CallNext, CaptureReads, CaptureRecords, ToolWrites,
         ToolFails, CaptureAfter, BashStarts, BashWrites, BashEnds, Spawn, Finish, RewindCode,
         RewindConversation, RewindBoth, ManualEdit
<1> QED
  BY <1>1, <1>2, <1>3

\* Without background sub-agents and until the first restart: what CaptureBefore recorded
\* is what the file held before the first tool call on it in that turn, nothing is missing,
\* and what tools left has its fingerprint.
THEOREM AlwaysExact == ASSUME Background = {} PROVE Spec => [](crashes = 0 => Exact)
<1>1. Init => (crashes = 0 => Exact)
  BY ExactInit
<1>2. Numbers /\ (crashes = 0 => Exact) /\ [Next]_vars => (crashes = 0 => Exact)'
  BY ExactStays, RestartsCounted
<1> QED
  BY <1>1, <1>2, Typed, PTL DEF Spec

\* The earliest capture since turn t holds what the file was before the first call.
LEMMA UndoneWhenQuiet ==
  ASSUME Numbers, Exact, Quiet, NEW t \in Turns PROVE Undone(t)
<1> SUFFICES ASSUME NEW f \in Files, NEW since,
                    since = { w \in before : w[1] >= t /\ w[2] = f }, since # {}
             PROVE  << Min({ w[1] : w \in since }), f, Restored(t)[f] >> \in since
  BY Zenon DEF Undone
<1>1. t \in Nat
  BY StoreAssumption DEF Turns
<1>2. \A u \in DOMAIN ckpts : f \in DOMAIN ckpts[u].snaps => Tried(u, f)
  BY DEF Exact, Lasts, Quiet
<1>3. { w[1] : w \in since } = TurnsWith(f, t)
  <2>1. ASSUME NEW w \in since PROVE w[1] \in TurnsWith(f, t)
    <3>1. w \in before /\ w[1] >= t /\ w[2] = f
      OBVIOUS
    <3>2. w[1] \in Turns /\ w[3] \in Contents /\ << w[1], f, w[3] >> \in before
      BY <3>1, BeforeFacts
    <3>3. w[1] \in DOMAIN ckpts /\ f \in DOMAIN ckpts[w[1]].snaps
      BY <3>2 DEF Exact, Firsts
    <3> QED
      BY <3>1, <3>3 DEF TurnsWith, From
  <2>2. ASSUME NEW u \in TurnsWith(f, t) PROVE \E w \in since : w[1] = u
    <3>1. u \in DOMAIN ckpts /\ u >= t /\ f \in DOMAIN ckpts[u].snaps
      BY DEF TurnsWith, From
    <3>2. PICK x \in Contents : << u, f, x >> \in before
      BY <1>2, <3>1 DEF Tried
    <3>3. << u, f, x >>[1] = u /\ << u, f, x >>[2] = f
      OBVIOUS
    <3> QED
      BY <3>1, <3>2, <3>3
  <2> QED
    BY <2>1, <2>2
<1> PICK first : first = Min(TurnsWith(f, t))
  OBVIOUS
<1>4. TurnsWith(f, t) # {}
  BY <1>3
<1>5. first \in TurnsWith(f, t)
  BY <1>1, <1>4, OwnersView DEF Numbers
<1>6. first \in DOMAIN ckpts /\ first >= t /\ f \in DOMAIN ckpts[first].snaps
  BY <1>5 DEF TurnsWith, From
<1>7. PICK x \in Contents : << first, f, x >> \in before
  BY <1>2, <1>6 DEF Tried
<1>8. ckpts[first].snaps[f].pre = x
  BY <1>6, <1>7 DEF Exact, Firsts, Numbers, Types, IsStore
<1>9. Restored(t)[f] = x
  BY <1>4, <1>8 DEF Restored, FilesFrom, EarliestRevision
<1>10. << first, f, x >>[1] = first /\ << first, f, x >>[2] = f
  OBVIOUS
<1> QED
  BY <1>3, <1>6, <1>7, <1>9, <1>10

\* An offered rewind leaves the files the user changed since as they are: one that it
\* captured is a conflict.
LEMMA EditsConflict ==
  ASSUME Numbers, Exact, Seen, NEW t \in Turns, Offered(t), NEW f \in edited
  PROVE  Restored(t)[f] = disk[f]
<1>1. t \in Nat /\ f \in Files
  BY StoreAssumption DEF Turns, Numbers, Types
<1>2. f \notin FilesFrom(t)
  <2> SUFFICES ASSUME f \in FilesFrom(t) PROVE FALSE
    OBVIOUS
  <2>1. PICK u \in TurnsWith(f, t) : EarliestRevision(f, t).after = ckpts[u].snaps[f].after
    BY <1>1, RevisionView DEF Numbers
  <2>2. u \in DOMAIN ckpts /\ f \in DOMAIN ckpts[u].snaps
    BY DEF TurnsWith, From
  <2>3. ckpts[u].snaps[f].after # disk[f]
    BY <2>2 DEF Seen, Fits
  <2>4. ckpts[u].snaps[f].after # Unknown
    BY <2>2 DEF Exact, Prints, Offered, Quiet
  <2>5. Conflicts(f, t)
    BY <2>1, <2>3, <2>4 DEF Conflicts
  <2> QED
    BY <2>5 DEF Offered, PlanHasFiles
<1> QED
  BY <1>1, <1>2 DEF Restored

\* Without background sub-agents, until the first restart and whatever writes of
\* checkpoint files fail: a rewind that is offered returns every file the tools touched to what it held
\* before, and overwrites nothing the user wrote since.
THEOREM RewindsAreExact ==
  ASSUME Background = {} PROVE Spec => [](crashes = 0 => RewindIsExact)
<1>1. Numbers /\ Exact /\ Seen => RewindIsExact
  <2> SUFFICES ASSUME Numbers, Exact, Seen PROVE RewindIsExact
    OBVIOUS
  <2>1. TypeOK
    BY TypesAreTypeOK DEF Numbers
  <2>2. EditsAreUndone
    BY UndoneWhenQuiet DEF EditsAreUndone, Offered
  <2>3. ManualEditsConflict
    BY EditsConflict DEF ManualEditsConflict
  <2> QED
    BY <2>1, <2>2, <2>3 DEF RewindIsExact
<1> QED
  BY <1>1, Typed, AlwaysExact, AlwaysSeen, PTL

\* Under the same conditions, coverage that is called complete is complete.
THEOREM CompleteMeansComplete ==
  ASSUME Background = {} PROVE Spec => [](crashes = 0 => CompleteIsComplete)
<1>1. Numbers /\ Exact => CompleteIsComplete
  <2> SUFFICES ASSUME Numbers, Exact, NEW t \in Turns, Offered(t), CoverageComplete(t)
               PROVE  Undone(t) /\ untracked \cap From(t) = {}
    BY DEF CompleteIsComplete
  <2>1. Undone(t)
    BY UndoneWhenQuiet DEF Offered
  <2>2. untracked \cap From(t) = {}
    BY DEF CoverageComplete, Exact, Gaps
  <2> QED
    BY <2>1, <2>2
<1> QED
  BY <1>1, Typed, AlwaysExact, PTL
=============================================================================
