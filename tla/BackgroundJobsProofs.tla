------------------------ MODULE BackgroundJobsProofs ------------------------
(***************************************************************************)
(* Proofs about BackgroundJobs: for any number of jobs, managers, sessions *)
(* and calls, and any scenarios, the table tells the truth about what      *)
(* runs, completions are announced once, and what a background job changed *)
(* is reviewed.                                                            *)
(*                                                                         *)
(* The three properties speak of a record, of a file and of the note of a  *)
(* job at different moments of its goroutine.  The invariant ties them to  *)
(* the step the goroutine is at: what its record may say (Records), when   *)
(* its file may say Running or Interrupted (Files), when its note is due   *)
(* (Told).  The two places where an answer is used after it was read need  *)
(* a clause of their own: the load, whose file may be older than what the  *)
(* record says now (the last clauses of Files), and the clear, whose       *)
(* targets must all have unwound before their records go (Windows).        *)
(* <Action>Inv is the preservation of the invariant by <Action>.           *)
(***************************************************************************)
EXTENDS BackgroundJobs, FiniteSetTheorems, TLAPS

-----------------------------------------------------------------------------
(* The invariant. *)

Types ==
    /\ scale \in Scales /\ up \in BOOLEAN /\ loaded \in BOOLEAN /\ rebuilt \in BOOLEAN
    /\ mgr \in Managers /\ live \subseteq 1 .. mgr
    /\ mem \in [Managers -> [Jobs -> Object \union {None}]]
    /\ run \in [Jobs -> Goroutine]
    /\ disk \in [Jobs -> Meta \union {None}]
    /\ load \in [files : SUBSET Jobs, at : 0 .. MaxJobs, meta : Meta \union {None},
                 owned : BOOLEAN, deferred : BOOLEAN, on : BOOLEAN]
    /\ notes \in [Jobs -> Nat] /\ told \in [Jobs -> Nat]
    /\ callers \in [Callers -> {"idle", "reserved", "started"}]
    /\ turn \in [phase : {"idle", "running", "committing"}, plan : BOOLEAN,
                 ledger : SUBSET Jobs, leases : SUBSET Jobs]
    /\ session \in Sessions /\ destroying \in 0 .. MaxSessions
    /\ teardown \in [phase : {"none", "waiting", "unwound", "removed"}, targets : SUBSET Jobs]
    /\ reviewed \subseteq Jobs /\ settled \subseteq Jobs
    /\ spent \in [turns : Nat, mishaps : Nat]

\* The steps of a goroutine that has not published its outcome yet.
Going == {"registered", "running", "returned", "persisted", "noted"}
Outcomes == {"done", "failed", "killed"}

\* Goroutines, and the managers they run for.
Goroutines ==
    /\ up => mgr \in live
    /\ ~up => live = {}
    /\ \A j \in Jobs :
         /\ run[j].owner <= mgr
         /\ run[j].pc \notin {"none", "gone"} => up
         /\ run[j].pc \in Going \union {"published"} => run[j].owner \in live
         /\ run[j].pc \in {"returned", "persisted", "noted", "published", "done"} =>
              run[j].outcome \in Outcomes
         /\ run[j].pc \in {"none", "registered"} => ~run[j].mutated /\ disk[j] = None
         /\ j \in settled => run[j].pc \notin {"none", "registered", "running", "returned"}
    /\ ~rebuilt => /\ live \subseteq {mgr}
                   /\ \A j \in Jobs : run[j].pc \notin {"none", "gone"} => run[j].owner = mgr

\* The tables of the managers.
Table ==
    \A m \in Managers, j \in Jobs : mem[m][j] # None =>
        /\ up /\ m <= mgr /\ run[j].pc # "none"
        /\ ~mem[m][j].tombstone => run[j].owner = m /\ run[j].pc # "gone"
        /\ mem[m][j].tombstone =>
             /\ mem[m][j].status \in Terminal
             /\ mem[m][j].status = "interrupted" => run[j].pc \in {"done", "gone"}
             /\ run[j].pc # "registered" /\ (run[j].owner = m => run[j].pc \notin Going)
        /\ mem[m][j].committed => ~mem[m][j].receipts

\* What a goroutine finds in its own record.
Records ==
    \A j \in Jobs :
        /\ run[j].pc \in Going => Owned(run[j].owner, j)
        /\ Owned(run[j].owner, j) /\ ~Own(j).tombstone =>
             /\ run[j].pc \in Going => Own(j).status \in {"running", "killed"}
             /\ run[j].pc \notin Going => Own(j).status \in Outcomes
             /\ run[j].pc \notin {"none", "registered", "running"} =>
                  Own(j).committed \/ Own(j).receipts = run[j].mutated
             /\ Own(j).committed => run[j].pc = "done" /\ (run[j].mutated => j \in reviewed)

\* The active session and the one in its destroy window.
Windows ==
    /\ destroying < session
    /\ destroying = 0 <=> teardown.phase = "none"
    /\ teardown.phase # "none" => up
    /\ \A j \in Jobs : run[j].session <= session
    /\ \A j \in Jobs : run[j].owner = mgr /\ run[j].pc \in Going =>
         run[j].session = session \/ (run[j].session = destroying /\ j \in teardown.targets)
    /\ teardown.phase # "none" => \A j \in teardown.targets : Owned(mgr, j)
    /\ teardown.phase \in {"unwound", "removed"} =>
         \A j \in teardown.targets : run[j].owner = mgr => run[j].pc \notin Going

\* The metadata files, and the one a load has read.
Files ==
    /\ \A j \in Jobs : disk[j] # None =>
         /\ disk[j].status = "interrupted" => run[j].pc \in {"done", "gone"}
         /\ disk[j].status = "running" => disk[j].owner = run[j].owner /\ j \notin settled
    /\ \A j \in Jobs :
         run[j].mutated /\ run[j].session = session /\ j \notin reviewed
         /\ j \in settled /\ run[j].kind = "task" /\ ~rebuilt => disk[j] # None /\ disk[j].evidence
    /\ load.on => up /\ turn.phase = "idle"
    /\ \A j \in load.files : load.on /\ disk[j] # None /\ run[j].session = session
    /\ load.at # 0 =>
         /\ load.on /\ load.meta # None /\ run[load.at].session = session
         /\ run[load.at].pc \notin {"none", "registered"}
         /\ load.meta.status = "interrupted" => run[load.at].pc \in {"done", "gone"}
         /\ load.meta.status = "running" => load.meta.owner = run[load.at].owner
         /\ ~rebuilt /\ run[load.at].pc = "gone" => disk[load.at] = load.meta

\* Turns, and the evidence they lease.
Review ==
    /\ turn.phase # "idle" => up
    /\ turn.phase = "committing" => turn.ledger \subseteq reviewed
    /\ turn.phase # "idle" =>
         \A j \in turn.leases :
            /\ Ready(j) /\ run[j].session = session
            /\ mem[mgr][j].receipts => j \in turn.ledger

\* Calls that start jobs.
With(state) == {c \in Callers : callers[c] = state}
Active == {c \in Callers : callers[c] # "idle"}
Starts ==
    /\ \A c \in Callers : callers[c] # "idle" => turn.phase = "running"
    /\ reservations = Cardinality(Active)
    /\ scale.capped => Cardinality(Unfinished(session)) + Cardinality(With("reserved")) <= Limit

\* Completion notes.
Told ==
    /\ \A j \in Jobs :
         /\ told[j] + notes[j] <= 1
         /\ run[j].pc \in {"none", "registered", "running", "returned", "persisted"} =>
               told[j] + notes[j] = 0
         /\ notes[j] > 0 => run[j].session = session
         /\ run[j].pc \in {"noted", "published", "done"} /\ run[j].session = session
            /\ Owned(mgr, j) /\ ~mem[mgr][j].tombstone => told[j] + notes[j] = 1

IInv == Types /\ Goroutines /\ Table /\ Records /\ Windows /\ Files /\ Review /\ Starts /\ Told

-----------------------------------------------------------------------------
(* What the steps change. *)

\* Only j's goroutine moves, to pc.
Moves(j, pc) ==
    /\ run' \in [Jobs -> Goroutine]
    /\ \A k \in Jobs : k # j => run'[k] = run[k]
    /\ run'[j].pc = pc /\ run'[j].kind = run[j].kind
    /\ run'[j].owner = run[j].owner /\ run'[j].session = run[j].session

\* Only the record of j in m's table changes, to r.
Writes(m, j, r) ==
    /\ mem' \in [Managers -> [Jobs -> Object \union {None}]]
    /\ \A n \in Managers, k \in Jobs : mem'[n][k] = IF n = m /\ k = j THEN r ELSE mem[n][k]

LEMMA PcMoves ==
    ASSUME Types, NEW j \in Jobs, NEW pc \in Pcs, run' = [run EXCEPT ![j].pc = pc]
    PROVE  /\ Moves(j, pc)
           /\ run'[j].mutated = run[j].mutated /\ run'[j].outcome = run[j].outcome
           /\ run'[j].cancelled = run[j].cancelled
<1>1. run \in [Jobs -> Goroutine]
  BY DEF Types
<1>2. run[j] \in Goroutine
  BY <1>1
<1> DEFINE r == [run[j] EXCEPT !.pc = pc]
<1>3. /\ r \in Goroutine /\ r.pc = pc /\ r.kind = run[j].kind /\ r.owner = run[j].owner
      /\ r.session = run[j].session /\ r.mutated = run[j].mutated /\ r.outcome = run[j].outcome
      /\ r.cancelled = run[j].cancelled
  BY <1>2 DEF Goroutine
<1>4. run' = [run EXCEPT ![j] = r]
  OBVIOUS
<1> HIDE DEF r
<1> QED
  BY <1>1, <1>3, <1>4 DEF Moves

LEMMA Written ==
    ASSUME Types, NEW m \in Managers, NEW j \in Jobs, NEW r \in Object,
           mem' = [mem EXCEPT ![m] = [mem[m] EXCEPT ![j] = r]]
    PROVE  Writes(m, j, r)
  BY DEF Types, Writes

LEMMA SetObjectWrites ==
    ASSUME Types, NEW j \in Jobs, NEW r, SetObject(j, r), Owned(run[j].owner, j) => r \in Object
    PROVE  /\ run[j].owner \in Managers
           /\ IF Owned(run[j].owner, j) THEN Writes(run[j].owner, j, r) ELSE mem' = mem
  BY Written DEF Types, Goroutine, SetObject

LEMMA SetRecordWrites ==
    ASSUME Types, NEW j \in Jobs, NEW r \in Object, SetRecord(j, r)
    PROVE  mgr \in Managers /\ Writes(mgr, j, r)
  BY Written DEF Types, SetRecord

\* Members of the sets in the state are jobs.
LEMMA Members ==
    ASSUME Types
    PROVE  /\ teardown.targets \subseteq Jobs /\ load.files \subseteq Jobs
           /\ load.at # 0 => load.at \in Jobs
           /\ turn.leases \subseteq Jobs /\ turn.ledger \subseteq Jobs
           /\ mgr \in Managers
           /\ \A j \in Jobs : run[j].owner \in Managers
<1>1. \A j \in Jobs : run[j].owner \in Managers
  BY DEF Types, Goroutine
<1>2. load.at # 0 => load.at \in Jobs
  BY BoundsAssumption DEF Types, Jobs
<1> QED
  BY <1>1, <1>2 DEF Types

LEMMA MishapTypes == Types /\ Mishap => spent' \in [turns : Nat, mishaps : Nat]
  BY DEF Types, Mishap

LEMMA JobsAreFinite == IsFiniteSet(Jobs)
  BY FS_Interval, BoundsAssumption DEF Jobs

\* No more jobs are unfinished and no more calls are at their start.
LEMMA StartsStay ==
    ASSUME Starts, UNCHANGED <<scale, callers, reservations>>,
           \A c \in Callers : callers[c] # "idle" => turn'.phase = "running",
           Unfinished(session)' \subseteq Unfinished(session)
    PROVE  Starts'
<1>1. IsFiniteSet(Unfinished(session))
  BY JobsAreFinite, FS_Subset DEF Unfinished, OfSession
<1>2. /\ IsFiniteSet(Unfinished(session)')
      /\ Cardinality(Unfinished(session)') <= Cardinality(Unfinished(session))
  BY <1>1, FS_Subset
<1>3. Cardinality(Unfinished(session)) \in Nat /\ Cardinality(Unfinished(session)') \in Nat
  BY <1>1, <1>2, FS_CardinalityType
<1>4. IsFiniteSet(With("reserved")) /\ Cardinality(With("reserved")) \in Nat
  <2>1. With("reserved") \subseteq Callers /\ IsFiniteSet(Callers)
    BY BoundsAssumption DEF With
  <2> QED
    BY <2>1, FS_Subset, FS_CardinalityType
<1>5. With("reserved")' = With("reserved")
  BY DEF With
<1>6. Limit \in Nat
  BY BoundsAssumption
<1> QED
  BY <1>2, <1>3, <1>4, <1>5, <1>6 DEF Starts, Active


\* The sets of calls and of jobs that Starts counts are finite.
LEMMA Counted ==
    /\ IsFiniteSet(Active) /\ Cardinality(Active) \in Nat
    /\ IsFiniteSet(With("reserved")) /\ Cardinality(With("reserved")) \in Nat
    /\ Cardinality(With("reserved")) <= Cardinality(Active)
    /\ IsFiniteSet(Unfinished(session)) /\ Cardinality(Unfinished(session)) \in Nat
<1>1. IsFiniteSet(Callers) /\ Active \subseteq Callers /\ With("reserved") \subseteq Active
  BY BoundsAssumption DEF Active, With
<1>2. IsFiniteSet(Active)
  BY <1>1, FS_Subset
<1>3. IsFiniteSet(With("reserved")) /\ Cardinality(With("reserved")) <= Cardinality(Active)
  BY <1>1, <1>2, FS_Subset
<1>4. IsFiniteSet(Unfinished(session))
  BY JobsAreFinite, FS_Subset DEF Unfinished, OfSession
<1> QED
  BY <1>2, <1>3, <1>4, FS_CardinalityType

\* Forgetting the jobs of a session, and removing their files.
LEMMA PurgedTable ==
    ASSUME Types, NEW s, mem' = Purged(s)
    PROVE  /\ mem' \in [Managers -> [Jobs -> Object \union {None}]]
           /\ \A m \in Managers, k \in Jobs :
                mem'[m][k] = IF m = mgr /\ run[k].session = s THEN None ELSE mem[m][k]
<1> DEFINE table == [j \in Jobs |-> IF run[j].session = s THEN None ELSE mem[mgr][j]]
<1>1. /\ mgr \in Managers /\ table \in [Jobs -> Object \union {None}]
      /\ \A k \in Jobs : table[k] = IF run[k].session = s THEN None ELSE mem[mgr][k]
  BY DEF Types
<1>2. mem' = [mem EXCEPT ![mgr] = table]
  BY DEF Purged
<1> HIDE DEF table
<1> QED
  BY <1>1, <1>2 DEF Types

LEMMA RemovedFiles ==
    ASSUME Types, NEW s, disk' = Removed(s)
    PROVE  /\ disk' \in [Jobs -> Meta \union {None}]
           /\ \A k \in Jobs : disk'[k] = IF run[k].session = s THEN None ELSE disk[k]
  BY DEF Types, Removed

\* A set of jobs whose records the current manager marks killed.
LEMMA KilledTable ==
    ASSUME Types, NEW T \in SUBSET Jobs, \A k \in T : Owned(mgr, k),
           mem' = [mem EXCEPT ![mgr] = Killed(T)]
    PROVE  /\ mem' \in [Managers -> [Jobs -> Object \union {None}]]
           /\ \A m \in Managers, k \in Jobs :
                IF m = mgr /\ k \in T
                THEN /\ mem'[m][k] # None /\ mem'[m][k] \in Object /\ mem'[m][k].status = "killed"
                     /\ mem'[m][k].receipts = mem[m][k].receipts
                     /\ mem'[m][k].committed = mem[m][k].committed
                     /\ mem'[m][k].tombstone = mem[m][k].tombstone
                ELSE mem'[m][k] = mem[m][k]
<1>1. mgr \in Managers /\ mem[mgr] \in [Jobs -> Object \union {None}]
  BY DEF Types
<1>2. ASSUME NEW k \in T
      PROVE  LET r == [mem[mgr][k] EXCEPT !.status = "killed"] IN
             /\ r # None /\ r \in Object /\ r.status = "killed"
             /\ r.receipts = mem[mgr][k].receipts /\ r.committed = mem[mgr][k].committed
             /\ r.tombstone = mem[mgr][k].tombstone
  <2>1. mem[mgr][k] \in Object
    BY <1>1, <1>2 DEF Owned
  <2>2. [mem[mgr][k] EXCEPT !.status = "killed"] \in Object
    BY <2>1 DEF Object, Statuses, Terminal
  <2> QED
    BY <2>1, <2>2, NamesAssumption DEF Object
<1>3. Killed(T) \in [Jobs -> Object \union {None}]
  BY <1>1, <1>2 DEF Killed
<1>4. \A k \in Jobs : Killed(T)[k] = IF k \in T THEN [mem[mgr][k] EXCEPT !.status = "killed"]
                                     ELSE mem[mgr][k]
  BY DEF Killed
<1> DEFINE table == Killed(T)
<1>5. \A k \in Jobs :
        IF k \in T
        THEN /\ table[k] # None /\ table[k] \in Object /\ table[k].status = "killed"
             /\ table[k].receipts = mem[mgr][k].receipts
             /\ table[k].committed = mem[mgr][k].committed
             /\ table[k].tombstone = mem[mgr][k].tombstone
        ELSE table[k] = mem[mgr][k]
  BY <1>2, <1>4
<1>6. table \in [Jobs -> Object \union {None}] /\ mem' = [mem EXCEPT ![mgr] = table]
  BY <1>3
<1> HIDE DEF table
<1> QED
  BY <1>1, <1>5, <1>6 DEF Types

LEMMA OneMore ==
    ASSUME NEW U, IsFiniteSet(U), NEW x
    PROVE  IsFiniteSet(U \union {x}) /\ Cardinality(U \union {x}) <= Cardinality(U) + 1
<1>1. Cardinality(U) \in Nat
  BY FS_CardinalityType
<1>2. CASE x \in U
  <2>1. U \union {x} = U
    BY <1>2
  <2> QED
    BY <1>1, <2>1
<1>3. CASE x \notin U
  BY <1>1, <1>3, FS_AddElement
<1> QED
  BY <1>2, <1>3
-----------------------------------------------------------------------------
(* The goroutine of a job. *)

LEMMA LaunchInv == ASSUME IInv, NEW j \in Jobs, Launch(j) PROVE IInv'
<1>1. /\ up /\ run[j].pc = "registered" /\ Moves(j, "running")
      /\ run'[j].mutated = run[j].mutated /\ run'[j].outcome = run[j].outcome
      /\ UNCHANGED <<scale, mgr, up, live, mem, loaded, load, notes, callers, reservations,
                     turn, session, destroying, teardown, told, reviewed, settled, rebuilt,
                     spent>>
  BY PcMoves DEF Launch, IInv, Pcs, procVars, loadVars, startVars, sessionVars, history
<1>2. /\ disk' \in [Jobs -> Meta \union {None}] /\ disk'[j] # None
      /\ \A k \in Jobs : k # j => disk'[k] = disk[k]
      /\ disk'[j].status = "running" /\ disk'[j].owner = run[j].owner
  <2> DEFINE meta == MetaOf(j, "running", mem[run[j].owner][j].receipts)
  <2>1. meta \in Meta /\ meta.status = "running" /\ meta.owner = run[j].owner
    BY DEF IInv, Types, Goroutine, Meta, MetaOf, Statuses
  <2>2. disk' = [disk EXCEPT ![j] = meta]
    BY DEF Launch
  <2> HIDE DEF meta
  <2> QED
    BY <2>1, <2>2, NamesAssumption DEF IInv, Types
<1> USE DEF IInv
<1>3. Types'
  BY <1>1, <1>2 DEF Types, Moves, Writes
<1>4. Goroutines'
  BY <1>1, <1>2 DEF Goroutines, Moves, Going, Outcomes
<1>5. Table'
  BY <1>1, <1>2 DEF Table, Own, Owned, Moves, Writes, Going
<1>6. Records'
  BY <1>1, <1>2, Members DEF Records, Table, Owned, Own, Moves, Writes, Going, Outcomes
<1>7. Windows'
  BY <1>1, <1>2, Members DEF Windows, Owned, Moves, Writes, Going
<1>8. Files'
  BY <1>1, <1>2, Members DEF Files, Goroutines, Moves, Going
<1>9. Review'
  BY <1>1, <1>2, Members DEF Review, Table, Ready, Owned, IsDone, Moves, Writes, Going
<1>10. Starts'
  <2>1. Unfinished(session)' \subseteq Unfinished(session)
    BY <1>1, <1>2, Members DEF Table, Unfinished, OfSession, Owned, Own, IsDone, Moves, Writes
  <2> QED
    BY <1>1, <1>2, <2>1, StartsStay DEF Starts
<1>11. Told'
  BY <1>1, <1>2, Members DEF Told, Owned, Own, Moves, Writes, Going
<1> QED
  BY <1>3, <1>4, <1>5, <1>6, <1>7, <1>8, <1>9, <1>10, <1>11

LEMMA MutateInv == ASSUME IInv, NEW j \in Jobs, Mutate(j) PROVE IInv'
<1>1. /\ up /\ run[j].pc = "running" /\ Moves(j, "running")
      /\ run'[j].mutated /\ run'[j].outcome = run[j].outcome
      /\ UNCHANGED <<scale, mgr, up, live, mem, disk, loaded, load, notes, callers,
                     reservations, turn, session, destroying, teardown, told, reviewed,
                     settled, rebuilt, spent>>
  <2>1. run \in [Jobs -> Goroutine] /\ run[j] \in Goroutine
    BY DEF IInv, Types
  <2> DEFINE r == [run[j] EXCEPT !.mutated = TRUE]
  <2>2. /\ r \in Goroutine /\ r.pc = run[j].pc /\ r.kind = run[j].kind /\ r.owner = run[j].owner
        /\ r.session = run[j].session /\ r.mutated /\ r.outcome = run[j].outcome
    BY <2>1 DEF Goroutine
  <2>3. run' = [run EXCEPT ![j] = r]
    BY DEF Mutate
  <2> HIDE DEF r
  <2> QED
    BY <2>1, <2>2, <2>3 DEF Mutate, Moves, procVars, loadVars, startVars, sessionVars, history
<1> USE DEF IInv
<1>2. Types'
  BY <1>1 DEF Types, Moves, Writes
<1>3. Goroutines'
  BY <1>1 DEF Goroutines, Moves, Going, Outcomes
<1>4. Table'
  BY <1>1 DEF Table, Own, Owned, Moves, Writes, Going
<1>5. Records'
  BY <1>1, Members DEF Records, Table, Owned, Own, Moves, Writes, Going, Outcomes
<1>6. Windows'
  BY <1>1, Members DEF Windows, Owned, Moves, Writes, Going
<1>7. Files'
  BY <1>1, Members DEF Files, Goroutines, Moves, Going
<1>8. Review'
  BY <1>1, Members DEF Review, Table, Ready, Owned, IsDone, Moves, Writes, Going
<1>9. Starts'
  <2>1. Unfinished(session)' \subseteq Unfinished(session)
    BY <1>1, Members DEF Table, Unfinished, OfSession, Owned, Own, IsDone, Moves, Writes
  <2> QED
    BY <1>1, <2>1, StartsStay DEF Starts
<1>10. Told'
  BY <1>1, Members DEF Told, Owned, Own, Moves, Writes, Going
<1> QED
  BY <1>2, <1>3, <1>4, <1>5, <1>6, <1>7, <1>8, <1>9, <1>10

LEMMA ReturnInv == ASSUME IInv, NEW j \in Jobs, Return(j) PROVE IInv'
<1>1. /\ up /\ run[j].pc = "running" /\ Moves(j, "returned")
      /\ run'[j].mutated = run[j].mutated /\ run'[j].outcome \in Outcomes
      /\ SetObject(j, [Own(j) EXCEPT !.receipts = run[j].mutated])
      /\ UNCHANGED <<scale, mgr, up, live, disk, loaded, load, notes, callers, reservations,
                     turn, session, destroying, teardown, told, reviewed, settled, rebuilt,
                     spent>>
  <2>1. run \in [Jobs -> Goroutine] /\ run[j] \in Goroutine
    BY DEF IInv, Types
  <2>2. PICK st \in Outcomes :
          run' = [run EXCEPT ![j] = [[run[j] EXCEPT !.pc = "returned"] EXCEPT !.outcome = st]]
    BY DEF Return, Outcomes
  <2> DEFINE r == [[run[j] EXCEPT !.pc = "returned"] EXCEPT !.outcome = st]
  <2>3. /\ r \in Goroutine /\ r.pc = "returned" /\ r.kind = run[j].kind /\ r.owner = run[j].owner
        /\ r.session = run[j].session /\ r.mutated = run[j].mutated /\ r.outcome = st
    BY <2>1, <2>2 DEF Goroutine, Pcs, Statuses, Terminal, Outcomes
  <2>4. run' = [run EXCEPT ![j] = r]
    BY <2>2
  <2> HIDE DEF r
  <2> QED
    BY <2>1, <2>2, <2>3, <2>4 DEF Return, Moves, procVars, loadVars, startVars, sessionVars,
       history
<1>2. /\ run[j].owner \in Managers /\ Own(j) \in Object /\ Own(j) # None /\ ~Own(j).tombstone
      /\ ~Own(j).committed
  BY <1>1, Members, SMTT(60) DEF IInv, Types, Table, Records, Owned, Own, Going
<1>3. PICK r \in Object : /\ Writes(run[j].owner, j, r)
                         /\ r.status = Own(j).status /\ r.receipts = run[j].mutated
                         /\ ~r.committed /\ ~r.tombstone
  <2> DEFINE r == [Own(j) EXCEPT !.receipts = run[j].mutated]
  <2>1. /\ r \in Object /\ r.status = Own(j).status /\ r.receipts = run[j].mutated
        /\ ~r.committed /\ ~r.tombstone
    BY <1>2 DEF IInv, Types, Goroutine, Object
  <2>2. Writes(run[j].owner, j, r)
    BY <1>1, <1>2, <2>1, SetObjectWrites DEF IInv, Owned, Own
  <2> QED
    BY <2>1, <2>2
<1>4. r # None
  BY NamesAssumption
<1> USE DEF IInv
<1>5. Types'
  BY <1>1, <1>2, <1>3, <1>4 DEF Types, Moves, Writes
<1>6. Goroutines'
  BY <1>1, <1>2, <1>3, <1>4 DEF Goroutines, Moves, Going, Outcomes
<1>7. Table'
  BY <1>1, <1>2, <1>3, <1>4 DEF Table, Own, Owned, Moves, Writes, Going
<1>8. Records'
  BY <1>1, <1>2, <1>3, <1>4, Members, SMTT(60) DEF Records, Table, Owned, Own, Moves, Writes, Going,
     Outcomes
<1>9. Windows'
  BY <1>1, <1>2, <1>3, <1>4, Members DEF Windows, Owned, Moves, Writes, Going
<1>10. Files'
  BY <1>1, <1>2, <1>3, <1>4, Members DEF Files, Goroutines, Moves, Going
<1>11. Review'
  BY <1>1, <1>2, <1>3, <1>4, Members DEF Review, Table, Ready, Owned, IsDone, Moves, Writes,
     Going
<1>12. Starts'
  <2>1. Unfinished(session)' \subseteq Unfinished(session)
    BY <1>1, <1>2, <1>3, <1>4, Members DEF Table, Unfinished, OfSession, Owned, Own, IsDone,
       Moves, Writes
  <2> QED
    BY <1>1, <1>2, <1>3, <1>4, <2>1, StartsStay DEF Starts
<1>13. Told'
  BY <1>1, <1>2, <1>3, <1>4, Members DEF Told, Owned, Own, Moves, Writes, Going
<1> QED
  BY <1>5, <1>6, <1>7, <1>8, <1>9, <1>10, <1>11, <1>12, <1>13

LEMMA PersistInv == ASSUME IInv, NEW j \in Jobs, Persist(j) PROVE IInv'
<1>1. /\ up /\ run[j].pc = "returned" /\ Moves(j, "persisted")
      /\ run'[j].mutated = run[j].mutated /\ run'[j].outcome = run[j].outcome
      /\ run[j].outcome \in Outcomes
      /\ UNCHANGED <<scale, mgr, up, live, mem, loaded, load, notes, callers, reservations,
                     turn, session, destroying, teardown, told, reviewed, rebuilt>>
  BY PcMoves DEF Persist, IInv, Goroutines, Pcs, procVars, loadVars, startVars, sessionVars,
     history
<1>2. /\ spent' \in [turns : Nat, mishaps : Nat]
      /\ \/ disk' = disk /\ settled' = settled
         \/ /\ disk' = [disk EXCEPT ![j] = MetaOf(j, run[j].outcome, run[j].mutated)]
            /\ settled' = settled \union {j}
  <2>1. UNCHANGED spent \/ Mishap
    BY DEF Persist
  <2>2. spent' \in [turns : Nat, mishaps : Nat]
    BY <2>1, MishapTypes DEF IInv, Types
  <2> QED
    BY <2>2 DEF Persist
<1>3. \/ disk' = disk /\ settled' = settled
      \/ /\ disk' \in [Jobs -> Meta \union {None}] /\ disk'[j] # None
         /\ \A k \in Jobs : k # j => disk'[k] = disk[k]
         /\ disk'[j].status = run[j].outcome /\ disk'[j].owner = run[j].owner
         /\ run[j].kind = "task" /\ run[j].mutated => disk'[j].evidence
         /\ settled' = settled \union {j}
  <2> DEFINE meta == MetaOf(j, run[j].outcome, run[j].mutated)
  <2>1. /\ meta \in Meta /\ meta.status = run[j].outcome /\ meta.owner = run[j].owner
        /\ run[j].kind = "task" /\ run[j].mutated => meta.evidence
    BY DEF IInv, Types, Goroutine, Meta, MetaOf, Statuses
  <2>2. \/ disk' = disk /\ settled' = settled
        \/ disk' = [disk EXCEPT ![j] = meta] /\ settled' = settled \union {j}
    BY <1>2
  <2> HIDE DEF meta
  <2> QED
    BY <2>1, <2>2, NamesAssumption DEF IInv, Types
<1> USE DEF IInv
<1>4. Types'
  BY <1>1, <1>2, <1>3 DEF Types, Moves, Writes
<1>5. Goroutines'
  BY <1>1, <1>2, <1>3 DEF Goroutines, Moves, Going, Outcomes
<1>6. Table'
  BY <1>1, <1>2, <1>3 DEF Table, Own, Owned, Moves, Writes, Going
<1>7. Records'
  BY <1>1, <1>2, <1>3, Members, SMTT(60) DEF Records, Table, Owned, Own, Moves, Writes, Going, Outcomes
<1>8. Windows'
  BY <1>1, <1>2, <1>3, Members DEF Windows, Owned, Moves, Writes, Going
<1>9. Files'
  BY <1>1, <1>2, <1>3, Members DEF Files, Goroutines, Moves, Going, Outcomes
<1>10. Review'
  BY <1>1, <1>2, <1>3, Members DEF Review, Table, Ready, Owned, IsDone, Moves, Writes, Going
<1>11. Starts'
  <2>1. Unfinished(session)' \subseteq Unfinished(session)
    BY <1>1, <1>2, <1>3, Members DEF Table, Unfinished, OfSession, Owned, Own, IsDone, Moves,
       Writes
  <2> QED
    BY <1>1, <1>2, <1>3, <2>1, StartsStay DEF Starts
<1>12. Told'
  BY <1>1, <1>2, <1>3, Members DEF Told, Owned, Own, Moves, Writes, Going
<1> QED
  BY <1>4, <1>5, <1>6, <1>7, <1>8, <1>9, <1>10, <1>11, <1>12

LEMMA RecordCompletionInv == ASSUME IInv, NEW j \in Jobs, RecordCompletion(j) PROVE IInv'
<1>1. /\ up /\ run[j].pc = "persisted" /\ Moves(j, "noted")
      /\ run'[j].mutated = run[j].mutated /\ run'[j].outcome = run[j].outcome
      /\ UNCHANGED <<scale, mgr, up, live, mem, disk, loaded, load, callers, reservations,
                     turn, session, destroying, teardown, told, reviewed, settled, rebuilt,
                     spent>>
  BY PcMoves DEF RecordCompletion, IInv, Pcs, procVars, loadVars, startVars, sessionVars,
     history
<1>2. /\ notes' \in [Jobs -> Nat]
      /\ \A k \in Jobs : k # j => notes'[k] = notes[k]
      /\ notes'[j] = IF run[j].owner # mgr \/ destroying = run[j].session
                      THEN notes[j] ELSE notes[j] + 1
  BY DEF RecordCompletion, IInv, Types
<1> USE DEF IInv
<1>3. Types'
  BY <1>1, <1>2 DEF Types, Moves, Writes
<1>4. Goroutines'
  BY <1>1, <1>2 DEF Goroutines, Moves, Going, Outcomes
<1>5. Table'
  BY <1>1, <1>2 DEF Table, Own, Owned, Moves, Writes, Going
<1>6. Records'
  BY <1>1, <1>2, Members DEF Records, Table, Owned, Own, Moves, Writes, Going, Outcomes
<1>7. Windows'
  BY <1>1, <1>2, Members DEF Windows, Owned, Moves, Writes, Going
<1>8. Files'
  BY <1>1, <1>2, Members DEF Files, Goroutines, Moves, Going
<1>9. Review'
  BY <1>1, <1>2, Members DEF Review, Table, Ready, Owned, IsDone, Moves, Writes, Going
<1>10. Starts'
  <2>1. Unfinished(session)' \subseteq Unfinished(session)
    BY <1>1, <1>2, Members DEF Table, Unfinished, OfSession, Owned, Own, IsDone, Moves, Writes
  <2> QED
    BY <1>1, <1>2, <2>1, StartsStay DEF Starts
<1>11. Told'
  BY <1>1, <1>2 DEF IInv, Types, Told, Table, Windows, Owned, Moves, Going
<1> QED
  BY <1>3, <1>4, <1>5, <1>6, <1>7, <1>8, <1>9, <1>10, <1>11

LEMMA PublishInv == ASSUME IInv, NEW j \in Jobs, Publish(j) PROVE IInv'
<1>1. /\ up /\ run[j].pc = "noted" /\ Moves(j, "published")
      /\ run'[j].mutated = run[j].mutated /\ run'[j].outcome = run[j].outcome
      /\ run[j].outcome \in Outcomes
      /\ UNCHANGED <<scale, mgr, up, live, disk, loaded, load, notes, callers, reservations,
                     turn, session, destroying, teardown, told, reviewed, settled, rebuilt,
                     spent>>
  BY PcMoves DEF Publish, IInv, Goroutines, Pcs, procVars, loadVars, startVars, sessionVars,
     history
<1>2. /\ run[j].owner \in Managers /\ Own(j) \in Object /\ Own(j) # None /\ ~Own(j).tombstone
      /\ ~Own(j).committed
  BY <1>1, Members DEF IInv, Types, Table, Records, Owned, Own, Going
<1>3. PICK r \in Object : /\ Writes(run[j].owner, j, r)
                         /\ r.status \in Outcomes /\ r.receipts = Own(j).receipts
                         /\ ~r.committed /\ ~r.tombstone
  <2>1. CASE Own(j).status = "killed"
    <3>1. mem' = mem
      BY <1>2, <2>1 DEF Publish, Owned, Own
    <3> QED
      BY <1>2, <2>1, <3>1 DEF IInv, Types, Writes, Own, Outcomes
  <2>2. CASE Own(j).status # "killed"
    <3> DEFINE r == [Own(j) EXCEPT !.status = run[j].outcome]
    <3>1. /\ r \in Object /\ r.status \in Outcomes /\ r.receipts = Own(j).receipts
          /\ ~r.committed /\ ~r.tombstone
      BY <1>1, <1>2 DEF Object, Outcomes, Statuses, Terminal
    <3>2. SetObject(j, r)
      BY <1>2, <2>2 DEF Publish, Owned, Own
    <3>3. Writes(run[j].owner, j, r)
      BY <1>2, <3>1, <3>2, SetObjectWrites DEF IInv, Owned, Own
    <3> QED
      BY <3>1, <3>3
  <2> QED
    BY <2>1, <2>2
<1>4. r # None
  BY NamesAssumption
<1> USE DEF IInv
<1>5. Types'
  BY <1>1, <1>2, <1>3, <1>4 DEF Types, Moves, Writes
<1>6. Goroutines'
  BY <1>1, <1>2, <1>3, <1>4 DEF Goroutines, Moves, Going, Outcomes
<1>7. Table'
  BY <1>1, <1>2, <1>3, <1>4 DEF Table, Own, Owned, Moves, Writes, Going
<1>8. Records'
  BY <1>1, <1>2, <1>3, <1>4, Members, SMTT(60) DEF Records, Table, Owned, Own, Moves, Writes, Going,
     Outcomes
<1>9. Windows'
  BY <1>1, <1>2, <1>3, <1>4, Members DEF Windows, Owned, Moves, Writes, Going
<1>10. Files'
  BY <1>1, <1>2, <1>3, <1>4, Members DEF Files, Goroutines, Moves, Going
<1>11. Review'
  BY <1>1, <1>2, <1>3, <1>4, Members DEF Review, Table, Ready, Owned, IsDone, Moves, Writes,
     Going
<1>12. Starts'
  <2>1. Unfinished(session)' \subseteq Unfinished(session)
    BY <1>1, <1>2, <1>3, <1>4, Members DEF Table, Unfinished, OfSession, Owned, Own, IsDone,
       Moves, Writes
  <2> QED
    BY <1>1, <1>2, <1>3, <1>4, <2>1, StartsStay DEF Starts
<1>13. Told'
  BY <1>1, <1>2, <1>3, <1>4, Members DEF Told, Owned, Own, Moves, Writes, Going
<1> QED
  BY <1>5, <1>6, <1>7, <1>8, <1>9, <1>10, <1>11, <1>12, <1>13

LEMMA CloseDoneInv == ASSUME IInv, NEW j \in Jobs, CloseDone(j) PROVE IInv'
<1>1. /\ up /\ run[j].pc = "published" /\ Moves(j, "done")
      /\ run'[j].mutated = run[j].mutated /\ run'[j].outcome = run[j].outcome
      /\ UNCHANGED <<scale, mgr, up, live, mem, disk, loaded, load, notes, callers,
                     reservations, turn, session, destroying, teardown, told, reviewed,
                     settled, rebuilt, spent>>
  BY PcMoves DEF CloseDone, IInv, Pcs, procVars, loadVars, startVars, sessionVars, history
<1> USE DEF IInv
<1>2. Types'
  BY <1>1 DEF Types, Moves, Writes
<1>3. Goroutines'
  BY <1>1 DEF Goroutines, Moves, Going, Outcomes
<1>4. Table'
  BY <1>1 DEF Table, Own, Owned, Moves, Writes, Going
<1>5. Records'
  BY <1>1, Members DEF Records, Table, Owned, Own, Moves, Writes, Going, Outcomes
<1>6. Windows'
  BY <1>1, Members DEF Windows, Owned, Moves, Writes, Going
<1>7. Files'
  BY <1>1, Members DEF Files, Goroutines, Moves, Going
<1>8. Review'
  BY <1>1, Members DEF Review, Table, Ready, Owned, IsDone, Moves, Writes, Going
<1>9. Starts'
  <2>1. Unfinished(session)' \subseteq Unfinished(session)
    BY <1>1, Members DEF Table, Unfinished, OfSession, Owned, Own, IsDone, Moves, Writes
  <2> QED
    BY <1>1, <2>1, StartsStay DEF Starts
<1>10. Told'
  BY <1>1, Members DEF Told, Owned, Own, Moves, Writes, Going
<1> QED
  BY <1>2, <1>3, <1>4, <1>5, <1>6, <1>7, <1>8, <1>9, <1>10

LEMMA CancelInv == ASSUME IInv, NEW j \in Jobs, Cancel(j) PROVE IInv'
<1>1. /\ run' \in [Jobs -> Goroutine]
      /\ \A k \in Jobs : /\ run'[k].pc = run[k].pc /\ run'[k].kind = run[k].kind
                         /\ run'[k].owner = run[k].owner /\ run'[k].session = run[k].session
                         /\ run'[k].mutated = run[k].mutated /\ run'[k].outcome = run[k].outcome
      /\ UNCHANGED <<scale, mgr, up, live, mem, disk, loaded, load, notes, callers,
                     reservations, turn, session, destroying, teardown, told, reviewed,
                     settled, rebuilt, spent>>
  <2>1. run \in [Jobs -> Goroutine] /\ run[j] \in Goroutine
    BY DEF IInv, Types
  <2> DEFINE r == [run[j] EXCEPT !.cancelled = TRUE]
  <2>2. /\ r \in Goroutine /\ r.pc = run[j].pc /\ r.kind = run[j].kind /\ r.owner = run[j].owner
        /\ r.session = run[j].session /\ r.mutated = run[j].mutated /\ r.outcome = run[j].outcome
    BY <2>1 DEF Goroutine
  <2>3. run' = [run EXCEPT ![j] = r]
    BY DEF Cancel
  <2> HIDE DEF r
  <2> QED
    BY <2>1, <2>2, <2>3 DEF Cancel, procVars, loadVars, startVars, sessionVars, history
<1> USE DEF IInv
<1>2. Types'
  BY <1>1 DEF Types, Moves, Writes
<1>3. Goroutines'
  BY <1>1 DEF Goroutines, Moves, Going, Outcomes
<1>4. Table'
  BY <1>1 DEF Table, Own, Owned, Moves, Writes, Going
<1>5. Records'
  BY <1>1, Members DEF Records, Table, Owned, Own, Moves, Writes, Going, Outcomes
<1>6. Windows'
  BY <1>1, Members DEF Windows, Owned, Moves, Writes, Going
<1>7. Files'
  BY <1>1, Members DEF Files, Goroutines, Moves, Going
<1>8. Review'
  BY <1>1, Members DEF Review, Table, Ready, Owned, IsDone, Moves, Writes, Going
<1>9. Starts'
  <2>1. Unfinished(session)' \subseteq Unfinished(session)
    BY <1>1, Members DEF Table, Unfinished, OfSession, Owned, Own, IsDone, Moves, Writes
  <2> QED
    BY <1>1, <2>1, StartsStay DEF Starts
<1>10. Told'
  BY <1>1, Members DEF Told, Owned, Own, Moves, Writes, Going
<1> QED
  BY <1>2, <1>3, <1>4, <1>5, <1>6, <1>7, <1>8, <1>9, <1>10

LEMMA KillInv == ASSUME IInv, NEW j \in Jobs, Kill(j) PROVE IInv'
<1>1. /\ Owned(mgr, j) /\ mem[mgr][j].status = "running" /\ spent' \in [turns : Nat, mishaps : Nat]
      /\ SetRecord(j, [mem[mgr][j] EXCEPT !.status = "killed"])
      /\ UNCHANGED <<scale, mgr, up, live, run, disk, loaded, load, notes, callers,
                     reservations, turn, session, destroying, teardown, told, reviewed,
                     settled, rebuilt>>
  BY DEF Kill, Mishap, OfSession, IInv, Types, procVars, loadVars, startVars, sessionVars,
     history
<1>2. /\ mgr \in Managers /\ mem[mgr][j] \in Object /\ ~mem[mgr][j].tombstone /\ run[j].owner = mgr
      /\ run[j].pc \in Going
  BY <1>1, Members DEF IInv, Types, Table, Records, Owned, Own, Terminal, Outcomes
<1>3. PICK r \in Object : /\ Writes(mgr, j, r)
                         /\ r.status = "killed" /\ r.receipts = mem[mgr][j].receipts
                         /\ r.committed = mem[mgr][j].committed /\ ~r.tombstone
  <2> DEFINE r == [mem[mgr][j] EXCEPT !.status = "killed"]
  <2>1. /\ r \in Object /\ r.status = "killed" /\ r.receipts = mem[mgr][j].receipts
        /\ r.committed = mem[mgr][j].committed /\ ~r.tombstone
    BY <1>2 DEF Object, Statuses, Terminal
  <2>2. Writes(mgr, j, r)
    BY <1>1, <2>1, SetRecordWrites DEF IInv
  <2> QED
    BY <2>1, <2>2
<1>4. r # None
  BY NamesAssumption
<1> USE DEF IInv
<1>5. Types'
  BY <1>1, <1>2, <1>3, <1>4 DEF Types, Moves, Writes
<1>6. Goroutines'
  BY <1>1, <1>2, <1>3, <1>4 DEF Goroutines, Moves, Going, Outcomes
<1>7. Table'
  BY <1>1, <1>2, <1>3, <1>4 DEF Table, Own, Owned, Moves, Writes, Going
<1>8. Records'
  BY <1>1, <1>2, <1>3, <1>4, Members DEF Records, Table, Owned, Own, Moves, Writes, Going,
     Outcomes
<1>9. Windows'
  BY <1>1, <1>2, <1>3, <1>4, Members DEF Windows, Owned, Moves, Writes, Going
<1>10. Files'
  BY <1>1, <1>2, <1>3, <1>4, Members DEF Files, Goroutines, Moves, Going
<1>11. Review'
  BY <1>1, <1>2, <1>3, <1>4, Members DEF Review, Table, Ready, Owned, IsDone, Moves, Writes,
     Going
<1>12. Starts'
  <2>1. Unfinished(session)' \subseteq Unfinished(session)
    BY <1>1, <1>2, <1>3, <1>4, Members DEF Table, Unfinished, OfSession, Owned, Own, IsDone,
       Moves, Writes
  <2> QED
    BY <1>1, <1>2, <1>3, <1>4, <2>1, StartsStay DEF Starts
<1>13. Told'
  BY <1>1, <1>2, <1>3, <1>4, Members DEF Told, Owned, Own, Moves, Writes, Going
<1> QED
  BY <1>5, <1>6, <1>7, <1>8, <1>9, <1>10, <1>11, <1>12, <1>13
-----------------------------------------------------------------------------
(* Turns, and the calls that start jobs. *)

LEMMA StartTurnInv == ASSUME IInv, StartTurn PROVE IInv'
<1>1. /\ up /\ turn.phase = "idle" /\ ~load.on /\ spent' \in [turns : Nat, mishaps : Nat]
      /\ UNCHANGED <<scale, mgr, up, live, mem, run, disk, loaded, load, callers,
                     reservations, session, destroying, teardown, reviewed, settled, rebuilt>>
  BY DEF StartTurn, Quiet, IInv, Types, procVars, loadVars, startVars, sessionVars, history
<1>2. /\ notes' \in [Jobs -> Nat] /\ told' \in [Jobs -> Nat]
      /\ \A k \in Jobs : IF run[k].session = session
                         THEN notes'[k] = 0 /\ told'[k] = told[k] + notes[k]
                         ELSE notes'[k] = notes[k] /\ told'[k] = told[k]
  BY DEF StartTurn, NotesWithout, IInv, Types
<1>3. /\ turn' \in [phase : {"idle", "running", "committing"}, plan : BOOLEAN,
                    ledger : SUBSET Jobs, leases : SUBSET Jobs]
      /\ turn'.phase = "running"
      /\ \A k \in turn'.leases : k \in Pending /\ k \in turn'.ledger
  <2>1. PICK plan \in BOOLEAN, keep \in BOOLEAN :
          LET again == IF plan THEN {} ELSE Pending IN
          turn' = [phase |-> "running", plan |-> plan, leases |-> again,
                   ledger |-> (IF keep THEN turn.ledger ELSE {}) \union again]
    BY DEF StartTurn
  <2>2. Pending \subseteq Jobs /\ turn.ledger \subseteq Jobs
    BY Members DEF Pending, OfSession, IInv
  <2> QED
    BY <2>1, <2>2
<1> USE DEF IInv
<1>4. Types'
  BY <1>1, <1>2, <1>3 DEF Types, Moves, Writes
<1>5. Goroutines'
  BY <1>1, <1>2, <1>3 DEF Goroutines, Moves, Going, Outcomes
<1>6. Table'
  BY <1>1, <1>2, <1>3 DEF Table, Own, Owned, Moves, Writes, Going
<1>7. Records'
  BY <1>1, <1>2, <1>3, Members DEF Records, Table, Owned, Own, Moves, Writes, Going, Outcomes
<1>8. Windows'
  BY <1>1, <1>2, <1>3, Members DEF Windows, Owned, Moves, Writes, Going
<1>9. Files'
  BY <1>1, <1>2, <1>3, Members DEF Files, Goroutines, Moves, Going
<1>10. Review'
  BY <1>1, <1>2, <1>3, Members DEF Review, Ready, Pending, OfSession, Owned, IsDone
<1>11. Starts'
  <2>1. Unfinished(session)' \subseteq Unfinished(session)
    BY <1>1, <1>2, <1>3, Members DEF Table, Unfinished, OfSession, Owned, Own, IsDone, Moves,
       Writes
  <2> QED
    BY <1>1, <1>2, <1>3, <2>1, StartsStay DEF Starts
<1>12. Told'
  BY <1>1, <1>2, <1>3, Members DEF Told, Owned, Own, Moves, Writes, Going
<1> QED
  BY <1>4, <1>5, <1>6, <1>7, <1>8, <1>9, <1>10, <1>11, <1>12

LEMMA CollectInv == ASSUME IInv, NEW j \in Jobs, Collect(j) PROVE IInv'
<1>1. /\ up /\ turn.phase = "running" /\ Ready(j) /\ run[j].session = session
      /\ UNCHANGED <<scale, mgr, up, live, mem, run, disk, loaded, load, notes, callers,
                     reservations, session, destroying, teardown, told, reviewed, settled,
                     rebuilt, spent>>
  BY DEF Collect, InTurn, OfSession, procVars, loadVars, startVars, sessionVars, history
<1>2. /\ turn' \in [phase : {"idle", "running", "committing"}, plan : BOOLEAN,
                    ledger : SUBSET Jobs, leases : SUBSET Jobs]
      /\ turn'.phase = "running" /\ turn'.leases = turn.leases \union {j}
      /\ turn.ledger \subseteq turn'.ledger /\ (Leased(j) => j \in turn'.ledger)
  BY DEF Collect, InTurn, IInv, Types
<1> USE DEF IInv
<1>3. Types'
  BY <1>1, <1>2 DEF Types, Moves, Writes
<1>4. Goroutines'
  BY <1>1, <1>2 DEF Goroutines, Moves, Going, Outcomes
<1>5. Table'
  BY <1>1, <1>2 DEF Table, Own, Owned, Moves, Writes, Going
<1>6. Records'
  BY <1>1, <1>2, Members DEF Records, Table, Owned, Own, Moves, Writes, Going, Outcomes
<1>7. Windows'
  BY <1>1, <1>2, Members DEF Windows, Owned, Moves, Writes, Going
<1>8. Files'
  BY <1>1, <1>2, Members DEF Files, Goroutines, Moves, Going
<1>9. Review'
  BY <1>1, <1>2, Members DEF Review, Table, Ready, Leased, Owned, IsDone
<1>10. Starts'
  <2>1. Unfinished(session)' \subseteq Unfinished(session)
    BY <1>1, <1>2, Members DEF Table, Unfinished, OfSession, Owned, Own, IsDone, Moves, Writes
  <2> QED
    BY <1>1, <1>2, <2>1, StartsStay DEF Starts
<1>11. Told'
  BY <1>1, <1>2, Members DEF Told, Owned, Own, Moves, Writes, Going
<1> QED
  BY <1>3, <1>4, <1>5, <1>6, <1>7, <1>8, <1>9, <1>10, <1>11

LEMMA EndTurnInv == ASSUME IInv, EndTurn PROVE IInv'
<1>1. /\ up /\ turn.phase = "running" /\ \A c \in Callers : callers[c] = "idle"
      /\ UNCHANGED <<scale, mgr, up, live, mem, run, disk, loaded, load, notes, callers,
                     reservations, session, destroying, teardown, told, settled, rebuilt,
                     spent>>
  BY DEF EndTurn, InTurn, procVars, loadVars, startVars, sessionVars, history
<1>2. /\ turn' \in [phase : {"idle", "running", "committing"}, plan : BOOLEAN,
                    ledger : SUBSET Jobs, leases : SUBSET Jobs]
      /\ turn'.leases = turn.leases /\ turn'.ledger = turn.ledger
      /\ reviewed' \subseteq Jobs /\ reviewed \subseteq reviewed'
      /\ turn'.phase # "running" /\ (turn'.phase = "committing" => turn.ledger \subseteq reviewed')
  BY DEF EndTurn, InTurn, IInv, Types
<1> USE DEF IInv
<1>3. Types'
  BY <1>1, <1>2 DEF Types, Moves, Writes
<1>4. Goroutines'
  BY <1>1, <1>2 DEF Goroutines, Moves, Going, Outcomes
<1>5. Table'
  BY <1>1, <1>2 DEF Table, Own, Owned, Moves, Writes, Going
<1>6. Records'
  BY <1>1, <1>2, Members DEF Records, Table, Owned, Own, Moves, Writes, Going, Outcomes
<1>7. Windows'
  BY <1>1, <1>2, Members DEF Windows, Owned, Moves, Writes, Going
<1>8. Files'
  BY <1>1, <1>2, Members DEF Files, Goroutines, Moves, Going
<1>9. Review'
  BY <1>1, <1>2, Members DEF Review, Table, Ready, Owned, IsDone, Moves, Writes, Going
<1>10. Starts'
  <2>1. Unfinished(session)' \subseteq Unfinished(session)
    BY <1>1, <1>2, Members DEF Table, Unfinished, OfSession, Owned, Own, IsDone, Moves, Writes
  <2> QED
    BY <1>1, <1>2, <2>1, StartsStay DEF Starts
<1>11. Told'
  BY <1>1, <1>2, Members DEF Told, Owned, Own, Moves, Writes, Going
<1> QED
  BY <1>3, <1>4, <1>5, <1>6, <1>7, <1>8, <1>9, <1>10, <1>11

LEMMA TurnDeliveredInv == ASSUME IInv, TurnDelivered PROVE IInv'
<1>1. /\ up /\ turn.phase = "committing"
      /\ UNCHANGED <<scale, mgr, up, live, mem, run, disk, loaded, load, notes, callers,
                     reservations, session, destroying, teardown, told, reviewed, settled,
                     rebuilt, spent>>
  BY DEF TurnDelivered, procVars, loadVars, startVars, sessionVars, history
<1>2. /\ turn' \in [phase : {"idle", "running", "committing"}, plan : BOOLEAN,
                    ledger : SUBSET Jobs, leases : SUBSET Jobs]
      /\ turn'.phase = "idle" /\ turn'.leases = turn.leases /\ turn'.ledger = turn.ledger
  BY DEF TurnDelivered, IInv, Types
<1> USE DEF IInv
<1>3. Types'
  BY <1>1, <1>2 DEF Types, Moves, Writes
<1>4. Goroutines'
  BY <1>1, <1>2 DEF Goroutines, Moves, Going, Outcomes
<1>5. Table'
  BY <1>1, <1>2 DEF Table, Own, Owned, Moves, Writes, Going
<1>6. Records'
  BY <1>1, <1>2, Members DEF Records, Table, Owned, Own, Moves, Writes, Going, Outcomes
<1>7. Windows'
  BY <1>1, <1>2, Members DEF Windows, Owned, Moves, Writes, Going
<1>8. Files'
  BY <1>1, <1>2, Members DEF Files, Goroutines, Moves, Going
<1>9. Review'
  BY <1>1, <1>2, Members DEF Review, Table, Ready, Owned, IsDone, Moves, Writes, Going
<1>10. Starts'
  <2>1. Unfinished(session)' \subseteq Unfinished(session)
    BY <1>1, <1>2, Members DEF Table, Unfinished, OfSession, Owned, Own, IsDone, Moves, Writes
  <2> QED
    BY <1>1, <1>2, <2>1, StartsStay DEF Starts
<1>11. Told'
  BY <1>1, <1>2, Members DEF Told, Owned, Own, Moves, Writes, Going
<1> QED
  BY <1>3, <1>4, <1>5, <1>6, <1>7, <1>8, <1>9, <1>10, <1>11

LEMMA CommitEvidenceInv == ASSUME IInv, NEW j \in Jobs, CommitEvidence(j) PROVE IInv'
<1>1. /\ up /\ turn.phase = "committing" /\ j \in turn.leases /\ ~load.on
      /\ Ready(j) /\ (mem[mgr][j].receipts => j \in reviewed)
      /\ UNCHANGED <<scale, mgr, up, live, run, loaded, load, notes, callers, reservations,
                     session, destroying, teardown, told, reviewed, settled, rebuilt>>
  <2>1. /\ up /\ turn.phase = "committing" /\ j \in turn.leases
        /\ UNCHANGED <<scale, mgr, up, live, run, loaded, load, notes, callers, reservations,
                       session, destroying, teardown, told, reviewed, settled, rebuilt>>
    BY DEF CommitEvidence, procVars, loadVars, startVars, sessionVars, history
  <2> QED
    BY <2>1 DEF IInv, Review, Files
<1>2. /\ turn' \in [phase : {"idle", "running", "committing"}, plan : BOOLEAN,
                    ledger : SUBSET Jobs, leases : SUBSET Jobs]
      /\ turn'.phase = "committing" /\ turn'.leases \subseteq turn.leases
      /\ turn'.ledger = turn.ledger
  BY DEF CommitEvidence, IInv, Types
<1>3. /\ mgr \in Managers /\ mem[mgr][j] \in Object /\ mem[mgr][j].status \in Terminal
      /\ run[j].pc \notin {"none", "registered"}
      /\ mem[mgr][j].status = "interrupted" => run[j].pc \in {"done", "gone"}
      /\ ~mem[mgr][j].tombstone => /\ run[j].pc = "done" /\ run[j].owner = mgr
                                   /\ mem[mgr][j].status # "interrupted"
  BY <1>1, Members DEF IInv, Types, Table, Records, Ready, IsDone, Owned, Own, Going,
     Outcomes, Terminal
<1>4. PICK r \in Object :
        /\ Writes(mgr, j, r)
        /\ r.status = mem[mgr][j].status /\ r.tombstone = mem[mgr][j].tombstone
        /\ r.committed /\ ~r.receipts
        /\ ~mem[mgr][j].committed \/ r = mem[mgr][j]
  <2>1. CASE mem[mgr][j].committed
    <3>1. mem' = mem
      BY <2>1 DEF CommitEvidence
    <3>2. ~mem[mgr][j].receipts
      BY <1>3, <2>1, <1>1 DEF IInv, Table, Ready, Owned
    <3> QED
      BY <1>3, <2>1, <3>1, <3>2 DEF IInv, Types, Writes
  <2>2. CASE ~mem[mgr][j].committed
    <3> DEFINE r == [status |-> mem[mgr][j].status, receipts |-> FALSE,
                     committed |-> TRUE, tombstone |-> mem[mgr][j].tombstone]
    <3>1. /\ r \in Object /\ r.status = mem[mgr][j].status /\ r.tombstone = mem[mgr][j].tombstone
          /\ r.committed /\ ~r.receipts
      BY <1>3 DEF Object
    <3>2. SetRecord(j, r)
      BY <1>1, <2>2 DEF CommitEvidence
    <3>3. Writes(mgr, j, r)
      BY <3>1, <3>2, SetRecordWrites DEF IInv
    <3> QED
      BY <2>2, <3>1, <3>3
  <2> QED
    BY <2>1, <2>2
<1>5. /\ spent' \in [turns : Nat, mishaps : Nat]
      /\ \/ disk' = disk
         \/ /\ mem[mgr][j].receipts
            /\ disk' = [disk EXCEPT ![j] = [status |-> mem[mgr][j].status, owner |-> mgr,
                                            evidence |-> FALSE]]
  BY MishapTypes DEF CommitEvidence, IInv, Types
<1>6. /\ disk' \in [Jobs -> Meta \union {None}]
      /\ \A k \in Jobs : k # j => disk'[k] = disk[k]
      /\ disk' # disk => /\ j \in reviewed /\ disk'[j] # None
                         /\ disk'[j].status = mem[mgr][j].status
  <2> DEFINE meta == [status |-> mem[mgr][j].status, owner |-> mgr, evidence |-> FALSE]
  <2>1. meta \in Meta /\ meta.status = mem[mgr][j].status
    BY <1>3 DEF Meta, Object
  <2>2. \/ disk' = disk
        \/ mem[mgr][j].receipts /\ disk' = [disk EXCEPT ![j] = meta]
    BY <1>5
  <2> HIDE DEF meta
  <2> QED
    BY <1>1, <2>1, <2>2, NamesAssumption DEF IInv, Types
<1>7. r # None
  BY NamesAssumption
<1> USE DEF IInv
<1>8. Types'
  BY <1>1, <1>2, <1>3, <1>4, <1>5, <1>6, <1>7 DEF Types, Moves, Writes
<1>9. Goroutines'
  BY <1>1, <1>2, <1>3, <1>4, <1>5, <1>6, <1>7 DEF Goroutines, Moves, Going, Outcomes
<1>10. Table'
  <2>1. Owned(mgr, j)
    BY <1>1 DEF Ready
  <2> QED
    BY <1>1, <1>3, <1>4, <2>1 DEF Table, Owned, Writes
<1>11. Records'
  BY <1>1, <1>2, <1>3, <1>4, <1>5, <1>6, <1>7, Members, SMTT(60) DEF Records, Table, Owned, Own, Ready,
     IsDone, Writes, Going, Outcomes
<1>12. Windows'
  BY <1>1, <1>2, <1>3, <1>4, <1>5, <1>6, <1>7, Members DEF Windows, Owned, Moves, Writes, Going
<1>13. Files'
  BY <1>1, <1>2, <1>3, <1>4, <1>5, <1>6, <1>7 DEF Files, Goroutines, Terminal
<1>14. Review'
  BY <1>1, <1>2, <1>3, <1>4, <1>5, <1>6, <1>7, Members DEF Review, Ready, Owned, IsDone, Writes
<1>15. Starts'
  <2>1. Unfinished(session)' \subseteq Unfinished(session)
    BY <1>1, <1>2, <1>3, <1>4, <1>5, <1>6, <1>7, Members DEF Table, Unfinished, OfSession,
       Owned, Own, IsDone, Moves, Writes
  <2> QED
    BY <1>1, <1>2, <1>3, <1>4, <1>5, <1>6, <1>7, <2>1, StartsStay DEF Starts
<1>16. Told'
  <2>1. Owned(mgr, j)
    BY <1>1 DEF Ready
  <2>2. \A k \in Jobs : Owned(mgr, k)' = Owned(mgr, k)
          /\ (Owned(mgr, k) => mem'[mgr][k].tombstone = mem[mgr][k].tombstone)
    BY <1>1, <1>3, <1>4, <1>7, <2>1 DEF Owned, Writes
  <2> QED
    BY <1>1, <2>2 DEF Told
<1> QED
  BY <1>8, <1>9, <1>10, <1>11, <1>12, <1>13, <1>14, <1>15, <1>16

LEMMA ReserveStartInv == ASSUME IInv, NEW c \in Callers, ReserveStart(c) PROVE IInv'
<1>1. /\ up /\ turn.phase = "running" /\ callers[c] = "idle"
      /\ Cardinality(Unfinished(session)) + reservations < Limit
      /\ callers' = [callers EXCEPT ![c] = "reserved"] /\ reservations' = reservations + 1
      /\ UNCHANGED <<scale, mgr, up, live, mem, run, disk, loaded, load, notes, turn, session,
                     destroying, teardown, told, reviewed, settled, rebuilt, spent>>
  BY DEF ReserveStart, InTurn, procVars, loadVars, startVars, sessionVars, history
<1> USE DEF IInv
<1>2. Types'
  BY <1>1 DEF Types, Moves, Writes
<1>3. Goroutines'
  BY <1>1 DEF Goroutines, Moves, Going, Outcomes
<1>4. Table'
  BY <1>1 DEF Table, Own, Owned, Moves, Writes, Going
<1>5. Records'
  BY <1>1, Members DEF Records, Table, Owned, Own, Moves, Writes, Going, Outcomes
<1>6. Windows'
  BY <1>1, Members DEF Windows, Owned, Moves, Writes, Going
<1>7. Files'
  BY <1>1, Members DEF Files, Goroutines, Moves, Going
<1>8. Review'
  BY <1>1, Members DEF Review, Table, Ready, Owned, IsDone, Moves, Writes, Going
<1>9. Starts'
  <2>1. Active' = Active \union {c} /\ c \notin Active
    BY <1>1 DEF Active, Types
  <2>2. Cardinality(Active') = Cardinality(Active) + 1
    BY <2>1, Counted, FS_AddElement
  <2>3. Unfinished(session)' = Unfinished(session)
    BY <1>1 DEF Unfinished, OfSession, Owned, IsDone
  <2>4. With("reserved")' \subseteq Active'
    BY DEF With, Active
  <2>5. IsFiniteSet(Active')
    BY <2>1, Counted, FS_AddElement
  <2>6. Cardinality(With("reserved")') <= Cardinality(Active')
        /\ Cardinality(With("reserved")') \in Nat
    BY <2>4, <2>5, FS_Subset, FS_CardinalityType
  <2>7. \A d \in Callers : callers'[d] # "idle" => turn'.phase = "running"
    BY <1>1 DEF Starts
  <2>8. reservations' = Cardinality(Active')
    BY <1>1, <2>2 DEF Starts
  <2>9. Limit \in Nat
    BY BoundsAssumption
  <2>10. Cardinality(Unfinished(session)') + Cardinality(With("reserved")') <= Limit
    BY <1>1, <2>2, <2>3, <2>6, <2>9, Counted DEF Starts
  <2> QED
    BY <2>7, <2>8, <2>10 DEF Starts
<1>10. Told'
  BY <1>1, Members DEF Told, Owned, Own, Moves, Writes, Going
<1> QED
  BY <1>2, <1>3, <1>4, <1>5, <1>6, <1>7, <1>8, <1>9, <1>10

LEMMA ReleaseStartInv == ASSUME IInv, NEW c \in Callers, ReleaseStart(c) PROVE IInv'
<1>1. /\ up /\ callers[c] = "started"
      /\ callers' = [callers EXCEPT ![c] = "idle"] /\ reservations' = reservations - 1
      /\ UNCHANGED <<scale, mgr, up, live, mem, run, disk, loaded, load, notes, turn, session,
                     destroying, teardown, told, reviewed, settled, rebuilt, spent>>
  BY DEF ReleaseStart, procVars, loadVars, startVars, sessionVars, history
<1> USE DEF IInv
<1>2. Types'
  BY <1>1 DEF Types, Moves, Writes
<1>3. Goroutines'
  BY <1>1 DEF Goroutines, Moves, Going, Outcomes
<1>4. Table'
  BY <1>1 DEF Table, Own, Owned, Moves, Writes, Going
<1>5. Records'
  BY <1>1, Members DEF Records, Table, Owned, Own, Moves, Writes, Going, Outcomes
<1>6. Windows'
  BY <1>1, Members DEF Windows, Owned, Moves, Writes, Going
<1>7. Files'
  BY <1>1, Members DEF Files, Goroutines, Moves, Going
<1>8. Review'
  BY <1>1, Members DEF Review, Table, Ready, Owned, IsDone, Moves, Writes, Going
<1>9. Starts'
  <2>1. Active' = Active \ {c} /\ c \in Active
    BY <1>1 DEF Active, Types
  <2>2. Cardinality(Active') = Cardinality(Active) - 1
    BY <2>1, Counted, FS_RemoveElement
  <2>3. Unfinished(session)' = Unfinished(session)
    BY <1>1 DEF Unfinished, OfSession, Owned, IsDone
  <2>4. With("reserved")' = With("reserved")
    BY <1>1 DEF With, Types
  <2>5. \A d \in Callers : callers'[d] # "idle" => turn'.phase = "running"
    BY <1>1 DEF Starts, Types
  <2>6. reservations' = Cardinality(Active')
    BY <1>1, <2>2 DEF Starts
  <2> QED
    BY <1>1, <2>3, <2>4, <2>5, <2>6 DEF Starts
<1>10. Told'
  BY <1>1, Members DEF Told, Owned, Own, Moves, Writes, Going
<1> QED
  BY <1>2, <1>3, <1>4, <1>5, <1>6, <1>7, <1>8, <1>9, <1>10

LEMMA StartForSessionInv == ASSUME IInv, NEW c \in Callers, StartForSession(c) PROVE IInv'
<1>1. /\ up /\ turn.phase = "running" /\ ~load.on
      /\ callers[c] = IF scale.capped THEN "reserved" ELSE "idle"
      /\ callers' = [callers EXCEPT ![c] = IF scale.capped THEN "started" ELSE "idle"]
      /\ UNCHANGED <<scale, mgr, up, live, disk, loaded, load, notes, reservations, turn,
                     session, destroying, teardown, told, reviewed, settled, rebuilt, spent>>
  BY DEF StartForSession, InTurn, IInv, Files, procVars, loadVars, startVars, sessionVars,
     history
<1>2. PICK j \in Jobs, r \in Object :
        /\ run[j].pc = "none"
        /\ run' \in [Jobs -> Goroutine] /\ \A k \in Jobs : k # j => run'[k] = run[k]
        /\ run'[j].pc = "registered" /\ run'[j].owner = mgr /\ run'[j].session = session
        /\ ~run'[j].mutated
        /\ Writes(mgr, j, r)
        /\ r.status = "running" /\ ~r.receipts /\ ~r.committed /\ ~r.tombstone
  <2>1. PICK j \in 1..scale.jobs, kind \in IF scale.capped THEN {"task"} ELSE scale.kinds :
          /\ run[j].pc = "none" /\ run' = [run EXCEPT ![j] = Started(kind)]
          /\ SetRecord(j, [status |-> "running", receipts |-> FALSE,
                           committed |-> FALSE, tombstone |-> FALSE])
    BY DEF StartForSession
  <2>2. scale.jobs \in Jobs /\ scale.kinds \subseteq Kinds
    BY BoundsAssumption DEF IInv, Types
  <2>3. j \in Jobs /\ kind \in Kinds
    BY <2>1, <2>2, BoundsAssumption DEF Jobs, Kinds
  <2> DEFINE g == Started(kind)
             r == [status |-> "running", receipts |-> FALSE,
                   committed |-> FALSE, tombstone |-> FALSE]
  <2>4. /\ g \in Goroutine /\ g.pc = "registered" /\ g.owner = mgr /\ g.session = session
        /\ ~g.mutated
    BY <2>3 DEF Started, Goroutine, Pcs, Statuses, IInv, Types
  <2>5. /\ r \in Object /\ r.status = "running" /\ ~r.receipts /\ ~r.committed /\ ~r.tombstone
    BY DEF Object, Statuses
  <2>6. Writes(mgr, j, r)
    BY <2>1, <2>3, <2>5, SetRecordWrites DEF IInv
  <2>7. run' = [run EXCEPT ![j] = g]
    BY <2>1
  <2> HIDE DEF g, r
  <2> QED
    BY <2>1, <2>3, <2>4, <2>5, <2>6, <2>7 DEF IInv, Types
<1>3. r # None /\ mgr \in Managers /\ mgr \in Nat /\ session \in Nat
  BY NamesAssumption, BoundsAssumption, Members DEF IInv, Types, Managers, Sessions
<1>4. /\ \A m \in Managers : mem[m][j] = None
      /\ disk[j] = None /\ j \notin settled /\ j \notin turn.leases
      /\ told[j] + notes[j] = 0 /\ mgr \in live
  BY <1>1, <1>2, <1>3 DEF IInv, Table, Goroutines, Review, Ready, Windows, Told, Owned
<1> USE DEF IInv
<1>5. Types'
  BY <1>1, <1>2, <1>3, <1>4 DEF Types, Writes
<1>6. Goroutines'
  BY <1>1, <1>2, <1>3, <1>4 DEF Types, Goroutines, Going
<1>7. Table'
  <2>0. \A m \in Managers, k \in Jobs : mem'[m][k] = IF m = mgr /\ k = j THEN r ELSE mem[m][k]
    BY <1>2 DEF Writes
  <2>1. ASSUME NEW m \in Managers, NEW k \in Jobs, mem'[m][k] # None, ~(m = mgr /\ k = j)
        PROVE  k # j /\ run'[k] = run[k] /\ mem'[m][k] = mem[m][k]
    <3>1. mem'[m][k] = mem[m][k]
      BY <2>0, <2>1
    <3>2. k # j
      BY <3>1, <1>4, <2>1
    <3> QED
      BY <3>1, <3>2, <1>2
  <2>2. mem'[mgr][j] = r
    BY <1>2, <1>3 DEF Writes
  <2> QED
    <3>1. ASSUME NEW m \in Managers, NEW k \in Jobs, mem'[m][k] # None, ~(m = mgr /\ k = j)
          PROVE  /\ up /\ m <= mgr /\ run'[k].pc # "none"
                 /\ ~mem'[m][k].tombstone => run'[k].owner = m /\ run'[k].pc # "gone"
                 /\ mem'[m][k].tombstone =>
                      /\ mem'[m][k].status \in Terminal
                      /\ mem'[m][k].status = "interrupted" => run'[k].pc \in {"done", "gone"}
                      /\ run'[k].pc # "registered" /\ (run'[k].owner = m => run'[k].pc \notin Going)
                 /\ mem'[m][k].committed => ~mem'[m][k].receipts
      BY <2>1, <3>1 DEF Table
    <3>2. /\ up /\ mgr <= mgr /\ run'[j].pc # "none" /\ run'[j].owner = mgr
          /\ run'[j].pc # "gone" /\ ~mem'[mgr][j].tombstone /\ ~mem'[mgr][j].committed
      BY <1>1, <1>2, <1>3, <2>2
    <3>3. up' = up /\ mgr' = mgr
      BY <1>1
    <3> QED
      BY <3>1, <3>2, <3>3 DEF Table
<1>8. Records'
  <2>1. ASSUME NEW k \in Jobs, k # j
        PROVE  /\ run'[k] = run[k] /\ Own(k)' = Own(k)
               /\ Owned(run[k].owner, k)' <=> Owned(run[k].owner, k)
    <3>1. run[k].owner \in Managers
      BY Members
    <3>2. mem'[run[k].owner][k] = mem[run[k].owner][k]
      BY <1>2, <2>1, <3>1 DEF Writes
    <3> QED
      BY <1>2, <2>1, <3>2 DEF Owned, Own
  <2>2. Own(j)' = r /\ Owned(run[j].owner, j)'
    BY <1>2, <1>3, Members DEF Writes, Owned, Own
  <2> QED
    BY <1>1, <1>2, <1>3, <2>1, <2>2 DEF Records, Going, Outcomes
<1>9. Windows'
  BY <1>1, <1>2, <1>3, <1>4, Members DEF Windows, Owned, Moves, Writes, Going
<1>10. Files'
  BY <1>1, <1>2, <1>3, <1>4, Members DEF Files, Goroutines, Moves, Going
<1>11. Review'
  BY <1>1, <1>2, <1>3, <1>4, Members DEF Review, Table, Ready, Owned, IsDone, Moves, Writes,
     Going
<1>12. Starts'
  <2>1. Unfinished(session)' \subseteq Unfinished(session) \union {j}
    BY <1>1, <1>2, <1>3, <1>4 DEF Unfinished, OfSession, Owned, IsDone, Writes
  <2>2. IsFiniteSet(Unfinished(session) \union {j})
        /\ Cardinality(Unfinished(session) \union {j}) <= Cardinality(Unfinished(session)) + 1
    <3>1. IsFiniteSet(Unfinished(session))
      BY Counted
    <3> QED
      BY <3>1, OneMore
  <2>3. /\ Cardinality(Unfinished(session)') <= Cardinality(Unfinished(session)) + 1
        /\ Cardinality(Unfinished(session)') \in Nat
    <3>1. /\ IsFiniteSet(Unfinished(session)')
          /\ Cardinality(Unfinished(session)') <= Cardinality(Unfinished(session) \union {j})
      BY <2>1, <2>2, FS_Subset
    <3>2. /\ Cardinality(Unfinished(session)') \in Nat
          /\ Cardinality(Unfinished(session) \union {j}) \in Nat
      BY <2>2, <3>1, FS_CardinalityType
    <3> QED
      BY <2>2, <3>1, <3>2, Counted
  <2>4. Active' = Active
    BY <1>1, <1>2, <1>3, <1>4 DEF Active, Types
  <2>5. (\A d \in Callers : callers'[d] # "idle" => turn'.phase = "running")
        /\ reservations' = Cardinality(Active')
    BY <1>1, <1>2, <1>3, <1>4, <2>4 DEF Starts, Types
  <2>6. ASSUME scale.capped
        PROVE  Cardinality(Unfinished(session)') + Cardinality(With("reserved")') <= Limit
    <3>1. With("reserved")' = With("reserved") \ {c} /\ c \in With("reserved")
      BY <1>1, <1>2, <1>3, <1>4, <2>6 DEF With, Types
    <3>2. Cardinality(With("reserved")') = Cardinality(With("reserved")) - 1
      BY <3>1, Counted, FS_RemoveElement
    <3>3. Limit \in Nat
      BY BoundsAssumption
    <3> QED
      BY <2>3, <2>6, <3>2, <3>3, Counted DEF Starts
  <2> QED
    BY <1>1, <1>2, <1>3, <1>4, <2>5, <2>6 DEF Starts
<1>13. Told'
  BY <1>1, <1>2, <1>3, <1>4, Members DEF Told, Owned, Own, Moves, Writes, Going
<1> QED
  BY <1>5, <1>6, <1>7, <1>8, <1>9, <1>10, <1>11, <1>12, <1>13
-----------------------------------------------------------------------------
(* Discarding a session. *)

\* What still runs for the current manager is a target of the clear.
LEMMA GoingAreTargets ==
    ASSUME IInv, teardown.phase = "none", NEW j \in Jobs, run[j].owner = mgr, run[j].pc \in Going
    PROVE  j \in Targets
<1>1. Owned(mgr, j) /\ ~mem[mgr][j].tombstone /\ mem[mgr][j].status \in {"running", "killed"}
  BY Members DEF IInv, Table, Records, Owned, Own
<1>2. run[j].session = session
  BY DEF IInv, Types, Goroutine, Windows, Sessions
<1> QED
  BY <1>1, <1>2 DEF Targets, OfSession

LEMMA ClearNowInv ==
    ASSUME IInv, ClearSession, Targets = {}, destroying' = destroying, teardown' = teardown,
           NEW removed \in BOOLEAN,
           IF removed THEN disk' = Removed(session) /\ session' = session + 1 /\ spent' = spent
           ELSE disk' = disk /\ session' = session /\ spent' \in [turns : Nat, mishaps : Nat],
           mem' = Purged(session), loaded' \in BOOLEAN
    PROVE  IInv'
<1>1. /\ up /\ turn.phase = "idle" /\ ~load.on /\ session < MaxSessions /\ teardown.phase = "none"
      /\ destroying = 0 /\ \A c \in Callers : callers[c] = "idle"
      /\ notes' \in [Jobs -> Nat] /\ \A k \in Jobs : notes'[k] = 0
      /\ UNCHANGED <<scale, mgr, up, live, run, load, callers, reservations, turn, told,
                     reviewed, settled, rebuilt>>
  <2>1. notes' \in [Jobs -> Nat]
        /\ \A k \in Jobs : notes'[k] = IF run[k].session = session THEN 0 ELSE notes[k]
    BY DEF ClearSession, NotesWithout, IInv, Types
  <2>2. \A k \in Jobs : notes'[k] = 0
    BY <2>1 DEF IInv, Types, Told
  <2> QED
    BY <2>1, <2>2 DEF ClearSession, Quiet, IInv, Windows, Starts, procVars, loadVars,
       startVars, sessionVars, history
<1>2. /\ mem' \in [Managers -> [Jobs -> Object \union {None}]]
      /\ \A m \in Managers, k \in Jobs :
           mem'[m][k] = IF m = mgr /\ run[k].session = session THEN None ELSE mem[m][k]
  BY PurgedTable DEF IInv
<1>3. /\ disk' \in [Jobs -> Meta \union {None}]
      /\ \A k \in Jobs : disk'[k] = disk[k]
                         \/ (disk'[k] = None /\ removed /\ run[k].session = session)
      /\ session' = IF removed THEN session + 1 ELSE session
      /\ session' \in Sessions /\ spent' \in [turns : Nat, mishaps : Nat]
      /\ ~removed => disk' = disk
  <2>1. CASE removed
    BY <1>1, <2>1, RemovedFiles, BoundsAssumption DEF IInv, Types, Sessions
  <2>2. CASE ~removed
    BY <2>2 DEF IInv, Types
  <2> QED
    BY <2>1, <2>2
<1>4. \A k \in Jobs : ~(run[k].owner = mgr /\ run[k].pc \in Going)
  BY <1>1, GoingAreTargets
<1> USE DEF IInv
<1>5. Types'
  BY <1>1, <1>2, <1>3, <1>4 DEF Types, Moves, Writes
<1>6. Goroutines'
  BY <1>1, <1>2, <1>3, <1>4 DEF Goroutines, Moves, Going, Outcomes
<1>7. Table'
  BY <1>1, <1>2, <1>3, <1>4 DEF Table, Own, Owned, Moves, Writes, Going
<1>8. Records'
  BY <1>1, <1>2, <1>3, <1>4, Members DEF Records, Table, Owned, Own, Moves, Writes, Going,
     Outcomes
<1>9. Windows'
  BY <1>1, <1>2, <1>3, <1>4, Members DEF Types, Goroutine, Windows, Sessions
<1>10. Files'
  BY <1>1, <1>2, <1>3, <1>4, Members DEF Types, Files, Windows, Goroutine, Sessions
<1>11. Review'
  BY <1>1, <1>2, <1>3, <1>4, Members DEF Review, Table, Ready, Owned, IsDone, Moves, Writes,
     Going
<1>12. Starts'
  <2>1. Unfinished(session)' = {}
    BY <1>1, <1>2, <1>3, <1>4 DEF Unfinished, OfSession, Owned, Windows, Types, Goroutine,
       Sessions
  <2> QED
    BY <1>1, <1>2, <1>3, <1>4, <2>1, StartsStay DEF Starts
<1>13. Told'
  BY <1>1, <1>2, <1>3, <1>4, Members DEF Types, Told, Windows, Goroutine, Sessions, Owned
<1> QED
  BY <1>5, <1>6, <1>7, <1>8, <1>9, <1>10, <1>11, <1>12, <1>13

LEMMA ClearLaterInv ==
    ASSUME IInv, ClearSession, mem' = [mem EXCEPT ![mgr] = Killed(Targets)],
           destroying' = session, teardown' = [phase |-> "waiting", targets |-> Targets],
           session' = session + 1, loaded' = TRUE, disk' = disk, spent' = spent
    PROVE  IInv'
<1>1. /\ up /\ turn.phase = "idle" /\ ~load.on /\ session < MaxSessions /\ teardown.phase = "none"
      /\ destroying = 0 /\ \A c \in Callers : callers[c] = "idle"
      /\ notes' \in [Jobs -> Nat] /\ \A k \in Jobs : notes'[k] = 0
      /\ UNCHANGED <<scale, mgr, up, live, run, load, callers, reservations, turn, told,
                     reviewed, settled, rebuilt>>
  <2>1. notes' \in [Jobs -> Nat]
        /\ \A k \in Jobs : notes'[k] = IF run[k].session = session THEN 0 ELSE notes[k]
    BY DEF ClearSession, NotesWithout, IInv, Types
  <2>2. \A k \in Jobs : notes'[k] = 0
    BY <2>1 DEF IInv, Types, Told
  <2> QED
    BY <2>1, <2>2 DEF ClearSession, Quiet, IInv, Windows, Starts, procVars, loadVars,
       startVars, sessionVars, history
<1>2. Targets \subseteq Jobs /\ \A k \in Targets : Owned(mgr, k)
  BY DEF Targets, OfSession
<1>3. /\ mem' \in [Managers -> [Jobs -> Object \union {None}]]
      /\ \A m \in Managers, k \in Jobs :
           IF m = mgr /\ k \in Targets
           THEN /\ mem'[m][k] # None /\ mem'[m][k] \in Object /\ mem'[m][k].status = "killed"
                /\ mem'[m][k].receipts = mem[m][k].receipts
                /\ mem'[m][k].committed = mem[m][k].committed
                /\ mem'[m][k].tombstone = mem[m][k].tombstone
           ELSE mem'[m][k] = mem[m][k]
  BY <1>2, KilledTable DEF IInv
<1>4. \A k \in Jobs : run[k].owner = mgr /\ run[k].pc \in Going => k \in Targets
  BY <1>1, GoingAreTargets
<1>5. /\ session' \in Sessions /\ session \in 1..MaxSessions /\ session' = session + 1
      /\ teardown'.phase = "waiting" /\ teardown'.targets = Targets
      /\ \A k \in Targets : run[k].session = session
  BY <1>1, BoundsAssumption DEF IInv, Types, Sessions, Targets, OfSession
<1> USE DEF IInv
<1>6. Types'
  BY <1>1, <1>2, <1>3, <1>4, <1>5, BoundsAssumption DEF Types, Sessions
<1>7. Goroutines'
  BY <1>1, <1>2, <1>3, <1>4, <1>5 DEF Goroutines, Moves, Going, Outcomes
<1>8. Table'
  BY <1>1, <1>2, <1>3, <1>4, <1>5 DEF Table, Terminal, Owned
<1>9. Records'
  BY <1>1, <1>2, <1>3, <1>4, <1>5, Members, SMTT(60) DEF Records, Table, Owned, Own, Going, Outcomes
<1>10. Windows'
  BY <1>1, <1>2, <1>3, <1>4, <1>5, Members DEF Types, Goroutine, Windows, Owned, Sessions
<1>11. Files'
  BY <1>1, <1>2, <1>3, <1>4, <1>5, Members DEF Types, Files, Windows, Goroutine, Sessions
<1>12. Review'
  BY <1>1, <1>2, <1>3, <1>4, <1>5, Members DEF Review, Table, Ready, Owned, IsDone, Moves,
     Writes, Going
<1>13. Starts'
  <2>1. Unfinished(session)' = {}
    BY <1>1, <1>2, <1>3, <1>4, <1>5 DEF Unfinished, OfSession, Owned, Windows, Types,
       Goroutine, Sessions
  <2> QED
    BY <1>1, <1>2, <1>3, <1>4, <1>5, <2>1, StartsStay DEF Starts
<1>14. Told'
  BY <1>1, <1>2, <1>3, <1>4, <1>5, Members DEF Types, Told, Windows, Goroutine, Sessions, Owned
<1> QED
  BY <1>6, <1>7, <1>8, <1>9, <1>10, <1>11, <1>12, <1>13, <1>14

LEMMA ClearSessionInv == ASSUME IInv, ClearSession PROVE IInv'
<1>1. CASE Targets = {} /\ disk' = Removed(session) /\ mem' = Purged(session)
           /\ session' = session + 1 /\ loaded' = TRUE /\ UNCHANGED <<destroying, teardown, spent>>
  BY <1>1, ClearNowInv
<1>2. CASE Targets = {} /\ Mishap /\ mem' = Purged(session) /\ loaded' = FALSE
           /\ UNCHANGED <<disk, session, destroying, teardown>>
  <2>1. spent' \in [turns : Nat, mishaps : Nat]
    BY <1>2, MishapTypes DEF IInv
  <2> QED
    BY <1>2, <2>1, ClearNowInv
<1>3. CASE Targets # {} /\ mem' = [mem EXCEPT ![mgr] = Killed(Targets)]
           /\ destroying' = session /\ teardown' = [phase |-> "waiting", targets |-> Targets]
           /\ session' = session + 1 /\ loaded' = TRUE /\ UNCHANGED <<disk, spent>>
  BY <1>3, ClearLaterInv
<1> QED
  BY <1>1, <1>2, <1>3 DEF ClearSession

LEMMA TeardownWaitedInv == ASSUME IInv, TeardownWaited PROVE IInv'
<1>1. /\ up /\ teardown.phase = "waiting" /\ \A k \in teardown.targets : IsDone(mgr, k)
      /\ teardown' \in [phase : {"none", "waiting", "unwound", "removed"}, targets : SUBSET Jobs]
      /\ teardown'.phase = "unwound" /\ teardown'.targets = teardown.targets
      /\ UNCHANGED <<scale, mgr, up, live, mem, run, disk, loaded, load, notes, callers,
                     reservations, turn, session, destroying, told, reviewed, settled,
                     rebuilt, spent>>
  BY DEF TeardownWaited, IInv, Types, procVars, loadVars, startVars, sessionVars, history
<1>2. \A k \in teardown.targets : run[k].owner = mgr => run[k].pc \notin Going
  BY <1>1, Members DEF IInv, Table, Windows, IsDone, Owned, Going
<1> USE DEF IInv
<1>3. Types'
  BY <1>1, <1>2 DEF Types, Moves, Writes
<1>4. Goroutines'
  BY <1>1, <1>2 DEF Goroutines, Moves, Going, Outcomes
<1>5. Table'
  BY <1>1, <1>2 DEF Table, Own, Owned, Moves, Writes, Going
<1>6. Records'
  BY <1>1, <1>2, Members DEF Records, Table, Owned, Own, Moves, Writes, Going, Outcomes
<1>7. Windows'
  BY <1>1, <1>2, Members DEF Windows, Owned, Moves, Writes, Going
<1>8. Files'
  BY <1>1, <1>2, Members DEF Files, Goroutines, Moves, Going
<1>9. Review'
  BY <1>1, <1>2, Members DEF Review, Table, Ready, Owned, IsDone, Moves, Writes, Going
<1>10. Starts'
  <2>1. Unfinished(session)' \subseteq Unfinished(session)
    BY <1>1, <1>2, Members DEF Table, Unfinished, OfSession, Owned, Own, IsDone, Moves, Writes
  <2> QED
    BY <1>1, <1>2, <2>1, StartsStay DEF Starts
<1>11. Told'
  BY <1>1, <1>2, Members DEF Told, Owned, Own, Moves, Writes, Going
<1> QED
  BY <1>3, <1>4, <1>5, <1>6, <1>7, <1>8, <1>9, <1>10, <1>11

LEMMA RemoveArtifactsInv == ASSUME IInv, RemoveArtifacts PROVE IInv'
<1>1. /\ up /\ teardown.phase = "unwound"
      /\ teardown' \in [phase : {"none", "waiting", "unwound", "removed"}, targets : SUBSET Jobs]
      /\ teardown'.phase = "removed" /\ teardown'.targets = teardown.targets
      /\ UNCHANGED <<scale, mgr, up, live, mem, run, loaded, load, notes, callers,
                     reservations, turn, session, destroying, told, reviewed, settled,
                     rebuilt>>
  BY DEF RemoveArtifacts, IInv, Types, procVars, loadVars, startVars, sessionVars, history
<1>2. /\ disk' = Removed(destroying) \/ disk' = disk
      /\ spent' \in [turns : Nat, mishaps : Nat]
  BY MishapTypes DEF RemoveArtifacts, IInv, Types
<1>3. /\ disk' \in [Jobs -> Meta \union {None}]
      /\ \A k \in Jobs : disk'[k] = disk[k] \/ (disk'[k] = None /\ run[k].session # session)
  BY <1>2, RemovedFiles DEF IInv, Types, Windows, Sessions
<1> USE DEF IInv
<1>4. Types'
  BY <1>1, <1>2, <1>3 DEF Types, Moves, Writes
<1>5. Goroutines'
  BY <1>1, <1>2, <1>3 DEF Goroutines, Moves, Going, Outcomes
<1>6. Table'
  BY <1>1, <1>2, <1>3 DEF Table, Own, Owned, Moves, Writes, Going
<1>7. Records'
  BY <1>1, <1>2, <1>3, Members DEF Records, Table, Owned, Own, Moves, Writes, Going, Outcomes
<1>8. Windows'
  BY <1>1, <1>2, <1>3, Members DEF Windows, Owned, Moves, Writes, Going
<1>9. Files'
  BY <1>1, <1>2, <1>3, Members DEF Files, Goroutines, Moves, Going
<1>10. Review'
  BY <1>1, <1>2, <1>3, Members DEF Review, Table, Ready, Owned, IsDone, Moves, Writes, Going
<1>11. Starts'
  <2>1. Unfinished(session)' \subseteq Unfinished(session)
    BY <1>1, <1>2, <1>3, Members DEF Table, Unfinished, OfSession, Owned, Own, IsDone, Moves,
       Writes
  <2> QED
    BY <1>1, <1>2, <1>3, <2>1, StartsStay DEF Starts
<1>12. Told'
  BY <1>1, <1>2, <1>3, Members DEF Told, Owned, Own, Moves, Writes, Going
<1> QED
  BY <1>4, <1>5, <1>6, <1>7, <1>8, <1>9, <1>10, <1>11, <1>12

LEMMA FinishDestroySessionInv == ASSUME IInv, FinishDestroySession PROVE IInv'
<1>1. /\ up /\ teardown.phase = "removed" /\ destroying' = 0
      /\ teardown'.phase = "none"
      /\ teardown' \in [phase : {"none", "waiting", "unwound", "removed"}, targets : SUBSET Jobs]
      /\ UNCHANGED <<scale, mgr, up, live, run, disk, loaded, load, notes, callers,
                     reservations, turn, session, told, reviewed, settled, rebuilt, spent>>
  BY DEF FinishDestroySession, NoTeardown, procVars, loadVars, startVars, sessionVars, history
<1>2. /\ mem' \in [Managers -> [Jobs -> Object \union {None}]]
      /\ \A m \in Managers, k \in Jobs :
           mem'[m][k] = IF m = mgr /\ run[k].session = destroying THEN None ELSE mem[m][k]
      /\ destroying # session /\ session \in Nat /\ MaxSessions \in Nat
  BY PurgedTable, BoundsAssumption DEF FinishDestroySession, IInv, Types, Windows, Sessions
<1>3. \A k \in Jobs : run[k].owner = mgr /\ run[k].pc \in Going => run[k].session = session
  BY <1>1 DEF IInv, Windows
<1>4. \A k \in Jobs : run[k].session = session => mem'[mgr][k] = mem[mgr][k]
  BY <1>2, Members DEF IInv
<1>5. \A m \in Managers, k \in Jobs : mem'[m][k] = mem[m][k] \/ mem'[m][k] = None
  BY <1>2
<1> USE DEF IInv
<1>6. Types'
  BY <1>1, <1>2, <1>3, <1>4, <1>5 DEF Types, Sessions
<1>7. Goroutines'
  BY <1>1, <1>2, <1>3, <1>4, <1>5 DEF Goroutines, Moves, Going, Outcomes
<1>8. Table'
  BY <1>1, <1>2, <1>3, <1>4, <1>5 DEF Table, Own, Owned, Moves, Writes, Going
<1>9. Records'
  BY <1>1, <1>2, <1>3, <1>4, <1>5, Members DEF Records, Table, Owned, Own, Moves, Writes,
     Going, Outcomes
<1>10. Windows'
  BY <1>1, <1>2, <1>3, <1>4, <1>5, Members DEF Types, Windows, Owned, Sessions
<1>11. Files'
  BY <1>1, <1>2, <1>3, <1>4, <1>5, Members DEF Files, Goroutines, Moves, Going
<1>12. Review'
  BY <1>1, <1>2, <1>3, <1>4, <1>5, Members DEF Review, Ready, Owned, IsDone
<1>13. Starts'
  <2>1. Unfinished(session)' \subseteq Unfinished(session)
    BY <1>1, <1>2, <1>3, <1>4, <1>5, Members DEF Unfinished, OfSession, Owned, IsDone
  <2> QED
    BY <1>1, <1>2, <1>3, <1>4, <1>5, <2>1, StartsStay DEF Starts
<1>14. Told'
  BY <1>1, <1>2, <1>3, <1>4, <1>5, Members DEF Told, Owned, Own, Moves, Writes, Going
<1> QED
  BY <1>6, <1>7, <1>8, <1>9, <1>10, <1>11, <1>12, <1>13, <1>14
-----------------------------------------------------------------------------
(* Crashes, rebuilds and loads. *)

LEMMA BeginsLoad ==
    ASSUME BeginLoad
    PROVE  /\ load' \in [files : SUBSET Jobs, at : 0 .. MaxJobs, meta : Meta \union {None},
                         owned : BOOLEAN, deferred : BOOLEAN, on : BOOLEAN]
           /\ load'.on /\ load'.at = 0
           /\ \A j \in load'.files : j \in Jobs /\ disk[j] # None /\ run[j].session = session
<1>1. PICK owned \in BOOLEAN :
        load' = [files |-> {j \in Jobs : disk[j] # None /\ run[j].session = session},
                 at |-> 0, meta |-> None, owned |-> owned, deferred |-> FALSE, on |-> TRUE]
  BY DEF BeginLoad
<1>2. 0 \in 0 .. MaxJobs
  BY BoundsAssumption
<1> QED
  BY <1>1, <1>2

LEMMA CrashInv == ASSUME IInv, Crash PROVE IInv'
<1>1. /\ ~up' /\ live' = {} /\ notes' = [j \in Jobs |-> 0]
      /\ callers' = [c \in Callers |-> "idle"] /\ reservations' = 0
      /\ turn' = Idle /\ load' = NoLoad /\ loaded' = FALSE
      /\ destroying' = 0 /\ teardown' = NoTeardown
      /\ up' \in BOOLEAN /\ up /\ spent' \in [turns : Nat, mishaps : Nat]
      /\ UNCHANGED <<scale, mgr, disk, session, told, reviewed, settled, rebuilt>>
  BY MishapTypes DEF Crash, IInv, procVars, loadVars, startVars, sessionVars, history
<1>2. /\ mem' \in [Managers -> [Jobs -> Object \union {None}]]
      /\ \A m \in Managers, j \in Jobs : mem'[m][j] = None
  BY DEF Crash
<1>3. /\ run' \in [Jobs -> Goroutine]
      /\ \A k \in Jobs :
           /\ run'[k].pc = IF run[k].pc = "none" THEN "none" ELSE "gone"
           /\ run'[k].kind = run[k].kind /\ run'[k].owner = run[k].owner
           /\ run'[k].session = run[k].session /\ run'[k].mutated = run[k].mutated
  <2> DEFINE g(k) == IF run[k].pc = "none" THEN run[k] ELSE [run[k] EXCEPT !.pc = "gone"]
  <2>1. ASSUME NEW k \in Jobs
        PROVE  /\ g(k) \in Goroutine
               /\ g(k).pc = IF run[k].pc = "none" THEN "none" ELSE "gone"
               /\ g(k).kind = run[k].kind /\ g(k).owner = run[k].owner
               /\ g(k).session = run[k].session /\ g(k).mutated = run[k].mutated
    <3>1. run[k] \in Goroutine
      BY DEF IInv, Types
    <3> QED
      BY <3>1 DEF Goroutine, Pcs
  <2>2. run' = [k \in Jobs |-> g(k)]
    BY DEF Crash
  <2> HIDE DEF g
  <2> QED
    BY <2>1, <2>2
<1>4. /\ Idle \in [phase : {"idle", "running", "committing"}, plan : BOOLEAN,
                    ledger : SUBSET Jobs, leases : SUBSET Jobs]
      /\ NoLoad \in [files : SUBSET Jobs, at : 0 .. MaxJobs, meta : Meta \union {None},
                     owned : BOOLEAN, deferred : BOOLEAN, on : BOOLEAN]
      /\ NoTeardown \in [phase : {"none", "waiting", "unwound", "removed"}, targets : SUBSET Jobs]
      /\ Idle.phase = "idle" /\ NoLoad.files = {} /\ NoLoad.at = 0 /\ ~NoLoad.on
      /\ NoTeardown.phase = "none"
  BY BoundsAssumption DEF Idle, NoLoad, NoTeardown
<1>5. 0 \in 0 .. MaxSessions /\ 0 \in Nat /\ \A s \in Sessions : s \in Nat /\ 0 < s
  BY BoundsAssumption DEF Sessions
<1> USE DEF IInv
<1>6. Types'
  BY <1>1, <1>2, <1>3, <1>4, <1>5 DEF Types
<1>7. Goroutines'
  BY <1>1, <1>2, <1>3, <1>4, <1>5 DEF Goroutines, Moves, Going, Outcomes
<1>8. Table'
  BY <1>1, <1>2, <1>3, <1>4, <1>5 DEF Table, Own, Owned, Moves, Writes, Going
<1>9. Records'
  BY <1>1, <1>2, <1>3, <1>4, <1>5, Members DEF Records, Table, Owned, Own, Moves, Writes,
     Going, Outcomes
<1>10. Windows'
  BY <1>1, <1>2, <1>3, <1>4, <1>5 DEF Types, Windows, Going
<1>11. Files'
  BY <1>1, <1>2, <1>3, <1>4, <1>5, Members DEF Files, Goroutines, Moves, Going
<1>12. Review'
  BY <1>1, <1>2, <1>3, <1>4, <1>5, Members DEF Review, Table, Ready, Owned, IsDone, Moves,
     Writes, Going
<1>13. Starts'
  <2>1. Active' = {} /\ With("reserved")' = {} /\ Unfinished(session)' = {}
    BY <1>1, <1>2, <1>3, <1>4, <1>5, Members DEF Active, With, Unfinished, OfSession, Owned
  <2>2. Limit \in Nat
    BY BoundsAssumption
  <2>3. Cardinality({}) = 0
    BY FS_EmptySet
  <2>4. Cardinality(Active') = 0 /\ Cardinality(With("reserved")') = 0
        /\ Cardinality(Unfinished(session)') = 0
    BY <2>1, <2>3
  <2>5. \A c \in Callers : callers'[c] = "idle"
    BY <1>1
  <2> QED
    BY <1>1, <2>2, <2>4, <2>5 DEF Starts
<1>14. Told'
  <2>1. \A j \in Jobs : /\ notes[j] \in Nat /\ told[j] \in Nat /\ told'[j] = told[j]
                        /\ notes'[j] = 0 /\ ~Owned(mgr, j)'
    BY <1>1, <1>2, Members DEF Types, Owned
  <2> QED
    BY <1>3, <2>1 DEF Told
<1> QED
  BY <1>6, <1>7, <1>8, <1>9, <1>10, <1>11, <1>12, <1>13, <1>14

LEMMA RestartInv == ASSUME IInv, Restart PROVE IInv'
<1>1. /\ ~up /\ mgr < MaxManagers /\ up' = TRUE /\ mgr' = mgr + 1 /\ live' = {mgr + 1}
      /\ turn.phase = "idle" /\ teardown.phase = "none" /\ destroying = 0
      /\ \A c \in Callers : callers[c] = "idle"
      /\ \A j \in Jobs : run[j].pc \in {"none", "gone"}
      /\ \A m \in Managers, j \in Jobs : mem[m][j] = None
      /\ UNCHANGED <<scale, mem, run, disk, loaded, notes, callers, reservations, turn,
                     session, destroying, teardown, told, reviewed, settled, rebuilt, spent>>
  BY DEF Restart, IInv, Table, Goroutines, Windows, Review, Starts, procVars, loadVars,
     startVars, sessionVars, history
<1>2. /\ mgr \in Nat /\ mgr + 1 \in Managers /\ mgr + 1 \in 1 .. mgr'
      /\ \A j \in Jobs : run[j].owner # mgr' /\ run[j].owner <= mgr' /\ mem[mgr + 1][j] = None
      /\ \A m \in Managers : m <= mgr => m <= mgr + 1
      /\ mgr' \in Managers /\ live \union {mgr + 1} \subseteq 1 .. mgr'
  <2>1. mgr \in 1 .. MaxManagers /\ mgr < MaxManagers /\ MaxManagers \in Nat /\ mgr' = mgr + 1
    BY <1>1, BoundsAssumption DEF IInv, Types, Managers
  <2>2. mgr \in Nat /\ mgr + 1 \in Managers /\ mgr + 1 \in 1 .. mgr' /\ ~(mgr + 1 <= mgr)
    BY <2>1 DEF Managers
  <2>3. \A j \in Jobs : run[j].owner # mgr' /\ run[j].owner <= mgr' /\ mem[mgr + 1][j] = None
    BY <2>1, <2>2, Members DEF IInv, Table, Goroutines, Managers
  <2> QED
    BY <2>1, <2>2, <2>3 DEF IInv, Types, Managers
<1>3. /\ load' \in [files : SUBSET Jobs, at : 0 .. MaxJobs, meta : Meta \union {None},
                    owned : BOOLEAN, deferred : BOOLEAN, on : BOOLEAN]
      /\ load'.on /\ load'.at = 0
      /\ \A j \in load'.files : j \in Jobs /\ disk[j] # None /\ run[j].session = session
  BY BeginsLoad DEF Restart
<1> USE DEF IInv
<1>4. Types'
  BY <1>1, <1>2, <1>3 DEF Types
<1>5. Goroutines'
  BY <1>1, <1>2, <1>3 DEF Goroutines, Going
<1>6. Table'
  BY <1>1, <1>2, <1>3 DEF Table, Own, Owned, Moves, Writes, Going
<1>7. Records'
  BY <1>1, <1>2, <1>3, Members DEF Records, Table, Owned, Own, Moves, Writes, Going, Outcomes
<1>8. Windows'
  BY <1>1, <1>2, <1>3 DEF Types, Windows, Going
<1>9. Files'
  BY <1>1, <1>2, <1>3, Members DEF Files, Goroutines, Moves, Going
<1>10. Review'
  BY <1>1, <1>2, <1>3, Members DEF Review, Table, Ready, Owned, IsDone, Moves, Writes, Going
<1>11. Starts'
  <2>1. Unfinished(session)' = {}
    BY <1>1, <1>2, <1>3 DEF Unfinished, OfSession, Owned
  <2> QED
    BY <1>1, <1>2, <1>3, <2>1, StartsStay DEF Starts
<1>12. Told'
  BY <1>1, <1>2, <1>3 DEF Types, Told, Owned
<1> QED
  BY <1>4, <1>5, <1>6, <1>7, <1>8, <1>9, <1>10, <1>11, <1>12

LEMMA RebuildInv == ASSUME IInv, Rebuild PROVE IInv'
<1>1. /\ up /\ mgr < MaxManagers /\ rebuilt' /\ mgr' = mgr + 1 /\ live' = live \union {mgr + 1}
      /\ turn.phase = "idle" /\ teardown.phase = "none" /\ destroying = 0
      /\ notes' = [j \in Jobs |-> 0] /\ turn' = Idle /\ loaded' = FALSE
      /\ spent' \in [turns : Nat, mishaps : Nat] /\ rebuilt' \in BOOLEAN
      /\ \A c \in Callers : callers[c] = "idle"
      /\ UNCHANGED <<scale, up, disk, callers, reservations, session, destroying, teardown,
                     told, reviewed, settled>>
  BY MishapTypes DEF Rebuild, Quiet, IInv, Windows, Starts, procVars, loadVars, startVars,
     sessionVars, history
<1>2. /\ mgr \in Nat /\ mgr + 1 \in Managers /\ mgr + 1 \in 1 .. mgr'
      /\ \A j \in Jobs : run[j].owner # mgr' /\ run[j].owner <= mgr' /\ mem[mgr + 1][j] = None
      /\ \A m \in Managers : m <= mgr => m <= mgr + 1
      /\ mgr' \in Managers /\ live \union {mgr + 1} \subseteq 1 .. mgr'
  <2>1. mgr \in 1 .. MaxManagers /\ mgr < MaxManagers /\ MaxManagers \in Nat /\ mgr' = mgr + 1
    BY <1>1, BoundsAssumption DEF IInv, Types, Managers
  <2>2. mgr \in Nat /\ mgr + 1 \in Managers /\ mgr + 1 \in 1 .. mgr' /\ ~(mgr + 1 <= mgr)
    BY <2>1 DEF Managers
  <2>3. \A j \in Jobs : run[j].owner # mgr' /\ run[j].owner <= mgr' /\ mem[mgr + 1][j] = None
    BY <2>1, <2>2, Members DEF IInv, Table, Goroutines, Managers
  <2> QED
    BY <2>1, <2>2, <2>3 DEF IInv, Types, Managers
<1>3. /\ load' \in [files : SUBSET Jobs, at : 0 .. MaxJobs, meta : Meta \union {None},
                    owned : BOOLEAN, deferred : BOOLEAN, on : BOOLEAN]
      /\ load'.on /\ load'.at = 0
      /\ \A j \in load'.files : j \in Jobs /\ disk[j] # None /\ run[j].session = session
  BY BeginsLoad DEF Rebuild
<1>4. /\ run' \in [Jobs -> Goroutine]
      /\ \A k \in Jobs :
           /\ run'[k].pc = run[k].pc /\ run'[k].outcome = run[k].outcome
           /\ run'[k].kind = run[k].kind /\ run'[k].owner = run[k].owner
           /\ run'[k].session = run[k].session /\ run'[k].mutated = run[k].mutated
  <2> DEFINE g(k) == IF run[k].owner = mgr THEN [run[k] EXCEPT !.cancelled = TRUE] ELSE run[k]
  <2>1. ASSUME NEW k \in Jobs
        PROVE  /\ g(k) \in Goroutine /\ g(k).pc = run[k].pc /\ g(k).outcome = run[k].outcome
               /\ g(k).kind = run[k].kind /\ g(k).owner = run[k].owner
               /\ g(k).session = run[k].session /\ g(k).mutated = run[k].mutated
    <3>1. run[k] \in Goroutine
      BY DEF IInv, Types
    <3> QED
      BY <3>1 DEF Goroutine
  <2>2. run' = [k \in Jobs |-> g(k)]
    BY DEF Rebuild
  <2> HIDE DEF g
  <2> QED
    BY <2>1, <2>2
<1>5. /\ mem' \in [Managers -> [Jobs -> Object \union {None}]]
      /\ \A m \in Managers, k \in Jobs :
           \/ mem'[m][k] = mem[m][k]
           \/ /\ mem[m][k] # None /\ mem[m][k].status = "running"
              /\ mem'[m][k] # None /\ mem'[m][k] \in Object /\ mem'[m][k].status = "killed"
              /\ mem'[m][k].receipts = mem[m][k].receipts
              /\ mem'[m][k].committed = mem[m][k].committed
              /\ mem'[m][k].tombstone = mem[m][k].tombstone
  <2> DEFINE T == {j \in Jobs : Owned(mgr, j) /\ mem[mgr][j].status = "running"}
  <2>1. mem' = mem \/ mem' = [mem EXCEPT ![mgr] = Killed(T)]
    BY DEF Rebuild
  <2>2. T \in SUBSET Jobs /\ \A k \in T : Owned(mgr, k) /\ mem[mgr][k].status = "running"
    OBVIOUS
  <2> HIDE DEF T
  <2>3. CASE mem' = mem
    BY <2>3 DEF IInv, Types
  <2>4. CASE mem' = [mem EXCEPT ![mgr] = Killed(T)]
    <3>1. /\ mem' \in [Managers -> [Jobs -> Object \union {None}]]
          /\ \A m \in Managers, k \in Jobs :
               IF m = mgr /\ k \in T
               THEN /\ mem'[m][k] # None /\ mem'[m][k] \in Object /\ mem'[m][k].status = "killed"
                    /\ mem'[m][k].receipts = mem[m][k].receipts
                    /\ mem'[m][k].committed = mem[m][k].committed
                    /\ mem'[m][k].tombstone = mem[m][k].tombstone
               ELSE mem'[m][k] = mem[m][k]
      BY <2>2, <2>4, KilledTable DEF IInv
    <3> QED
      BY <2>2, <3>1 DEF Owned
  <2> QED
    BY <2>1, <2>3, <2>4
<1>6. /\ Idle \in [phase : {"idle", "running", "committing"}, plan : BOOLEAN,
                    ledger : SUBSET Jobs, leases : SUBSET Jobs]
      /\ Idle.phase = "idle"
  BY DEF Idle
<1>7. \A j \in Jobs : mem'[mgr + 1][j] = None
  BY <1>2, <1>5
<1> USE DEF IInv
<1>8. Types'
  BY <1>1, <1>2, <1>3, <1>4, <1>5, <1>6 DEF Types
<1>9. Goroutines'
  BY <1>1, <1>2, <1>4 DEF Types, Goroutines, Going
<1>10. Table'
  BY <1>1, <1>2, <1>3, <1>4, <1>5, <1>6, <1>7 DEF Table, Own, Owned, Going, Terminal
<1>11. Records'
  <2>1. ASSUME NEW j \in Jobs
        PROVE  /\ run[j].owner \in Managers
               /\ Owned(run[j].owner, j)' <=> Owned(run[j].owner, j)
               /\ Owned(run[j].owner, j) =>
                    \/ Own(j)' = Own(j)
                    \/ /\ Own(j).status = "running" /\ Own(j)'.status = "killed"
                       /\ Own(j)'.receipts = Own(j).receipts
                       /\ Own(j)'.committed = Own(j).committed
                       /\ Own(j)'.tombstone = Own(j).tombstone
    <3>1. run[j].owner \in Managers /\ run'[j].owner = run[j].owner
      BY <1>4, Members
    <3> QED
      BY <1>5, <3>1 DEF Owned, Own
  <2> QED
    BY <1>1, <1>4, <2>1 DEF Records, Going, Outcomes
<1>12. Windows'
  BY <1>1, <1>2, <1>3, <1>4, <1>5, <1>6, <1>7 DEF Types, Windows, Going
<1>13. Files'
  BY <1>1, <1>3, <1>4, <1>6, Members DEF Files, Goroutines
<1>14. Review'
  BY <1>1, <1>2, <1>3, <1>4, <1>5, <1>6, <1>7 DEF Review
<1>15. Starts'
  <2>1. Unfinished(session)' = {}
    BY <1>1, <1>2, <1>3, <1>4, <1>5, <1>6, <1>7 DEF Unfinished, OfSession, Owned
  <2> QED
    BY <1>1, <1>2, <1>3, <1>4, <1>5, <1>6, <1>7, <2>1, StartsStay DEF Starts
<1>16. Told'
  BY <1>1, <1>2, <1>3, <1>4, <1>5, <1>6, <1>7 DEF Types, Told, Owned
<1> QED
  BY <1>8, <1>9, <1>10, <1>11, <1>12, <1>13, <1>14, <1>15, <1>16

LEMMA ReleaseOwnerInv == ASSUME IInv, NEW m \in Managers, ReleaseOwner(m) PROVE IInv'
<1>1. /\ up /\ m # mgr /\ live' = live \ {m}
      /\ \A k \in Jobs : run[k].owner = m => run[k].pc \in {"none", "done", "gone"}
      /\ UNCHANGED <<scale, mgr, up, mem, run, disk, loaded, load, notes, callers,
                     reservations, turn, session, destroying, teardown, told, reviewed,
                     settled, rebuilt, spent>>
  BY DEF ReleaseOwner, procVars, loadVars, startVars, sessionVars, history
<1> USE DEF IInv
<1>2. Types'
  BY <1>1, ZenonT(60) DEF Types, Moves, Writes
<1>3. Goroutines'
  BY <1>1 DEF Goroutines, Moves, Going, Outcomes
<1>4. Table'
  BY <1>1 DEF Table, Own, Owned, Moves, Writes, Going
<1>5. Records'
  BY <1>1, Members DEF Records, Table, Owned, Own, Moves, Writes, Going, Outcomes
<1>6. Windows'
  BY <1>1, Members DEF Windows, Owned, Moves, Writes, Going
<1>7. Files'
  BY <1>1, Members DEF Files, Goroutines, Moves, Going
<1>8. Review'
  BY <1>1, Members DEF Review, Table, Ready, Owned, IsDone, Moves, Writes, Going
<1>9. Starts'
  <2>1. Unfinished(session)' \subseteq Unfinished(session)
    BY <1>1, Members DEF Table, Unfinished, OfSession, Owned, Own, IsDone, Moves, Writes
  <2> QED
    BY <1>1, <2>1, StartsStay DEF Starts
<1>10. Told'
  BY <1>1, Members DEF Told, Owned, Own, Moves, Writes, Going
<1> QED
  BY <1>2, <1>3, <1>4, <1>5, <1>6, <1>7, <1>8, <1>9, <1>10

LEMMA RebindInv == ASSUME IInv, Rebind PROVE IInv'
<1>1. /\ up /\ turn.phase = "idle"
      /\ UNCHANGED <<scale, mgr, up, live, mem, run, disk, loaded, notes, callers,
                     reservations, turn, session, destroying, teardown, told, reviewed,
                     settled, rebuilt, spent>>
  BY DEF Rebind, Quiet, procVars, loadVars, startVars, sessionVars, history
<1>2. /\ load' \in [files : SUBSET Jobs, at : 0 .. MaxJobs, meta : Meta \union {None},
                    owned : BOOLEAN, deferred : BOOLEAN, on : BOOLEAN]
      /\ load'.on /\ load'.at = 0
      /\ \A j \in load'.files : j \in Jobs /\ disk[j] # None /\ run[j].session = session
  BY BeginsLoad DEF Rebind
<1> USE DEF IInv
<1>3. Types'
  BY <1>1, <1>2 DEF Types, Moves, Writes
<1>4. Goroutines'
  BY <1>1, <1>2 DEF Goroutines, Moves, Going, Outcomes
<1>5. Table'
  BY <1>1, <1>2 DEF Table, Own, Owned, Moves, Writes, Going
<1>6. Records'
  BY <1>1, <1>2, Members DEF Records, Table, Owned, Own, Moves, Writes, Going, Outcomes
<1>7. Windows'
  BY <1>1, <1>2, Members DEF Windows, Owned, Moves, Writes, Going
<1>8. Files'
  BY <1>1, <1>2, Members DEF Files, Goroutines, Moves, Going
<1>9. Review'
  BY <1>1, <1>2, Members DEF Review, Table, Ready, Owned, IsDone, Moves, Writes, Going
<1>10. Starts'
  <2>1. Unfinished(session)' \subseteq Unfinished(session)
    BY <1>1, <1>2, Members DEF Table, Unfinished, OfSession, Owned, Own, IsDone, Moves, Writes
  <2> QED
    BY <1>1, <1>2, <2>1, StartsStay DEF Starts
<1>11. Told'
  BY <1>1, <1>2, Members DEF Told, Owned, Own, Moves, Writes, Going
<1> QED
  BY <1>3, <1>4, <1>5, <1>6, <1>7, <1>8, <1>9, <1>10, <1>11

LEMMA LoadReadInv == ASSUME IInv, LoadRead PROVE IInv'
<1>1. /\ up /\ load.on /\ load.at = 0
      /\ UNCHANGED <<scale, mgr, up, live, mem, run, disk, loaded, notes, callers,
                     reservations, turn, session, destroying, teardown, told, reviewed,
                     settled, rebuilt, spent>>
  BY DEF LoadRead, procVars, loadVars, startVars, sessionVars, history
<1>2. PICK j \in load.files :
        load' = [files |-> load.files \ {j}, at |-> j, meta |-> disk[j],
                 owned |-> load.owned, deferred |-> load.deferred, on |-> load.on]
  BY DEF LoadRead
<1>3. /\ j \in Jobs /\ j # 0 /\ j \in 0 .. MaxJobs /\ disk[j] # None /\ disk[j] \in Meta
      /\ run[j].session = session /\ run[j].pc \notin {"none", "registered"}
  BY Members, BoundsAssumption DEF IInv, Types, Files, Goroutines, Jobs
<1>4. /\ load' \in [files : SUBSET Jobs, at : 0 .. MaxJobs, meta : Meta \union {None},
                    owned : BOOLEAN, deferred : BOOLEAN, on : BOOLEAN]
      /\ load'.on /\ load'.at = j /\ load'.meta = disk[j] /\ load'.files \subseteq load.files
  BY <1>1, <1>2, <1>3 DEF IInv, Types
<1> USE DEF IInv
<1>5. Types'
  BY <1>1, <1>2, <1>3, <1>4 DEF Types, Moves, Writes
<1>6. Goroutines'
  BY <1>1, <1>2, <1>3, <1>4 DEF Goroutines, Moves, Going, Outcomes
<1>7. Table'
  BY <1>1, <1>2, <1>3, <1>4 DEF Table, Own, Owned, Moves, Writes, Going
<1>8. Records'
  BY <1>1, <1>2, <1>3, <1>4, Members DEF Records, Table, Owned, Own, Moves, Writes, Going,
     Outcomes
<1>9. Windows'
  BY <1>1, <1>2, <1>3, <1>4, Members DEF Windows, Owned, Moves, Writes, Going
<1>10. Files'
  BY <1>1, <1>2, <1>3, <1>4, Members DEF Files, Goroutines, Moves, Going
<1>11. Review'
  BY <1>1, <1>2, <1>3, <1>4, Members DEF Review, Table, Ready, Owned, IsDone, Moves, Writes,
     Going
<1>12. Starts'
  <2>1. Unfinished(session)' \subseteq Unfinished(session)
    BY <1>1, <1>2, <1>3, <1>4, Members DEF Table, Unfinished, OfSession, Owned, Own, IsDone,
       Moves, Writes
  <2> QED
    BY <1>1, <1>2, <1>3, <1>4, <2>1, StartsStay DEF Starts
<1>13. Told'
  BY <1>1, <1>2, <1>3, <1>4, Members DEF Told, Owned, Own, Moves, Writes, Going
<1> QED
  BY <1>5, <1>6, <1>7, <1>8, <1>9, <1>10, <1>11, <1>12, <1>13

LEMMA SettledInv ==
    ASSUME IInv, up, load.at # 0, NEW meta \in Meta, meta.status \in Terminal,
           meta.status = "interrupted" => run[load.at].pc \in {"done", "gone"},
           \/ disk' = disk
           \/ /\ disk' = [disk EXCEPT ![load.at] = meta]
              /\ meta.status = "interrupted" /\ (rebuilt \/ load.at \notin settled),
           Tombstone(load.at, meta), load' = [[load EXCEPT !.at = 0] EXCEPT !.meta = None],
           UNCHANGED <<scale, mgr, up, live, run, loaded, notes, callers, reservations, turn,
                      session, destroying, teardown, told, reviewed, settled, rebuilt, spent>>
    PROVE  IInv'
<1>1. /\ load.at \in Jobs /\ load.on /\ run[load.at].pc \notin {"none", "registered"}
      /\ mgr \in Managers /\ mgr \in Nat /\ turn.phase = "idle"
  BY Members, BoundsAssumption DEF IInv, Files, Managers
<1>2. /\ load' \in [files : SUBSET Jobs, at : 0 .. MaxJobs, meta : Meta \union {None},
                    owned : BOOLEAN, deferred : BOOLEAN, on : BOOLEAN]
      /\ load'.on = load.on /\ load'.at = 0 /\ load'.files = load.files
  <2>1. load \in [files : SUBSET Jobs, at : 0 .. MaxJobs, meta : Meta \union {None},
                  owned : BOOLEAN, deferred : BOOLEAN, on : BOOLEAN]
    BY DEF IInv, Types
  <2>2. 0 \in 0 .. MaxJobs
    BY BoundsAssumption
  <2> QED
    BY <2>1, <2>2
<1>3. /\ disk' \in [Jobs -> Meta \union {None}]
      /\ \A k \in Jobs : k # load.at => disk'[k] = disk[k]
      /\ disk' # disk => /\ disk'[load.at] # None /\ disk'[load.at].status = "interrupted"
                         /\ run[load.at].pc \in {"done", "gone"}
                         /\ rebuilt \/ load.at \notin settled
  BY <1>1, NamesAssumption DEF IInv, Types
<1>4. PICK r \in Object :
        /\ mem' = mem \/ (~Owned(mgr, load.at) /\ Writes(mgr, load.at, r))
        /\ r.status = meta.status /\ r.tombstone /\ ~r.committed
  <2> DEFINE r == [status |-> meta.status, receipts |-> meta.evidence,
                   committed |-> FALSE, tombstone |-> TRUE]
  <2>1. r \in Object /\ r.status = meta.status /\ r.tombstone /\ ~r.committed
    BY DEF Meta, Object
  <2>2. CASE Owned(mgr, load.at)
    BY <2>1, <2>2 DEF Tombstone
  <2>3. CASE ~Owned(mgr, load.at)
    <3>1. SetRecord(load.at, r)
      BY <2>3 DEF Tombstone
    <3>2. Writes(mgr, load.at, r)
      BY <1>1, <2>1, <3>1, SetRecordWrites DEF IInv
    <3> QED
      BY <2>1, <2>3, <3>2
  <2> QED
    BY <2>2, <2>3
<1>5. /\ r # None
      /\ ~Owned(mgr, load.at) => ~(run[load.at].owner = mgr /\ run[load.at].pc \in Going)
      /\ mem' \in [Managers -> [Jobs -> Object \union {None}]]
      /\ \A m \in Managers, k \in Jobs :
           mem'[m][k] = mem[m][k]
           \/ (m = mgr /\ k = load.at /\ mem[m][k] = None /\ mem'[m][k] = r)
  <2>1. r # None
    BY NamesAssumption
  <2>2. ~Owned(mgr, load.at) => ~(run[load.at].owner = mgr /\ run[load.at].pc \in Going)
    BY <1>1 DEF IInv, Records
  <2>3. CASE mem' = mem
    BY <2>1, <2>2, <2>3 DEF IInv, Types
  <2>4. CASE ~Owned(mgr, load.at) /\ Writes(mgr, load.at, r)
    BY <2>1, <2>2, <2>4 DEF Writes, Owned
  <2> QED
    BY <1>4, <2>3, <2>4
<1> USE DEF IInv
<1>6. Types'
  BY <1>1, <1>2, <1>3, <1>4, <1>5 DEF Types
<1>7. Goroutines'
  BY <1>1, <1>2, <1>3, <1>4, <1>5 DEF Goroutines
<1>8. Table'
  BY <1>1, <1>2, <1>3, <1>4, <1>5 DEF Table, Owned, Going
<1>9. Records'
  BY <1>1, <1>2, <1>3, <1>4, <1>5, Members, SMTT(60) DEF Records, Owned, Own
<1>10. Windows'
  BY <1>1, <1>2, <1>3, <1>4, <1>5, Members DEF Windows, Owned
<1>11. Files'
  BY <1>1, <1>2, <1>3, <1>4, <1>5, Members DEF Files, Goroutines, Moves, Going
<1>12. Review'
  BY <1>1, <1>2, <1>3, <1>4, <1>5 DEF Review
<1>13. Starts'
  <2>1. Unfinished(session)' \subseteq Unfinished(session)
    BY <1>1, <1>2, <1>3, <1>4, <1>5, Members DEF Unfinished, OfSession, Owned, IsDone
  <2> QED
    BY <1>1, <1>2, <1>3, <1>4, <1>5, <2>1, StartsStay DEF Starts
<1>14. Told'
  BY <1>1, <1>2, <1>3, <1>4, <1>5, Members DEF Told, Owned
<1> QED
  BY <1>6, <1>7, <1>8, <1>9, <1>10, <1>11, <1>12, <1>13, <1>14

LEMMA DeferredInv ==
    ASSUME IInv, up, load.at # 0, spent' \in [turns : Nat, mishaps : Nat],
           load' = [[[load EXCEPT !.at = 0] EXCEPT !.meta = None] EXCEPT !.deferred = TRUE],
           UNCHANGED <<scale, mgr, up, live, mem, run, disk, loaded, notes, callers,
                      reservations, turn, session, destroying, teardown, told, reviewed,
                      settled, rebuilt>>
    PROVE  IInv'
<1>1. /\ load' \in [files : SUBSET Jobs, at : 0 .. MaxJobs, meta : Meta \union {None},
                    owned : BOOLEAN, deferred : BOOLEAN, on : BOOLEAN]
      /\ load'.on = load.on /\ load'.at = 0 /\ load'.files = load.files
  <2>1. load \in [files : SUBSET Jobs, at : 0 .. MaxJobs, meta : Meta \union {None},
                  owned : BOOLEAN, deferred : BOOLEAN, on : BOOLEAN]
    BY DEF IInv, Types
  <2>2. 0 \in 0 .. MaxJobs
    BY BoundsAssumption
  <2> QED
    BY <2>1, <2>2
<1> USE DEF IInv
<1>2. Types'
  BY <1>1 DEF Types, Moves, Writes
<1>3. Goroutines'
  BY <1>1 DEF Goroutines, Moves, Going, Outcomes
<1>4. Table'
  BY <1>1 DEF Table, Own, Owned, Moves, Writes, Going
<1>5. Records'
  BY <1>1, Members DEF Records, Table, Owned, Own, Moves, Writes, Going, Outcomes
<1>6. Windows'
  BY <1>1, Members DEF Windows, Owned, Moves, Writes, Going
<1>7. Files'
  BY <1>1, Members DEF Files, Goroutines, Moves, Going
<1>8. Review'
  BY <1>1, Members DEF Review, Table, Ready, Owned, IsDone, Moves, Writes, Going
<1>9. Starts'
  <2>1. Unfinished(session)' \subseteq Unfinished(session)
    BY <1>1, Members DEF Table, Unfinished, OfSession, Owned, Own, IsDone, Moves, Writes
  <2> QED
    BY <1>1, <2>1, StartsStay DEF Starts
<1>10. Told'
  BY <1>1, Members DEF Told, Owned, Own, Moves, Writes, Going
<1> QED
  BY <1>2, <1>3, <1>4, <1>5, <1>6, <1>7, <1>8, <1>9, <1>10

LEMMA LoadSettleInv == ASSUME IInv, LoadSettle PROVE IInv'
<1> DEFINE meta == load.meta
           repaired == [meta EXCEPT !.status = "interrupted"]
           next == [[load EXCEPT !.at = 0] EXCEPT !.meta = None]
<1>1. /\ up /\ load.at # 0 /\ load.at \in Jobs /\ meta \in Meta
      /\ UNCHANGED <<scale, mgr, up, live, run, loaded, notes, callers, reservations, turn,
                     session, destroying, teardown, told, reviewed, settled, rebuilt>>
  BY Members DEF LoadSettle, IInv, Types, Files, procVars, loadVars, startVars, sessionVars,
     history
<1>2. CASE meta.status # "running" /\ Tombstone(load.at, meta) /\ load' = next
           /\ UNCHANGED <<disk, spent>>
  <2>1. meta.status \in Terminal
    BY <1>1, <1>2 DEF Meta, Statuses, Terminal
  <2>2. meta.status = "interrupted" => run[load.at].pc \in {"done", "gone"}
    BY <1>1 DEF IInv, Files
  <2> QED
    BY <1>1, <1>2, <2>1, <2>2, SettledInv
<1>3. CASE meta.status = "running" /\ Abandoned(meta)
           /\ disk' = [disk EXCEPT ![load.at] = repaired]
           /\ Tombstone(load.at, repaired) /\ load' = next /\ UNCHANGED spent
  <2>1. run[load.at].owner \notin live
    BY <1>1, <1>3 DEF IInv, Files, Abandoned
  <2>2. run[load.at].pc \in {"done", "gone"}
    BY <1>1, <2>1 DEF IInv, Types, Goroutine, Pcs, Files, Goroutines, Going
  <2>3. rebuilt \/ load.at \notin settled
    <3>1. CASE ~rebuilt
      <4>1. run[load.at].pc = "gone"
        BY <1>1, <2>1, <2>2, <3>1 DEF IInv, Goroutines
      <4>2. disk[load.at] = meta /\ meta # None
        BY <1>1, <3>1, <4>1 DEF IInv, Files
      <4> QED
        BY <1>1, <1>3, <4>2 DEF IInv, Files
    <3> QED
      BY <3>1
  <2>4. repaired \in Meta /\ repaired.status = "interrupted" /\ repaired.status \in Terminal
    BY <1>1 DEF Meta, Statuses, Terminal
  <2> QED
    BY <1>1, <1>3, <2>2, <2>3, <2>4, SettledInv
<1>4. CASE meta.status = "running" /\ (IF Abandoned(meta) THEN Mishap ELSE UNCHANGED spent)
           /\ load' = [next EXCEPT !.deferred = TRUE] /\ UNCHANGED <<mem, disk>>
  <2>1. spent' \in [turns : Nat, mishaps : Nat]
    BY <1>4, MishapTypes DEF IInv, Types
  <2> QED
    BY <1>1, <1>4, <2>1, DeferredInv
<1> QED
  BY <1>2, <1>3, <1>4 DEF LoadSettle

LEMMA LoadEndInv == ASSUME IInv, LoadEnd PROVE IInv'
<1>1. /\ up /\ load.on /\ loaded' \in BOOLEAN /\ load' = NoLoad
      /\ UNCHANGED <<scale, mgr, up, live, mem, run, disk, notes, callers, reservations, turn,
                     session, destroying, teardown, told, reviewed, settled, rebuilt, spent>>
  BY DEF LoadEnd, IInv, Types, procVars, loadVars, startVars, sessionVars, history
<1>2. /\ NoLoad \in [files : SUBSET Jobs, at : 0 .. MaxJobs, meta : Meta \union {None},
                    owned : BOOLEAN, deferred : BOOLEAN, on : BOOLEAN]
      /\ NoLoad.files = {} /\ NoLoad.at = 0 /\ ~NoLoad.on
  BY BoundsAssumption DEF NoLoad
<1> USE DEF IInv
<1>3. Types'
  BY <1>1, <1>2 DEF Types, Moves, Writes
<1>4. Goroutines'
  BY <1>1, <1>2 DEF Goroutines, Moves, Going, Outcomes
<1>5. Table'
  BY <1>1, <1>2 DEF Table, Own, Owned, Moves, Writes, Going
<1>6. Records'
  BY <1>1, <1>2, Members DEF Records, Table, Owned, Own, Moves, Writes, Going, Outcomes
<1>7. Windows'
  BY <1>1, <1>2, Members DEF Windows, Owned, Moves, Writes, Going
<1>8. Files'
  BY <1>1, <1>2, Members DEF Files, Goroutines, Moves, Going
<1>9. Review'
  BY <1>1, <1>2, Members DEF Review, Table, Ready, Owned, IsDone, Moves, Writes, Going
<1>10. Starts'
  <2>1. Unfinished(session)' \subseteq Unfinished(session)
    BY <1>1, <1>2, Members DEF Table, Unfinished, OfSession, Owned, Own, IsDone, Moves, Writes
  <2> QED
    BY <1>1, <1>2, <2>1, StartsStay DEF Starts
<1>11. Told'
  BY <1>1, <1>2, Members DEF Told, Owned, Own, Moves, Writes, Going
<1> QED
  BY <1>3, <1>4, <1>5, <1>6, <1>7, <1>8, <1>9, <1>10, <1>11
-----------------------------------------------------------------------------
(* The invariant holds of every behaviour. *)

LEMMA InitInv == Init => IInv
<1> SUFFICES ASSUME Init PROVE IInv
  OBVIOUS
<1>1. /\ 1 \in Managers /\ 1 \in Sessions /\ 0 \in 0 .. MaxSessions /\ 0 \in 0 .. MaxJobs
      /\ Limit \in Nat
  BY BoundsAssumption DEF Managers, Sessions
<1>2. NotStarted \in Goroutine /\ NotStarted.pc = "none" /\ NotStarted.owner = 1
      /\ NotStarted.session = 1 /\ ~NotStarted.mutated
  BY <1>1 DEF NotStarted, Goroutine, Pcs, Kinds, Statuses
<1>3. /\ NoLoad \in [files : SUBSET Jobs, at : 0 .. MaxJobs, meta : Meta \union {None},
                     owned : BOOLEAN, deferred : BOOLEAN, on : BOOLEAN]
      /\ NoLoad.files = {} /\ NoLoad.at = 0 /\ ~NoLoad.on
  BY <1>1 DEF NoLoad
<1>4. /\ Idle \in [phase : {"idle", "running", "committing"}, plan : BOOLEAN,
                   ledger : SUBSET Jobs, leases : SUBSET Jobs]
      /\ Idle.phase = "idle"
      /\ NoTeardown \in [phase : {"none", "waiting", "unwound", "removed"}, targets : SUBSET Jobs]
      /\ NoTeardown.phase = "none"
  BY DEF Idle, NoTeardown
<1>5. \A j \in Jobs : run[j] = NotStarted
  BY DEF Init
<1>6. \A m \in Managers, j \in Jobs : mem[m][j] = None
  BY DEF Init
<1>7. Types
  <2>1. /\ mem \in [Managers -> [Jobs -> Object \union {None}]]
        /\ run \in [Jobs -> Goroutine] /\ disk \in [Jobs -> Meta \union {None}]
    BY <1>2 DEF Init
  <2>2. /\ notes \in [Jobs -> Nat] /\ told \in [Jobs -> Nat]
        /\ callers \in [Callers -> {"idle", "reserved", "started"}]
        /\ spent \in [turns : Nat, mishaps : Nat] /\ 1 .. 1 = {1}
    BY DEF Init
  <2> QED
    BY <1>1, <1>3, <1>4, <2>1, <2>2 DEF Init, Types
<1>8. Goroutines
  BY <1>1, <1>2, <1>5 DEF Init, Goroutines, Going
<1>9. Table
  BY <1>6 DEF Table
<1>10. Records
  BY <1>1, <1>2, <1>5, <1>6 DEF Records, Owned, Going
<1>11. Windows
  BY <1>1, <1>2, <1>4, <1>5 DEF Init, Windows, Going
<1>12. Files
  BY <1>2, <1>3, <1>5 DEF Init, Files
<1>13. Review
  BY <1>4 DEF Init, Review
<1>14. Starts
  <2>1. Active = {} /\ With("reserved") = {} /\ Unfinished(session) = {}
    BY <1>1, <1>6 DEF Init, Active, With, Unfinished, OfSession, Owned
  <2>2. Cardinality({}) = 0
    BY FS_EmptySet
  <2> QED
    BY <1>1, <2>1, <2>2 DEF Init, Starts
<1>15. Told
  BY <1>2, <1>5, <1>1, <1>6 DEF Init, Told, Owned
<1> QED
  BY <1>7, <1>8, <1>9, <1>10, <1>11, <1>12, <1>13, <1>14, <1>15 DEF IInv

LEMMA StutterInv == ASSUME IInv, UNCHANGED vars PROVE IInv'
<1>1. UNCHANGED <<scale, mgr, up, live, mem, run, disk, loaded, load, notes, callers,
                     reservations, turn, session, destroying, teardown, told, reviewed,
                     settled, rebuilt, spent>>
  BY DEF vars, procVars, loadVars, startVars, sessionVars, history
<1> USE DEF IInv
<1>2. Types'
  BY <1>1 DEF Types, Moves, Writes
<1>3. Goroutines'
  BY <1>1 DEF Goroutines, Moves, Going, Outcomes
<1>4. Table'
  BY <1>1 DEF Table, Own, Owned, Moves, Writes, Going
<1>5. Records'
  BY <1>1, Members DEF Records, Table, Owned, Own, Moves, Writes, Going, Outcomes
<1>6. Windows'
  BY <1>1, Members DEF Windows, Owned, Moves, Writes, Going
<1>7. Files'
  BY <1>1, Members DEF Files, Goroutines, Moves, Going
<1>8. Review'
  BY <1>1, Members DEF Review, Table, Ready, Owned, IsDone, Moves, Writes, Going
<1>9. Starts'
  <2>1. Unfinished(session)' \subseteq Unfinished(session)
    BY <1>1, Members DEF Table, Unfinished, OfSession, Owned, Own, IsDone, Moves, Writes
  <2> QED
    BY <1>1, <2>1, StartsStay DEF Starts
<1>10. Told'
  BY <1>1, Members DEF Told, Owned, Own, Moves, Writes, Going
<1> QED
  BY <1>2, <1>3, <1>4, <1>5, <1>6, <1>7, <1>8, <1>9, <1>10

LEMMA NextInv == IInv /\ [Next]_vars => IInv'
<1> SUFFICES ASSUME IInv, [Next]_vars PROVE IInv'
  OBVIOUS
<1>1. ASSUME NEW c \in Callers, ReserveStart(c) \/ StartForSession(c) \/ ReleaseStart(c)
      PROVE  IInv'
  BY <1>1, ReserveStartInv, StartForSessionInv, ReleaseStartInv
<1>2. ASSUME NEW j \in Jobs, JobStep(j) \/ Mutate(j) \/ Return(j)
      PROVE  IInv'
  BY <1>2, LaunchInv, PersistInv, RecordCompletionInv, PublishInv, CloseDoneInv, CancelInv,
     MutateInv, ReturnInv DEF JobStep, Unwind
<1>3. ASSUME NEW j \in Jobs, Kill(j) \/ Collect(j) \/ CommitEvidence(j)
      PROVE  IInv'
  BY <1>3, KillInv, CollectInv, CommitEvidenceInv
<1>4. CASE StartTurn \/ EndTurn \/ TurnDelivered
  BY <1>4, StartTurnInv, EndTurnInv, TurnDeliveredInv
<1>5. CASE ClearSession \/ TeardownStep
  BY <1>5, ClearSessionInv, TeardownWaitedInv, RemoveArtifactsInv, FinishDestroySessionInv
     DEF TeardownStep
<1>6. CASE Crash \/ Restart \/ Rebuild
  BY <1>6, CrashInv, RestartInv, RebuildInv
<1>7. ASSUME NEW m \in Managers, ReleaseOwner(m)
      PROVE  IInv'
  BY <1>7, ReleaseOwnerInv
<1>8. CASE Rebind \/ LoadRead \/ LoadSettle \/ LoadEnd
  BY <1>8, RebindInv, LoadReadInv, LoadSettleInv, LoadEndInv
<1>9. CASE UNCHANGED vars
  BY <1>9, StutterInv
<1> QED
  BY <1>1, <1>2, <1>3, <1>4, <1>5, <1>6, <1>7, <1>8, <1>9 DEF Next

\* Every reachable state, however goroutines, turns, clears, crashes, rebuilds
\* and loads interleave, satisfies the invariant.
THEOREM Invariance == Spec => []IInv
<1>1. Init => IInv
  BY InitInv
<1>2. IInv /\ [Next]_vars => IInv'
  BY NextInv
<1> QED
  BY <1>1, <1>2, PTL DEF Spec

-----------------------------------------------------------------------------
(* What the invariant says of the properties. *)

LEMMA TableTrue == IInv => TableIsTrue
<1> SUFFICES ASSUME IInv PROVE TableIsTrue
  OBVIOUS
<1>1. reservations \in 0 .. Cardinality(Callers)
  <2>1. Cardinality(Active) <= Cardinality(Callers) /\ Cardinality(Callers) \in Nat
    <3>1. Active \subseteq Callers /\ IsFiniteSet(Callers)
      BY BoundsAssumption DEF Active
    <3> QED
      BY <3>1, FS_Subset, FS_CardinalityType
  <2>2. Cardinality(Active) \in Nat
    BY Counted
  <2> QED
    BY <2>1, <2>2 DEF IInv, Starts
<1>2. live \subseteq Managers
  BY BoundsAssumption DEF IInv, Types, Managers
<1>3. TypeOK
  BY <1>1, <1>2 DEF IInv, Types, TypeOK
<1>4. NoLiveTombstone
  BY Members DEF IInv, Table, Records, NoLiveTombstone, Owned, Own, Outcomes
<1>5. CapKept
  <2>1. Cardinality(With("reserved")) \in Nat /\ Cardinality(Unfinished(session)) \in Nat
    BY Counted
  <2>2. Limit \in Nat
    BY BoundsAssumption
  <2> QED
    BY <2>1, <2>2 DEF IInv, Starts, CapKept
<1> QED
  BY <1>3, <1>4, <1>5 DEF TableIsTrue

LEMMA NotesTrue == IInv => NotesAreTrue
<1> SUFFICES ASSUME IInv PROVE NotesAreTrue
  OBVIOUS
<1>1. CompletionTold
  <2> SUFFICES ASSUME NEW j \in OfSession(session)
               PROVE  /\ told[j] + notes[j] <= 1
                      /\ ~mem[mgr][j].tombstone /\ mem[mgr][j].status \in {"done", "failed"}
                           => told[j] + notes[j] = 1
    BY DEF CompletionTold
  <2>1. j \in Jobs /\ Owned(mgr, j) /\ run[j].session = session
    BY DEF OfSession
  <2>2. told[j] + notes[j] <= 1
    BY <2>1 DEF IInv, Told
  <2>3. ASSUME ~mem[mgr][j].tombstone, mem[mgr][j].status \in {"done", "failed"}
        PROVE  told[j] + notes[j] = 1
    <3>1. run[j].owner = mgr /\ run[j].pc \notin {"none", "gone"}
      BY <2>1, <2>3, Members DEF IInv, Table, Owned
    <3>2. run[j].pc \notin Going
      BY <2>1, <2>3, <3>1 DEF IInv, Records, Own
    <3>3. run[j].pc \in {"published", "done"}
      BY <2>1, <3>1, <3>2 DEF IInv, Types, Goroutine, Pcs, Going
    <3> QED
      BY <2>1, <2>3, <3>3 DEF IInv, Told
  <2> QED
    BY <2>2, <2>3
<1>2. DestroyedIsSilent
  BY DEF IInv, Told, DestroyedIsSilent
<1> QED
  BY <1>1, <1>2 DEF NotesAreTrue

LEMMA EvidenceReviewed == IInv => EvidenceIsReviewed
<1> SUFFICES ASSUME IInv PROVE EvidenceIsReviewed
  OBVIOUS
<1>1. ASSUME NEW j \in Jobs, run[j].mutated, run[j].session = session, j \notin reviewed,
             run[j].pc = "done", Owned(mgr, j), ~mem[mgr][j].tombstone
      PROVE  j \in Pending
  <2>1. run[j].owner = mgr
    BY <1>1, Members DEF IInv, Table, Owned
  <2>2. mem[mgr][j].receipts /\ ~mem[mgr][j].committed
    BY <1>1, <2>1 DEF IInv, Records, Own
  <2> QED
    BY <1>1, <2>2 DEF Pending, OfSession, Ready, IsDone, Leased
<1>2. EvidenceKept
  BY <1>1 DEF IInv, Files, EvidenceKept
<1>3. LeaseIsComplete
  BY DEF IInv, Review, LeaseIsComplete
<1> QED
  BY <1>2, <1>3 DEF EvidenceIsReviewed

\* No goroutine that still runs is ever loaded as a job that was interrupted,
\* and racing calls never start more jobs than the cap allows.
THEOREM TableStaysTrue == Spec => []TableIsTrue
  BY Invariance, TableTrue, PTL

\* Each completion is announced once, in the session it belongs to; nothing of
\* a discarded session reaches the next.
THEOREM NotesStayTrue == Spec => []NotesAreTrue
  BY Invariance, NotesTrue, PTL

\* What a background job changed stays pending until a turn that had merged it
\* delivers, through kills, clears, crashes and failed commits.
THEOREM EvidenceStaysReviewed == Spec => []EvidenceIsReviewed
  BY Invariance, EvidenceReviewed, PTL
=============================================================================
