---------------------------- MODULE SessionStore ----------------------------
(***************************************************************************)
(* The transcript files of a session and the runtimes that write them      *)
(* (internal/agent/save.go, session_events.go, session_lease.go, branch.go *)
(* and the snapshot path of internal/control/controller.go).               *)
(*                                                                         *)
(* A transcript is stored in an append-only event log, with a checkpoint   *)
(* beside it and a ledger (revision and digest of the content) in the      *)
(* branch metadata.  A save holds the lock of the path from its check to   *)
(* the record in the ledger, and may fail, or its process crash, between   *)
(* any two writes.  A save that finds another transcript than the one it   *)
(* built on adopts the newer transcript or forks a recovery branch.  Here  *)
(* no runtime holds the session's lease: the conflict checks have to do.   *)
(*                                                                         *)
(* Operators named Operation_Fault are mutants of Operation.               *)
(***************************************************************************)
EXTENDS Naturals, Sequences, FiniteSets, SequencesExt

CONSTANTS
    Runtimes,       \* the controllers that may open the session
    MaxMessages,    \* bound on the messages written
    Calls,          \* the messages that are tool calls awaiting a result
    MaxRewrites,    \* bound on rewinds, cancels and prunes
    MaxDepth,       \* SessionRecoveryMaxDepth
    MaxFaults,      \* bound on the writes that fail and the crashes
    Faulty,         \* the runtimes they happen to
    Nothing         \* an absent file, digest or branch

ASSUME BoundsAssumption ==
    /\ Calls \subseteq Nat
    /\ MaxMessages \in Nat \ {0}
    /\ {MaxRewrites, MaxDepth, MaxFaults} \subseteq Nat

\* Neither a transcript nor a path.
ASSUME NothingAssumption == Nothing \notin Seq(Nat) /\ Nothing \notin Seq(Seq(Nat))

VARIABLES
    disk,       \* disk[p]: the files of path p
    mem,        \* mem[r]: the session of runtime r
    job,        \* job[r]: its load or save in progress
    next,       \* the messages written so far
    rewrites, faults,
    \* What the properties speak of:
    acked,      \* messages of transcripts whose save returned without error
    removed,    \* messages a runtime took out of its own transcript
    cut,        \* cut[p]: messages that writes not yet acknowledged took out
    forced,     \* messages that forced saves took out of their branch
    gone,       \* gone[p]: messages that a rewrite the ledger records took out of p
    foreign,    \* foreign[r]: another runtime wrote the path of r since r
                \* last loaded or saved it
    slipped,    \* a load or an update of the metadata overlapped a record
    unsure      \* unsure[r]: a save of r failed since then, and may have written

bounds == <<next, rewrites, faults>>
ghosts == <<acked, removed, forced, cut, gone, foreign, slipped, unsure>>
vars == <<disk, mem, job, bounds, ghosts>>

----------------------------------------------------------------------------
(* Transcripts and files.  A message is a number, and so is the result     *)
(* that load makes up for a call.  A path is the main one, <<>>, or that   *)
(* of a recovery branch: the path it was forked from and the transcript it *)
(* was forked with, whose digest is in the file's name.                    *)

Main == <<>>
Written == 0..MaxMessages
Placeholder(m) == MaxMessages + 1 + m
Messages(t) == {t[i] : i \in DOMAIN t}
Depth(p) == Len(p)
RecoveryPath(p, t) == Append(p, t)

Pending(t) == t # <<>> /\ Last(t) \in Calls
Normalized(t) == IF Pending(t) THEN Append(t, Placeholder(Last(t))) ELSE t

\* log: what the event log replays to, torn: it ends in bytes that do not
\* decode, rev and digest: the ledger.
NoFile == [log |-> Nothing, torn |-> FALSE, checkpoint |-> Nothing,
           rev |-> 0, digest |-> Nothing]
File(p) == IF p \in DOMAIN disk THEN disk[p] ELSE NoFile
Put(p, f) == [q \in DOMAIN disk \union {p} |-> IF q = p THEN f ELSE disk[q]]

\* The log counts once it holds a record that decodes.
Raw(f) == IF f.log # Nothing THEN f.log ELSE f.checkpoint
Exists(f) == Raw(f) # Nothing
Loaded(f) == Normalized(Raw(f))

\* Faulty: the torn tail stays.
TailRepaired_Never(f) == f
TailRepaired(f) == [f EXCEPT !.torn = FALSE]

\* A record behind a torn one is never replayed.
LogReplace(f, t) == IF f.torn THEN f ELSE [f EXCEPT !.log = t]
LogAppend(f, from, t) ==
    IF f.torn THEN f
    ELSE IF from # Len(f.log) THEN [f EXCEPT !.torn = TRUE]
    ELSE [f EXCEPT !.log = @ \o SubSeq(t, from + 1, Len(t))]
LogCompact(f, t) == [f EXCEPT !.log = t, !.torn = FALSE]

\* The ledger after a record: the revision read under the lock, plus one.
Recorded(f, t, base) ==
    [f EXCEPT !.rev = (IF f.rev < base THEN base ELSE f.rev) + 1, !.digest = t]

----------------------------------------------------------------------------
(* The sessions and what they do.                                          *)

NoBase == [path |-> Nothing, digest |-> <<>>, ver |-> 0, rev |-> 0, verified |-> FALSE]
Closed == [open |-> FALSE, path |-> Main, msgs |-> <<>>, ver |-> 0,
           rw |-> 0, savedRw |-> 0, base |-> NoBase]
Idle == [at |-> "idle", mode |-> "snapshot", path |-> Main, msgs |-> <<>>, ver |-> 0,
         rw |-> 0, rev |-> 0, shape |-> "none", from |-> 0, meta |-> FALSE]

Holds(r, p) ==
    /\ job[r].path = p
    /\ job[r].at \in {"log", "checkpoint", "record", "branchLog", "branchCheckpoint", "branchMeta"}
\* Faulty: the lock of the path is not taken.
Free_Always(p) == TRUE
Free(p) == \A r \in Runtimes : ~Holds(r, p)

Init ==
    /\ \E logged \in BOOLEAN :
         \* A session saved in one go has no log yet.
         disk = [p \in {Main} |-> [NoFile EXCEPT !.log = IF logged THEN <<1>> ELSE Nothing,
                                                 !.checkpoint = <<1>>, !.rev = 1, !.digest = <<1>>]]
    /\ mem = [r \in Runtimes |-> Closed]
    /\ job = [r \in Runtimes |-> Idle]
    /\ next = 1 /\ rewrites = 0 /\ faults = 0
    /\ acked = {1} /\ removed = {} /\ forced = {}
    /\ cut = [p \in {Main} |-> {}] /\ gone = [p \in {Main} |-> {}]
    /\ foreign = [r \in Runtimes |-> FALSE] /\ unsure = [r \in Runtimes |-> FALSE]
    /\ slipped = FALSE

Go(r, at) == job' = [job EXCEPT ![r].at = at]
Done(r) == job' = [job EXCEPT ![r] = Idle]
\* A snapshot updates the metadata of path p next.
Finish(r, p, meta) ==
    job' = [job EXCEPT ![r] = IF meta THEN [Idle EXCEPT !.at = "meta", !.path = p] ELSE Idle]

\* A write of runtime r that leaves file f at path p.
Touched(r, p, f) ==
    LET same == /\ Raw(f) = Raw(File(p))
                /\ f.rev = File(p).rev /\ f.digest = File(p).digest
    IN [s \in Runtimes |->
          \/ foreign[s]
          \/ s # r /\ ~same /\ mem[s].open /\ p = mem[s].path
          \/ s # r /\ ~same /\ job[s].at # "idle" /\ p = job[s].path]
Cut(p, f) ==
    LET messages(g) == IF Exists(g) THEN Messages(Raw(g)) \intersect Written ELSE {}
        old == IF p \in DOMAIN cut THEN cut[p] ELSE {}
    IN [q \in DOMAIN cut \union {p} |->
          IF q = p THEN (old \union messages(File(p))) \ messages(f) ELSE cut[q]]
Write(r, p, f) ==
    /\ disk' = Put(p, f)
    /\ cut' = Cut(p, f)
    /\ foreign' = Touched(r, p, f)

\* Messages of a save that failed, which the runtime still means to store.
Unsettled == UNION {Messages(mem[r].msgs) : r \in {r \in Runtimes : unsure[r]}}

\* A save of transcript t to path p returns without error and leaves file f,
\* which the saver has seen or written.
Acknowledge(r, p, f, t) ==
    LET recorded == f.digest = t /\ f.rev > File(p).rev
        old == IF p \in DOMAIN gone THEN gone[p] ELSE {}
        new == IF recorded THEN (Cut(p, f)[p] \intersect acked) \ Unsettled ELSE {}
    IN /\ disk' = Put(p, f)
       /\ acked' = acked \union Messages(t)
       /\ gone' = [q \in DOMAIN gone \union {p} |-> IF q = p THEN old \union new ELSE gone[q]]
       /\ cut' = [Cut(p, f) EXCEPT ![p] = IF recorded THEN {} ELSE @]
       /\ foreign' = [Touched(r, p, f) EXCEPT ![r] = FALSE]
       /\ unsure' = [unsure EXCEPT ![r] = FALSE]
       /\ UNCHANGED <<removed, forced, slipped>>

\* Faulty: the digest of what was saved is not kept.
MarkPersisted_OldDigest(r, p, j, rev) ==
    [mem EXCEPT ![r].base = [@ EXCEPT !.path = p, !.ver = j.ver, !.rev = rev, !.verified = TRUE],
                ![r].savedRw = IF j.rw > @ THEN j.rw ELSE @]
MarkPersisted(r, p, j, rev) ==
    [mem EXCEPT ![r].base = [path |-> p, digest |-> j.msgs, ver |-> j.ver,
                             rev |-> rev, verified |-> TRUE],
                ![r].savedRw = IF j.rw > @ THEN j.rw ELSE @]

NeedsRewrite(r) == mem[r].rw > mem[r].savedRw
UpToDate(r, p) ==
    /\ mem[r].base.verified /\ mem[r].base.path = p
    /\ mem[r].base.ver = mem[r].ver
    /\ ~NeedsRewrite(r)

----------------------------------------------------------------------------
(* checkSnapshotWrite: what a save of transcript t over file f may do.     *)

Base(r, p) == IF mem[r].base.path = p THEN mem[r].base ELSE NoBase
Owns(base, f, t) ==
    \* ownsPersistedState
    /\ base.path # Nothing /\ base.digest = t
    /\ base.rev = f.rev \/ f.rev = 0 \/ f.digest = t

\* Faulty: what the stored transcript has lost is not looked at.
CoversBase_Always(base, view, t) == IsPrefix(base.digest, t)
CoversBase(base, view, t) ==
    \* appendCoversPersistedBaseline
    IsPrefix(base.digest, t) /\ Len(view) >= Len(base.digest)

\* What the file holds, as load repairs it, else as stored if only that is a
\* prefix of t: a snapshot cut a tool call from the result it has by now.
View(f, t) == IF ~IsPrefix(Loaded(f), t) /\ IsPrefix(Raw(f), t) THEN Raw(f) ELSE Loaded(f)

OwnsEither(base, f) == Owns(base, f, Loaded(f)) \/ Owns(base, f, Raw(f))

Decision(base, f, t, rewrite) ==
    LET view == View(f, t)
        repair == Raw(f) # Loaded(f) /\ view = Loaded(f)
        same == view = t
        extends == IsPrefix(view, t)
        reshaped == /\ ~extends /\ base.path # Nothing /\ base.rev = f.rev
                    /\ OwnsEither(base, f)
    IN IF ~Exists(f) THEN "full"
       ELSE IF extends \/ reshaped
       THEN IF /\ base.path # Nothing /\ base.rev # f.rev
               /\ ~same /\ ~CoversBase(base, view, t)
            THEN "diverged"
            ELSE IF same /\ ~repair /\ ~f.torn
            THEN IF f.digest \notin {Nothing, t} THEN "heal" ELSE "same"
            ELSE IF extends /\ ~same /\ ~repair /\ ~f.torn THEN "append"
            ELSE "full"
       ELSE IF rewrite /\ OwnsEither(base, f) THEN "full"
       ELSE IF IsPrefix(t, Loaded(f)) \/ IsPrefix(t, Raw(f)) THEN "stale"
       ELSE "diverged"

----------------------------------------------------------------------------
(* Loading a session: its transcript, then its ledger.  Load takes the     *)
(* mutex of the path, which other processes do not see, and no file lock.  *)

ReadTranscript(r, p) ==
    /\ Exists(File(p))
    /\ job' = [job EXCEPT ![r].at = "ledger", ![r].path = p, ![r].msgs = Loaded(File(p))]
    /\ foreign' = [foreign EXCEPT ![r] = FALSE]
    /\ unsure' = [unsure EXCEPT ![r] = FALSE]
    /\ UNCHANGED <<disk, mem, bounds, acked, removed, forced, cut, gone, slipped>>

Open(r, p) == ~mem[r].open /\ job[r].at = "idle" /\ ReadTranscript(r, p)

ReadLedger(r) ==
    LET p == job[r].path
    IN /\ job[r].at = "ledger"
       /\ mem' = [mem EXCEPT ![r] =
                    [open |-> TRUE, path |-> p, msgs |-> job[r].msgs,
                     ver |-> 0, rw |-> 0, savedRw |-> 0,
                     base |-> [path |-> p, digest |-> job[r].msgs, ver |-> 0,
                               rev |-> File(p).rev, verified |-> FALSE]]]
       /\ Finish(r, p, job[r].meta)
       /\ slipped' = (slipped \/ foreign[r])
       /\ UNCHANGED <<disk, bounds, acked, removed, forced, cut, gone, foreign, unsure>>

----------------------------------------------------------------------------
(* The turn, which may change the session while a save of it runs.         *)

Change(r, t, rewrite) ==
    mem' = [mem EXCEPT ![r].msgs = t, ![r].ver = @ + 1,
                       ![r].rw = IF rewrite THEN @ + 1 ELSE @]
Boundaries(t) == {n \in 1..(Len(t) - 1) : t[n] \notin Calls}

Add(r) ==
    /\ mem[r].open /\ next < MaxMessages
    /\ next' = next + 1
    /\ Change(r, Append(mem[r].msgs, next'), FALSE)
    /\ UNCHANGED <<disk, job, rewrites, faults, ghosts>>

\* rewindTo: back to the start of a turn.
Rewind(r, n) ==
    /\ mem[r].open /\ rewrites < MaxRewrites
    /\ n \in Boundaries(mem[r].msgs)
    /\ rewrites' = rewrites + 1
    /\ Change(r, SubSeq(mem[r].msgs, 1, n), TRUE)
    /\ removed' = removed \union Messages(SubSeq(mem[r].msgs, n + 1, Len(mem[r].msgs)))
    /\ UNCHANGED <<disk, job, next, faults, acked, forced, cut, gone, foreign, slipped, unsure>>

\* A pruned message is replaced by a shorter one.
Prune(r) ==
    /\ mem[r].open /\ rewrites < MaxRewrites /\ next < MaxMessages
    /\ mem[r].msgs # <<>> /\ mem[r].msgs[1] \notin Calls
    /\ rewrites' = rewrites + 1 /\ next' = next + 1
    /\ Change(r, [mem[r].msgs EXCEPT ![1] = next'], TRUE)
    /\ removed' = removed \union {mem[r].msgs[1]}
    /\ UNCHANGED <<disk, job, faults, acked, forced, cut, gone, foreign, slipped, unsure>>

\* The messages of a cancelled turn go, and the rest is flushed at once.
CancelTurn(r, n) ==
    /\ mem[r].open /\ job[r].at = "idle" /\ rewrites < MaxRewrites
    /\ n \in Boundaries(mem[r].msgs)
    /\ rewrites' = rewrites + 1
    /\ Change(r, SubSeq(mem[r].msgs, 1, n), FALSE)
    /\ removed' = removed \union Messages(SubSeq(mem[r].msgs, n + 1, Len(mem[r].msgs)))
    /\ job' = [job EXCEPT ![r].at = "save", ![r].mode = "rewrite"]
    /\ UNCHANGED <<disk, next, faults, acked, forced, cut, gone, foreign, slipped, unsure>>

----------------------------------------------------------------------------
(* A save.                                                                 *)

Fail(r, p, f) ==
    /\ r \in Faulty
    /\ faults < MaxFaults /\ faults' = faults + 1
    /\ Write(r, p, f)
    /\ unsure' = [unsure EXCEPT ![r] = TRUE]
    /\ Done(r)
    /\ UNCHANGED <<mem, next, rewrites, acked, removed, forced, gone, slipped>>

\* Under the lock of the path: nothing to do, a conflict, or a write to come.
Check(r, j) ==
    LET p == mem[r].path
        t == mem[r].msgs
        f == TailRepaired(File(p))
        k == [j EXCEPT !.path = p, !.msgs = t, !.ver = mem[r].ver, !.rw = mem[r].rw, !.rev = f.rev]
    IN /\ Free(p)
       /\ UNCHANGED bounds
       /\ \/ /\ j.mode = "snapshot" /\ UpToDate(r, p)
             /\ acked' = acked \union Messages(t)
             /\ Done(r)
             /\ UNCHANGED <<disk, mem, removed, forced, cut, gone, foreign, slipped, unsure>>
          \/ /\ ~(j.mode = "snapshot" /\ UpToDate(r, p))
             /\ \E decision \in {Decision(Base(r, p), f, t, j.mode = "rewrite")} :
                CASE decision = "same" ->
                       /\ Acknowledge(r, p, f, t)
                       /\ mem' = MarkPersisted(r, p, k, f.rev)
                       /\ Finish(r, p, j.meta)
                  [] decision \in {"stale", "diverged"} ->
                       /\ Write(r, p, f)
                       /\ job' = [job EXCEPT ![r] = [j EXCEPT !.at = "conflict", !.path = p, !.shape = decision]]
                       /\ UNCHANGED <<mem, acked, removed, forced, gone, slipped, unsure>>
                  [] OTHER ->
                       /\ Write(r, p, f)
                       /\ job' = [job EXCEPT ![r] =
                                    IF decision = "heal" THEN [k EXCEPT !.at = "record"]
                                    ELSE [k EXCEPT !.at = "log", !.shape = decision,
                                                   !.from = IF decision = "append" THEN Len(View(f, t)) ELSE 0]]
                       /\ UNCHANGED <<mem, acked, removed, forced, gone, slipped, unsure>>

\* A tick of the autosave, the end of a turn, or a switch of sessions.
Snapshot(r) ==
    /\ mem[r].open /\ job[r].at = "idle"
    /\ Check(r, [Idle EXCEPT !.meta = TRUE,
                             !.mode = IF NeedsRewrite(r) THEN "rewrite" ELSE "snapshot"])
SaveRewrite(r) == job[r].at = "save" /\ Check(r, job[r])

\* The files a log write may leave: a log too long is compacted.
LogWrites(j, f) ==
    LET replaced == IF j.shape = "append" /\ f.log # Nothing THEN LogAppend(f, j.from, j.msgs)
                    ELSE LogReplace(f, j.msgs)
    IN IF j.shape = "force"
       THEN {IF f.log = Nothing THEN f ELSE LogCompact(f, j.msgs)}
       ELSE {replaced} \union (IF f.log = Nothing THEN {} ELSE {LogCompact(f, j.msgs)})
\* What a failed one may leave: nothing, a torn tail, or all of it.
LogTorn(j, f) == {f, [f EXCEPT !.torn = TRUE]} \union LogWrites(j, f)

WriteLog(r) ==
    LET j == job[r]
        f == File(j.path)
    IN /\ j.at = "log"
       /\ \E g \in LogWrites(j, f) :
            /\ Write(r, j.path, g)
            /\ job' = [job EXCEPT ![r].at = IF j.shape = "append" THEN "record" ELSE "checkpoint",
                                  ![r].shape = "none", ![r].from = 0]
       /\ UNCHANGED <<mem, bounds, acked, removed, forced, gone, slipped, unsure>>

WriteLogFails(r) ==
    LET j == job[r]
    IN /\ j.at = "log"
       /\ \E g \in LogTorn(j, File(j.path)) : Fail(r, j.path, g)

WriteCheckpoint(r) ==
    LET p == job[r].path
    IN /\ job[r].at = "checkpoint"
       /\ Write(r, p, [File(p) EXCEPT !.checkpoint = job[r].msgs])
       /\ Go(r, "record")
       /\ UNCHANGED <<mem, bounds, acked, removed, forced, gone, slipped, unsure>>

WriteFails(r) ==
    /\ job[r].at \in {"checkpoint", "record", "branchCheckpoint", "branchMeta"}
    /\ Fail(r, job[r].path, File(job[r].path))

Record(r) ==
    LET j == job[r]
        f == Recorded(File(j.path), j.msgs, j.rev)
    IN /\ j.at = "record"
       /\ Acknowledge(r, j.path, f, j.msgs)
       /\ mem' = MarkPersisted(r, j.path, j, f.rev)
       /\ Finish(r, j.path, j.meta)
       /\ UNCHANGED bounds

\* UpdateSessionMeta reads and writes the file the ledger is in, under the
\* same mutex.
ReadMeta(r) ==
    LET f == File(job[r].path)
    IN /\ job[r].at = "meta"
       /\ job' = [job EXCEPT ![r].at = "metaWrite", ![r].rev = f.rev, ![r].msgs = f.digest]
       /\ UNCHANGED <<disk, mem, bounds, ghosts>>

WriteMeta(r) ==
    LET p == job[r].path
    IN /\ job[r].at = "metaWrite"
       /\ Write(r, p, [File(p) EXCEPT !.rev = job[r].rev, !.digest = job[r].msgs])
       /\ Done(r)
       /\ slipped' = (slipped \/ File(p).rev # job[r].rev \/ File(p).digest # job[r].msgs)
       /\ UNCHANGED <<mem, bounds, acked, removed, forced, gone, unsure>>

----------------------------------------------------------------------------
(* recoverSnapshotConflict.                                                *)

\* The history was rewritten since the save chose its mode: once more.
Retry(r) ==
    /\ job[r].at = "conflict" /\ job[r].mode = "snapshot" /\ NeedsRewrite(r)
    /\ job' = [job EXCEPT ![r] = [Idle EXCEPT !.at = "save", !.mode = "rewrite", !.meta = TRUE]]
    /\ UNCHANGED <<disk, mem, bounds, ghosts>>

Conflicted(r) ==
    /\ job[r].at = "conflict"
    /\ ~(job[r].mode = "snapshot" /\ NeedsRewrite(r))

\* SaveRecoveryBranch: of what the session holds now, unless it is stored.
Covered(f, t) == Exists(f) /\ (IsPrefix(t, Loaded(f)) \/ IsPrefix(t, Raw(f)))

\* The stored transcript holds the session's: it is loaded in its stead.
AdoptDisk(r) ==
    LET p == job[r].path
    IN /\ Conflicted(r)
       /\ job[r].shape = "diverged" => Free(p) /\ Covered(File(p), mem[r].msgs)
       /\ ReadTranscript(r, p)

Fork(r) ==
    LET p == job[r].path
        t == mem[r].msgs
    IN /\ Conflicted(r) /\ job[r].shape = "diverged"
       /\ Free(p) /\ ~Covered(File(p), t)
       /\ job' = [job EXCEPT
            ![r] = IF Depth(p) >= MaxDepth
                   THEN [@ EXCEPT !.at = "force", !.shape = "none"]
                   ELSE [@ EXCEPT !.at = "fork", !.shape = "none", !.path = RecoveryPath(p, t), !.msgs = t,
                                  !.ver = mem[r].ver, !.rw = mem[r].rw]]
       /\ UNCHANGED <<disk, mem, bounds, ghosts>>

\* The chain is as deep as it may be: over whatever the branch holds.
ForceSave(r) ==
    LET p == mem[r].path
        f == TailRepaired(File(p))
    IN /\ job[r].at = "force"
       /\ Free(p)
       /\ Write(r, p, f)
       /\ job' = [job EXCEPT ![r] =
                    [@ EXCEPT !.at = "log", !.shape = "force", !.msgs = mem[r].msgs,
                              !.ver = mem[r].ver, !.rw = mem[r].rw, !.rev = f.rev]]
       /\ forced' = forced \union
            (IF Exists(f) THEN Messages(Raw(f)) \ Messages(mem[r].msgs) ELSE {})
       /\ UNCHANGED <<mem, bounds, acked, removed, gone, slipped, unsure>>

\* The branch of this transcript may be there already.
TakeBranch(r) ==
    LET p == job[r].path
        there == Exists(File(p)) /\ Loaded(File(p)) = job[r].msgs
    IN /\ job[r].at = "fork" /\ Free(p)
       /\ Go(r, IF there THEN "branchMeta" ELSE "branchLog")
       /\ UNCHANGED <<disk, mem, bounds, ghosts>>

WriteBranchLog(r) ==
    LET p == job[r].path
    IN /\ job[r].at = "branchLog"
       /\ Write(r, p, LogReplace(File(p), job[r].msgs))
       /\ Go(r, "branchCheckpoint")
       /\ UNCHANGED <<mem, bounds, acked, removed, forced, gone, slipped, unsure>>

WriteBranchLogFails(r) ==
    LET p == job[r].path
    IN /\ job[r].at = "branchLog"
       /\ \E g \in {File(p), [File(p) EXCEPT !.torn = TRUE],
                     LogReplace(File(p), job[r].msgs)} : Fail(r, p, g)

WriteBranchCheckpoint(r) ==
    LET p == job[r].path
    IN /\ job[r].at = "branchCheckpoint"
       /\ Write(r, p, [File(p) EXCEPT !.checkpoint = job[r].msgs])
       /\ Go(r, "branchMeta")
       /\ UNCHANGED <<mem, bounds, acked, removed, forced, gone, slipped, unsure>>

\* A revision of the ledger above the first one stays, with its digest.
BranchLedger(f, t) == IF f.rev > 1 THEN f ELSE [f EXCEPT !.rev = 1, !.digest = t]

\* Faulty: the branch is saved, and the session stays on its path.
WriteBranchMeta_Stays(r) ==
    LET p == job[r].path
    IN /\ job[r].at = "branchMeta"
       /\ Acknowledge(r, p, BranchLedger(File(p), job[r].msgs), job[r].msgs)
       /\ Finish(r, p, job[r].meta)
       /\ UNCHANGED <<mem, bounds>>
\* The session moves to its branch, if the frontend can follow.
WriteBranchMeta(r) ==
    LET p == job[r].path
        f == BranchLedger(File(p), job[r].msgs)
        marked == MarkPersisted(r, p, job[r], f.rev)
    IN /\ job[r].at = "branchMeta"
       /\ Acknowledge(r, p, f, job[r].msgs)
       /\ mem' = [marked EXCEPT ![r].path = p]
       /\ Finish(r, p, job[r].meta)
       /\ UNCHANGED bounds
----------------------------------------------------------------------------
(* The process of a runtime crashes: a log write may be torn.              *)

Crash(r) ==
    /\ r \in Faulty
    /\ faults < MaxFaults /\ faults' = faults + 1
    /\ mem[r].open
    /\ mem' = [mem EXCEPT ![r] = Closed]
    /\ Done(r)
    /\ \/ UNCHANGED disk
       \/ /\ job[r].at \in {"log", "branchLog"}
          /\ disk' = Put(job[r].path, [File(job[r].path) EXCEPT !.torn = TRUE])
    /\ unsure' = [unsure EXCEPT ![r] = FALSE]
    /\ foreign' = [foreign EXCEPT ![r] = FALSE]
    /\ UNCHANGED <<next, rewrites, acked, removed, forced, cut, gone, slipped>>

Step(r) ==
    \/ ReadLedger(r) \/ SaveRewrite(r)
    \/ WriteLog(r) \/ WriteCheckpoint(r) \/ Record(r) \/ ReadMeta(r) \/ WriteMeta(r)
    \/ Retry(r) \/ AdoptDisk(r) \/ Fork(r) \/ ForceSave(r)
    \/ TakeBranch(r) \/ WriteBranchLog(r) \/ WriteBranchCheckpoint(r) \/ WriteBranchMeta(r)

Next ==
    \E r \in Runtimes :
        \/ \E p \in DOMAIN disk : Open(r, p)
        \/ Add(r) \/ Prune(r) \/ Snapshot(r)
        \/ \E n \in 1..MaxMessages : Rewind(r, n) \/ CancelTurn(r, n)
        \/ Step(r)
        \/ WriteLogFails(r) \/ WriteFails(r) \/ WriteBranchLogFails(r)
        \/ Crash(r)

Spec == Init /\ [][Next]_vars

\* Saves that began go on, and there is always another snapshot to come.
FairSpec == Spec /\ \A r \in Runtimes : WF_vars(Step(r) \/ Snapshot(r))

----------------------------------------------------------------------------
(* Properties                                                              *)

TypeOK ==
    /\ \A r \in Runtimes :
         /\ mem[r].path \in DOMAIN disk
         /\ mem[r].savedRw <= mem[r].rw /\ mem[r].base.ver <= mem[r].ver
         /\ job[r].at \notin {"idle", "save"} => job[r].path = mem[r].path \/ job[r].at \in
              {"ledger", "fork", "branchLog", "branchCheckpoint", "branchMeta"}
    /\ \A p \in DOMAIN disk : Depth(p) <= MaxDepth
    /\ \A r, s \in Runtimes : r # s =>
         \A p \in DOMAIN disk : ~(Holds(r, p) /\ Holds(s, p))

Stored(p) == IF Exists(File(p)) THEN Messages(Raw(File(p))) ELSE {}
Loadable == UNION {Stored(p) : p \in DOMAIN disk}

\* A save that returned has stored its transcript: a message that no runtime
\* took out of its own transcript can be loaded from some path, whatever
\* saves, forks, failures and crashes came after.  (A save forced over a
\* branch at the depth cap is left out.)
NothingHidden == (acked \ removed) \ forced \subseteq Loadable

\* A save that was acknowledged stays reachable, and every record in the files
\* stays one that a loader understands.
SavesAreKept == TypeOK /\ NothingHidden

\* What a recorded rewrite took out of a transcript does not come back with
\* the append of a runtime that still has it.
RewritesStand ==
    \A p \in DOMAIN gone : Depth(p) < MaxDepth => gone[p] \intersect Stored(p) = {}
NoResurrection == slipped \/ RewritesStand

\* A runtime is told that its session was changed elsewhere only if it was,
\* or if an earlier save of its own failed half-way.
ConflictIsForeign ==
    \A r \in Runtimes : job[r].at = "conflict" => foreign[r] \/ unsure[r]

\* However saves fail and conflict, the session a runtime holds is stored in
\* full again and again: conflicts do not follow one another for ever.
IsSaved(r) == mem[r].base.path = mem[r].path /\ mem[r].base.ver = mem[r].ver
SavesConverge == \A r \in Runtimes : []<>(~mem[r].open \/ IsSaved(r))
=============================================================================
