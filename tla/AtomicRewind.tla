----------------------------- MODULE AtomicRewind -----------------------------
(***************************************************************************)
(* What internal/checkpoint promises of a rewind, without saying how: a    *)
(* session is files, a conversation and one checkpoint per turn, and a     *)
(* rewind, a file revert or an undo changes all of them in one step.  A    *)
(* completed operation is remembered, can be undone once, and survives the *)
(* process.  Nothing here crashes, fails or is half done.                  *)
(*                                                                         *)
(* RewindTransaction implements this with manifests, renames and recovery. *)
(***************************************************************************)
EXTENDS Naturals, Sequences

CONSTANTS Files, Contents, Absent, Ids

VARIABLES
    files,          \* the image of every file
    chat,           \* the messages, by serial number
    points,         \* the checkpoints, by turn number
    sent,           \* how many turns were ever run
    log             \* the completed operations, by id

vars == << files, chat, points, sent, log >>

Images == Contents \cup {Absent}

Init ==
    /\ files \in [Files -> Images]
    /\ chat = << >> /\ points = << >> /\ sent = 0 /\ log = << >>

Min(S) == CHOOSE x \in S : \A y \in S : x <= y
Max(S) == CHOOSE x \in S : \A y \in S : y <= x

\* f with the bindings of g added, g's taking precedence.
Override(f, g) == [ x \in DOMAIN f \cup DOMAIN g |-> IF x \in DOMAIN g THEN g[x] ELSE f[x] ]
Keep(f, S) == [ x \in DOMAIN f \cap S |-> f[x] ]

NewTurn == IF DOMAIN points = {} THEN 0 ELSE Max(DOMAIN points) + 1

Turn ==
    /\ sent' = sent + 1
    /\ chat' = Append(chat, sent')
    /\ \E touched \in SUBSET Files : \E new \in [touched -> Images] :
        /\ files' = Override(files, new)
        /\ points' = Override(points, [ t \in {NewTurn} |->
                        [ serial |-> sent', msgIndex |-> Len(chat),
                          pre |-> Keep(files, touched), after |-> new ] ])
    /\ UNCHANGED log

\* The files changed since turn k, and their images before the first change.
Captures(k, f) == { t \in DOMAIN points : t >= k /\ f \in DOMAIN points[t].pre }
Captured(k) == { f \in Files : Captures(k, f) # {} }
Oldest(k) == [ f \in Captured(k) |-> points[Min(Captures(k, f))].pre[f] ]

Unedited(k) == \A f \in Captured(k) : files[f] = points[Max(Captures(k, f))].after[f]

\* Put the images in place, cut the chat to upTo messages and the checkpoints to
\* those of turns before k, and remember what that took away.
Complete(id, images, upTo, k, saved) ==
    /\ id \notin DOMAIN log
    /\ files' = Override(files, images)
    /\ chat' = SubSeq(chat, 1, upTo)
    /\ points' = Keep(points, { t \in DOMAIN points : t < k })
    /\ log' = Override(log, [ i \in {id} |->
                [ undone |-> "no", to |-> images, was |-> Keep(files, DOMAIN images),
                  dropped |-> Keep(points, { t \in DOMAIN points : t >= k }),
                  chat |-> saved ] ])
    /\ UNCHANGED sent

\* A rewind of the code needs files that are as the session left them.
RewindCode(id, k) ==
    /\ Captured(k) # {} /\ Unedited(k)
    /\ Complete(id, Oldest(k), Len(chat), NewTurn, {chat})

RewindConversation(id, k) == Complete(id, << >>, points[k].msgIndex, k, {chat})

RewindBoth(id, k) ==
    /\ Unedited(k)
    /\ Complete(id, Oldest(k), points[k].msgIndex, k, {chat})

RevertFile(id, f) ==
    /\ f \in Captured(0)
    /\ Complete(id, Keep(Oldest(0), {f}), Len(chat), NewTurn, {})

\* Undo the newest operation that was not undone, if its files are as it left them.
Undoable == { i \in DOMAIN log : log[i].undone = "no" }

Undo(id) ==
    /\ Undoable # {} /\ id = Max(Undoable)
    /\ \A f \in DOMAIN log[id].to : files[f] = log[id].to[f]
    /\ files' = Override(files, log[id].was)
    /\ chat' \in (IF log[id].chat = {} THEN {chat} ELSE log[id].chat)
    /\ points' = Override(points, log[id].dropped)
    /\ log' = [log EXCEPT ![id].undone = "yes"]
    /\ UNCHANGED sent

Next ==
    \/ Turn
    \/ \E id \in Ids :
        \/ \E k \in DOMAIN points :
            RewindCode(id, k) \/ RewindConversation(id, k) \/ RewindBoth(id, k)
        \/ \E f \in Files : RevertFile(id, f)
        \/ Undo(id)

Spec == Init /\ [][Next]_vars
=============================================================================
