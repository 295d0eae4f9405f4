----------------------------- MODULE Admission ------------------------------
(***************************************************************************)
(* Which videos get into the queue of a lobby: HandleAddVideo              *)
(* (internal/service/handlers.go) with the checks it calls, and the list   *)
(* of played videos they look at (internal/dj/lobby.go).                   *)
(*                                                                         *)
(* HandleAddVideo holds no lock from one check to the next, and asks       *)
(* YouTube in between, so it is a sequence of steps of its goroutine; so   *)
(* is PickNextVideo, which notes the video it takes off the screen as      *)
(* played, and which timerMinder starts without the mutex.                 *)
(*                                                                         *)
(* Left out: the timer and the votes that call PickNextVideo (Playback has *)
(* them; here a video may end at any moment) and its choice (RoundRobin).  *)
(* Who is in the lobby does not change: a submission goes on when its      *)
(* sender has left.                                                        *)
(***************************************************************************)
EXTENDS Queue, Metadata

CONSTANTS
    User,           \* the people in the lobby
    Video,          \* video ids
    Cleaner,        \* goroutines of CleanupPlayedVideos
    UserQueueLimit, \* Lobby.UserQueueLimit
    MaxSeconds,     \* the ten minutes a video may last
    Answer,         \* what YouTube may answer
    UseScrape,      \* the environment: is the scrape on,
    HasKey          \* and is there a key for the Data API?

ASSUME LimitAssumption == UserQueueLimit \in Nat \ {0} /\ MaxSeconds \in Nat

ASSUME AnswerAssumption == Answer \subseteq Answers /\ UseScrape \in BOOLEAN /\ HasKey \in BOOLEAN

ASSUME NobodyAssumption == None \notin User \cup Video

ASSUME ItemAssumption == Item = [id : Video, by : User, dur : 1..MaxSeconds]

VARIABLES
    listed,     \* the keys of Lobby.PlayedVideos
    recent,     \* the videos whose LastPlayed is less than an hour ago
    muted,      \* the users whose MutedUntil is to come
    frame,      \* the submissions under way, and in id also `last` of PickNextVideo
    idsToDelete \* of each CleanupPlayedVideos under way, otherwise empty

admissionVars == <<listed, recent, muted, frame, idsToDelete>>
vars == <<queueVars, admissionVars>>

-----------------------------------------------------------------------------

Label == QueueLabel \cup
         {"idle", "fetch", "checkPlayed", "checkQueued", "checkLimit", "add",
          "pickLast", "pickNote", "endClear"}

Blank == [user |-> None, id |-> None, dur |-> 0]

End(p) == Goto(p, "idle") /\ frame' = [frame EXCEPT ![p] = Blank]

-----------------------------------------------------------------------------
(* HandleAddVideo *)

\* (Mutant: the mute is not looked at.)
SubmitMuted(p, u, id) ==
    /\ pc[p] = "idle"
    /\ Goto(p, "fetch")
    /\ frame' = [frame EXCEPT ![p] = [Blank EXCEPT !.user = u, !.id = id]]
    /\ UNCHANGED <<array, length, current, mutex, crashed, pick>>
    /\ UNCHANGED <<listed, recent, muted, idsToDelete>>

\* A link with the id of a video in it, from somebody who is not muted.
Submit(p, u, id) ==
    /\ pc[p] = "idle"
    /\ u \notin muted
    /\ Goto(p, "fetch")
    /\ frame' = [frame EXCEPT ![p] = [Blank EXCEPT !.user = u, !.id = id]]
    /\ UNCHANGED <<array, length, current, mutex, crashed, pick>>
    /\ UNCHANGED <<listed, recent, muted, idsToDelete>>

\* What YouTube's answers come to.
Meta == {FetchVideoMeta(AddVideoOptions(UseScrape), HasKey, a) : a \in Answer}

\* YouTube is asked; an error or too long a video ends the request.
Fetch(p) ==
    /\ pc[p] = "fetch"
    /\ \E meta \in Meta :
        \/ /\ meta.err # "none" \/ meta.dur > MaxSeconds
           /\ End(p)
        \/ /\ meta.err = "none" /\ meta.dur <= MaxSeconds
           /\ Goto(p, "checkPlayed")
           /\ frame' = [frame EXCEPT ![p].dur = meta.dur]
    /\ UNCHANGED <<array, length, current, mutex, crashed, pick>>
    /\ UNCHANGED <<listed, recent, muted, idsToDelete>>

\* A check of the chain at label here may find outcomes: TRUE ends the request,
\* FALSE lets it go on to the next.
Check(p, here, outcomes, next) ==
    /\ pc[p] = here
    /\ \/ TRUE \in outcomes /\ End(p)
       \/ FALSE \in outcomes /\ Goto(p, next) /\ UNCHANGED frame
    /\ UNCHANGED <<array, length, current, mutex, crashed, pick>>
    /\ UNCHANGED <<listed, recent, muted, idsToDelete>>

CheckPlayed(p) == Check(p, "checkPlayed", {frame[p].id \in listed}, "checkQueued")

\* The videos in the queue are looked at one by one inside the mutex.  What a loop
\* finds is open while a pick without it moves them.
Looked(answer) ==
    IF \E q \in Timer : pc[q] = "pickCut" THEN BOOLEAN ELSE {answer}

CheckVideoQueued(p) ==
    /\ mutex = Free
    /\ Check(p, "checkQueued", Looked(\E i \in 1..length : array[i].id = frame[p].id), "checkLimit")

Submitted(u) == {i \in 1..length : array[i].by = u}

CheckUserVideoLimit(p) ==
    /\ mutex = Free
    /\ Check(p, "checkLimit", Looked(Cardinality(Submitted(frame[p].user)) >= UserQueueLimit), "add")

\* AddVideo begins: what was checked, and when, no longer matters.
Add(p) ==
    /\ pc[p] = "add"
    /\ AddVideo(p, [id |-> frame[p].id, by |-> frame[p].user, dur |-> frame[p].dur])
    /\ frame' = [frame EXCEPT ![p] = Blank]
    /\ UNCHANGED <<listed, recent, muted, idsToDelete>>

CallPick(p, caller) ==
    /\ Goto(p, "pickLast")
    /\ pick' = [pick EXCEPT ![p] = [NoPick EXCEPT !.caller = caller]]

\* `if l.CurrentVideo == nil`; if not, a Broadcast, whose panic frees the mutex as
\* the return does.
AddCheck(p) ==
    /\ pc[p] = "addCheck"
    /\ \/ current = None /\ CallPick(p, "AddVideo")
       \/ current # None /\ Goto(p, "unlock") /\ UNCHANGED pick
    /\ UNCHANGED <<array, length, current, mutex, crashed, admissionVars>>

-----------------------------------------------------------------------------
(* PickNextVideo *)

\* nextTimer ticks for the video on screen.
VideoEnds(p) ==
    /\ pc[p] = "idle"
    /\ current # None
    /\ CallPick(p, "timer")
    /\ UNCHANGED <<array, length, current, mutex, crashed, admissionVars>>

\* The video is skipped, by its lone viewer or by a vote, which a request ends or a
\* timer (Playback).
VideoSkipped(p) ==
    /\ pc[p] = "idle"
    /\ current # None
    /\ Acquire(p)
    /\ \/ p \in Request /\ CallPick(p, "autoSkip")
       \/ CallPick(p, "EndVoteSkip")
    /\ UNCHANGED <<array, length, current, crashed, admissionVars>>

\* last := l.CurrentVideo
PickLast(p) ==
    /\ pc[p] = "pickLast"
    /\ \/ /\ current = None
          /\ Goto(p, "pickIndex")
          /\ UNCHANGED frame
       \/ /\ current # None
          /\ Goto(p, "pickNote")
          /\ frame' = [frame EXCEPT ![p].id = current.id]
    /\ UNCHANGED <<array, length, current, mutex, crashed, pick>>
    /\ UNCHANGED <<listed, recent, muted, idsToDelete>>

\* Its LastPlayed, and l.PlayedVideos.Set.
PickNote(p) ==
    /\ pc[p] = "pickNote"
    /\ listed' = listed \cup {frame[p].id}
    /\ recent' = recent \cup {frame[p].id}
    /\ frame' = [frame EXCEPT ![p] = Blank]
    /\ Goto(p, "pickIndex")
    /\ UNCHANGED <<array, length, current, mutex, crashed, pick, muted, idsToDelete>>

\* The Broadcast, and the read of CurrentVideo for its duration.
PickArm(p) ==
    /\ pc[p] = "pickArm"
    /\ \/ current # None /\ PickReturn(p) /\ UNCHANGED <<mutex, crashed>>
       \/ Panic(p, PickDeferred(p))
    /\ UNCHANGED <<array, length, current, admissionVars>>

\* The end of EndVoteSkip, whose Broadcast may panic as well: the same for the mutex.
EndClear(p) ==
    /\ pc[p] = "endClear"
    /\ \/ mutex' = Free /\ Return(p) /\ UNCHANGED crashed
       \/ Panic(p, TRUE)
    /\ UNCHANGED <<array, length, current, admissionVars>>

QueueStep(p) ==
    /\ \/ AddStore(p) \/ Unlock(p)
       \/ PickIndex(p, 1..length) \/ PickTake(p) \/ PickCut(p) \/ PickStore(p) \/ PickSet(p)
       \/ PickNone(p)
    /\ UNCHANGED admissionVars

-----------------------------------------------------------------------------
(* The list of played videos, and the mutes *)

HourPasses(id) ==
    /\ id \in recent
    /\ recent' = recent \ {id}
    /\ UNCHANGED <<queueVars, listed, muted, frame, idsToDelete>>

\* CleanupPlayedVideos, started by a tick: it collects, then deletes.
CollectPlayed(c) ==
    /\ idsToDelete[c] = {}
    /\ listed \ recent # {}
    /\ idsToDelete' = [idsToDelete EXCEPT ![c] = listed \ recent]
    /\ UNCHANGED <<queueVars, listed, recent, muted, frame>>

\* (Mutant: nothing is deleted.)
SweepPlayedForgets(c) ==
    /\ idsToDelete[c] # {}
    /\ idsToDelete' = [idsToDelete EXCEPT ![c] = {}]
    /\ UNCHANGED <<queueVars, listed, recent, muted, frame>>

SweepPlayed(c) ==
    /\ idsToDelete[c] # {}
    /\ listed' = listed \ idsToDelete[c]
    /\ idsToDelete' = [idsToDelete EXCEPT ![c] = {}]
    /\ UNCHANGED <<queueVars, recent, muted, frame>>

\* MuteVote says when.
Mute(u) ==
    /\ u \notin muted
    /\ muted' = muted \cup {u}
    /\ UNCHANGED <<queueVars, listed, recent, frame, idsToDelete>>

Unmute(u) ==
    /\ u \in muted
    /\ muted' = muted \ {u}
    /\ UNCHANGED <<queueVars, listed, recent, frame, idsToDelete>>

-----------------------------------------------------------------------------

Init ==
    /\ QueueInit
    /\ listed = {}
    /\ recent = {}
    /\ muted = {}
    /\ frame = [p \in Goroutine |-> Blank]
    /\ idsToDelete = [c \in Cleaner |-> {}]

Continue(p) ==
    \/ Fetch(p) \/ CheckPlayed(p) \/ CheckVideoQueued(p) \/ CheckUserVideoLimit(p)
    \/ Add(p) \/ AddCheck(p)
    \/ PickLast(p) \/ PickNote(p) \/ QueueStep(p) \/ PickArm(p) \/ EndClear(p)

Clean(c) == CollectPlayed(c) \/ SweepPlayed(c)

Next ==
    /\ ~crashed
    /\ \/ \E p \in Request, u \in User, id \in Video : Submit(p, u, id)
       \/ \E p \in Timer : VideoEnds(p)
       \/ \E p \in Goroutine : VideoSkipped(p) \/ Continue(p)
       \/ \E c \in Cleaner : Clean(c)
       \/ \E id \in Video : HourPasses(id)
       \/ \E u \in User : Mute(u) \/ Unmute(u)

Spec == Init /\ [][Next]_vars

\* The played videos are swept every minute.  Nobody has to submit anything, a video
\* need not end, and whoever waits for the mutex may wait for ever.
Fairness == \A c \in Cleaner : WF_vars(~crashed /\ Clean(c))

FairSpec == Spec /\ Fairness

-----------------------------------------------------------------------------
(* Properties *)

Frame == [user : User \cup {None}, id : Video \cup {None}, dur : 0..MaxSeconds]

\* Every variable has its type: what is queued or on screen has a submitter, lasts
\* longer than nothing and at most ten minutes, whatever YouTube answered.
TypeOK ==
    /\ QueueTypeOK
    /\ pc \in [Goroutine -> Label]
    /\ listed \in SUBSET Video
    /\ recent \in SUBSET Video
    /\ muted \in SUBSET User
    /\ frame \in [Goroutine -> Frame]
    /\ idsToDelete \in [Cleaner -> SUBSET Video]

\* No video is barred for ever: one that is listed as played is taken off the list
\* some time after its hour, unless it is played again and again.
BarEnds ==
    \A id \in Video : id \in listed \ recent ~> id \notin listed \/ id \in recent \/ crashed

Adds(u) == \E p \in Request : pc[p] = "add" /\ pc'[p] # "add" /\ frame[p].user = u

InFlight(u) == {p \in Request : pc[p] # "idle" /\ frame[p].user = u}

\* While u is muted, the submissions of u in flight are what can still get through:
\* none starts, and each that adds a video is one less.
MuteWindsDown ==
    [][\A u \in muted : u \in muted' =>
          /\ InFlight(u)' \subseteq InFlight(u)
          /\ Adds(u) => InFlight(u)' # InFlight(u)]_vars

\* Somebody who stays muted adds, after a while, nothing more: a submission that was
\* in flight when the mute came still gets through, none after it.
MuteSilences == \A u \in User : <>[](u \in muted) => <>[][~Adds(u)]_vars

-----------------------------------------------------------------------------
(* What the documentation says, and the code does not do *)

\* "The same video cannot be re-submitted to the playlist for 1 hour since they were
\* last played."
NoResubmission ==
    [][\A p \in Request : pc[p] = "add" /\ pc'[p] # "add" => frame[p].id \notin recent]_vars

=============================================================================
