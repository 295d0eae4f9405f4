------------------------------ MODULE Playback ------------------------------
(***************************************************************************)
(* One lobby's player: the queue, the video on screen, the timer that ends *)
(* it, and the vote to skip it (internal/dj/lobby.go, internal/dj/votes.go *)
(* and the skip handlers of internal/service/handlers.go).                 *)
(*                                                                         *)
(* Everything here is shared by goroutines.  Handlers hold the lobby mutex *)
(* around their changes, but timerMinder starts `go l.PickNextVideo()`,    *)
(* which takes no lock.  PickNextVideo is therefore a sequence of steps    *)
(* for whoever runs it, and a locked section is split wherever an unlocked *)
(* pick can come between a check and its use.  A Broadcast may panic       *)
(* wherever there is one (Streams says why).                               *)
(*                                                                         *)
(* People come and go without the mutex and at any moment, so that anybody *)
(* may be in the lobby whenever the code looks: Lobby.Users is a set       *)
(* chosen anew at each look (MuteVote and Sessions say who comes and goes).*)
(*                                                                         *)
(* Left out here: which submissions HandleAddVideo admits, PlayedVideos,   *)
(* the order of the round robin (any index may be picked) and lobby expiry.*)
(***************************************************************************)
EXTENDS Queue

CONSTANTS
    User,       \* the people who come and go in the lobby
    Mode        \* Lobby.Mode

ASSUME ModeAssumption == Mode \in {"shuffle", "round_robin", "linear"}

VARIABLES
    voted,      \* CurrentVideo.WasVoted
    nextTimer,  \* is nextTimer armed?
    skip,       \* Lobby.VoteSkip
    skipTimer,  \* is voteSkipTimer armed?
    frame,      \* the locals of the handlers
    abandoned   \* history: a Broadcast panicked, and was recovered, where the
                \* timer of the video on screen was about to be armed

playVars == <<voted, nextTimer, skip, skipTimer, frame, abandoned>>
vars == <<queueVars, playVars>>

-----------------------------------------------------------------------------

\* The labels of PickNextVideo.
PickLabel == {"pickStop", "pickCancel", "pickInactive", "pickClear", "pickIndex",
              "pickTake", "pickCut", "pickStore", "pickSet", "pickArm", "pickNone"}

\* The labels at which a goroutine is outside the mutex.
OutsideLabel == {"idle", "skipCount", "skipAuto", "voteCheck", "calc"}

Label == QueueLabel \cup PickLabel \cup OutsideLabel \cup
         {"skipVoted", "voteStart", "voteMark", "voteTell", "voteAbout", "voteRecord",
          "calcAbout", "endVote", "endMark", "endClear"}

Blank == [user |-> None, passed |-> FALSE]

NoVote == [active |-> FALSE, video |-> None, yes |-> {}, no |-> {}]

-----------------------------------------------------------------------------
(* PickNextVideo: its timer and the vote, around the steps of Queue *)

CallPick(p, caller) ==
    /\ Goto(p, "pickStop")
    /\ pick' = [pick EXCEPT ![p] = [NoPick EXCEPT !.caller = caller]]

\* nextTimer.Stop(), then `if l.VoteSkip.Active`.
PickStop(p) ==
    /\ pc[p] = "pickStop"
    /\ nextTimer' = FALSE
    /\ Goto(p, IF skip.active THEN "pickCancel" ELSE "pickIndex")
    /\ UNCHANGED <<array, length, current, mutex, crashed, pick>>
    /\ UNCHANGED <<voted, skip, skipTimer, frame, abandoned>>

\* Cancelling the vote: its timer, the flag, then the tallies and the video id.
PickCancel(p) ==
    /\ pc[p] = "pickCancel"
    /\ skipTimer' = FALSE
    /\ Goto(p, "pickInactive")
    /\ UNCHANGED <<array, length, current, mutex, crashed, pick>>
    /\ UNCHANGED <<voted, nextTimer, skip, frame, abandoned>>

\* (Mutant: the flag is forgotten.)
PickInactiveForgets(p) ==
    /\ pc[p] = "pickInactive"
    /\ Goto(p, "pickClear")
    /\ UNCHANGED <<array, length, current, mutex, crashed, pick, playVars>>

PickInactive(p) ==
    /\ pc[p] = "pickInactive"
    /\ skip' = [skip EXCEPT !.active = FALSE]
    /\ Goto(p, "pickClear")
    /\ UNCHANGED <<array, length, current, mutex, crashed, pick>>
    /\ UNCHANGED <<voted, nextTimer, skipTimer, frame, abandoned>>

PickClear(p) ==
    /\ pc[p] = "pickClear"
    /\ skip' = [skip EXCEPT !.yes = {}, !.no = {}, !.video = None]
    /\ Goto(p, "pickIndex")
    /\ UNCHANGED <<array, length, current, mutex, crashed, pick>>
    /\ UNCHANGED <<voted, nextTimer, skipTimer, frame, abandoned>>

\* The index each mode may choose.  The round robin takes some user's first
\* video or, if no user in turn has one, any.
PickIndices == IF Mode = "linear" THEN {1} ELSE 1..length

PickQueue(p) ==
    /\ PickIndex(p, PickIndices) \/ PickTake(p) \/ PickCut(p) \/ PickStore(p)
    /\ UNCHANGED playVars

\* A video is taken to be new to the screen.  (One that a pick and AddVideo at once
\* left in the queue twice may have survived a vote: a further vote is refused then,
\* which a request that is not sent stands for.)
PickShow(p) ==
    /\ PickSet(p)
    /\ voted' = FALSE
    /\ UNCHANGED <<nextTimer, skip, skipTimer, frame, abandoned>>

\* (Mutant: the timer is not reset.)
PickArmForgets(p) ==
    /\ pc[p] = "pickArm"
    /\ PickReturn(p)
    /\ UNCHANGED <<array, length, current, mutex, crashed, playVars>>

\* The broadcast of the new video, and nextTimer.Reset(l.CurrentVideo.Duration + ...),
\* which reads CurrentVideo again.
PickArm(p) ==
    /\ pc[p] = "pickArm"
    /\ \/ /\ current # None
          /\ nextTimer' = TRUE
          /\ abandoned' = FALSE
          /\ PickReturn(p)
          /\ UNCHANGED <<mutex, crashed>>
       \/ /\ Panic(p, PickDeferred(p))
          /\ abandoned' = (abandoned \/ p \in Request)
          /\ UNCHANGED nextTimer
    /\ UNCHANGED <<array, length, current, voted, skip, skipTimer, frame>>

PickBlank(p) ==
    /\ PickNone(p)
    /\ voted' = FALSE
    /\ abandoned' = FALSE
    /\ UNCHANGED <<nextTimer, skip, skipTimer, frame>>

PickNextVideo(p) ==
    \/ PickStop(p) \/ PickCancel(p) \/ PickInactive(p) \/ PickClear(p)
    \/ PickQueue(p) \/ PickShow(p) \/ PickArm(p) \/ PickBlank(p)

-----------------------------------------------------------------------------
(* AddVideo *)

Submit(p, v) ==
    /\ pc[p] = "idle"
    /\ AddVideo(p, v)
    /\ UNCHANGED playVars

\* (Mutant: an early return without the unlock.)
AddCheckKeeps(p) ==
    /\ pc[p] = "addCheck"
    /\ \/ current = None /\ CallPick(p, "AddVideo")
       \/ current # None /\ Return(p)
    /\ UNCHANGED <<array, length, current, mutex, crashed, playVars>>

\* `if l.CurrentVideo == nil`; if not, a Broadcast, whose panic frees the mutex as
\* the return does.
AddCheck(p) ==
    /\ pc[p] = "addCheck"
    /\ \/ current = None /\ CallPick(p, "AddVideo")
       \/ current # None /\ Goto(p, "unlock") /\ UNCHANGED pick
    /\ UNCHANGED <<array, length, current, mutex, crashed, playVars>>

AddSteps(p) ==
    \/ (AddStore(p) \/ Unlock(p)) /\ UNCHANGED playVars
    \/ AddCheck(p)

-----------------------------------------------------------------------------
(* HandleVoteSkipStart *)

\* Its first locked section: a video is playing (otherwise the request is refused
\* and changes nothing) ...
SkipStart(p, u) ==
    /\ pc[p] = "idle"
    /\ current # None
    /\ Acquire(p)
    /\ Goto(p, "skipVoted")
    /\ frame' = [frame EXCEPT ![p].user = u]
    /\ UNCHANGED <<array, length, current, crashed, pick>>
    /\ UNCHANGED <<voted, nextTimer, skip, skipTimer, abandoned>>

\* ... and has not survived a vote; this looks at lobby.CurrentVideo once more, and
\* no Unlock of this handler is deferred.
SkipVoted(p) ==
    /\ pc[p] = "skipVoted"
    /\ \/ /\ current # None /\ ~voted
          /\ mutex' = Free
          /\ Goto(p, "skipCount")
          /\ UNCHANGED <<crashed, pick, frame>>
       \/ /\ current # None /\ voted
          /\ mutex' = Free
          /\ Return(p)
          /\ frame' = [frame EXCEPT ![p] = Blank]
          /\ UNCHANGED crashed
       \/ /\ current = None
          /\ Panic(p, FALSE)
          /\ frame' = [frame EXCEPT ![p] = Blank]
    /\ UNCHANGED <<array, length, current, voted, nextTimer, skip, skipTimer, abandoned>>

\* `if lobby.Users.Length() < 2`, between the two locked sections.
SkipCount(p) ==
    /\ pc[p] = "skipCount"
    /\ \E users \in SUBSET User :
        \/ /\ Cardinality(users) < 2
           /\ Goto(p, "skipAuto")
           /\ frame' = [frame EXCEPT ![p] = Blank]
        \/ /\ Cardinality(users) >= 2
           /\ Goto(p, "voteCheck")
           /\ UNCHANGED frame
    /\ UNCHANGED <<array, length, current, mutex, crashed, pick>>
    /\ UNCHANGED <<voted, nextTimer, skip, skipTimer, abandoned>>

\* The second locked section for a lone user: lobby.CurrentVideo.WasSkipped is
\* set without a new check, and the Unlock below it is not deferred.
SkipAuto(p) ==
    /\ pc[p] = "skipAuto"
    /\ mutex = Free
    /\ \/ /\ current # None
          /\ Acquire(p)
          /\ CallPick(p, "autoSkip")
          /\ UNCHANGED crashed
       \/ /\ current = None
          /\ Panic(p, FALSE)
    /\ UNCHANGED <<array, length, current, playVars>>

\* StartVoteSkip: `if l.VoteSkip.Active || l.CurrentVideo == nil`.
VoteCheck(p) ==
    /\ pc[p] = "voteCheck"
    /\ mutex = Free
    /\ \/ /\ skip.active \/ current = None
          /\ Return(p)
          /\ frame' = [frame EXCEPT ![p] = Blank]
          /\ UNCHANGED mutex
       \/ /\ ~skip.active /\ current # None
          /\ Acquire(p)
          /\ Goto(p, "voteStart")
          /\ UNCHANGED <<frame, pick>>
    /\ UNCHANGED <<array, length, current, crashed>>
    /\ UNCHANGED <<voted, nextTimer, skip, skipTimer, abandoned>>

\* It sets Active ...
VoteStart(p) ==
    /\ pc[p] = "voteStart"
    /\ skip' = [skip EXCEPT !.active = TRUE]
    /\ Goto(p, "voteMark")
    /\ UNCHANGED <<array, length, current, mutex, crashed, pick>>
    /\ UNCHANGED <<voted, nextTimer, skipTimer, frame, abandoned>>

\* ... before it reads CurrentVideo.ID ...
VoteMark(p) ==
    /\ pc[p] = "voteMark"
    /\ \/ /\ current # None
          /\ skip' = [skip EXCEPT !.video = current, !.yes = @ \cup {frame[p].user}]
          /\ Goto(p, "voteTell")
          /\ UNCHANGED <<mutex, crashed, pick>>
       \/ /\ current = None
          /\ Panic(p, TRUE)
          /\ UNCHANGED skip
    /\ frame' = [frame EXCEPT ![p] = Blank]
    /\ UNCHANGED <<array, length, current, voted, nextTimer, skipTimer, abandoned>>

\* ... and tells everybody before it resets the vote's timer.
VoteTell(p) ==
    /\ pc[p] = "voteTell"
    /\ \/ /\ skipTimer' = TRUE
          /\ mutex' = Free
          /\ Return(p)
          /\ UNCHANGED crashed
       \/ /\ Panic(p, TRUE)
          /\ UNCHANGED skipTimer
    /\ UNCHANGED <<array, length, current, voted, nextTimer, skip, frame, abandoned>>

-----------------------------------------------------------------------------
(* HandleVoteSkipSubmit: RecordSkipVote *)

\* A vote is on (otherwise the request is refused and changes nothing) ...
SkipSubmit(p, u) ==
    /\ pc[p] = "idle"
    /\ skip.active
    /\ Acquire(p)
    /\ Goto(p, "voteAbout")
    /\ frame' = [frame EXCEPT ![p].user = u]
    /\ UNCHANGED <<array, length, current, crashed, pick>>
    /\ UNCHANGED <<voted, nextTimer, skip, skipTimer, abandoned>>

\* ... and about the video on screen; `l.CurrentVideo.ID` is not guarded, and no
\* Unlock of RecordSkipVote is deferred.
VoteAbout(p) ==
    /\ pc[p] = "voteAbout"
    /\ \/ /\ current # None /\ skip.video = current
          /\ Goto(p, "voteRecord")
          /\ UNCHANGED <<mutex, crashed, pick, frame>>
       \/ /\ current # None /\ skip.video # current
          /\ mutex' = Free
          /\ Return(p)
          /\ frame' = [frame EXCEPT ![p] = Blank]
          /\ UNCHANGED crashed
       \/ /\ current = None
          /\ Panic(p, FALSE)
          /\ frame' = [frame EXCEPT ![p] = Blank]
    /\ UNCHANGED <<array, length, current, voted, nextTimer, skip, skipTimer, abandoned>>

Quorum(users) == (Cardinality(users) + 1) \div 2

Ballot(u, yes) ==
    IF yes THEN [skip EXCEPT !.yes = @ \cup {u}, !.no = @ \ {u}]
           ELSE [skip EXCEPT !.no = @ \cup {u}, !.yes = @ \ {u}]

\* The vote is recorded.  A quorum sends the request on to CalcVoteSkipResult;
\* otherwise the tally is broadcast with the mutex held.
VoteRecord(p) ==
    /\ pc[p] = "voteRecord"
    /\ \E yes \in BOOLEAN : skip' = Ballot(frame[p].user, yes)
    /\ frame' = [frame EXCEPT ![p] = Blank]
    /\ \E users \in SUBSET User :
        IF Cardinality(skip'.yes) >= Quorum(users)
        THEN mutex' = Free /\ Goto(p, "calc") /\ UNCHANGED <<crashed, pick>>
        ELSE \/ mutex' = Free /\ Return(p) /\ UNCHANGED crashed
             \/ Panic(p, FALSE)
    /\ UNCHANGED <<array, length, current, voted, nextTimer, skipTimer, abandoned>>

-----------------------------------------------------------------------------
(* CalcVoteSkipResult and EndVoteSkip, run by a request or by a timer *)

VotePasses == Cardinality(skip.yes) >= 2 /\ Cardinality(skip.yes) > Cardinality(skip.no)

\* Nothing happens for a vote that is over ...
Calc(p) ==
    /\ pc[p] = "calc"
    /\ mutex = Free
    /\ \/ ~skip.active /\ Return(p) /\ UNCHANGED mutex
       \/ skip.active /\ Acquire(p) /\ Goto(p, "calcAbout") /\ UNCHANGED pick
    /\ UNCHANGED <<array, length, current, crashed, playVars>>

\* ... or about another video; `l.CurrentVideo.ID` is not guarded, the Unlock is
\* deferred.  The first statement of EndVoteSkip stops the vote's timer.
CalcAbout(p) ==
    /\ pc[p] = "calcAbout"
    /\ \/ /\ current # None /\ skip.video # current
          /\ mutex' = Free
          /\ Return(p)
          /\ UNCHANGED <<crashed, skipTimer, frame>>
       \/ /\ current = None
          /\ Panic(p, TRUE)
          /\ UNCHANGED <<skipTimer, frame>>
       \/ /\ current # None /\ skip.video = current
          /\ frame' = [frame EXCEPT ![p].passed = VotePasses]
          /\ skipTimer' = FALSE
          /\ Goto(p, "endVote")
          /\ UNCHANGED <<mutex, crashed, pick>>
    /\ UNCHANGED <<array, length, current, voted, nextTimer, skip, abandoned>>

\* `if l.CurrentVideo != nil`, then the video that is on screen by now is marked and,
\* if the vote passed, the next one picked.
EndVote(p) ==
    /\ pc[p] = "endVote"
    /\ Goto(p, IF current # None THEN "endMark" ELSE "endClear")
    /\ UNCHANGED <<array, length, current, mutex, crashed, pick, playVars>>

EndMark(p) ==
    /\ pc[p] = "endMark"
    /\ \/ /\ current # None
          /\ voted' = TRUE
          /\ IF frame[p].passed
             THEN CallPick(p, "EndVoteSkip")
             ELSE Goto(p, "endClear") /\ UNCHANGED pick
          /\ UNCHANGED <<mutex, crashed>>
       \/ /\ current = None
          /\ Panic(p, TRUE)
          /\ UNCHANGED voted
    /\ frame' = [frame EXCEPT ![p] = Blank]
    /\ UNCHANGED <<array, length, current, nextTimer, skip, skipTimer, abandoned>>

\* The vote is cleared, and everybody told.
EndClear(p) ==
    /\ pc[p] = "endClear"
    /\ skip' = NoVote
    /\ frame' = [frame EXCEPT ![p] = Blank]
    /\ \/ mutex' = Free /\ Return(p) /\ UNCHANGED crashed
       \/ Panic(p, TRUE)
    /\ UNCHANGED <<array, length, current, voted, nextTimer, skipTimer, abandoned>>

-----------------------------------------------------------------------------
(* The timer minder *)

\* (Mutant: the tick is dropped while the lobby is busy.)
FireNextDrops(p) ==
    /\ pc[p] = "idle"
    /\ nextTimer
    /\ nextTimer' = FALSE
    /\ \/ mutex = Free /\ CallPick(p, "timer")
       \/ mutex # Free /\ UNCHANGED <<pc, pick>>
    /\ UNCHANGED <<array, length, current, mutex, crashed>>
    /\ UNCHANGED <<voted, skip, skipTimer, frame, abandoned>>

\* timerMinder receives the tick and starts `go l.PickNextVideo()`.  A timer
\* that was stopped or reset delivers no old tick (go.mod asks for go 1.24).
FireNext(p) ==
    /\ pc[p] = "idle"
    /\ nextTimer
    /\ nextTimer' = FALSE
    /\ CallPick(p, "timer")
    /\ UNCHANGED <<array, length, current, mutex, crashed>>
    /\ UNCHANGED <<voted, skip, skipTimer, frame, abandoned>>

\* The same for voteSkipTimer and `go l.CalcVoteSkipResult()`.
FireSkip(p) ==
    /\ pc[p] = "idle"
    /\ skipTimer
    /\ skipTimer' = FALSE
    /\ Goto(p, "calc")
    /\ UNCHANGED <<array, length, current, mutex, crashed, pick>>
    /\ UNCHANGED <<voted, nextTimer, skip, frame, abandoned>>

-----------------------------------------------------------------------------

Init ==
    /\ QueueInit
    /\ voted = FALSE
    /\ nextTimer = FALSE
    /\ skip = NoVote
    /\ skipTimer = FALSE
    /\ frame = [p \in Goroutine |-> Blank]
    /\ abandoned = FALSE

\* A new request.
Arrive(p) ==
    \/ \E v \in Item : Submit(p, v)
    \/ \E u \in User : SkipStart(p, u) \/ SkipSubmit(p, u)

Fire(p) == FireNext(p) \/ FireSkip(p)

\* A goroutine that has started goes on.
Continue(p) ==
    \/ PickNextVideo(p)
    \/ AddSteps(p)
    \/ SkipVoted(p) \/ SkipCount(p) \/ SkipAuto(p)
    \/ VoteCheck(p) \/ VoteStart(p) \/ VoteMark(p) \/ VoteTell(p)
    \/ VoteAbout(p) \/ VoteRecord(p)
    \/ Calc(p) \/ CalcAbout(p) \/ EndVote(p) \/ EndMark(p) \/ EndClear(p)

Next ==
    /\ ~crashed
    /\ \/ \E p \in Request : Arrive(p)
       \/ \E p \in Timer : Fire(p)
       \/ \E p \in Goroutine : Continue(p)

Spec == Init /\ [][Next]_vars

-----------------------------------------------------------------------------
(* What the scheduler and the clock promise *)

\* Go runs every goroutine that can run, hands a contended mutex to whoever
\* waits for it in turn, and delivers a timer's tick.  Nobody has to send a request.
Fairness ==
    /\ \A p \in Goroutine : SF_vars(~crashed /\ Continue(p))
    /\ \A p \in Timer : SF_vars(~crashed /\ FireNext(p)) /\ SF_vars(~crashed /\ FireSkip(p))

FairSpec == Spec /\ Fairness

-----------------------------------------------------------------------------
(* Properties *)

Frame == [user : User \cup {None}, passed : BOOLEAN]

\* Every variable has its type.
TypeOK ==
    /\ QueueTypeOK
    /\ pc \in [Goroutine -> Label]
    /\ voted \in BOOLEAN
    /\ nextTimer \in BOOLEAN
    /\ skip \in [active : BOOLEAN, video : Item \cup {None},
                 yes : SUBSET (User \cup {None}), no : SUBSET (User \cup {None})]
    /\ skipTimer \in BOOLEAN
    /\ frame \in [Goroutine -> Frame]
    /\ abandoned \in BOOLEAN

Picking(p) == pc[p] \in PickLabel

\* The index goroutine p chose is no longer in the queue: its next step panics.
Doomed(p) == pc[p] \in {"pickTake", "pickCut"} /\ pick[p].idx > length

\* A video on screen always has an end: its timer runs, or a PickNextVideo is on
\* its way that replaces the video or arms the timer.  A doomed pick of a request
\* does neither (its panic is recovered); one of the timer ends the process.
\* However the unlocked pick of the timer interleaves with the picks of the
\* handlers, no lobby is stuck on one video, with a single exception: the video
\* during whose announcement a Broadcast of a handler's pick panicked.
PlayingHasTimer ==
    current # None /\ ~abandoned =>
        nextTimer \/ \E p \in Goroutine : Picking(p) /\ (p \in Timer \/ ~Doomed(p))

\* Is goroutine p inside a locked section of the lobby?
Inside(p) ==
    /\ pc[p] \notin OutsideLabel
    /\ Picking(p) => pick[p].caller # "timer"

\* The mutex excludes: whoever is inside a locked section holds it, so no two are,
\* and a goroutine that still runs holds it only there.  (A handler that panics
\* with it is gone: the mutex is Leaked then, and nobody's.)
MutexHeldInside == \A p \in Goroutine : Inside(p) <=> mutex = p

\* A video on screen is replaced, or the screen goes blank, unless its announcement
\* panicked, the process dies or the mutex leaks (then playback goes on too, see
\* PlayingHasTimer, but each further CalcVoteSkipResult waits for ever and fills one
\* of the slots).
PlaybackMovesOn ==
    current # None ~>
        \/ current = None \/ \E p \in Goroutine : pc[p] = "pickSet"
        \/ abandoned \/ crashed \/ mutex = Leaked

\* A vote to skip never stays open over a video, even if its own timer was not armed
\* because the broadcast of its start panicked: at the latest the pick that replaces
\* the video closes it, with the same exceptions.  (Over a blank screen it may:
\* StartVoteSkip sets Active before its read of CurrentVideo.ID panics.)
SkipVoteEnds ==
    skip.active /\ current # None ~>
        ~skip.active \/ current = None \/ abandoned \/ crashed \/ mutex = Leaked

-----------------------------------------------------------------------------
(* What the documentation and the comments say, and the code does not do *)

\* "Remove from playlist": a pick leaves the queue one video shorter than it finds
\* it, whatever is submitted in the meantime.
PickRemovesOne ==
    [][\A p \in Goroutine : pc[p] = "pickStore" /\ pc'[p] = "pickSet" =>
         length' = length - 1]_vars

\* A request to skip when nothing plays is answered ("There is no current video
\* playing"); it does not take the lobby's mutex with it.
BlankSkipIsAnswered ==
    [][\A p \in Goroutine :
         pc[p] = "skipAuto" /\ pc'[p] # "skipAuto" => mutex' # Leaked]_vars

=============================================================================
