----------------------------- MODULE RoundRobin -----------------------------
(***************************************************************************)
(* The rotation of a lobby in round robin (internal/dj/lobby.go): whose    *)
(* turn PickNextVideo finds with getNextRobin and getVideoFromUser, and    *)
(* how AddUser and RemoveUser change who has a turn.                       *)
(*                                                                         *)
(* Lobby.RoundRobinQueue is a slice like Lobby.Videos, an array and a      *)
(* length.  AddUser's append is inside the lobby mutex; RemoveUser takes   *)
(* no lock, nor does the pick of timerMinder.                              *)
(*                                                                         *)
(* A video is known by who submitted it.  Left out: the checks before a    *)
(* submission (Admission), the timers and the votes (Playback); a video    *)
(* may end or be skipped at any moment.                                    *)
(***************************************************************************)
EXTENDS Queue

CONSTANT Turns  \* bound on the length of the rotation

User == Item

VARIABLES
    users,      \* Lobby.Users
    place,      \* the array under Lobby.RoundRobinQueue
    turns,      \* the length of Lobby.RoundRobinQueue
    frame       \* the other local variables of each goroutine

robinVars == <<users, place, turns, frame>>
vars == <<queueVars, robinVars>>

-----------------------------------------------------------------------------

\* The user of an AddUser or RemoveUser; i, and the length of the loop, of RemoveUser,
\* and whether CleanupUsers will call it once more; the length to be stored; `first`
\* of getNextRobin, and how often the loop of PickNextVideo will still call it.
Blank == [user |-> None, i |-> 0, len |-> 0, again |-> FALSE,
          first |-> None, calls |-> 0]

\* The goroutine ends without having touched the queue.
End(p) == Goto(p, "idle") /\ frame' = [frame EXCEPT ![p] = Blank]

\* l.RoundRobinQueue[i] is beyond the end: the goroutine panics.
BeyondEnd(p) ==
    /\ Panic(p, PickDeferred(p))
    /\ frame' = [frame EXCEPT ![p] = Blank]

-----------------------------------------------------------------------------
(* PickNextVideo *)

CallPick(p, caller) ==
    /\ Goto(p, "pickIndex")
    /\ pick' = [pick EXCEPT ![p] = [NoPick EXCEPT !.caller = caller]]

\* nextTimer ticks.
VideoEnds(p) ==
    /\ pc[p] = "idle"
    /\ current # None
    /\ CallPick(p, "timer")
    /\ UNCHANGED <<array, length, current, mutex, crashed, robinVars>>

\* The video is skipped, by its lone viewer or by a vote, which a request ends or a
\* timer (Playback).
VideoSkipped(p) ==
    /\ pc[p] = "idle"
    /\ current # None
    /\ Acquire(p)
    /\ \/ p \in Request /\ CallPick(p, "autoSkip")
       \/ CallPick(p, "EndVoteSkip")
    /\ UNCHANGED <<array, length, current, crashed, robinVars>>

\* `for range l.RoundRobinQueue`: as many turns as it is long now, from idx = 0 on.
PickTurn(p) ==
    /\ pc[p] = "pickIndex"
    /\ \/ length = 0 /\ Goto(p, "pickNone") /\ UNCHANGED <<pick, frame>>
       \/ /\ length > 0
          /\ pick' = [pick EXCEPT ![p].idx = 1]
          /\ frame' = [frame EXCEPT ![p] = [Blank EXCEPT !.calls = turns]]
          /\ Goto(p, "robinFirst")
    /\ UNCHANGED <<array, length, current, mutex, crashed, users, place, turns>>

\* The loop ends: a random video if the last one asked had none (index 0 stands for
\* -1), which panics when there is none left.
TurnsOver(p) ==
    /\ frame[p].calls = 0
    /\ \/ pick[p].idx > 0 /\ Goto(p, "pickTake") /\ UNCHANGED <<mutex, crashed, pick>>
       \/ /\ pick[p].idx = 0
          /\ \E i \in 1..length : pick' = [pick EXCEPT ![p].idx = i]
          /\ Goto(p, "pickTake")
          /\ UNCHANGED <<mutex, crashed>>
       \/ pick[p].idx = 0 /\ length = 0 /\ Panic(p, PickDeferred(p))
    /\ frame' = [frame EXCEPT ![p] = Blank]
    /\ UNCHANGED place

\* getNextRobin: the head is looked at, and stays where it is if it is alone ...
RobinFirst(p) ==
    /\ pc[p] = "robinFirst"
    /\ \/ TurnsOver(p)
       \/ /\ frame[p].calls > 0
          /\ turns < 2
          /\ Goto(p, "robinAsk")
          /\ UNCHANGED <<mutex, crashed, pick, place, frame>>
       \/ /\ frame[p].calls > 0
          /\ turns >= 2
          /\ frame' = [frame EXCEPT ![p].first = place[1]]
          /\ Goto(p, "robinCopy")
          /\ UNCHANGED <<mutex, crashed, pick, place>>
    /\ UNCHANGED <<array, length, current, users, turns>>

\* ... otherwise the others move up ...
RobinCopy(p) ==
    /\ pc[p] = "robinCopy"
    /\ \/ /\ turns > 0
          /\ place' = Shift(place, 1, turns)
          /\ Goto(p, "robinLast")
          /\ UNCHANGED <<mutex, crashed, pick, frame>>
       \/ turns = 0 /\ BeyondEnd(p) /\ UNCHANGED place
    /\ UNCHANGED <<array, length, current, users, turns>>

\* ... and the head goes to what is now the end.
RobinLast(p) ==
    /\ pc[p] = "robinLast"
    /\ \/ /\ turns > 0
          /\ place' = [place EXCEPT ![turns] = frame[p].first]
          /\ Goto(p, "robinAsk")
          /\ UNCHANGED <<mutex, crashed, pick, frame>>
       \/ turns = 0 /\ BeyondEnd(p) /\ UNCHANGED place
    /\ UNCHANGED <<array, length, current, users, turns>>

\* The new head is asked for a video (getVideoFromUser): its first in the queue, or -1.
RobinAsk(p) ==
    /\ pc[p] = "robinAsk"
    /\ LET submitted == {i \in 1..length : turns > 0 /\ array[i] = place[1]}
       IN  \/ /\ submitted # {}
              /\ \E i \in submitted :
                    /\ \A j \in submitted : i <= j
                    /\ pick' = [pick EXCEPT ![p].idx = i]
              /\ frame' = [frame EXCEPT ![p] = Blank]
              /\ Goto(p, "pickTake")
           \/ /\ submitted = {}
              /\ pick' = [pick EXCEPT ![p].idx = 0]
              /\ frame' = [frame EXCEPT ![p].calls = @ - 1]
              /\ Goto(p, "robinFirst")
    /\ UNCHANGED <<array, length, current, mutex, crashed, users, place, turns>>

\* The Broadcast, and the read of CurrentVideo for its duration: both may panic.
PickArm(p) ==
    /\ pc[p] = "pickArm"
    /\ \/ current # None /\ PickReturn(p) /\ UNCHANGED <<mutex, crashed>>
       \/ Panic(p, PickDeferred(p))
    /\ UNCHANGED <<array, length, current, robinVars>>

\* The end of EndVoteSkip.
EndClear(p) ==
    /\ pc[p] = "endClear"
    /\ \/ mutex' = Free /\ Return(p) /\ UNCHANGED crashed
       \/ Panic(p, TRUE)
    /\ UNCHANGED <<array, length, current, robinVars>>

-----------------------------------------------------------------------------
(* AddVideo *)

Submit(p, u) ==
    /\ pc[p] = "idle"
    /\ u \in users
    /\ AddVideo(p, u)
    /\ UNCHANGED robinVars

AddCheck(p) ==
    /\ pc[p] = "addCheck"
    /\ \/ current = None /\ CallPick(p, "AddVideo")
       \/ current # None /\ Goto(p, "unlock") /\ UNCHANGED pick
    /\ UNCHANGED <<array, length, current, mutex, crashed, robinVars>>

-----------------------------------------------------------------------------
(* AddUser *)

\* Nothing mentions the id: as good as the new one GenerateID makes.
Fresh(u) ==
    /\ u \notin users \cup {current}
    /\ \A i \in DOMAIN array : array[i] # u
    /\ \A i \in DOMAIN place : place[i] # u
    /\ \A p \in Goroutine : u \notin {frame[p].user, frame[p].first, pick[p].next}

\* Into Users first ...
Join(p, u) ==
    /\ pc[p] = "idle"
    /\ Fresh(u)
    /\ users' = users \cup {u}
    /\ frame' = [frame EXCEPT ![p] = [Blank EXCEPT !.user = u]]
    /\ Goto(p, "joinPlace")
    /\ UNCHANGED <<array, length, current, mutex, crashed, pick, place, turns>>

\* ... then, inside the mutex, to the end of the rotation: the place is written ...
JoinPlace(p) ==
    /\ pc[p] = "joinPlace"
    /\ turns < Turns
    /\ Acquire(p)
    /\ place' = [place EXCEPT ![turns + 1] = frame[p].user]
    /\ frame' = [frame EXCEPT ![p].len = turns + 1]
    /\ Goto(p, "joinStore")
    /\ UNCHANGED <<array, length, current, crashed, pick, users, turns>>

\* ... and then l.RoundRobinQueue is set to the longer slice.
JoinStore(p) ==
    /\ pc[p] = "joinStore"
    /\ turns' = frame[p].len
    /\ mutex' = Free
    /\ End(p)
    /\ UNCHANGED <<array, length, current, crashed, pick, users, place>>

-----------------------------------------------------------------------------
(* RemoveUser *)

\* The loop starts; it ranges over the rotation as long as it is now.
StartScan(p, u, again) ==
    /\ frame' = [frame EXCEPT ![p] = [Blank EXCEPT !.user = u, !.i = 1, !.len = turns,
                                                   !.again = again]]
    /\ Goto(p, "scan")

\* A request cleans up the session of u (CleanExistingSessions); or the goroutine of
\* CleanupUsers, one of Timer here, has found u timed out, and removes it from the
\* lobby twice, by address and by id.
Leave(p, u) ==
    /\ pc[p] = "idle"
    /\ u \in users
    /\ StartScan(p, u, p \in Timer)
    /\ UNCHANGED <<array, length, current, mutex, crashed, pick, users, place, turns>>

\* One turn of the loop.
Scan(p) ==
    /\ pc[p] = "scan"
    /\ LET i == frame[p].i
       IN  \/ i > frame[p].len /\ Goto(p, "delete") /\ UNCHANGED frame
           \/ /\ i <= frame[p].len
              /\ place[i] = frame[p].user
              /\ Goto(p, "cut")
              /\ UNCHANGED frame
           \/ /\ i <= frame[p].len
              /\ place[i] # frame[p].user
              /\ frame' = [frame EXCEPT ![p].i = i + 1]
              /\ UNCHANGED pc
    /\ UNCHANGED <<array, length, current, mutex, crashed, pick, users, place, turns>>

\* append(l.RoundRobinQueue[:i], l.RoundRobinQueue[i+1:]...): whoever's place it has
\* become, those behind it move up in place ...
Cut(p) ==
    /\ pc[p] = "cut"
    /\ \/ /\ frame[p].i <= turns
          /\ place' = Shift(place, frame[p].i, turns)
          /\ frame' = [frame EXCEPT ![p].len = turns - 1]
          /\ Goto(p, "cutStore")
          /\ UNCHANGED <<mutex, crashed, pick>>
       \/ /\ frame[p].i > turns
          /\ p \in Request
          /\ End(p)
          /\ UNCHANGED <<mutex, crashed, pick, place>>
       \/ /\ frame[p].i > turns
          /\ p \in Timer
          /\ crashed' = TRUE
          /\ UNCHANGED <<mutex, pc, pick, place, frame>>
    /\ UNCHANGED <<array, length, current, users, turns>>

\* ... and then l.RoundRobinQueue is set to the shorter slice.
CutStore(p) ==
    /\ pc[p] = "cutStore"
    /\ turns' = frame[p].len
    /\ Goto(p, "delete")
    /\ UNCHANGED <<array, length, current, mutex, crashed, pick, users, place, frame>>

\* l.Users.Delete(user.ID), and what is sent then (Streams), a panic of which ends a
\* clean-up's process.  The second removal finds nothing to delete.
Delete(p) ==
    /\ pc[p] = "delete"
    /\ users' = users \ {frame[p].user}
    /\ \/ frame[p].again /\ StartScan(p, frame[p].user, FALSE) /\ UNCHANGED crashed
       \/ ~frame[p].again /\ End(p) /\ UNCHANGED crashed
       \/ p \in Timer /\ crashed' = TRUE /\ UNCHANGED <<pc, frame>>
    /\ UNCHANGED <<array, length, current, mutex, pick, place, turns>>

-----------------------------------------------------------------------------

Init ==
    /\ QueueInit
    /\ users = {}
    /\ place = [i \in 1..Turns |-> None]
    /\ turns = 0
    /\ frame = [p \in Goroutine |-> Blank]

QueueStep(p) ==
    /\ \/ AddStore(p) \/ Unlock(p)
       \/ PickTake(p) \/ PickCut(p) \/ PickStore(p) \/ PickSet(p) \/ PickNone(p)
    /\ UNCHANGED robinVars

Continue(p) ==
    \/ PickTurn(p) \/ RobinFirst(p) \/ RobinCopy(p) \/ RobinLast(p) \/ RobinAsk(p)
    \/ QueueStep(p) \/ PickArm(p) \/ EndClear(p) \/ AddCheck(p)
    \/ JoinPlace(p) \/ JoinStore(p)
    \/ Scan(p) \/ Cut(p) \/ CutStore(p) \/ Delete(p)

Next ==
    /\ ~crashed
    /\ \/ \E p \in Request, u \in User : Join(p, u) \/ Submit(p, u)
       \/ \E p \in Goroutine, u \in User : Leave(p, u)
       \/ \E p \in Timer : VideoEnds(p)
       \/ \E p \in Goroutine : VideoSkipped(p) \/ Continue(p)

Spec == Init /\ [][Next]_vars

-----------------------------------------------------------------------------
(* What the documentation says, and the code does not do *)

HasPlace(u) == \E i \in 1..turns : place[i] = u

\* Nobody is joining, leaving or picking.
Settled == \A p \in Goroutine : pc[p] = "idle"

\* "Each user has a turn to have one of their submitted videos selected from the
\* queue": whoever is in the lobby has a place in the rotation, once everybody's
\* coming and going is done.
EachHasATurn == Settled => \A u \in users : HasPlace(u)

=============================================================================
