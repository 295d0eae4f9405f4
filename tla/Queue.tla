------------------------------- MODULE Queue --------------------------------
(***************************************************************************)
(* The queue and the screen of a lobby, and the two pieces of code that    *)
(* change them: AddVideo and PickNextVideo (internal/dj/lobby.go).  The    *)
(* modules that look at a lobby from one side each (Playback, Admission,   *)
(* RoundRobin) put their own steps between the ones stated here.           *)
(*                                                                         *)
(* Lobby.Videos is a slice: an array and a length.  Both operations read   *)
(* the length, change the array in place and only then store the new       *)
(* length.  AddVideo does so inside the lobby mutex, PickNextVideo inside  *)
(* it when a handler calls it and outside when timerMinder does.  A read,  *)
(* and the change of shared state made with it, are separate steps         *)
(* wherever a goroutine that holds no lock can come between.               *)
(*                                                                         *)
(* The array has its full capacity from the start, as it has in a lobby    *)
(* that has been busy before; the lengths are the same while it grows.     *)
(***************************************************************************)
EXTENDS Integers, FiniteSets

CONSTANTS
    Request,    \* goroutines of HTTP requests (reused: the number of them is the bound)
    Timer,      \* goroutines no handler recovers: those timerMinder starts (same)
    Item,       \* the videos
    Capacity,   \* bound on the length of the queue
    None,       \* the nil video
    Free,       \* the mutex is not held
    Leaked      \* the mutex is held by a handler that panicked: nobody will release it

ASSUME GoroutineAssumption == Request \cap Timer = {}

ASSUME MutexAssumption ==
    Free # Leaked /\ Free \notin Request \cup Timer /\ Leaked \notin Request \cup Timer

ASSUME NoneAssumption == None \notin Item

ASSUME CapacityAssumption == Capacity \in Nat

Goroutine == Request \cup Timer

VARIABLES
    array,      \* the array under Lobby.Videos
    length,     \* the length of Lobby.Videos
    current,    \* Lobby.CurrentVideo
    mutex,      \* the lobby's sync.Mutex: Free, Leaked or its holder
    crashed,    \* the process died of a panic no handler recovers
    pc,         \* where each goroutine is
    pick        \* the local variables of its PickNextVideo or append

queueVars == <<array, length, current, mutex, crashed, pc, pick>>

-----------------------------------------------------------------------------
(* Goroutines, the mutex and panics *)

QueueLabel == {"pickIndex", "pickTake", "pickCut", "pickStore", "pickSet", "pickArm",
               "pickNone", "addStore", "addCheck", "unlock"}

\* Where PickNextVideo returns to: the timer goroutine ends, AddVideo and the
\* automatic skip release the mutex, EndVoteSkip clears the vote.
PickCaller == {"timer", "AddVideo", "autoSkip", "EndVoteSkip"}

\* idx and next of PickNextVideo, and the length to be stored.
NoPick == [caller |-> "timer", idx |-> 0, next |-> None, len |-> 0]

Goto(p, label) == pc' = [pc EXCEPT ![p] = label]

\* The goroutine ends, and its locals with it.
Return(p) == Goto(p, "idle") /\ pick' = [pick EXCEPT ![p] = NoPick]

Acquire(p) == mutex = Free /\ mutex' = p

\* A panic: net/http recovers it in a request (middleware.Recoverer), where a
\* deferred Unlock still runs and a plain one does not; in a goroutine of the
\* timer minder nothing recovers it, and the process dies as it stands.
Panic(p, deferred) ==
    \/ /\ p \in Timer
       /\ crashed' = TRUE
       /\ UNCHANGED <<mutex, pc, pick>>
    \/ /\ p \in Request
       /\ mutex' = IF deferred THEN Free ELSE Leaked
       /\ Return(p)
       /\ UNCHANGED crashed

\* The callers of PickNextVideo that hold the mutex with a deferred Unlock.
PickDeferred(p) == pick[p].caller # "autoSkip"

-----------------------------------------------------------------------------
(* PickNextVideo, from the look at the queue to the change of the screen *)

\* `if len(l.Videos) == 0`, otherwise an index is chosen.
PickIndex(p, indices) ==
    /\ pc[p] = "pickIndex"
    /\ \/ /\ length = 0
          /\ Goto(p, "pickNone")
          /\ UNCHANGED pick
       \/ /\ length > 0
          /\ \E i \in indices : pick' = [pick EXCEPT ![p].idx = i]
          /\ Goto(p, "pickTake")
    /\ UNCHANGED <<array, length, current, mutex, crashed>>

\* The index is out of range if another pick has shortened the queue meanwhile.
PickPanics(p) ==
    /\ pick[p].idx > length
    /\ Panic(p, PickDeferred(p))
    /\ UNCHANGED <<array, length, current>>

\* next := l.Videos[idx]
PickTake(p) ==
    /\ pc[p] = "pickTake"
    /\ \/ /\ pick[p].idx <= length
          /\ pick' = [pick EXCEPT ![p].next = array[pick[p].idx]]
          /\ Goto(p, "pickCut")
          /\ UNCHANGED <<array, length, current, mutex, crashed>>
       \/ PickPanics(p)

\* The elements of an array a between i and n move down by one.
Shift(a, i, n) == [j \in DOMAIN a |-> IF i <= j /\ j < n THEN a[j + 1] ELSE a[j]]

\* append(l.Videos[:idx], l.Videos[idx+1:]...): the elements move in place ...
PickCut(p) ==
    /\ pc[p] = "pickCut"
    /\ \/ /\ pick[p].idx <= length
          /\ array' = Shift(array, pick[p].idx, length)
          /\ pick' = [pick EXCEPT ![p].len = length - 1]
          /\ Goto(p, "pickStore")
          /\ UNCHANGED <<length, current, mutex, crashed>>
       \/ PickPanics(p)

\* ... and then l.Videos is set to the shorter slice.
PickStore(p) ==
    /\ pc[p] = "pickStore"
    /\ length' = pick[p].len
    /\ Goto(p, "pickSet")
    /\ UNCHANGED <<array, current, mutex, crashed, pick>>

PickSet(p) ==
    /\ pc[p] = "pickSet"
    /\ current' = pick[p].next
    /\ Goto(p, "pickArm")
    /\ UNCHANGED <<array, length, mutex, crashed, pick>>

PickReturn(p) ==
    CASE pick[p].caller = "timer"       -> Return(p)
      [] pick[p].caller = "EndVoteSkip" -> Goto(p, "endClear") /\ UNCHANGED pick
      [] OTHER                          -> Goto(p, "unlock") /\ UNCHANGED pick

\* The queue is empty: a blank screen, and the broadcast of it.  A Broadcast panics
\* when the page of somebody it goes to closes at that moment (see Streams).
PickNone(p) ==
    /\ pc[p] = "pickNone"
    /\ current' = None
    /\ \/ PickReturn(p) /\ UNCHANGED <<mutex, crashed>>
       \/ Panic(p, PickDeferred(p))
    /\ UNCHANGED <<array, length>>

-----------------------------------------------------------------------------
(* AddVideo, for a request *)

\* (Mutant: the video is appended twice.)
AddVideoTwice(p, v) ==
    /\ length < Capacity
    /\ Acquire(p)
    /\ array' = [i \in DOMAIN array |-> IF i \in length + 1 .. length + 2 THEN v ELSE array[i]]
    /\ pick' = [pick EXCEPT ![p].len = length + 2]
    /\ Goto(p, "addStore")
    /\ UNCHANGED <<length, current, crashed>>

\* l.Videos = append(l.Videos, video), inside the mutex: the element is written
\* behind the last ...
AddVideo(p, v) ==
    /\ length < Capacity
    /\ Acquire(p)
    /\ array' = [array EXCEPT ![length + 1] = v]
    /\ pick' = [pick EXCEPT ![p].len = length + 1]
    /\ Goto(p, "addStore")
    /\ UNCHANGED <<length, current, crashed>>

\* ... and then l.Videos is set to the longer slice.
AddStore(p) ==
    /\ pc[p] = "addStore"
    /\ length' = pick[p].len
    /\ Goto(p, "addCheck")
    /\ pick' = [pick EXCEPT ![p] = NoPick]
    /\ UNCHANGED <<array, current, mutex, crashed>>

Unlock(p) ==
    /\ pc[p] = "unlock"
    /\ mutex' = Free
    /\ Return(p)
    /\ UNCHANGED <<array, length, current, crashed>>

-----------------------------------------------------------------------------

QueueInit ==
    /\ array = [i \in 1..Capacity |-> None]
    /\ length = 0
    /\ current = None
    /\ mutex = Free
    /\ crashed = FALSE
    /\ pc = [p \in Goroutine |-> "idle"]
    /\ pick = [p \in Goroutine |-> NoPick]

Pick == [caller : PickCaller, idx : 0..Capacity, next : Item \cup {None},
         len : 0..Capacity]

\* The types of the variables above but pc, whose labels each module has its own of.
QueueTypeOK ==
    /\ array \in [1..Capacity -> Item \cup {None}]
    /\ length \in 0..Capacity
    /\ current \in Item \cup {None}
    /\ mutex \in Goroutine \cup {Free, Leaked}
    /\ crashed \in BOOLEAN
    /\ pick \in [Goroutine -> Pick]

=============================================================================
