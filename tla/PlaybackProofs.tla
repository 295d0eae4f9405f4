--------------------------- MODULE PlaybackProofs ---------------------------
(***************************************************************************)
(* The invariants of Playback, for every number of people, videos and      *)
(* goroutines and for every capacity of the queue.                         *)
(***************************************************************************)
EXTENDS Playback, QueueProofs

\* Only a goroutine of the timer picks without the lock.
RequestsLock == \A p \in Request : Picking(p) => pick[p].caller # "timer"

TypeInv == TypeOK /\ QueueLocals

SkipVote == [active : BOOLEAN, video : Item \cup {None},
             yes : SUBSET (User \cup {None}), no : SUBSET (User \cup {None})]

\* The part of TypeOK that is about Playback's own variables.
PlayTyped ==
    /\ voted \in BOOLEAN
    /\ nextTimer \in BOOLEAN
    /\ skip \in SkipVote
    /\ skipTimer \in BOOLEAN
    /\ frame \in [Goroutine -> Frame]
    /\ abandoned \in BOOLEAN

-----------------------------------------------------------------------------
(* How a step of a handler leaves its label *)

LEMMA TypeParts == TypeInv <=> QueueTyped(Label) /\ PlayTyped
BY DEF TypeInv, TypeOK, QueueTyped, PlayTyped, SkipVote

LEMMA TypePartsNext ==
    ASSUME QueueTyped(Label)', PlayTyped'
    PROVE  TypeInv'
BY DEF TypeInv, TypeOK, QueueTyped, PlayTyped, SkipVote

LEMMA LabelsFit == QueueLabels(Label)
BY DEF QueueLabels, Label, OutsideLabel

\* It returns, calls PickNextVideo, goes on or panics.
Leaves(p) ==
    \/ /\ \/ Return(p)
          \/ \E c \in PickCaller : CallPick(p, c)
          \/ \E label \in Label \ {"pickTake", "pickCut"} : Goto(p, label) /\ UNCHANGED pick
       /\ mutex' \in {mutex, p, Free}
       /\ crashed' = crashed
    \/ \E d \in BOOLEAN : Panic(p, d)

LEMMA CallPickMoves ==
    ASSUME QueueTyped(Label), NEW p \in Goroutine, NEW c \in PickCaller, CallPick(p, c)
    PROVE  /\ pc' \in [Goroutine -> Label]
           /\ pick' \in [Goroutine -> Pick]
           /\ pc'[p] = "pickStop" /\ pick'[p].caller = c
           /\ OthersStay(p)
           /\ QueueLocals'
<1>0. pick \in [Goroutine -> Pick] /\ "pickStop" \in Label
    BY DEF QueueTyped, QueueTypeOK, Label, PickLabel
<1>1. pc' \in [Goroutine -> Label] /\ pc'[p] = "pickStop"
      /\ \A q \in Goroutine \ {p} : pc'[q] = pc[q]
    BY <1>0, Moves, LabelsFit DEF CallPick
<1>2. [NoPick EXCEPT !.caller = c] \in Pick /\ [NoPick EXCEPT !.caller = c].caller = c
    BY NoPickType DEF Pick
<1>3. /\ pick' \in [Goroutine -> Pick]
      /\ pick'[p].caller = c
      /\ \A q \in Goroutine \ {p} : pick'[q] = pick[q]
    BY <1>0, <1>2 DEF CallPick
<1>4. QueueLocals'
    BY <1>0, <1>3, GotoLocals, LabelsFit DEF CallPick
<1> QED
    BY <1>1, <1>3, <1>4 DEF OthersStay

LEMMA LeavesType ==
    ASSUME QueueTyped(Label), NEW p \in Goroutine, Leaves(p), UNCHANGED <<array, length, current>>
    PROVE  QueueTyped(Label)'
<1>0. QueueTypeOK /\ pick \in [Goroutine -> Pick]
    BY DEF QueueTyped, QueueTypeOK
<1>1. ASSUME pc' \in [Goroutine -> Label], pick' \in [Goroutine -> Pick], QueueLocals',
             mutex' \in {mutex, p, Free}, crashed' = crashed
      PROVE  QueueTyped(Label)'
    BY <1>0, <1>1 DEF QueueTyped, QueueTypeOK
<1>2. CASE Return(p) /\ mutex' \in {mutex, p, Free} /\ crashed' = crashed
    BY <1>1, <1>2, Moves, LabelsFit
<1>3. ASSUME NEW c \in PickCaller, CallPick(p, c), mutex' \in {mutex, p, Free},
             crashed' = crashed
      PROVE  QueueTyped(Label)'
    BY <1>1, <1>3, CallPickMoves
<1>4. ASSUME NEW label \in Label \ {"pickTake", "pickCut"}, Goto(p, label), UNCHANGED pick,
             mutex' \in {mutex, p, Free}, crashed' = crashed
      PROVE  QueueTyped(Label)'
    BY <1>0, <1>1, <1>4, GotoLocals, LabelsFit
<1>5. ASSUME NEW d \in BOOLEAN, Panic(p, d) PROVE QueueTyped(Label)'
    BY <1>0, <1>5, PanicType, LabelsFit DEF QueueTyped, QueueTypeOK
<1> QED
    BY <1>2, <1>3, <1>4, <1>5 DEF Leaves

\* The steps of the handlers and of the timers, apart from those of PickNextVideo
\* and the two of AddVideo that write the queue.
Handles(p) ==
    \/ Unlock(p) /\ UNCHANGED playVars
    \/ AddCheck(p)
    \/ \E u \in User : SkipStart(p, u) \/ SkipSubmit(p, u)
    \/ SkipVoted(p) \/ SkipCount(p) \/ SkipAuto(p)
    \/ VoteCheck(p) \/ VoteStart(p) \/ VoteMark(p) \/ VoteTell(p)
    \/ VoteAbout(p) \/ VoteRecord(p)
    \/ Calc(p) \/ CalcAbout(p) \/ EndVote(p) \/ EndMark(p) \/ EndClear(p)
    \/ p \in Timer /\ FireNext(p)
    \/ FireSkip(p)

\* Each of them leaves the queue and the screen alone and starts outside a pick.
LEMMA HandlerLeaves ==
    ASSUME NEW p \in Goroutine, Handles(p)
    PROVE  /\ Leaves(p)
           /\ UNCHANGED <<array, length, current>>
           /\ ~Picking(p)
<1> USE DEF Leaves, Picking, PickLabel, Label, OutsideLabel, QueueLabel, PickCaller, Acquire
<1>1. CASE Unlock(p) \/ AddCheck(p)
    BY <1>1 DEF Unlock, AddCheck
<1>2. CASE \E u \in User : SkipStart(p, u) \/ SkipSubmit(p, u)
    BY <1>2 DEF SkipStart, SkipSubmit
<1>3. CASE SkipVoted(p) \/ SkipCount(p) \/ SkipAuto(p)
    BY <1>3 DEF SkipVoted, SkipCount, SkipAuto
<1>4. CASE VoteCheck(p) \/ VoteStart(p)
    BY <1>4 DEF VoteCheck, VoteStart
<1>5. CASE VoteMark(p) \/ VoteTell(p)
    BY <1>5 DEF VoteMark, VoteTell
<1>6. CASE VoteAbout(p)
    BY <1>6 DEF VoteAbout
<1>7. CASE VoteRecord(p)
    BY <1>7 DEF VoteRecord
<1>8. CASE Calc(p) \/ CalcAbout(p)
    BY <1>8 DEF Calc, CalcAbout
<1>9. CASE EndVote(p) \/ EndMark(p) \/ EndClear(p)
    BY <1>9 DEF EndVote, EndMark, EndClear
<1>10. CASE FireNext(p) \/ FireSkip(p)
    BY <1>10 DEF FireNext, FireSkip
<1> QED
    BY <1>1, <1>2, <1>3, <1>4, <1>5, <1>6, <1>7, <1>8, <1>9, <1>10 DEF Handles

-----------------------------------------------------------------------------
(* Typing *)

LEMMA BlankType == Blank \in Frame
BY DEF Blank, Frame

\* The updates of one handler's locals that the steps make.
LEMMA FrameUpdate ==
    ASSUME frame \in [Goroutine -> Frame], NEW p \in Goroutine
    PROVE  /\ frame[p].user \in User \cup {None}
           /\ [frame EXCEPT ![p] = Blank] \in [Goroutine -> Frame]
           /\ \A u \in User : [frame EXCEPT ![p].user = u] \in [Goroutine -> Frame]
           /\ \A b \in BOOLEAN : [frame EXCEPT ![p].passed = b] \in [Goroutine -> Frame]
<1>1. [frame EXCEPT ![p] = Blank] \in [Goroutine -> Frame]
    BY BlankType
<1>2. \A u \in User : [frame EXCEPT ![p].user = u] \in [Goroutine -> Frame]
    BY DEF Frame
<1>3. \A b \in BOOLEAN : [frame EXCEPT ![p].passed = b] \in [Goroutine -> Frame]
    BY DEF Frame
<1>4. frame[p] \in Frame
    OBVIOUS
<1> QED
    BY <1>1, <1>2, <1>3, <1>4 DEF Frame

\* The updates of the vote.
LEMMA SkipUpdate ==
    ASSUME PlayTyped, current \in Item \cup {None}, NEW u \in User \cup {None}
    PROVE  /\ NoVote \in SkipVote
           /\ [skip EXCEPT !.active = TRUE] \in SkipVote
           /\ [skip EXCEPT !.active = FALSE] \in SkipVote
           /\ [skip EXCEPT !.yes = {}, !.no = {}, !.video = None] \in SkipVote
           /\ [skip EXCEPT !.video = current, !.yes = @ \cup {u}] \in SkipVote
           /\ \A yes \in BOOLEAN : Ballot(u, yes) \in SkipVote
BY DEF PlayTyped, SkipVote, NoVote, Ballot

LEMMA PickNextType ==
    ASSUME TypeInv, NEW p \in Goroutine, PickNextVideo(p)
    PROVE  TypeInv'
<1>0. QueueTyped(Label) /\ PlayTyped /\ current \in Item \cup {None} /\ None \in User \cup {None}
    BY TypeParts DEF TypeInv, TypeOK, QueueTypeOK
<1>1. CASE PickStop(p) \/ PickCancel(p) \/ PickInactive(p) \/ PickClear(p)
    <2>1. Leaves(p) /\ UNCHANGED <<array, length, current>>
        BY <1>1 DEF PickStop, PickCancel, PickInactive, PickClear, Leaves, Label, QueueLabel,
           PickLabel
    <2>2. PlayTyped'
        <3>1. CASE PickStop(p)
            BY <1>0, <3>1 DEF PickStop, PlayTyped
        <3>2. CASE PickCancel(p)
            BY <1>0, <3>2 DEF PickCancel, PlayTyped
        <3>3. CASE PickInactive(p)
            BY <1>0, <3>3, SkipUpdate DEF PickInactive, PlayTyped
        <3>4. CASE PickClear(p)
            BY <1>0, <3>4, SkipUpdate DEF PickClear, PlayTyped
        <3> QED
            BY <1>1, <3>1, <3>2, <3>3, <3>4
    <2> QED
        BY <1>0, <2>1, <2>2, LeavesType, TypePartsNext
<1>2. CASE PickQueue(p)
    <2>1. length > 0 => PickIndices \subseteq 1..length
        BY <1>0, LocalType DEF PickIndices
    <2>2. QueueTyped(Label)'
        BY <1>0, <1>2, <2>1, PickType, LabelsFit DEF PickQueue
    <2>3. PlayTyped'
        BY <1>0, <1>2 DEF PickQueue, playVars, PlayTyped
    <2> QED
        BY <2>2, <2>3, TypePartsNext
<1>3. CASE PickShow(p) \/ PickBlank(p)
    <2>1. QueueTyped(Label)'
        <3>1. PickSet(p) \/ PickNone(p)
            BY <1>3 DEF PickShow, PickBlank
        <3> DEFINE none == {}
        <3>2. none \subseteq 1..length
            OBVIOUS
        <3> HIDE DEF none
        <3> QED
            BY <1>0, <3>1, <3>2, PickType, LabelsFit
    <2>2. PlayTyped'
        BY <1>0, <1>3 DEF PickShow, PickBlank, PlayTyped
    <2> QED
        BY <2>1, <2>2, TypePartsNext
<1>4. CASE PickArm(p)
    <2>1. QueueTyped(Label)'
        <3>1. CASE PickReturn(p) /\ UNCHANGED <<mutex, crashed>>
            BY <1>0, <1>4, <3>1, PickReturnType, LabelsFit
            DEF PickArm, QueueTyped, QueueTypeOK
        <3>2. CASE Panic(p, PickDeferred(p))
            BY <1>0, <1>4, <3>2, PanicType, LabelsFit
            DEF PickArm, PickDeferred, QueueTyped, QueueTypeOK
        <3> QED
            BY <1>4, <3>1, <3>2 DEF PickArm
    <2>2. PlayTyped'
        BY <1>0, <1>4 DEF PickArm, PlayTyped
    <2> QED
        BY <2>1, <2>2, TypePartsNext
<1> QED
    BY <1>1, <1>2, <1>3, <1>4 DEF PickNextVideo

LEMMA HandlerType ==
    ASSUME TypeInv, NEW p \in Goroutine, Handles(p)
    PROVE  TypeInv'
<1>0. QueueTyped(Label) /\ PlayTyped /\ current \in Item \cup {None}
    BY TypeParts DEF TypeInv, TypeOK, QueueTypeOK
<1>1. QueueTyped(Label)'
    BY <1>0, HandlerLeaves, LeavesType
<1>2. frame \in [Goroutine -> Frame] /\ frame[p].user \in User \cup {None}
    BY <1>0, FrameUpdate DEF PlayTyped
<1>3. PlayTyped'
    <2> USE DEF PlayTyped
    <2>1. CASE Unlock(p) /\ UNCHANGED playVars
        BY <1>0, <2>1 DEF playVars
    <2>2. CASE AddCheck(p)
        BY <1>0, <2>2 DEF AddCheck, playVars
    <2>3. CASE \E u \in User : SkipStart(p, u) \/ SkipSubmit(p, u)
        BY <1>0, <1>2, <2>3, FrameUpdate DEF SkipStart, SkipSubmit
    <2>4. CASE SkipVoted(p) \/ SkipCount(p)
        BY <1>0, <1>2, <2>4, FrameUpdate DEF SkipVoted, SkipCount
    <2>5. CASE SkipAuto(p) \/ EndVote(p) \/ Calc(p)
        BY <1>0, <2>5 DEF SkipAuto, EndVote, Calc, playVars
    <2>6. CASE VoteCheck(p) \/ VoteAbout(p)
        BY <1>0, <1>2, <2>6, FrameUpdate DEF VoteCheck, VoteAbout
    <2>7. CASE VoteStart(p) \/ VoteMark(p)
        BY <1>0, <1>2, <2>7, FrameUpdate, SkipUpdate DEF VoteStart, VoteMark
    <2>8. CASE VoteTell(p)
        BY <1>0, <2>8 DEF VoteTell
    <2>9. CASE VoteRecord(p)
        BY <1>0, <1>2, <2>9, FrameUpdate, SkipUpdate DEF VoteRecord
    <2>10. CASE CalcAbout(p)
        <3>1. VotePasses \in BOOLEAN
            BY DEF VotePasses
        <3>2. [frame EXCEPT ![p].passed = VotePasses] \in [Goroutine -> Frame]
            BY <1>2, <3>1, FrameUpdate
        <3>3. frame' \in [Goroutine -> Frame] /\ skipTimer' \in BOOLEAN
            BY <1>0, <1>2, <2>10, <3>2 DEF CalcAbout
        <3> QED
            BY <1>0, <2>10, <3>3 DEF CalcAbout
    <2>11. CASE EndMark(p) \/ EndClear(p)
        BY <1>0, <1>2, <2>11, FrameUpdate, SkipUpdate DEF EndMark, EndClear
    <2>12. CASE FireNext(p) \/ FireSkip(p)
        BY <1>0, <2>12 DEF FireNext, FireSkip
    <2> QED
        BY <2>1, <2>2, <2>3, <2>4, <2>5, <2>6, <2>7, <2>8, <2>9, <2>10, <2>11, <2>12
        DEF Handles
<1> QED
    BY <1>1, <1>3, TypePartsNext

\* Every step is one of PickNextVideo, of a handler or a timer, or one of the two of
\* AddVideo that write the queue.
Adds(p) ==
    /\ \/ \E v \in Item : Submit(p, v)
       \/ AddStore(p)
    /\ UNCHANGED playVars

LEMMA Steps ==
    ASSUME Next
    PROVE  \E p \in Goroutine : PickNextVideo(p) \/ Handles(p) \/ Adds(p)
<1>1. ASSUME NEW p \in Request, Arrive(p) PROVE p \in Goroutine /\ (Handles(p) \/ Adds(p))
    BY <1>1 DEF Arrive, Handles, Adds, Submit, Goroutine
<1>2. ASSUME NEW p \in Timer, Fire(p) PROVE p \in Goroutine /\ Handles(p)
    BY <1>2 DEF Fire, Handles, Goroutine
<1>3. ASSUME NEW p \in Goroutine, Continue(p)
      PROVE  PickNextVideo(p) \/ Handles(p) \/ Adds(p)
    BY <1>3 DEF Continue, AddSteps, Handles, Adds
<1> QED
    BY <1>1, <1>2, <1>3 DEF Next

LEMMA TypeStep == TypeInv /\ [Next]_vars => TypeInv'
<1> SUFFICES ASSUME TypeInv, [Next]_vars PROVE TypeInv'
    OBVIOUS
<1>1. CASE UNCHANGED vars
    BY <1>1 DEF vars, queueVars, playVars, TypeInv, TypeOK, QueueTypeOK, QueueLocals
<1>2. ASSUME NEW p \in Goroutine, Adds(p) PROVE TypeInv'
    <2>1. QueueTyped(Label) /\ PlayTyped
        BY TypeParts
    <2>2. QueueTyped(Label)'
        BY <1>2, <2>1, AddType, LabelsFit DEF Adds, Submit
    <2>3. PlayTyped'
        BY <1>2, <2>1 DEF Adds, playVars, PlayTyped
    <2> QED
        BY <2>2, <2>3, TypePartsNext
<1> QED
    BY <1>1, <1>2, Steps, PickNextType, HandlerType

LEMMA TypeInit == Init => TypeInv
<1> SUFFICES ASSUME Init PROVE TypeInv
    OBVIOUS
<1>1. QueueTyped(Label)
    BY QueueInitType DEF Init, Label, OutsideLabel
<1>2. PlayTyped
    BY BlankType DEF Init, PlayTyped, SkipVote, NoVote
<1> QED
    BY <1>1, <1>2, TypeParts

\* Every variable has its type in every reachable state.
THEOREM Typing == Spec => []TypeOK
<1>1. TypeInv => TypeOK
    BY DEF TypeInv
<1> QED
    BY <1>1, TypeInit, TypeStep, PTL DEF Spec

-----------------------------------------------------------------------------
(* Mutual exclusion *)

LockInv == MutexHeldInside /\ RequestsLock

\* A step of p that leaves the others alone keeps the invariant if it acquires
\* the mutex when p enters a locked section and releases it when p leaves one.
LEMMA LockKept ==
    ASSUME LockInv, NEW p \in Goroutine, OthersStay(p),
           p \in Request /\ Picking(p)' => pick'[p].caller # "timer",
           \/ Inside(p)' /\ mutex' = p /\ mutex \in {p, Free}
           \/ ~Inside(p)' /\ Inside(p) /\ mutex' \in {Free, Leaked}
           \/ ~Inside(p)' /\ ~Inside(p) /\ mutex' = mutex
           \/ ~Inside(p)' /\ mutex = Free /\ mutex' \in {Free, Leaked}
    PROVE  LockInv'
<1>1. RequestsLock'
    BY DEF LockInv, RequestsLock, OthersStay, Picking, Goroutine
<1>2. \A q \in Goroutine \ {p} : Inside(q)' <=> Inside(q)
    BY DEF OthersStay, Inside, Picking
<1>3. Free \notin Goroutine /\ Leaked \notin Goroutine
    BY MutexAssumption DEF Goroutine
<1>4. MutexHeldInside'
    BY <1>2, <1>3 DEF LockInv, MutexHeldInside
<1> QED
    BY <1>1, <1>4 DEF LockInv

\* The shapes of steps.
LEMMA StepShape ==
    ASSUME TypeInv, NEW p \in Goroutine
    PROVE  /\ \A label \in Label : Goto(p, label) /\ UNCHANGED pick =>
                 pc'[p] = label /\ OthersStay(p)
           /\ \A c \in PickCaller : CallPick(p, c) =>
                 pc'[p] = "pickStop" /\ pick'[p].caller = c /\ OthersStay(p)
           /\ Return(p) => pc'[p] = "idle" /\ OthersStay(p)
<1>1. QueueTyped(Label)
    BY TypeParts
<1> QED
    BY <1>1, Moves, LabelsFit, CallPickMoves DEF OthersStay

\* A recovered panic inside or outside the mutex, or one that ends the process.
LEMMA PanicLock ==
    ASSUME TypeInv, LockInv, NEW p \in Goroutine, NEW d \in BOOLEAN, Panic(p, d),
           p \in Request => mutex \in {p, Free}
    PROVE  LockInv'
<1>1. CASE UNCHANGED <<mutex, pc, pick>>
    BY <1>1 DEF LockInv, MutexHeldInside, RequestsLock, Inside, Picking
<1>2. CASE p \in Request /\ mutex' \in {Free, Leaked} /\ Return(p)
    <2>1. pc'[p] = "idle" /\ OthersStay(p)
        BY <1>2, StepShape
    <2>2. ~Inside(p)' /\ ~Picking(p)'
        BY <2>1 DEF Inside, Picking, OutsideLabel, PickLabel
    <2>3. mutex = p => Inside(p)
        BY DEF LockInv, MutexHeldInside
    <2> QED
        BY <1>2, <2>1, <2>2, <2>3, LockKept
<1> QED
    BY <1>1, <1>2 DEF Panic

LEMMA PickLock ==
    ASSUME TypeInv, LockInv, NEW p \in Goroutine, PickNextVideo(p)
    PROVE  LockInv'
<1>0. /\ pc \in [Goroutine -> Label] /\ pick \in [Goroutine -> Pick] /\ pick[p] \in Pick
      /\ QueueTyped(Label)
      /\ Picking(p)
    BY TypeParts
    DEF TypeInv, TypeOK, QueueTypeOK, PickNextVideo, PickQueue, PickShow, PickBlank, Picking,
        PickLabel, PickStop, PickCancel, PickInactive, PickClear, PickIndex, PickTake, PickCut,
        PickStore, PickSet, PickArm, PickNone
<1>1. ASSUME NEW label \in PickLabel, Goto(p, label), mutex' = mutex,
             pick'[p].caller = pick[p].caller,
             \A q \in Goroutine \ {p} : pick'[q] = pick[q]
      PROVE  LockInv'
    <2>1. pc'[p] \in PickLabel /\ OthersStay(p)
        BY <1>0, <1>1 DEF Goto, OthersStay
    <2>2. Inside(p)' <=> Inside(p)
        BY <1>0, <1>1, <2>1 DEF Inside, Picking, PickLabel, OutsideLabel
    <2>3. p \in Request => pick'[p].caller # "timer"
        BY <1>0, <1>1 DEF LockInv, RequestsLock
    <2>4. Inside(p) <=> mutex = p
        BY DEF LockInv, MutexHeldInside
    <2> QED
        BY <1>1, <2>1, <2>2, <2>3, <2>4, LockKept
<1>2. ASSUME PickReturn(p), mutex' = mutex PROVE LockInv'
    <2>1. CASE pick[p].caller = "timer"
        <3>1. Return(p)
            BY <1>2, <2>1 DEF PickReturn
        <3>2. pc'[p] = "idle" /\ OthersStay(p)
            BY <3>1, StepShape
        <3>3. ~Inside(p)' /\ ~Inside(p) /\ ~Picking(p)'
            BY <1>0, <2>1, <3>2 DEF Inside, Picking, OutsideLabel, PickLabel
        <3> QED
            BY <1>2, <3>2, <3>3, LockKept
    <2>2. CASE pick[p].caller # "timer"
        <3>1. (Goto(p, "endClear") \/ Goto(p, "unlock")) /\ UNCHANGED pick
            BY <1>2, <2>2 DEF PickReturn
        <3>2. pc'[p] \in {"endClear", "unlock"} /\ OthersStay(p)
            BY <1>0, <3>1 DEF Goto, OthersStay
        <3>3. Inside(p)' /\ Inside(p) /\ ~Picking(p)'
            BY <1>0, <2>2, <3>2 DEF Inside, Picking, OutsideLabel, PickLabel
        <3>4. mutex = p
            BY <3>3 DEF LockInv, MutexHeldInside
        <3> QED
            BY <1>2, <3>2, <3>3, <3>4, LockKept
    <2> QED
        BY <2>1, <2>2
<1>3. ASSUME Panic(p, PickDeferred(p)) PROVE LockInv'
    <2>1. p \in Request => Inside(p)
        BY <1>0 DEF LockInv, RequestsLock, Inside, Picking, PickLabel, OutsideLabel
    <2>2. p \in Request => mutex = p
        BY <2>1 DEF LockInv, MutexHeldInside
    <2> QED
        BY <1>3, <2>2, PanicLock DEF PickDeferred
<1>4. CASE PickStop(p) \/ PickCancel(p) \/ PickInactive(p) \/ PickClear(p)
    BY <1>1, <1>4 DEF PickStop, PickCancel, PickInactive, PickClear, PickLabel
<1>5. CASE PickIndex(p, PickIndices)
    <2>1. CASE Goto(p, "pickNone") /\ UNCHANGED pick
        BY <1>1, <1>5, <2>1 DEF PickIndex, PickLabel
    <2>2. CASE /\ \E i \in PickIndices : pick' = [pick EXCEPT ![p].idx = i]
               /\ Goto(p, "pickTake")
        <3>1. pick'[p].caller = pick[p].caller /\ \A q \in Goroutine \ {p} : pick'[q] = pick[q]
            BY <1>0, <2>2 DEF Pick
        <3> QED
            BY <1>1, <1>5, <2>2, <3>1 DEF PickIndex, PickLabel
    <2> QED
        BY <1>5, <2>1, <2>2 DEF PickIndex
<1>6. CASE PickTake(p) \/ PickCut(p)
    <2>1. CASE /\ Goto(p, "pickCut") \/ Goto(p, "pickStore")
               /\ \/ pick' = [pick EXCEPT ![p].next = array[pick[p].idx]]
                  \/ pick' = [pick EXCEPT ![p].len = length - 1]
               /\ UNCHANGED mutex
        <3>1. pick'[p].caller = pick[p].caller /\ \A q \in Goroutine \ {p} : pick'[q] = pick[q]
            BY <1>0, <2>1 DEF Pick
        <3> QED
            BY <1>1, <2>1, <3>1 DEF PickLabel
    <2> QED
        BY <1>3, <1>6, <2>1 DEF PickTake, PickCut, PickPanics
<1>7. CASE PickStore(p) \/ PickSet(p)
    BY <1>1, <1>7 DEF PickStore, PickSet, PickLabel
<1>8. CASE PickArm(p)
    BY <1>2, <1>3, <1>8 DEF PickArm
<1>9. CASE PickNone(p)
    BY <1>2, <1>3, <1>9 DEF PickNone
<1> QED
    BY <1>4, <1>5, <1>6, <1>7, <1>8, <1>9 DEF PickNextVideo, PickQueue, PickShow, PickBlank

\* The steps of requests and of the timers' goroutines outside PickNextVideo.
LEMMA HandlerLock ==
    ASSUME TypeInv, LockInv, NEW p \in Goroutine, Handles(p) \/ Adds(p)
    PROVE  LockInv'
<1> USE DEF Inside, Picking, PickLabel, OutsideLabel
<1>0. /\ mutex = p <=> Inside(p)
      /\ pc \in [Goroutine -> Label] /\ pick \in [Goroutine -> Pick]
      /\ p \in Timer => p \notin Request
    BY GoroutineAssumption DEF LockInv, MutexHeldInside, TypeInv, TypeOK, QueueTypeOK
\* A request enters a locked section ...
<1>1. ASSUME NEW label \in Label \ (OutsideLabel \cup PickLabel), Goto(p, label), UNCHANGED pick,
             mutex' = p, mutex \in {p, Free}
      PROVE  LockInv'
    BY <1>1, StepShape, LockKept
\* ... goes on outside ...
<1>2. ASSUME NEW label \in OutsideLabel, Goto(p, label), UNCHANGED pick,
             \/ ~Inside(p) /\ mutex' = mutex
             \/ Inside(p) /\ mutex' = Free
      PROVE  LockInv'
    <2>1. label \in Label
        BY DEF Label
    <2> QED
        BY <1>2, <2>1, StepShape, LockKept
\* ... ends ...
<1>3. ASSUME Return(p),
             \/ ~Inside(p) /\ mutex' = mutex
             \/ Inside(p) /\ mutex' = Free
      PROVE  LockInv'
    BY <1>3, StepShape, LockKept
\* ... or picks with the mutex.
<1>4. ASSUME NEW c \in PickCaller \ {"timer"}, CallPick(p, c), mutex' = p, mutex \in {p, Free}
      PROVE  LockInv'
    BY <1>4, StepShape, LockKept
<1>5. CASE Unlock(p) \/ AddCheck(p)
    BY <1>0, <1>1, <1>3, <1>4, <1>5 DEF Unlock, AddCheck, Label, QueueLabel, PickCaller
<1>6. CASE \E u \in User : SkipStart(p, u) \/ SkipSubmit(p, u)
    BY <1>1, <1>6 DEF SkipStart, SkipSubmit, Acquire, Label
<1>7. CASE SkipVoted(p)
    BY <1>0, <1>2, <1>3, <1>7, PanicLock DEF SkipVoted
<1>8. CASE SkipCount(p)
    BY <1>2, <1>8 DEF SkipCount
<1>9. CASE SkipAuto(p)
    BY <1>4, <1>9, PanicLock DEF SkipAuto, Acquire, PickCaller
<1>10. CASE VoteCheck(p)
    BY <1>1, <1>3, <1>10 DEF VoteCheck, Acquire, Label
<1>11. CASE VoteStart(p)
    BY <1>0, <1>1, <1>11 DEF VoteStart, Label
<1>12. CASE VoteMark(p)
    BY <1>0, <1>1, <1>12, PanicLock DEF VoteMark, Label
<1>13. CASE VoteTell(p)
    BY <1>0, <1>3, <1>13, PanicLock DEF VoteTell
<1>14. CASE VoteAbout(p)
    BY <1>0, <1>1, <1>3, <1>14, PanicLock DEF VoteAbout, Label
<1>15. CASE VoteRecord(p)
    <2>1. \/ mutex' = Free /\ Goto(p, "calc") /\ UNCHANGED pick
          \/ mutex' = Free /\ Return(p)
          \/ Panic(p, FALSE)
        BY <1>15 DEF VoteRecord
    <2>2. Inside(p)
        BY <1>15 DEF VoteRecord
    <2> QED
        BY <1>0, <1>2, <1>3, <2>1, <2>2, PanicLock
<1>16. CASE Calc(p)
    BY <1>1, <1>3, <1>16 DEF Calc, Acquire, Label
<1>17. CASE CalcAbout(p)
    BY <1>0, <1>1, <1>3, <1>17, PanicLock DEF CalcAbout, Label
<1>18. CASE EndVote(p)
    BY <1>0, <1>1, <1>18 DEF EndVote, Label
<1>19. CASE EndMark(p)
    BY <1>0, <1>1, <1>4, <1>19, PanicLock DEF EndMark, Label, PickCaller
<1>20. CASE EndClear(p)
    BY <1>0, <1>3, <1>20, PanicLock DEF EndClear
<1>21. CASE p \in Timer /\ FireNext(p)
    <2>1. pc'[p] = "pickStop" /\ pick'[p].caller = "timer" /\ OthersStay(p)
        BY <1>21, StepShape DEF FireNext, PickCaller
    <2> QED
        BY <1>0, <1>21, <2>1, LockKept DEF FireNext
<1>22. CASE FireSkip(p)
    BY <1>2, <1>22 DEF FireSkip
<1>23. CASE \E v \in Item : Submit(p, v)
    <2>1. pc'[p] = "addStore" /\ OthersStay(p) /\ mutex = Free /\ mutex' = p
        BY <1>0, <1>23 DEF Submit, AddVideo, Acquire, Goto, OthersStay
    <2> QED
        BY <2>1, LockKept
<1>24. CASE AddStore(p)
    <2>1. pc'[p] = "addCheck" /\ OthersStay(p)
        BY <1>0, <1>24 DEF AddStore, Goto, OthersStay
    <2> QED
        BY <1>0, <1>24, <2>1, LockKept DEF AddStore
<1> QED
    BY <1>5, <1>6, <1>7, <1>8, <1>9, <1>10, <1>11, <1>12, <1>13, <1>14, <1>15, <1>16, <1>17,
       <1>18, <1>19, <1>20, <1>21, <1>22, <1>23, <1>24 DEF Handles, Adds

LEMMA LockStep ==
    ASSUME TypeInv, LockInv, [Next]_vars
    PROVE  LockInv'
<1>1. CASE UNCHANGED vars
    BY <1>1 DEF vars, queueVars, LockInv, MutexHeldInside, RequestsLock, Inside, Picking
<1> QED
    BY <1>1, Steps, PickLock, HandlerLock

LEMMA LockInit == Init => LockInv
BY MutexAssumption DEF Init, QueueInit, LockInv, MutexHeldInside, RequestsLock, Inside, Picking,
   Goroutine, OutsideLabel, PickLabel

\* Two locked sections of the lobby never overlap, whatever picks without the mutex;
\* and whoever is still running holds the mutex inside them only.  A handler may
\* leave a locked section by a panic that a plain Unlock does not follow: then it no
\* longer runs, and the mutex is Leaked, nobody's.
THEOREM MutualExclusion == Spec => []MutexHeldInside
<1>1. LockInv => MutexHeldInside
    BY DEF LockInv
<1>2. Init => TypeInv /\ LockInv
    BY TypeInit, LockInit
<1>3. TypeInv /\ LockInv /\ [Next]_vars => (TypeInv /\ LockInv)'
    BY TypeStep, LockStep
<1> QED
    BY <1>1, <1>2, <1>3, PTL DEF Spec

-----------------------------------------------------------------------------
(* The end of the video on screen *)

\* A pick that will end the video on screen, or the process.
Ends(p) == Picking(p) /\ (p \in Timer \/ ~Doomed(p))

\* Once the stepping goroutine is such a pick, the invariant holds.
LEMMA PickerEnds ==
    ASSUME NEW p \in Goroutine, pc'[p] \in PickLabel \ {"pickTake", "pickCut"}
    PROVE  PlayingHasTimer'
BY DEF PlayingHasTimer, Picking, Doomed

\* A step that leaves the player alone, by a goroutine that was not such a pick.
LEMMA OthersEnd ==
    ASSUME PlayingHasTimer, NEW p \in Goroutine, ~Ends(p), OthersStay(p),
           UNCHANGED <<length, current, nextTimer>>, abandoned => abandoned'
    PROVE  PlayingHasTimer'
<1>1. \A q \in Goroutine : Ends(q) => q # p /\ Ends(q)'
    BY DEF Ends, OthersStay, Picking, Doomed
<1> QED
    BY <1>1 DEF PlayingHasTimer, Ends

\* A panic of a goroutine that was not such a pick, or that ends the process.
LEMMA PanicEnd ==
    ASSUME TypeInv, PlayingHasTimer, NEW p \in Goroutine, NEW d \in BOOLEAN, Panic(p, d),
           p \in Request => ~Ends(p) \/ abandoned',
           UNCHANGED <<length, current, nextTimer>>, abandoned => abandoned'
    PROVE  PlayingHasTimer'
<1>1. CASE UNCHANGED <<pc, pick>>
    BY <1>1 DEF PlayingHasTimer, Picking, Doomed
<1>2. CASE p \in Request /\ Return(p) /\ ~abandoned'
    BY <1>2, StepShape, OthersEnd
<1>3. CASE abandoned'
    BY <1>3 DEF PlayingHasTimer
<1> QED
    BY <1>1, <1>2, <1>3 DEF Panic

LEMMA PickPlaying ==
    ASSUME TypeInv, PlayingHasTimer, NEW p \in Goroutine, PickNextVideo(p)
    PROVE  PlayingHasTimer'
<1> USE DEF Label, PickLabel, QueueLabel
<1>0. pc \in [Goroutine -> Label] /\ pick \in [Goroutine -> Pick] /\ QueueTyped(Label)
    BY TypeParts DEF TypeInv, TypeOK, QueueTypeOK
<1>1. CASE PickStop(p)
    BY <1>0, <1>1, PickerEnds DEF PickStop, Goto
<1>2. CASE PickCancel(p) \/ PickInactive(p) \/ PickClear(p)
    BY <1>0, <1>2, PickerEnds DEF PickCancel, PickInactive, PickClear, Goto
<1>3. CASE PickIndex(p, PickIndices)
    <2>1. CASE Goto(p, "pickNone")
        BY <1>0, <2>1, PickerEnds DEF Goto
    <2>2. CASE /\ length > 0
               /\ \E i \in PickIndices : pick' = [pick EXCEPT ![p].idx = i]
               /\ Goto(p, "pickTake")
        <3>1. PICK i \in PickIndices : pick' = [pick EXCEPT ![p].idx = i]
            BY <2>2
        <3>2. length \in 0..Capacity /\ Capacity \in Nat
            BY <1>0, LocalType
        <3>3. i \in 0..Capacity /\ i <= length
            BY <2>2, <3>2 DEF PickIndices
        <3>4. pick'[p].idx = i /\ pc'[p] = "pickTake"
            BY <1>0, <2>2, <3>1, <3>3, PickUpdate DEF Goto
        <3>5. Picking(p)' /\ ~Doomed(p)'
            BY <1>3, <3>2, <3>3, <3>4 DEF PickIndex, Picking, Doomed
        <3> QED
            BY <3>5 DEF PlayingHasTimer
    <2> QED
        BY <1>3, <2>1, <2>2 DEF PickIndex
<1>4. CASE (PickTake(p) \/ PickCut(p)) /\ UNCHANGED playVars
    <2>1. CASE /\ PickTake(p)
               /\ pick[p].idx <= length
               /\ pick' = [pick EXCEPT ![p].next = array[pick[p].idx]]
               /\ Goto(p, "pickCut")
               /\ UNCHANGED length
        <3>1. length \in 0..Capacity /\ pick[p].idx \in 1..Capacity /\ Capacity \in Nat
            BY <1>0, <2>1, LocalType DEF PickTake
        <3>2. array[pick[p].idx] \in Item \cup {None}
            BY <3>1 DEF TypeInv, TypeOK, QueueTypeOK
        <3>3. pick'[p].idx = pick[p].idx /\ pc'[p] = "pickCut"
            BY <1>0, <2>1, <3>2, PickUpdate DEF Goto
        <3>4. Picking(p)' /\ ~Doomed(p)'
            BY <2>1, <3>1, <3>3 DEF Picking, Doomed
        <3> QED
            BY <3>4 DEF PlayingHasTimer
    <2>2. CASE Goto(p, "pickStore")
        BY <1>0, <2>2, PickerEnds DEF Goto
    <2>3. CASE PickPanics(p)
        <3>1. p \in Request => ~Ends(p)
            BY <1>4, <2>3, GoroutineAssumption DEF PickPanics, PickTake, PickCut, Ends, Doomed
        <3> QED
            BY <1>4, <2>3, <3>1, PanicEnd DEF PickPanics, PickDeferred, playVars
    <2> QED
        BY <1>4, <2>1, <2>2, <2>3 DEF PickTake, PickCut
<1>5. CASE PickStore(p) \/ PickSet(p)
    BY <1>0, <1>5, PickerEnds DEF PickStore, PickSet, Goto
<1>6. CASE PickArm(p)
    <2>1. CASE nextTimer'
        BY <2>1 DEF PlayingHasTimer
    <2>2. CASE /\ Panic(p, PickDeferred(p))
               /\ abandoned' = (abandoned \/ p \in Request)
               /\ UNCHANGED nextTimer
        BY <1>6, <2>2, PanicEnd DEF PickArm, PickDeferred
    <2> QED
        BY <1>6, <2>1, <2>2 DEF PickArm
<1>7. CASE PickNone(p)
    BY <1>7 DEF PickNone, PlayingHasTimer
<1> QED
    BY <1>1, <1>2, <1>3, <1>4, <1>5, <1>6, <1>7
    DEF PickNextVideo, PickQueue, PickShow, PickBlank

\* AddVideo stores a length it read before, while an unlocked pick may have stored
\* another since: that can doom a pick, but only one of the timer, because a request
\* picks inside the mutex that AddVideo holds.
LEMMA StorePlaying ==
    ASSUME TypeInv, LockInv, PlayingHasTimer, NEW p \in Goroutine, AddStore(p),
           UNCHANGED playVars
    PROVE  PlayingHasTimer'
<1>1. Inside(p) /\ ~Picking(p)
    BY DEF AddStore, Inside, Picking, OutsideLabel, PickLabel
<1>2. \A q \in Request : ~Picking(q)
    <2> SUFFICES ASSUME NEW q \in Request, Picking(q) PROVE FALSE
        OBVIOUS
    <2>1. q \in Goroutine /\ Inside(q)
        BY DEF Goroutine, LockInv, RequestsLock, Inside, Picking, OutsideLabel, PickLabel
    <2> QED
        BY <1>1, <2>1 DEF LockInv, MutexHeldInside
<1>3. \A q \in Goroutine \ {p} : pc'[q] = pc[q]
    BY DEF AddStore, Goto, TypeInv, TypeOK
<1>4. \A q \in Goroutine : Ends(q) => q \in Timer /\ Picking(q)'
    BY <1>1, <1>2, <1>3 DEF Ends, Picking, Goroutine
<1> QED
    BY <1>4 DEF AddStore, playVars, PlayingHasTimer, Ends

LEMMA HandlerPlaying ==
    ASSUME TypeInv, LockInv, PlayingHasTimer, NEW p \in Goroutine, Handles(p) \/ Adds(p)
    PROVE  PlayingHasTimer'
<1>1. CASE AddStore(p) /\ UNCHANGED playVars
    BY <1>1, StorePlaying
<1>2. CASE (\E v \in Item : Submit(p, v)) /\ UNCHANGED playVars
    <2>1. OthersStay(p) /\ ~Ends(p) /\ UNCHANGED <<length, current>>
        BY <1>2 DEF Submit, AddVideo, Goto, OthersStay, Ends, Picking, PickLabel, TypeInv, TypeOK,
           QueueTypeOK
    <2> QED
        BY <1>2, <2>1, OthersEnd DEF playVars
<1>3. CASE p \in Timer /\ FireNext(p)
    <2>1. pc'[p] = "pickStop"
        BY <1>3, StepShape DEF FireNext, PickCaller
    <2> QED
        BY <2>1, PickerEnds DEF PickLabel
<1>4. CASE Handles(p) /\ ~(p \in Timer /\ FireNext(p))
    <2>1. Leaves(p) /\ UNCHANGED <<length, current>> /\ ~Ends(p)
        BY <1>4, HandlerLeaves DEF Ends
    <2>2. UNCHANGED <<nextTimer, abandoned>>
        BY <1>4 DEF Handles, AddCheck, playVars, SkipStart, SkipSubmit, SkipVoted, SkipCount,
           SkipAuto, VoteCheck, VoteStart, VoteMark, VoteTell, VoteAbout, VoteRecord, Calc,
           CalcAbout, EndVote, EndMark, EndClear, FireSkip
    <2>3. (\E d \in BOOLEAN : Panic(p, d)) \/ OthersStay(p)
        BY <2>1, StepShape DEF Leaves
    <2> QED
        BY <2>1, <2>2, <2>3, OthersEnd, PanicEnd
<1> QED
    BY <1>1, <1>2, <1>3, <1>4 DEF Handles, Adds

LEMMA PlayingStep ==
    ASSUME TypeInv, LockInv, PlayingHasTimer, [Next]_vars
    PROVE  PlayingHasTimer'
<1>1. CASE UNCHANGED vars
    BY <1>1 DEF vars, queueVars, playVars, PlayingHasTimer, Picking, Doomed
<1> QED
    BY <1>1, Steps, PickPlaying, HandlerPlaying

\* No lobby is stuck on a video whose announcement did not panic: while it is on
\* screen its timer is armed or a PickNextVideo is under way that replaces it or
\* arms the timer, however many requests and timers race, with or without the mutex.
THEOREM PlayingEnds == Spec => []PlayingHasTimer
<1>1. Init => TypeInv /\ LockInv /\ PlayingHasTimer
    BY TypeInit, LockInit DEF Init, QueueInit, PlayingHasTimer
<1>2. TypeInv /\ LockInv /\ PlayingHasTimer /\ [Next]_vars
        => (TypeInv /\ LockInv /\ PlayingHasTimer)'
    BY TypeStep, LockStep, PlayingStep
<1> QED
    BY <1>1, <1>2, PTL DEF Spec

=============================================================================
