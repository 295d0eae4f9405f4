-------------------------- MODULE AdmissionProofs ---------------------------
(***************************************************************************)
(* The types of Admission and the end of a muted user's submissions, for   *)
(* every set of users, videos, answers and goroutines, every limit and     *)
(* every capacity of the queue.                                            *)
(***************************************************************************)
EXTENDS Admission, QueueProofs, MetadataProofs

Submitting == {"fetch", "checkPlayed", "checkQueued", "checkLimit", "add"}

Measured == Submitting \ {"fetch"}

\* What goroutine p's locals hold where they are used.
LocalOK(p) ==
    /\ pc[p] \in Submitting => p \in Request /\ frame[p].user \in User /\ frame[p].id \in Video
    /\ pc[p] \in Measured => frame[p].dur \in 1..MaxSeconds
    /\ pc[p] \notin Submitting => frame[p].user = None
    /\ pc[p] = "pickNote" => frame[p].id \in Video

\* The part of TypeOK that is about Admission's own variables.
AdmissionTyped ==
    /\ listed \in SUBSET Video
    /\ recent \in SUBSET Video
    /\ muted \in SUBSET User
    /\ frame \in [Goroutine -> Frame]
    /\ idsToDelete \in [Cleaner -> SUBSET Video]

TypeInv == QueueTyped(Label) /\ AdmissionTyped /\ \A p \in Goroutine : LocalOK(p)

\* The other goroutines stay where they are when p steps.
Alone(p) == \A q \in Goroutine \ {p} : pc'[q] = pc[q] /\ frame'[q] = frame[q]

-----------------------------------------------------------------------------
(* Typing *)

LEMMA LabelsFit == QueueLabels(Label)
BY DEF QueueLabels, Label

LEMMA BlankType == Blank \in Frame /\ Blank.user = None
BY LimitAssumption DEF Blank, Frame

\* The updates of a submission's locals.
LEMMA FrameUpdate ==
    ASSUME AdmissionTyped, NEW p \in Goroutine, NEW f \in Frame,
           frame' = [frame EXCEPT ![p] = f]
    PROVE  /\ frame' \in [Goroutine -> Frame] /\ frame'[p] = f
           /\ \A q \in Goroutine \ {p} : frame'[q] = frame[q]
BY DEF AdmissionTyped

\* Only the stepping goroutine's locals need a look.
LEMMA LocalsKept ==
    ASSUME TypeInv, NEW p \in Goroutine, Alone(p), QueueTyped(Label)', AdmissionTyped', LocalOK(p)'
    PROVE  TypeInv'
<1>1. \A q \in Goroutine \ {p} : LocalOK(q)'
    BY DEF TypeInv, LocalOK, Alone
<1> QED
    BY <1>1 DEF TypeInv

\* A step that only moves p, with new locals for its submission.
LEMMA MoveType ==
    ASSUME TypeInv, NEW p \in Goroutine, NEW label \in Label \ {"pickTake", "pickCut"},
           Goto(p, label), UNCHANGED <<array, length, current, mutex, crashed, pick>>,
           NEW f \in Frame, frame' = [frame EXCEPT ![p] = f],
           listed' \in SUBSET Video, recent' \in SUBSET Video, UNCHANGED <<muted, idsToDelete>>,
           pc'[p] = label /\ frame'[p] = f => LocalOK(p)'
    PROVE  TypeInv' /\ Alone(p) /\ pc'[p] = label /\ frame'[p] = f
<1>0. QueueTyped(Label) /\ QueueTypeOK /\ AdmissionTyped
    BY DEF TypeInv, QueueTyped
<1>1. label \in Label
    OBVIOUS
<1>2. pc'[p] = label /\ \A q \in Goroutine \ {p} : pc'[q] = pc[q]
    BY <1>0, <1>1, Moves, LabelsFit
<1>3. /\ frame' \in [Goroutine -> Frame] /\ frame'[p] = f
      /\ \A q \in Goroutine \ {p} : frame'[q] = frame[q]
    BY <1>0, FrameUpdate
<1>4. pc' \in [Goroutine -> Label] /\ QueueLocals'
    BY <1>0, GotoLocals, LabelsFit DEF QueueTypeOK
<1>5. QueueTyped(Label)' /\ AdmissionTyped'
    BY <1>0, <1>2, <1>3, <1>4 DEF QueueTyped, QueueTypeOK, AdmissionTyped
<1> QED
    BY <1>2, <1>3, <1>5, LocalsKept DEF Alone

LEMMA SubmitType ==
    ASSUME TypeInv, NEW p \in Request, NEW u \in User, NEW id \in Video, Submit(p, u, id)
    PROVE  TypeInv' /\ Alone(p) /\ pc[p] = "idle" /\ frame'[p].user = u
<1> DEFINE f == [Blank EXCEPT !.user = u, !.id = id]
<1>0. p \in Goroutine /\ pc[p] = "idle" /\ AdmissionTyped
    BY DEF Goroutine, Submit, TypeInv
<1>1. f \in Frame /\ f.user = u /\ f.id = id
    BY BlankType DEF Frame
<1>2. frame' = [frame EXCEPT ![p] = f]
    BY DEF Submit
<1> HIDE DEF f
<1>3. pc'[p] = "fetch" /\ frame'[p] = f => LocalOK(p)'
    BY <1>1 DEF LocalOK, Submitting, Measured
<1>4. TypeInv' /\ Alone(p) /\ frame'[p] = f
    BY <1>0, <1>1, <1>2, <1>3, MoveType DEF Submit, AdmissionTyped, Label
<1> QED
    BY <1>0, <1>1, <1>4

\* A request ends.
LEMMA EndType ==
    ASSUME TypeInv, NEW p \in Goroutine, End(p), UNCHANGED <<array, length, current, mutex, crashed, pick>>,
           UNCHANGED <<listed, recent, muted, idsToDelete>>
    PROVE  TypeInv' /\ Alone(p) /\ frame'[p].user = None
<1>1. AdmissionTyped
    BY DEF TypeInv
<1>2. pc'[p] = "idle" /\ frame'[p] = Blank => LocalOK(p)'
    BY BlankType DEF LocalOK, Submitting, Measured
<1> QED
    BY <1>1, <1>2, BlankType, MoveType DEF End, AdmissionTyped, Label

\* A step of a submission under way: it ends, or it goes on to its next check.
Proceeds(p) ==
    frame'[p].user = None \/ (frame'[p].user = frame[p].user /\ pc[p] \in Submitting \ {"add"})

\* FetchUsable is what makes the duration positive.
LEMMA FetchType ==
    ASSUME TypeInv, NEW p \in Goroutine, Fetch(p)
    PROVE  TypeInv' /\ Alone(p) /\ Proceeds(p)
<1>1. PICK meta \in Meta :
        \/ End(p)
        \/ /\ meta.err = "none" /\ meta.dur <= MaxSeconds
           /\ Goto(p, "checkPlayed")
           /\ frame' = [frame EXCEPT ![p].dur = meta.dur]
    BY DEF Fetch
<1>2. /\ UNCHANGED <<array, length, current, mutex, crashed, pick, listed, recent, muted, idsToDelete>>
      /\ pc[p] = "fetch"
    BY DEF Fetch
<1>3. CASE End(p)
    BY <1>2, <1>3, EndType DEF Proceeds
<1>4. CASE /\ meta.err = "none" /\ meta.dur <= MaxSeconds
           /\ Goto(p, "checkPlayed")
           /\ frame' = [frame EXCEPT ![p].dur = meta.dur]
    <2>1. meta.dur \in 1..MaxSeconds
        <3>1. PICK a \in Answer : meta = FetchVideoMeta(AddVideoOptions(UseScrape), HasKey, a)
            BY DEF Meta
        <3>2. a \in Answers /\ HasKey \in BOOLEAN
            BY AnswerAssumption
        <3>3. meta \in Result /\ Usable(meta)
            BY <1>4, <3>1, <3>2, FetchUsable
        <3>4. meta.dur \in Int /\ meta.dur > 0
            BY <3>3 DEF Result, Usable
        <3> QED
            BY <1>4, <3>4, LimitAssumption
    <2> DEFINE f == [frame[p] EXCEPT !.dur = meta.dur]
    <2>2. AdmissionTyped /\ frame \in [Goroutine -> Frame] /\ frame[p] \in Frame /\ LocalOK(p)
        BY DEF TypeInv, AdmissionTyped
    <2>3. f \in Frame /\ f.user = frame[p].user /\ f.id = frame[p].id /\ f.dur = meta.dur
        BY <2>1, <2>2 DEF Frame
    <2>4. frame' = [frame EXCEPT ![p] = f]
        BY <1>4, <2>2
    <2> HIDE DEF f
    <2>5. pc'[p] = "checkPlayed" /\ frame'[p] = f => LocalOK(p)'
        BY <1>2, <2>1, <2>2, <2>3 DEF LocalOK, Submitting, Measured
    <2>6. TypeInv' /\ Alone(p) /\ frame'[p] = f
        BY <1>2, <1>4, <2>2, <2>3, <2>4, <2>5, MoveType DEF AdmissionTyped, Label
    <2> QED
        BY <1>2, <2>3, <2>6 DEF Proceeds, Submitting
<1> QED
    BY <1>1, <1>3, <1>4

\* The three checks.
LEMMA CheckType ==
    ASSUME TypeInv, NEW p \in Goroutine, NEW here \in Measured \ {"add"}, NEW next \in Measured,
           NEW outcomes, Check(p, here, outcomes, next)
    PROVE  TypeInv' /\ Alone(p) /\ Proceeds(p)
<1>1. /\ UNCHANGED <<array, length, current, mutex, crashed, pick, listed, recent, muted, idsToDelete>>
      /\ pc[p] = here
    BY DEF Check
<1>2. CASE End(p)
    BY <1>1, <1>2, EndType DEF Proceeds
<1>3. CASE Goto(p, next) /\ UNCHANGED frame
    <2>1. next \in Label \ {"pickTake", "pickCut"} /\ here \in Submitting
        BY DEF Measured, Submitting, Label
    <2>2. AdmissionTyped /\ frame[p] \in Frame /\ frame' = [frame EXCEPT ![p] = frame[p]]
        BY <1>3 DEF TypeInv, AdmissionTyped
    <2>3. pc'[p] = next /\ frame'[p] = frame[p] => LocalOK(p)'
        BY <1>1 DEF TypeInv, LocalOK, Measured, Submitting
    <2>4. TypeInv' /\ Alone(p) /\ frame'[p] = frame[p]
        BY <1>1, <1>3, <2>1, <2>2, <2>3, MoveType DEF AdmissionTyped
    <2> QED
        BY <1>1, <2>1, <2>4 DEF Proceeds
<1> QED
    BY <1>2, <1>3 DEF Check

\* The labels at which nothing is submitted and nothing noted.
Calm == Label \ (Submitting \cup {"pickNote"})

\* p ends up at such a label, or the process has died.
Settles(p) == UNCHANGED pc \/ \E label \in Calm : Goto(p, label)

\* A step at such labels leaves Admission's own variables alone.
LEMMA CalmType ==
    ASSUME TypeInv, NEW p \in Goroutine, pc[p] \in Calm, Settles(p), QueueTyped(Label)',
           UNCHANGED admissionVars
    PROVE  TypeInv' /\ Alone(p) /\ Proceeds(p)
<1>1. pc'[p] \in Calm /\ \A q \in Goroutine \ {p} : pc'[q] = pc[q]
    BY DEF Settles, Goto, TypeInv, QueueTyped
<1>2. frame' = frame /\ frame[p].user = None
    BY DEF admissionVars, TypeInv, LocalOK, Calm
<1>3. AdmissionTyped'
    BY DEF TypeInv, AdmissionTyped, admissionVars
<1>4. LocalOK(p)'
    BY <1>1, <1>2 DEF LocalOK, Calm, Submitting, Measured
<1> QED
    BY <1>1, <1>2, <1>3, <1>4, LocalsKept DEF Alone, Proceeds

\* AddVideo begins.
LEMMA AddVideoType ==
    ASSUME TypeInv, NEW p \in Goroutine, Add(p)
    PROVE  TypeInv' /\ Alone(p) /\ Proceeds(p)
<1> DEFINE video == [id |-> frame[p].id, by |-> frame[p].user, dur |-> frame[p].dur]
<1>0. QueueTyped(Label) /\ AdmissionTyped /\ pc[p] = "add" /\ LocalOK(p)
    BY DEF Add, TypeInv
<1>1. video \in Item
    BY <1>0, ItemAssumption DEF LocalOK, Submitting, Measured
<1>2. AddVideo(p, video)
    BY DEF Add
<1> HIDE DEF video
<1>3. QueueTyped(Label)'
    BY <1>0, <1>1, <1>2, LabelsFit, AddType
<1>4. pc'[p] = "addStore" /\ \A q \in Goroutine \ {p} : pc'[q] = pc[q]
    BY <1>0, <1>2 DEF AddVideo, Goto, QueueTyped
<1>5. /\ frame' \in [Goroutine -> Frame] /\ frame'[p] = Blank
      /\ \A q \in Goroutine \ {p} : frame'[q] = frame[q]
    BY <1>0, BlankType, FrameUpdate DEF Add
<1>6. AdmissionTyped'
    BY <1>0, <1>5 DEF Add, AdmissionTyped
<1>7. LocalOK(p)'
    BY <1>4, <1>5, BlankType DEF LocalOK, Submitting, Measured
<1> QED
    BY <1>3, <1>4, <1>5, <1>6, <1>7, BlankType, LocalsKept DEF Alone, Proceeds

\* A pick is called, in whatever way the mutex is taken.
LEMMA CallType ==
    ASSUME TypeInv, NEW p \in Goroutine, pc[p] \in Calm, NEW caller \in PickCaller, CallPick(p, caller),
           UNCHANGED <<array, length, current, crashed, admissionVars>>, mutex' \in {mutex, p}
    PROVE  TypeInv' /\ Alone(p) /\ Proceeds(p)
<1>0. QueueTyped(Label) /\ QueueTypeOK
    BY DEF TypeInv, QueueTyped
<1>1. [NoPick EXCEPT !.caller = caller] \in Pick
    BY NoPickType DEF Pick
<1>2. pick' \in [Goroutine -> Pick] /\ \A q \in Goroutine \ {p} : pick'[q] = pick[q]
    BY <1>0, <1>1 DEF CallPick, QueueTypeOK
<1>3. "pickLast" \in Calm /\ "pickLast" \in Label
    BY DEF Calm, Label, Submitting
<1>4. pc' \in [Goroutine -> Label] /\ QueueLocals'
    BY <1>0, <1>2, <1>3, GotoLocals, LabelsFit DEF CallPick
<1>5. QueueTyped(Label)'
    BY <1>0, <1>2, <1>4 DEF QueueTyped, QueueTypeOK
<1> QED
    BY <1>3, <1>5, CalmType DEF Settles, CallPick

LEMMA EndsType ==
    ASSUME TypeInv, NEW p \in Goroutine, VideoEnds(p) \/ VideoSkipped(p)
    PROVE  TypeInv' /\ Alone(p) /\ Proceeds(p) /\ pc[p] = "idle"
<1>1. pc[p] = "idle" /\ "idle" \in Calm
    BY DEF VideoEnds, VideoSkipped, Calm, Label, Submitting
<1> QED
    BY <1>1, CallType DEF VideoEnds, VideoSkipped, Acquire, PickCaller

LEMMA AddCheckType ==
    ASSUME TypeInv, NEW p \in Goroutine, AddCheck(p)
    PROVE  TypeInv' /\ Alone(p) /\ Proceeds(p)
<1>0. pc[p] \in Calm /\ "unlock" \in Calm /\ QueueTyped(Label) /\ QueueTypeOK
    BY DEF AddCheck, Calm, Label, QueueLabel, Submitting, TypeInv, QueueTyped
<1>1. CASE CallPick(p, "AddVideo")
    BY <1>0, <1>1, CallType DEF AddCheck, PickCaller
<1>2. CASE Goto(p, "unlock") /\ UNCHANGED pick
    <2>1. pc' \in [Goroutine -> Label] /\ QueueLocals'
        BY <1>0, <1>2, GotoLocals, LabelsFit DEF Calm
    <2>2. QueueTyped(Label)'
        BY <1>0, <1>2, <2>1 DEF AddCheck, QueueTyped, QueueTypeOK
    <2> QED
        BY <1>0, <1>2, <2>2, CalmType DEF AddCheck, Settles
<1> QED
    BY <1>1, <1>2 DEF AddCheck

\* The video on screen is noted.
LEMMA NoteType ==
    ASSUME TypeInv, NEW p \in Goroutine, PickLast(p) \/ PickNote(p)
    PROVE  TypeInv' /\ Alone(p) /\ Proceeds(p)
<1>0. /\ AdmissionTyped /\ LocalOK(p) /\ frame[p] \in Frame /\ frame \in [Goroutine -> Frame]
      /\ current \in Item \cup {None}
    BY DEF TypeInv, AdmissionTyped, QueueTyped, QueueTypeOK
<1>1. CASE PickLast(p)
    <2>1. frame[p].user = None
        BY <1>0, <1>1 DEF PickLast, LocalOK, Submitting
    <2>2. CASE current = None
        <3>1. Goto(p, "pickIndex") /\ frame' = [frame EXCEPT ![p] = frame[p]]
            BY <1>0, <1>1, <2>2 DEF PickLast
        <3>2. pc'[p] = "pickIndex" /\ frame'[p] = frame[p] => LocalOK(p)'
            BY <2>1 DEF LocalOK, Submitting, Measured
        <3> QED
            BY <1>0, <1>1, <2>1, <3>1, <3>2, MoveType
               DEF PickLast, AdmissionTyped, Label, QueueLabel, Proceeds
    <2>3. CASE current # None
        <3> DEFINE f == [frame[p] EXCEPT !.id = current.id]
        <3>1. current.id \in Video
            BY <1>0, <2>3, ItemAssumption
        <3>2. f \in Frame /\ f.user = None /\ f.id = current.id
            BY <1>0, <2>1, <3>1 DEF Frame
        <3>3. Goto(p, "pickNote") /\ frame' = [frame EXCEPT ![p] = f]
            BY <1>0, <1>1, <2>3 DEF PickLast
        <3> HIDE DEF f
        <3>4. pc'[p] = "pickNote" /\ frame'[p] = f => LocalOK(p)'
            BY <3>1, <3>2 DEF LocalOK, Submitting, Measured
        <3> QED
            BY <1>0, <1>1, <3>2, <3>3, <3>4, MoveType DEF PickLast, AdmissionTyped, Label, Proceeds
    <2> QED
        BY <2>2, <2>3
<1>2. CASE PickNote(p)
    <2>1. frame[p].id \in Video
        BY <1>0, <1>2 DEF PickNote, LocalOK
    <2>2. listed' \in SUBSET Video /\ recent' \in SUBSET Video
        BY <1>0, <1>2, <2>1 DEF PickNote, AdmissionTyped
    <2>3. pc'[p] = "pickIndex" /\ frame'[p] = Blank => LocalOK(p)'
        BY BlankType DEF LocalOK, Submitting, Measured
    <2> QED
        BY <1>2, <2>2, <2>3, BlankType, MoveType DEF PickNote, Label, QueueLabel, Proceeds
<1> QED
    BY <1>1, <1>2

\* Where the steps of Queue and the ends of the locked sections lead.
LEMMA QueueStepType ==
    ASSUME TypeInv, NEW p \in Goroutine, QueueStep(p) \/ PickArm(p) \/ EndClear(p)
    PROVE  TypeInv' /\ Alone(p) /\ Proceeds(p)
<1>0. QueueTyped(Label) /\ QueueTypeOK /\ UNCHANGED admissionVars
    BY DEF TypeInv, QueueTyped, QueueStep, PickArm, EndClear
<1>1. pc[p] \in Calm
    BY DEF QueueStep, AddStore, Unlock, PickIndex, PickTake, PickCut, PickStore, PickSet, PickNone,
           PickArm, EndClear, Calm, Label, QueueLabel, Submitting
<1>2. QueueTyped(Label)'
    <2>1. CASE QueueStep(p)
        <3>1. length > 0 => 1..length \subseteq 1..length
            OBVIOUS
        <3>2. CASE AddStore(p) \/ Unlock(p)
            BY <1>0, <3>2, LabelsFit, AddType
        <3>3. CASE \/ PickIndex(p, 1..length) \/ PickTake(p) \/ PickCut(p) \/ PickStore(p) \/ PickSet(p)
                   \/ PickNone(p)
            BY <1>0, <3>1, <3>3, LabelsFit, PickType
        <3> QED
            BY <2>1, <3>2, <3>3 DEF QueueStep
    <2>2. ASSUME UNCHANGED <<array, length, current>>,
                 \/ mutex' \in {mutex, Free} /\ crashed' = crashed /\ (PickReturn(p) \/ Return(p))
                 \/ \E d \in BOOLEAN : Panic(p, d)
          PROVE  QueueTyped(Label)'
        <3>1. CASE mutex' \in {mutex, Free} /\ crashed' = crashed /\ PickReturn(p)
            BY <1>0, <2>2, <3>1, LabelsFit, PickReturnType DEF QueueTyped, QueueTypeOK
        <3>2. CASE mutex' \in {mutex, Free} /\ crashed' = crashed /\ Return(p)
            BY <1>0, <2>2, <3>2, LabelsFit, Moves DEF QueueTyped, QueueTypeOK
        <3>3. ASSUME NEW d \in BOOLEAN, Panic(p, d) PROVE QueueTyped(Label)'
            BY <1>0, <2>2, <3>3, LabelsFit, PanicType DEF QueueTyped, QueueTypeOK
        <3> QED
            BY <2>2, <3>1, <3>2, <3>3
    <2>3. CASE PickArm(p) \/ EndClear(p)
        BY <2>2, <2>3 DEF PickArm, EndClear, PickDeferred
    <2> QED
        BY <2>1, <2>3
<1>3. Settles(p)
    <2> USE DEF Settles, Calm, Label, QueueLabel, Submitting
    <2>1. Return(p) => Settles(p)
        BY DEF Return
    <2>2. PickReturn(p) => Settles(p)
        BY <2>1 DEF PickReturn
    <2>3. \A d \in BOOLEAN : Panic(p, d) => Settles(p)
        BY <2>1 DEF Panic
    <2>4. PickPanics(p) => Settles(p)
        BY <2>3 DEF PickPanics, PickDeferred
    <2>5. CASE AddStore(p) \/ Unlock(p) \/ PickIndex(p, 1..length) \/ PickStore(p) \/ PickSet(p)
        BY <2>1, <2>5 DEF AddStore, Unlock, PickIndex, PickStore, PickSet
    <2>6. CASE PickTake(p) \/ PickCut(p)
        BY <2>4, <2>6 DEF PickTake, PickCut
    <2>7. CASE PickNone(p) \/ PickArm(p) \/ EndClear(p)
        BY <2>1, <2>2, <2>3, <2>7 DEF PickNone, PickArm, EndClear, PickDeferred
    <2> QED
        BY <2>5, <2>6, <2>7 DEF QueueStep
<1> QED
    BY <1>0, <1>1, <1>2, <1>3, CalmType

LEMMA ContinueType ==
    ASSUME TypeInv, NEW p \in Goroutine, Continue(p)
    PROVE  TypeInv' /\ Alone(p) /\ Proceeds(p)
<1>1. CASE CheckPlayed(p)
    BY <1>1, CheckType DEF CheckPlayed, Measured, Submitting
<1>2. CASE CheckVideoQueued(p)
    BY <1>2, CheckType DEF CheckVideoQueued, Measured, Submitting
<1>3. CASE CheckUserVideoLimit(p)
    BY <1>3, CheckType DEF CheckUserVideoLimit, Measured, Submitting
<1> QED
    BY <1>1, <1>2, <1>3, FetchType, AddVideoType, AddCheckType, NoteType, QueueStepType DEF Continue

\* Time, the cleanup of the played videos and the mutes.
Outside ==
    \/ \E c \in Cleaner : Clean(c)
    \/ \E id \in Video : HourPasses(id)
    \/ \E u \in User : Mute(u) \/ Unmute(u)

LEMMA OutsideType ==
    ASSUME TypeInv, Outside
    PROVE  TypeInv' /\ UNCHANGED <<pc, frame>>
<1>1. UNCHANGED <<queueVars, frame>> /\ AdmissionTyped
    BY DEF TypeInv, Outside, Clean, CollectPlayed, SweepPlayed, HourPasses, Mute, Unmute
<1>2. AdmissionTyped'
    <2>1. ASSUME NEW c \in Cleaner, Clean(c) PROVE AdmissionTyped'
        BY <1>1, <2>1 DEF Clean, CollectPlayed, SweepPlayed, AdmissionTyped
    <2>2. ASSUME NEW id \in Video, HourPasses(id) PROVE AdmissionTyped'
        BY <1>1, <2>2 DEF HourPasses, AdmissionTyped
    <2>3. ASSUME NEW u \in User, Mute(u) \/ Unmute(u) PROVE AdmissionTyped'
        BY <1>1, <2>3 DEF Mute, Unmute, AdmissionTyped
    <2> QED
        BY <2>1, <2>2, <2>3 DEF Outside
<1>3. QueueTyped(Label)'
    BY <1>1 DEF TypeInv, QueueTyped, QueueTypeOK, QueueLocals, queueVars
<1>4. \A p \in Goroutine : LocalOK(p)'
    BY <1>1 DEF TypeInv, LocalOK, queueVars
<1> QED
    BY <1>1, <1>2, <1>3, <1>4 DEF TypeInv, queueVars

LEMMA TypeStep == TypeInv /\ [Next]_vars => TypeInv'
<1> SUFFICES ASSUME TypeInv, [Next]_vars PROVE TypeInv'
    OBVIOUS
<1>1. ASSUME UNCHANGED vars PROVE TypeInv'
    BY <1>1 DEF vars, queueVars, admissionVars, TypeInv, QueueTyped, QueueTypeOK, QueueLocals,
                AdmissionTyped, LocalOK
<1>2. Timer \subseteq Goroutine
    BY DEF Goroutine
<1> QED
    BY <1>1, <1>2, SubmitType, EndsType, ContinueType, OutsideType DEF Next, Outside

LEMMA TypeInit == Init => TypeInv
<1> SUFFICES ASSUME Init PROVE TypeInv
    OBVIOUS
<1>1. QueueTyped(Label)
    BY QueueInitType DEF Init, Label
<1>2. AdmissionTyped /\ \A p \in Goroutine : frame[p].user = None
    BY BlankType DEF Init, AdmissionTyped
<1>3. \A p \in Goroutine : pc[p] = "idle"
    BY DEF Init, QueueInit
<1> QED
    BY <1>1, <1>2, <1>3 DEF TypeInv, LocalOK, Submitting, Measured

\* Whatever YouTube answers and however picks and submissions interleave, what is in the
\* queue or on screen has a submitter, and lasts longer than nothing and at most ten
\* minutes.
THEOREM Typing == Spec => []TypeOK
<1>1. TypeInv => TypeOK
    BY DEF TypeInv, QueueTyped, AdmissionTyped, TypeOK
<1> QED
    BY <1>1, TypeInit, TypeStep, PTL DEF Spec

-----------------------------------------------------------------------------
(* Mutes *)

LEMMA MuteStep ==
    ASSUME TypeInv, [Next]_vars, NEW u \in User, u \in muted
    PROVE  /\ InFlight(u)' \subseteq InFlight(u)
           /\ Adds(u) => InFlight(u)' # InFlight(u)
<1>0. TypeInv' /\ None \notin User /\ Request \subseteq Goroutine /\ Timer \subseteq Goroutine
    BY TypeStep, NobodyAssumption DEF Goroutine
<1>1. ASSUME UNCHANGED <<pc, frame>>
      PROVE  InFlight(u)' \subseteq InFlight(u) /\ ~Adds(u)
    BY <1>1 DEF InFlight, Adds
<1>2. ASSUME NEW p \in Request, NEW w \in User, NEW id \in Video, Submit(p, w, id)
      PROVE  InFlight(u)' \subseteq InFlight(u) /\ ~Adds(u)
    <2>1. Alone(p) /\ pc[p] = "idle" /\ w # u /\ frame'[p].user = w
        BY <1>2, SubmitType DEF Submit
    <2> QED
        BY <1>0, <2>1 DEF InFlight, Adds, Alone
<1>3. ASSUME NEW p \in Goroutine, Alone(p), Proceeds(p)
      PROVE  /\ InFlight(u)' \subseteq InFlight(u)
             /\ Adds(u) => InFlight(u)' # InFlight(u)
    <2>1. InFlight(u)' \subseteq InFlight(u)
        BY <1>0, <1>3 DEF InFlight, Alone, Proceeds, Submitting
    <2>2. ASSUME Adds(u) PROVE InFlight(u)' # InFlight(u)
        <3>1. PICK q \in Request : pc[q] = "add" /\ pc'[q] # "add" /\ frame[q].user = u
            BY <2>2 DEF Adds
        <3>2. q = p
            BY <1>0, <1>3, <3>1 DEF Alone
        <3>3. frame'[q].user = None
            BY <1>3, <3>1, <3>2 DEF Proceeds, Submitting
        <3>4. q \in InFlight(u) /\ q \notin InFlight(u)'
            BY <1>0, <3>1, <3>3 DEF InFlight
        <3> QED
            BY <3>4
    <2> QED
        BY <2>1, <2>2
<1>4. CASE Outside \/ UNCHANGED vars
    BY <1>1, <1>4, OutsideType DEF vars, queueVars, admissionVars
<1>5. ASSUME NEW p \in Goroutine, VideoEnds(p) \/ VideoSkipped(p) \/ Continue(p)
      PROVE  Alone(p) /\ Proceeds(p)
    BY <1>5, EndsType, ContinueType
<1> QED
    BY <1>0, <1>2, <1>3, <1>4, <1>5 DEF Next, Outside

\* A mute takes effect at the first check: of somebody who is muted only what was in
\* flight gets through, each submission of it once.
THEOREM MutesWindDown == Spec => MuteWindsDown
<1>1. TypeInv /\ [Next]_vars
        => [\A u \in muted : u \in muted' =>
              /\ InFlight(u)' \subseteq InFlight(u)
              /\ Adds(u) => InFlight(u)' # InFlight(u)]_vars
    BY MuteStep DEF TypeInv, AdmissionTyped
<1> QED
    BY <1>1, TypeInit, TypeStep, PTL DEF Spec, MuteWindsDown

=============================================================================
