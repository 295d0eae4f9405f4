---------------------------- MODULE QueueProofs -----------------------------
(***************************************************************************)
(* What the steps of Queue do to its variables, for every module that puts *)
(* its own steps between them.                                             *)
(***************************************************************************)
EXTENDS Queue, TLAPS

\* An index that is about to be used was chosen from 1 on.
QueueLocals == \A p \in Goroutine : pc[p] \in {"pickTake", "pickCut"} => pick[p].idx >= 1

\* The variables are typed, in a module whose labels are those of the set labels.
QueueTyped(labels) ==
    /\ QueueTypeOK
    /\ pc \in [Goroutine -> labels]
    /\ QueueLocals

\* The labels that the steps of Queue lead to.
QueueLabels(labels) == QueueLabel \cup {"idle", "endClear"} \subseteq labels

\* Only p's own locals and label may differ.
OthersStay(p) ==
    \A q \in Goroutine \ {p} : pc'[q] = pc[q] /\ pick'[q] = pick[q]

-----------------------------------------------------------------------------
(* One goroutine's locals *)

LEMMA NoPickType == NoPick \in Pick /\ NoPick.idx = 0
BY CapacityAssumption DEF NoPick, Pick, PickCaller

\* What typing says of one goroutine's locals.
LEMMA LocalType ==
    ASSUME NEW labels, QueueTyped(labels), NEW p \in Goroutine
    PROVE  /\ pick[p] \in Pick
           /\ pick[p].caller \in PickCaller
           /\ pick[p].idx \in 0..Capacity
           /\ pick[p].next \in Item \cup {None}
           /\ pick[p].len \in 0..Capacity
           /\ length \in 0..Capacity
           /\ Capacity \in Nat
           /\ pc[p] \in {"pickTake", "pickCut"} => pick[p].idx >= 1
<1>1. pick[p] \in Pick /\ length \in 0..Capacity
    BY DEF QueueTyped, QueueTypeOK
<1>2. /\ pick[p].caller \in PickCaller
      /\ pick[p].idx \in 0..Capacity
      /\ pick[p].next \in Item \cup {None}
      /\ pick[p].len \in 0..Capacity
    BY <1>1 DEF Pick
<1> QED
    BY <1>1, <1>2, CapacityAssumption DEF QueueTyped, QueueLocals

\* The updates of one goroutine's locals that the steps make.
LEMMA PickUpdate ==
    ASSUME pick \in [Goroutine -> Pick], NEW p \in Goroutine
    PROVE  /\ [pick EXCEPT ![p] = NoPick] \in [Goroutine -> Pick]
           /\ \A i \in 0..Capacity :
                 /\ [pick EXCEPT ![p].idx = i] \in [Goroutine -> Pick]
                 /\ [pick EXCEPT ![p].idx = i][p].idx = i
                 /\ [pick EXCEPT ![p].idx = i][p].caller = pick[p].caller
           /\ \A n \in 0..Capacity :
                 /\ [pick EXCEPT ![p].len = n] \in [Goroutine -> Pick]
                 /\ [pick EXCEPT ![p].len = n][p].idx = pick[p].idx
                 /\ [pick EXCEPT ![p].len = n][p].caller = pick[p].caller
           /\ \A v \in Item \cup {None} :
                 /\ [pick EXCEPT ![p].next = v] \in [Goroutine -> Pick]
                 /\ [pick EXCEPT ![p].next = v][p].idx = pick[p].idx
                 /\ [pick EXCEPT ![p].next = v][p].caller = pick[p].caller
<1>1. [pick EXCEPT ![p] = NoPick] \in [Goroutine -> Pick]
    BY NoPickType
<1>2. pick[p] \in Pick
    OBVIOUS
<1>3. ASSUME NEW i \in 0..Capacity
      PROVE  /\ [pick EXCEPT ![p].idx = i] \in [Goroutine -> Pick]
             /\ [pick EXCEPT ![p].idx = i][p].idx = i
             /\ [pick EXCEPT ![p].idx = i][p].caller = pick[p].caller
    BY <1>2 DEF Pick
<1>4. ASSUME NEW n \in 0..Capacity
      PROVE  /\ [pick EXCEPT ![p].len = n] \in [Goroutine -> Pick]
             /\ [pick EXCEPT ![p].len = n][p].idx = pick[p].idx
             /\ [pick EXCEPT ![p].len = n][p].caller = pick[p].caller
    BY <1>2 DEF Pick
<1>5. ASSUME NEW v \in Item \cup {None}
      PROVE  /\ [pick EXCEPT ![p].next = v] \in [Goroutine -> Pick]
             /\ [pick EXCEPT ![p].next = v][p].idx = pick[p].idx
             /\ [pick EXCEPT ![p].next = v][p].caller = pick[p].caller
    BY <1>2 DEF Pick
<1> QED
    BY <1>1, <1>3, <1>4, <1>5

-----------------------------------------------------------------------------
(* The ways a step leaves its label *)

\* Goto and Return move one goroutine.
LEMMA Moves ==
    ASSUME NEW labels, QueueLabels(labels), QueueTyped(labels), NEW p \in Goroutine
    PROVE  /\ \A label \in labels : Goto(p, label) =>
                 /\ pc' \in [Goroutine -> labels]
                 /\ pc'[p] = label
                 /\ \A q \in Goroutine \ {p} : pc'[q] = pc[q]
           /\ Return(p) =>
                 /\ pc' \in [Goroutine -> labels]
                 /\ pick' \in [Goroutine -> Pick]
                 /\ pc'[p] = "idle"
                 /\ OthersStay(p)
                 /\ QueueLocals'
<1>1. pc \in [Goroutine -> labels] /\ pick \in [Goroutine -> Pick]
    BY DEF QueueTyped, QueueTypeOK
<1>2. \A label \in labels : Goto(p, label) =>
          /\ pc' \in [Goroutine -> labels]
          /\ pc'[p] = label
          /\ \A q \in Goroutine \ {p} : pc'[q] = pc[q]
    BY <1>1 DEF Goto
<1>3. ASSUME Return(p)
      PROVE  /\ pc' \in [Goroutine -> labels]
             /\ pick' \in [Goroutine -> Pick]
             /\ pc'[p] = "idle"
             /\ OthersStay(p)
    <2>1. Goto(p, "idle") /\ "idle" \in labels
        BY <1>3 DEF Return, QueueLabels
    <2> QED
        BY <1>1, <1>2, <1>3, <2>1, PickUpdate DEF Return, OthersStay
<1>4. ASSUME Return(p) PROVE QueueLocals'
    BY <1>3, <1>4 DEF OthersStay, QueueTyped, QueueLocals
<1> QED
    BY <1>2, <1>3, <1>4

\* A move to a label at which the index is not used.
LEMMA GotoLocals ==
    ASSUME NEW labels, QueueLabels(labels), QueueTyped(labels), NEW p \in Goroutine,
           NEW label \in labels, Goto(p, label),
           label \notin {"pickTake", "pickCut"} \/ pick'[p].idx >= 1,
           \A q \in Goroutine \ {p} : pick'[q] = pick[q]
    PROVE  pc' \in [Goroutine -> labels] /\ QueueLocals'
<1>1. /\ pc' \in [Goroutine -> labels]
      /\ pc'[p] = label
      /\ \A q \in Goroutine \ {p} : pc'[q] = pc[q]
    BY Moves
<1> QED
    BY <1>1 DEF QueueTyped, QueueLocals

\* A panic ends the goroutine or leaves everything as it is.
LEMMA PanicType ==
    ASSUME NEW labels, QueueLabels(labels), QueueTyped(labels), NEW p \in Goroutine,
           NEW deferred \in BOOLEAN, Panic(p, deferred)
    PROVE  /\ mutex' \in Goroutine \cup {Free, Leaked}
           /\ crashed' \in BOOLEAN
           /\ pc' \in [Goroutine -> labels]
           /\ pick' \in [Goroutine -> Pick]
           /\ QueueLocals'
<1> USE DEF QueueTyped, QueueTypeOK
<1>1. CASE /\ crashed' = TRUE
           /\ UNCHANGED <<mutex, pc, pick>>
    BY <1>1 DEF QueueLocals
<1>2. CASE /\ mutex' = IF deferred THEN Free ELSE Leaked
           /\ Return(p)
           /\ UNCHANGED crashed
    BY <1>2, Moves
<1> QED
    BY <1>1, <1>2 DEF Panic

-----------------------------------------------------------------------------
(* The steps *)

LEMMA PickReturnType ==
    ASSUME NEW labels, QueueLabels(labels), QueueTyped(labels), NEW p \in Goroutine,
           PickReturn(p)
    PROVE  /\ pc' \in [Goroutine -> labels]
           /\ pick' \in [Goroutine -> Pick]
           /\ QueueLocals'
<1>1. CASE Return(p)
    BY <1>1, Moves
<1>2. CASE (Goto(p, "endClear") \/ Goto(p, "unlock")) /\ UNCHANGED pick
    <2>1. "endClear" \in labels /\ "unlock" \in labels
        BY DEF QueueLabels, QueueLabel
    <2> QED
        BY <1>2, <2>1, GotoLocals DEF QueueTyped, QueueTypeOK
<1> QED
    BY <1>1, <1>2 DEF PickReturn

\* The steps of a pick keep the types, given indices of the queue to choose from.
LEMMA PickType ==
    ASSUME NEW labels, QueueLabels(labels), QueueTyped(labels), NEW p \in Goroutine,
           NEW indices, length > 0 => indices \subseteq 1..length,
           \/ PickIndex(p, indices) \/ PickTake(p) \/ PickCut(p) \/ PickStore(p)
           \/ PickSet(p) \/ PickNone(p)
    PROVE  QueueTyped(labels)'
<1>0. /\ pc \in [Goroutine -> labels] /\ pick \in [Goroutine -> Pick] /\ QueueTypeOK
      /\ QueueLabel \subseteq labels
    BY DEF QueueTyped, QueueTypeOK, QueueLabels
<1>1. CASE PickIndex(p, indices)
    <2>1. UNCHANGED <<array, length, current, mutex, crashed>>
        BY <1>1 DEF PickIndex
    <2>2. CASE Goto(p, "pickNone") /\ UNCHANGED pick
        <3>1. pc' \in [Goroutine -> labels] /\ QueueLocals'
            BY <1>0, <2>2, GotoLocals DEF QueueLabel
        <3> QED
            BY <1>0, <2>1, <2>2, <3>1 DEF QueueTyped, QueueTypeOK
    <2>3. CASE /\ length > 0
               /\ \E i \in indices : pick' = [pick EXCEPT ![p].idx = i]
               /\ Goto(p, "pickTake")
        <3>1. PICK i \in indices : pick' = [pick EXCEPT ![p].idx = i]
            BY <2>3
        <3>2. i \in 0..Capacity /\ i >= 1
            BY <2>3, LocalType
        <3>3. pick' \in [Goroutine -> Pick] /\ pick'[p].idx = i
            BY <1>0, <3>1, <3>2, PickUpdate
        <3>4. \A q \in Goroutine \ {p} : pick'[q] = pick[q]
            BY <1>0, <3>1
        <3>5. pc' \in [Goroutine -> labels] /\ QueueLocals'
            BY <1>0, <2>3, <3>2, <3>3, <3>4, GotoLocals DEF QueueLabel
        <3> QED
            BY <1>0, <2>1, <3>3, <3>5 DEF QueueTyped, QueueTypeOK
    <2> QED
        BY <1>1, <2>2, <2>3 DEF PickIndex
<1>2. ASSUME PickPanics(p) PROVE QueueTyped(labels)'
    BY <1>0, <1>2, PanicType DEF PickPanics, PickDeferred, QueueTyped, QueueTypeOK
<1>3. CASE PickTake(p)
    <2>1. CASE /\ pick[p].idx <= length
               /\ pick' = [pick EXCEPT ![p].next = array[pick[p].idx]]
               /\ Goto(p, "pickCut")
               /\ UNCHANGED <<array, length, current, mutex, crashed>>
        <3>1. pick[p].idx \in 1..Capacity
            BY <1>3, <2>1, LocalType DEF PickTake
        <3>2. array[pick[p].idx] \in Item \cup {None}
            BY <1>0, <3>1 DEF QueueTypeOK
        <3>3. pick' \in [Goroutine -> Pick] /\ pick'[p].idx = pick[p].idx
            BY <1>0, <2>1, <3>2, PickUpdate
        <3>4. \A q \in Goroutine \ {p} : pick'[q] = pick[q]
            BY <1>0, <2>1
        <3>5. pc' \in [Goroutine -> labels] /\ QueueLocals'
            BY <1>0, <2>1, <3>1, <3>3, <3>4, GotoLocals DEF QueueLabel
        <3> QED
            BY <1>0, <2>1, <3>3, <3>5 DEF QueueTyped, QueueTypeOK
    <2> QED
        BY <1>2, <1>3, <2>1 DEF PickTake
<1>4. CASE PickCut(p)
    <2>1. CASE /\ pick[p].idx <= length
               /\ array' = Shift(array, pick[p].idx, length)
               /\ pick' = [pick EXCEPT ![p].len = length - 1]
               /\ Goto(p, "pickStore")
               /\ UNCHANGED <<length, current, mutex, crashed>>
        <3>1. length - 1 \in 0..Capacity
            BY <1>4, <2>1, LocalType DEF PickCut
        <3>2. array' \in [1..Capacity -> Item \cup {None}]
            <4>1. array \in [1..Capacity -> Item \cup {None}] /\ length \in 0..Capacity
                BY <1>0 DEF QueueTypeOK
            <4>2. ASSUME NEW j \in 1..Capacity PROVE j < length => j + 1 \in 1..Capacity
                BY <4>1, CapacityAssumption
            <4>3. DOMAIN array = 1..Capacity
                BY <4>1
            <4> QED
                BY <2>1, <4>1, <4>2, <4>3 DEF Shift
        <3>3. pick' \in [Goroutine -> Pick]
            BY <1>0, <2>1, <3>1, PickUpdate
        <3>4. \A q \in Goroutine \ {p} : pick'[q] = pick[q]
            BY <1>0, <2>1
        <3>5. pc' \in [Goroutine -> labels] /\ QueueLocals'
            BY <1>0, <2>1, <3>4, GotoLocals DEF QueueLabel
        <3> QED
            BY <1>0, <2>1, <3>2, <3>3, <3>5 DEF QueueTyped, QueueTypeOK
    <2> QED
        BY <1>2, <1>4, <2>1 DEF PickCut
<1>5. CASE PickStore(p)
    <2>1. pc' \in [Goroutine -> labels] /\ QueueLocals'
        BY <1>0, <1>5, GotoLocals DEF PickStore, QueueLabel
    <2>2. length' \in 0..Capacity
        BY <1>5, LocalType DEF PickStore
    <2> QED
        BY <1>0, <1>5, <2>1, <2>2 DEF PickStore, QueueTyped, QueueTypeOK
<1>6. CASE PickSet(p)
    <2>1. pc' \in [Goroutine -> labels] /\ QueueLocals'
        BY <1>0, <1>6, GotoLocals DEF PickSet, QueueLabel
    <2>2. current' \in Item \cup {None}
        BY <1>6, LocalType DEF PickSet
    <2> QED
        BY <1>0, <1>6, <2>1, <2>2 DEF PickSet, QueueTyped, QueueTypeOK
<1>7. CASE PickNone(p)
    <2>1. CASE PickReturn(p) /\ UNCHANGED <<mutex, crashed>>
        BY <1>0, <1>7, <2>1, PickReturnType DEF PickNone, QueueTyped, QueueTypeOK
    <2>2. CASE Panic(p, PickDeferred(p))
        BY <1>0, <1>7, <2>2, PanicType DEF PickNone, PickDeferred, QueueTyped, QueueTypeOK
    <2> QED
        BY <1>7, <2>1, <2>2 DEF PickNone
<1> QED
    BY <1>1, <1>3, <1>4, <1>5, <1>6, <1>7

\* So do those of AddVideo.
LEMMA AddType ==
    ASSUME NEW labels, QueueLabels(labels), QueueTyped(labels), NEW p \in Goroutine,
           (\E v \in Item : AddVideo(p, v)) \/ AddStore(p) \/ Unlock(p)
    PROVE  QueueTyped(labels)'
<1>0. /\ pc \in [Goroutine -> labels] /\ pick \in [Goroutine -> Pick] /\ QueueTypeOK
      /\ QueueLabel \subseteq labels
    BY DEF QueueTyped, QueueTypeOK, QueueLabels
<1>1. ASSUME NEW v \in Item, AddVideo(p, v) PROVE QueueTyped(labels)'
    <2>1. length + 1 \in 1..Capacity /\ length + 1 \in 0..Capacity
        BY <1>1, LocalType DEF AddVideo
    <2>2. array' \in [1..Capacity -> Item \cup {None}]
        BY <1>0, <1>1, <2>1 DEF AddVideo, QueueTypeOK
    <2>3. pick' \in [Goroutine -> Pick]
        BY <1>0, <1>1, <2>1, PickUpdate DEF AddVideo
    <2>4. \A q \in Goroutine \ {p} : pick'[q] = pick[q]
        BY <1>0, <1>1 DEF AddVideo
    <2>5. pc' \in [Goroutine -> labels] /\ QueueLocals'
        BY <1>0, <1>1, <2>4, GotoLocals DEF AddVideo, QueueLabel
    <2> QED
        BY <1>0, <1>1, <2>2, <2>3, <2>5 DEF AddVideo, Acquire, QueueTyped, QueueTypeOK
<1>2. CASE AddStore(p)
    <2>1. pick' \in [Goroutine -> Pick] /\ \A q \in Goroutine \ {p} : pick'[q] = pick[q]
        BY <1>0, <1>2, PickUpdate DEF AddStore
    <2>2. pc' \in [Goroutine -> labels] /\ QueueLocals'
        BY <1>0, <1>2, <2>1, GotoLocals DEF AddStore, QueueLabel
    <2>3. length' \in 0..Capacity
        BY <1>2, LocalType DEF AddStore
    <2> QED
        BY <1>0, <1>2, <2>1, <2>2, <2>3 DEF AddStore, QueueTyped, QueueTypeOK
<1>3. CASE Unlock(p)
    BY <1>0, <1>3, Moves DEF Unlock, QueueTyped, QueueTypeOK
<1> QED
    BY <1>1, <1>2, <1>3

LEMMA QueueInitType ==
    ASSUME NEW labels, "idle" \in labels, QueueInit
    PROVE  QueueTyped(labels)
<1>1. QueueTypeOK
    <2>1. 0 \in 0..Capacity
        BY CapacityAssumption
    <2>2. array \in [1..Capacity -> Item \cup {None}]
        BY DEF QueueInit
    <2>3. pick \in [Goroutine -> Pick]
        BY NoPickType DEF QueueInit
    <2> QED
        BY <2>1, <2>2, <2>3 DEF QueueInit, QueueTypeOK
<1>2. pc \in [Goroutine -> labels] /\ QueueLocals
    BY DEF QueueInit, QueueLocals
<1> QED
    BY <1>1, <1>2 DEF QueueTyped

=============================================================================
