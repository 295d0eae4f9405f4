--------------------------- MODULE StreamsProofs ----------------------------
(***************************************************************************)
(* The invariants of Streams, for every set of users, streams and          *)
(* goroutines.                                                             *)
(***************************************************************************)
EXTENDS Streams, TLAPS

Kicking == {"kickCheck", "kickErr", "kickSend", "kickCancel", "forget"}

\* Where a Broadcast of p ends: only the minder's goes on with the expiry, and only a
\* request's with a Touch.
Then(p) == IF p = Minder THEN {"cancelAll"}
           ELSE IF p \in Request THEN {"touch", "idle"} ELSE {"idle"}

\* What goroutine p's locals hold where they are used, and who can be there.
LocalOK(p) ==
    /\ pc[p] \in {"cast", "send"} => frame[p].next \in Then(p)
    /\ pc[p] \in {"send", "cancelUser"} => frame[p].user \in User /\ frame[p].client \in Stream
    /\ pc[p] = "cancelUser" => p = Minder
    /\ pc[p] \in Kicking => /\ frame[p].user \in User
                            /\ frame[p].next = IF p = Minder THEN "kickRest" ELSE "cast"
    /\ pc[p] \in {"enter", "touch", "rearm"} => p \in Request
    /\ pc[p] = "enter" => frame[p].user \in User

\* A page belongs to somebody.
OwnersOK == \A s \in Stream : state[s] # "away" => owner[s] \in User

TypeInv == TypeOK /\ OwnersOK /\ \A p \in Goroutine : LocalOK(p)

\* p makes a step: the other goroutines stay where they are.
OthersStay(p) == \A q \in Goroutine \ {p} : pc'[q] = pc[q] /\ frame'[q] = frame[q]

-----------------------------------------------------------------------------
(* Typing *)

LEMMA Who == /\ Minder \in Goroutine /\ Minder \notin Request
             /\ Request \subseteq Goroutine /\ Cleaner \subseteq Goroutine
BY GoroutineAssumption DEF Goroutine

LEMMA BlankType == Blank \in Frame
BY DEF Blank, Frame, Label

LEMMA LocalType ==
    ASSUME TypeInv, NEW p \in Goroutine
    PROVE  /\ frame[p] \in Frame
           /\ \A label \in Label : Goto(p, label) =>
                /\ pc' \in [Goroutine -> Label] /\ pc'[p] = label
                /\ \A q \in Goroutine \ {p} : pc'[q] = pc[q]
           /\ \A f \in Frame : frame' = [frame EXCEPT ![p] = f] =>
                /\ frame' \in [Goroutine -> Frame] /\ frame'[p] = f
                /\ \A q \in Goroutine \ {p} : frame'[q] = frame[q]
           /\ End(p) => /\ pc' \in [Goroutine -> Label] /\ frame' \in [Goroutine -> Frame]
                        /\ pc'[p] = "idle" /\ frame'[p] = Blank /\ OthersStay(p)
<1>1. pc \in [Goroutine -> Label] /\ frame \in [Goroutine -> Frame]
    BY DEF TypeInv, TypeOK
<1>2. \A label \in Label : Goto(p, label) =>
         /\ pc' \in [Goroutine -> Label] /\ pc'[p] = label
         /\ \A q \in Goroutine \ {p} : pc'[q] = pc[q]
    BY <1>1 DEF Goto
<1>3. \A f \in Frame : frame' = [frame EXCEPT ![p] = f] =>
         /\ frame' \in [Goroutine -> Frame] /\ frame'[p] = f
         /\ \A q \in Goroutine \ {p} : frame'[q] = frame[q]
    BY <1>1
<1>4. End(p) => /\ pc' \in [Goroutine -> Label] /\ frame' \in [Goroutine -> Frame]
                /\ pc'[p] = "idle" /\ frame'[p] = Blank /\ OthersStay(p)
    BY <1>2, <1>3, BlankType DEF End, OthersStay, Label
<1> QED
    BY <1>1, <1>2, <1>3, <1>4

\* Only the stepping goroutine's locals, and the pages, need a look.
LEMMA LocalsKept ==
    ASSUME TypeInv, NEW p \in Goroutine, OthersStay(p), TypeOK', OwnersOK', LocalOK(p)'
    PROVE  TypeInv'
<1>1. \A q \in Goroutine \ {p} : LocalOK(q)'
    BY DEF TypeInv, LocalOK, OthersStay
<1> QED
    BY <1>1 DEF TypeInv

\* A Broadcast starts.
LEMMA CastType ==
    ASSUME TypeInv, NEW p \in Goroutine, NEW next \in Then(p), StartCast(p, next),
           members' \in SUBSET User
    PROVE  /\ pc' \in [Goroutine -> Label] /\ frame' \in [Goroutine -> Frame]
           /\ pc'[p] = "cast" /\ OthersStay(p) /\ LocalOK(p)'
<1> DEFINE f == [Blank EXCEPT !.todo = members', !.next = next]
<1>1. f \in Frame /\ f.next = next
    BY BlankType DEF Frame, Then, Label
<1>2. frame' = [frame EXCEPT ![p] = f]
    BY DEF StartCast
<1> HIDE DEF f
<1>3. /\ pc' \in [Goroutine -> Label] /\ frame' \in [Goroutine -> Frame]
      /\ pc'[p] = "cast" /\ frame'[p] = f /\ OthersStay(p)
    BY <1>1, <1>2, LocalType DEF StartCast, OthersStay, Label
<1> QED
    BY <1>1, <1>3 DEF LocalOK, Kicking

\* A request arrives.
LEMMA UpdateType ==
    ASSUME TypeInv, NEW p \in Request, Update(p)
    PROVE  TypeInv' /\ OthersStay(p)
<1>1. PICK next \in {"touch", "idle"} : StartCast(p, next)
    BY DEF Update
<1>2. p \in Goroutine /\ next \in Then(p)
    BY Who DEF Then
<1>3. members' \in SUBSET User
    BY DEF Update, lobbyVars, TypeInv, TypeOK
<1>4. /\ pc' \in [Goroutine -> Label] /\ frame' \in [Goroutine -> Frame]
      /\ OthersStay(p) /\ LocalOK(p)'
    BY <1>1, <1>2, <1>3, CastType
<1>5. TypeOK' /\ OwnersOK'
    BY <1>4 DEF Update, lobbyVars, AllStale, TypeInv, TypeOK, OwnersOK
<1> QED
    BY <1>2, <1>4, <1>5, LocalsKept

LEMMA JoinType ==
    ASSUME TypeInv, NEW p \in Request, NEW u \in User, Join(p, u)
    PROVE  TypeInv' /\ OthersStay(p)
<1> DEFINE f == [Blank EXCEPT !.user = u]
<1>1. p \in Goroutine /\ f \in Frame /\ f.user = u
    BY Who, BlankType DEF Frame
<1>2. frame' = [frame EXCEPT ![p] = f]
    BY DEF Join
<1> HIDE DEF f
<1>3. /\ pc' \in [Goroutine -> Label] /\ frame' \in [Goroutine -> Frame]
      /\ pc'[p] = "enter" /\ frame'[p] = f /\ OthersStay(p)
    BY <1>1, <1>2, LocalType DEF Join, OthersStay, Label
<1>4. TypeOK' /\ OwnersOK'
    BY <1>3 DEF Join, streamVars, TypeInv, TypeOK, OwnersOK
<1>5. LocalOK(p)'
    BY <1>1, <1>3 DEF LocalOK, Kicking
<1> QED
    BY <1>1, <1>3, <1>4, <1>5, LocalsKept

LEMMA PageType ==
    ASSUME TypeInv, NEW p \in Request, NEW u \in User, NEW t \in Stream, Page(p, u, t)
    PROVE  TypeInv' /\ OthersStay(p)
<1>1. p \in Goroutine
    BY Who
<1>2. /\ pc' \in [Goroutine -> Label] /\ pc'[p] = "touch" /\ OthersStay(p)
    BY <1>1, LocalType DEF Page, OthersStay, Label
<1>3. TypeOK' /\ OwnersOK'
    BY <1>2 DEF Page, lobbyVars, TypeInv, TypeOK, OwnersOK, State
<1>4. LocalOK(p)'
    BY <1>2 DEF LocalOK, Kicking
<1> QED
    BY <1>1, <1>2, <1>3, <1>4, LocalsKept

LEMMA EnterType ==
    ASSUME TypeInv, NEW p \in Goroutine, Enter(p)
    PROVE  TypeInv' /\ OthersStay(p)
<1>1. p \in Request /\ frame[p].user \in User
    BY DEF Enter, TypeInv, LocalOK
<1>2. "touch" \in Then(p) /\ members' \in SUBSET User
    BY <1>1, Who DEF Then, Enter, TypeInv, TypeOK
<1>3. /\ pc' \in [Goroutine -> Label] /\ frame' \in [Goroutine -> Frame]
      /\ OthersStay(p) /\ LocalOK(p)'
    BY <1>2, CastType DEF Enter
<1>4. TypeOK' /\ OwnersOK'
    BY <1>2, <1>3 DEF Enter, AllStale, TypeInv, TypeOK, OwnersOK
<1> QED
    BY <1>3, <1>4, LocalsKept

\* The loop of Broadcast.
LEMMA LoopType ==
    ASSUME TypeInv, NEW p \in Goroutine, Cast(p)
    PROVE  TypeInv' /\ OthersStay(p)
<1>0. /\ UNCHANGED <<lobbyVars, streamVars, crashed, missed>> /\ pc[p] = "cast"
      /\ frame[p] \in Frame /\ frame \in [Goroutine -> Frame] /\ pc \in [Goroutine -> Label]
      /\ frame[p].next \in Then(p) /\ frame[p].todo \in SUBSET User
      /\ sse \in [User -> Stream \cup {None}]
    BY DEF Cast, TypeInv, TypeOK, LocalOK, Frame
<1>1. OwnersOK'
    BY <1>0 DEF TypeInv, OwnersOK, streamVars
<1>2. ASSUME NEW u \in frame[p].todo,
             frame' = [frame EXCEPT ![p] = [@ EXCEPT !.todo = frame[p].todo \ {u}]], UNCHANGED pc
      PROVE  TypeInv' /\ OthersStay(p)
    <2> DEFINE f == [frame[p] EXCEPT !.todo = frame[p].todo \ {u}]
    <2>1. f \in Frame /\ f.next = frame[p].next
        BY <1>0, <1>2 DEF Frame
    <2>2. frame' = [frame EXCEPT ![p] = f]
        BY <1>2
    <2> HIDE DEF f
    <2>3. frame' \in [Goroutine -> Frame] /\ frame'[p] = f /\ OthersStay(p)
        BY <1>2, <2>1, <2>2, LocalType DEF OthersStay
    <2>4. TypeOK'
        BY <1>0, <1>2, <2>3 DEF TypeInv, TypeOK, lobbyVars, streamVars
    <2>5. LocalOK(p)'
        BY <1>0, <1>2, <2>1, <2>3 DEF LocalOK, Kicking
    <2> QED
        BY <1>1, <2>3, <2>4, <2>5, LocalsKept
<1>3. ASSUME NEW u \in frame[p].todo, sse[u] # None,
             frame' = [frame EXCEPT ![p] = [@ EXCEPT !.todo = frame[p].todo \ {u}, !.user = u,
                                                     !.client = sse[u]]],
             Goto(p, "send")
      PROVE  TypeInv' /\ OthersStay(p)
    <2> DEFINE f == [frame[p] EXCEPT !.todo = frame[p].todo \ {u}, !.user = u, !.client = sse[u]]
    <2>0. u \in User /\ sse[u] \in Stream
        BY <1>0, <1>3
    <2>1. f \in Frame /\ f.next = frame[p].next /\ f.user = u /\ f.client = sse[u]
        BY <1>0, <2>0 DEF Frame
    <2>2. frame' = [frame EXCEPT ![p] = f]
        BY <1>3
    <2> HIDE DEF f
    <2>3. /\ pc' \in [Goroutine -> Label] /\ pc'[p] = "send"
          /\ frame' \in [Goroutine -> Frame] /\ frame'[p] = f /\ OthersStay(p)
        BY <1>3, <2>1, <2>2, LocalType DEF OthersStay, Label
    <2>4. TypeOK'
        BY <1>0, <2>3 DEF TypeInv, TypeOK, lobbyVars, streamVars
    <2>5. LocalOK(p)'
        BY <1>0, <2>0, <2>1, <2>3 DEF LocalOK, Kicking
    <2> QED
        BY <1>1, <2>3, <2>4, <2>5, LocalsKept
<1>4. ASSUME Goto(p, frame[p].next), frame' = [frame EXCEPT ![p] = Blank]
      PROVE  TypeInv' /\ OthersStay(p)
    <2>1. frame[p].next \in Label
        BY <1>0 DEF Frame
    <2>2. /\ pc' \in [Goroutine -> Label] /\ pc'[p] = frame[p].next
          /\ frame' \in [Goroutine -> Frame] /\ OthersStay(p)
        BY <1>4, <2>1, BlankType, LocalType DEF OthersStay
    <2>3. TypeOK'
        BY <1>0, <2>2 DEF TypeInv, TypeOK, lobbyVars, streamVars
    <2>4. LocalOK(p)'
        BY <1>0, <2>2 DEF LocalOK, Kicking, Then
    <2> QED
        BY <1>1, <2>2, <2>3, <2>4, LocalsKept
<1> QED
    BY <1>2, <1>3, <1>4 DEF Cast

LEMMA PanicType ==
    ASSUME TypeInv, NEW p \in Goroutine, Panic(p),
           UNCHANGED <<lobbyVars, streamVars>>, missed' \subseteq Stream \cup {None}
    PROVE  TypeInv' /\ OthersStay(p)
<1>1. CASE End(p) /\ UNCHANGED crashed
    <2>1. /\ pc' \in [Goroutine -> Label] /\ frame' \in [Goroutine -> Frame]
          /\ pc'[p] = "idle" /\ OthersStay(p)
        BY <1>1, LocalType
    <2>2. TypeOK' /\ OwnersOK'
        BY <1>1, <2>1 DEF TypeInv, TypeOK, OwnersOK, lobbyVars, streamVars
    <2>3. LocalOK(p)'
        BY <2>1 DEF LocalOK, Kicking
    <2> QED
        BY <2>1, <2>2, <2>3, LocalsKept
<1>2. CASE crashed' = TRUE /\ UNCHANGED <<pc, frame>>
    <2>1. TypeOK' /\ OwnersOK' /\ LocalOK(p)' /\ OthersStay(p)
        BY <1>2 DEF TypeInv, TypeOK, OwnersOK, LocalOK, OthersStay, lobbyVars, streamVars
    <2> QED
        BY <2>1, LocalsKept
<1> QED
    BY <1>1, <1>2 DEF Panic

\* p goes on to label, where its locals are right, and no page changes hands.
LEMMA GoType ==
    ASSUME TypeInv, NEW p \in Goroutine, NEW label \in Label, Goto(p, label),
           NEW f \in Frame, frame' = [frame EXCEPT ![p] = f],
           UNCHANGED <<sse, state, owner, crashed>>,
           listed' \in BOOLEAN, members' \in SUBSET User, sessions' \in SUBSET User,
           timer' \in BOOLEAN, done' \in SUBSET Stream, stale' \in SUBSET Stream,
           missed' \subseteq Stream \cup {None},
           pc'[p] = label /\ frame'[p] = f => LocalOK(p)'
    PROVE  TypeInv' /\ OthersStay(p)
<1>1. /\ pc' \in [Goroutine -> Label] /\ pc'[p] = label
      /\ frame' \in [Goroutine -> Frame] /\ frame'[p] = f /\ OthersStay(p)
    BY LocalType DEF OthersStay
<1>2. TypeOK' /\ OwnersOK'
    BY <1>1 DEF TypeInv, TypeOK, OwnersOK
<1> QED
    BY <1>1, <1>2, LocalsKept

\* Locals that stay.
LEMMA SameFrame ==
    ASSUME TypeInv, NEW p \in Goroutine, UNCHANGED frame
    PROVE  frame[p] \in Frame /\ frame' = [frame EXCEPT ![p] = frame[p]]
BY DEF TypeInv, TypeOK

\* What a use of user.SSE finds.
LEMMA LoadedType ==
    ASSUME TypeInv, NEW p \in Goroutine, frame[p].user \in User, NEW s \in Loaded(p)
    PROVE  s \in Stream \cup {None}
BY DEF TypeInv, TypeOK, Loaded, Frame

LEMMA SendType ==
    ASSUME TypeInv, NEW p \in Goroutine, Send(p)
    PROVE  TypeInv' /\ OthersStay(p)
<1>1. /\ UNCHANGED <<lobbyVars, sse, state, owner, done>> /\ pc[p] = "send"
      /\ frame[p] \in Frame /\ frame[p].todo \subseteq User
    BY LocalType DEF Send, Frame
<1>2. CASE /\ Panic(p)
           /\ missed' = missed \cup {sse[u] : u \in frame[p].todo}
           /\ UNCHANGED stale
    <2>1. missed' \subseteq Stream \cup {None}
        BY <1>1, <1>2 DEF TypeInv, TypeOK
    <2> QED
        BY <1>1, <1>2, <2>1, PanicType DEF streamVars
<1>3. ASSUME NEW s, stale' = stale \ {s}, missed' = missed \ {s}, Goto(p, "cast"), UNCHANGED crashed,
             frame' = [frame EXCEPT ![p].user = None, ![p].client = None]
      PROVE  TypeInv' /\ OthersStay(p)
    <2> DEFINE f == [frame[p] EXCEPT !.user = None, !.client = None]
    <2>1. f \in Frame /\ f.next = frame[p].next
        BY <1>1 DEF Frame
    <2>2. frame' = [frame EXCEPT ![p] = f]
        BY <1>3 DEF TypeInv, TypeOK
    <2> HIDE DEF f
    <2>3. pc'[p] = "cast" /\ frame'[p] = f => LocalOK(p)'
        BY <1>1, <1>3, <2>1 DEF TypeInv, LocalOK, Kicking
    <2> QED
        BY <1>1, <1>3, <2>1, <2>2, <2>3, GoType DEF TypeInv, TypeOK, lobbyVars, Label
<1> QED
    BY <1>2, <1>3 DEF Send

LEMMA TouchType ==
    ASSUME TypeInv, NEW p \in Goroutine, Touch(p) \/ Rearm(p)
    PROVE  TypeInv' /\ OthersStay(p)
<1>1. CASE Touch(p)
    <2>1. pc'[p] = "rearm" => LocalOK(p)'
        BY <1>1 DEF Touch, TypeInv, LocalOK, Kicking
    <2> QED
        BY <1>1, <2>1, SameFrame, GoType DEF Touch, TypeInv, TypeOK, streamVars, Label
<1>2. CASE Rearm(p)
    <2>1. /\ pc' \in [Goroutine -> Label] /\ frame' \in [Goroutine -> Frame]
          /\ pc'[p] = "idle" /\ OthersStay(p)
        BY <1>2, LocalType DEF Rearm
    <2>2. TypeOK' /\ OwnersOK'
        BY <1>2, <2>1 DEF Rearm, TypeInv, TypeOK, OwnersOK, streamVars
    <2>3. LocalOK(p)'
        BY <2>1 DEF LocalOK, Kicking
    <2> QED
        BY <2>1, <2>2, <2>3, LocalsKept
<1> QED
    BY <1>1, <1>2

LEMMA RemoveType ==
    ASSUME TypeInv, NEW p \in Goroutine, NEW u \in User, RemoveUser(p, u)
    PROVE  TypeInv' /\ OthersStay(p)
<1> DEFINE f == [Blank EXCEPT !.user = u, !.next = "cast"]
<1>1. f \in Frame /\ f.user = u /\ f.next = "cast"
    BY BlankType DEF Frame, Label
<1>2. frame' = [frame EXCEPT ![p] = f] /\ p # Minder
    BY DEF RemoveUser
<1> HIDE DEF f
<1>3. /\ pc' \in [Goroutine -> Label] /\ frame' \in [Goroutine -> Frame]
      /\ pc'[p] = "kickCheck" /\ frame'[p] = f /\ OthersStay(p)
    BY <1>1, <1>2, LocalType DEF RemoveUser, OthersStay, Label
<1>4. TypeOK' /\ OwnersOK'
    BY <1>3 DEF RemoveUser, streamVars, TypeInv, TypeOK, OwnersOK
<1>5. LocalOK(p)'
    BY <1>1, <1>2, <1>3 DEF LocalOK, Kicking
<1> QED
    BY <1>3, <1>4, <1>5, LocalsKept

LEMMA KickType ==
    ASSUME TypeInv, NEW p \in Goroutine,
           KickCheck(p) \/ KickErr(p) \/ KickSend(p) \/ KickCancel(p)
    PROVE  TypeInv' /\ OthersStay(p)
<1>1. /\ UNCHANGED <<lobbyVars, sse, state, owner, stale, missed>> /\ pc[p] \in Kicking
      /\ frame[p].user \in User /\ frame[p] \in Frame
    BY LocalType DEF KickCheck, KickErr, KickSend, KickCancel, streamVars, Kicking, TypeInv, LocalOK
<1>2. CASE Panic(p) /\ UNCHANGED done
    BY <1>1, <1>2, PanicType DEF streamVars, TypeInv, TypeOK
<1>3. ASSUME NEW label \in Kicking, Goto(p, label), UNCHANGED crashed,
             NEW f \in Frame, frame' = [frame EXCEPT ![p] = f],
             f.user = frame[p].user, f.next = frame[p].next, done' \in SUBSET Stream
      PROVE  TypeInv' /\ OthersStay(p)
    <2>1. label \in Label
        BY DEF Kicking, Label
    <2>2. pc'[p] = label /\ frame'[p] = f => LocalOK(p)'
        BY <1>1, <1>3 DEF TypeInv, LocalOK, Kicking
    <2> QED
        BY <1>1, <1>3, <2>1, <2>2, GoType DEF TypeInv, TypeOK, lobbyVars
<1>4. ASSUME NEW label \in Kicking, Goto(p, label), UNCHANGED crashed, NEW c \in Stream \cup {None},
             frame' = [frame EXCEPT ![p].client = c], done' \in SUBSET Stream
      PROVE  TypeInv' /\ OthersStay(p)
    <2> DEFINE f == [frame[p] EXCEPT !.client = c]
    <2>1. f \in Frame /\ f.user = frame[p].user /\ f.next = frame[p].next
        BY <1>1 DEF Frame
    <2>2. frame' = [frame EXCEPT ![p] = f]
        BY <1>4 DEF TypeInv, TypeOK
    <2> HIDE DEF f
    <2> QED
        BY <1>3, <1>4, <2>1, <2>2
<1>5. UNCHANGED done => done' \in SUBSET Stream
    BY DEF TypeInv, TypeOK
<1>6. CASE KickCheck(p)
    <2>1. sse[frame[p].user] \in Stream \cup {None} /\ UNCHANGED <<done, crashed>>
        BY <1>1, <1>6 DEF KickCheck, streamVars, TypeInv, TypeOK
    <2>2. CASE Goto(p, "forget") /\ UNCHANGED frame
        BY <1>1, <1>3, <1>5, <2>1, <2>2, SameFrame DEF Kicking
    <2>3. CASE /\ frame' = [frame EXCEPT ![p].client = sse[frame[p].user]]
               /\ Goto(p, IF p = Minder THEN "kickSend" ELSE "kickErr")
        BY <1>4, <1>5, <2>1, <2>3 DEF Kicking
    <2> QED
        BY <1>6, <2>2, <2>3 DEF KickCheck
<1>7. CASE KickErr(p)
    BY <1>2, <1>4, <1>5, <1>7 DEF KickErr, streamVars, Kicking
<1>8. CASE KickSend(p)
    BY <1>2, <1>4, <1>5, <1>8 DEF KickSend, streamVars, Kicking
<1>9. CASE KickCancel(p)
    <2>1. sse[frame[p].user] # None => done \cup {sse[frame[p].user]} \in SUBSET Stream
        BY <1>1 DEF TypeInv, TypeOK
    <2> QED
        BY <1>2, <1>3, <1>9, <2>1, SameFrame DEF KickCancel, Kicking
<1> QED
    BY <1>6, <1>7, <1>8, <1>9

LEMMA ForgetType ==
    ASSUME TypeInv, NEW p \in Goroutine, Forget(p)
    PROVE  TypeInv' /\ OthersStay(p)
<1>0. /\ UNCHANGED <<listed, timer, sse, state, owner, done, crashed>> /\ pc[p] = "forget"
      /\ frame[p].next = IF p = Minder THEN "kickRest" ELSE "cast"
    BY DEF Forget, TypeInv, LocalOK, Kicking
<1>1. CASE /\ Goto(p, "kickRest")
           /\ UNCHANGED <<sessions, stale, missed, frame, members>>
    <2>1. pc'[p] = "kickRest" => LocalOK(p)'
        BY DEF LocalOK, Kicking
    <2> QED
        BY <1>0, <1>1, <2>1, SameFrame, GoType DEF TypeInv, TypeOK, Label
<1>2. CASE /\ frame[p].next = "cast"
           /\ sessions' = sessions \ {frame[p].user}
           /\ stale' = AllStale /\ missed' = {}
           /\ UNCHANGED members
           /\ StartCast(p, "idle")
    <2>1. "idle" \in Then(p)
        BY <1>0, <1>2 DEF Then
    <2>2. /\ pc' \in [Goroutine -> Label] /\ frame' \in [Goroutine -> Frame]
          /\ OthersStay(p) /\ LocalOK(p)'
        BY <1>2, <2>1, CastType DEF TypeInv, TypeOK
    <2>3. TypeOK' /\ OwnersOK'
        BY <1>0, <1>2, <2>2 DEF AllStale, TypeInv, TypeOK, OwnersOK
    <2> QED
        BY <2>2, <2>3, LocalsKept
<1> QED
    BY <1>1, <1>2 DEF Forget

LEMMA FireType ==
    ASSUME TypeInv, FireExpiry
    PROVE  TypeInv' /\ OthersStay(Minder) /\ pc'[Minder] = "cast"
<1>1. "cancelAll" \in Then(Minder) /\ members' \in SUBSET User
    BY DEF Then, FireExpiry, TypeInv, TypeOK
<1>2. /\ pc' \in [Goroutine -> Label] /\ frame' \in [Goroutine -> Frame]
      /\ OthersStay(Minder) /\ LocalOK(Minder)' /\ pc'[Minder] = "cast"
    BY <1>1, Who, CastType DEF FireExpiry
<1>3. TypeOK' /\ OwnersOK'
    BY <1>2 DEF FireExpiry, streamVars, TypeInv, TypeOK, OwnersOK
<1> QED
    BY <1>2, <1>3, Who, LocalsKept

LEMMA ExpireType ==
    ASSUME TypeInv, Expire
    PROVE  TypeInv' /\ OthersStay(Minder) /\ pc'[Minder] # "idle"
<1>0. /\ frame \in [Goroutine -> Frame] /\ frame[Minder] \in Frame /\ Minder \in Goroutine
      /\ pc \in [Goroutine -> Label] /\ sse \in [User -> Stream \cup {None}]
      /\ members \in SUBSET User /\ frame[Minder].todo \in SUBSET User
    BY Who DEF TypeInv, TypeOK, Frame
<1>1. CASE CancelAll \/ Unlist
    <2> DEFINE f == [Blank EXCEPT !.todo = members]
    <2>1. f \in Frame
        BY <1>0, BlankType DEF Frame
    <2>2. frame' = [frame EXCEPT ![Minder] = f]
        BY <1>1 DEF CancelAll, Unlist
    <2> HIDE DEF f
    <2>3. /\ pc' \in [Goroutine -> Label] /\ pc'[Minder] \in {"cancel", "kickRest"}
          /\ frame' \in [Goroutine -> Frame] /\ OthersStay(Minder)
        BY <1>0, <1>1, <2>1, <2>2, LocalType DEF CancelAll, Unlist, OthersStay, Label
    <2>4. TypeOK' /\ OwnersOK'
        BY <1>1, <2>3 DEF CancelAll, Unlist, TypeInv, TypeOK, OwnersOK, lobbyVars, streamVars
    <2>5. LocalOK(Minder)'
        BY <2>3 DEF LocalOK, Kicking
    <2> QED
        BY <1>0, <2>3, <2>4, <2>5, LocalsKept
<1>2. CASE Clear
    <2>1. pc'[Minder] = "unlist"
        BY <1>0, <1>2, LocalType DEF Clear, Label
    <2>2. LocalOK(Minder)'
        BY <2>1 DEF LocalOK, Kicking
    <2> QED
        BY <1>0, <1>2, <2>1, <2>2, SameFrame, GoType DEF Clear, TypeInv, TypeOK, streamVars, Label
<1>3. CASE Cancel
    <2>0. UNCHANGED <<lobbyVars, streamVars, crashed, missed>> /\ pc[Minder] = "cancel"
        BY <1>3 DEF Cancel
    <2>1. ASSUME NEW label \in {"cancel", "cancelUser", "clear"}, pc' = [pc EXCEPT ![Minder] = label],
                 NEW f \in Frame, frame' = [frame EXCEPT ![Minder] = f],
                 label = "cancelUser" => f.user \in User /\ f.client \in Stream
          PROVE  TypeInv' /\ OthersStay(Minder) /\ pc'[Minder] # "idle"
        <3>1. label \in Label /\ pc'[Minder] = label
            BY <1>0, <2>1 DEF Label
        <3>2. pc'[Minder] = label /\ frame'[Minder] = f => LocalOK(Minder)'
            BY <2>1 DEF LocalOK, Kicking
        <3> QED
            BY <1>0, <2>0, <2>1, <3>1, <3>2, GoType DEF Goto, TypeInv, TypeOK, lobbyVars, streamVars
    <2>2. ASSUME NEW u \in frame[Minder].todo, UNCHANGED pc,
                 frame' = [frame EXCEPT ![Minder] = [@ EXCEPT !.todo = frame[Minder].todo \ {u}]]
          PROVE  TypeInv' /\ OthersStay(Minder) /\ pc'[Minder] # "idle"
        <3> DEFINE f == [frame[Minder] EXCEPT !.todo = frame[Minder].todo \ {u}]
        <3>1. f \in Frame
            BY <1>0 DEF Frame
        <3>2. frame' = [frame EXCEPT ![Minder] = f]
            BY <2>2
        <3>3. pc' = [pc EXCEPT ![Minder] = "cancel"]
            BY <1>0, <2>0, <2>2
        <3> HIDE DEF f
        <3> QED
            BY <2>1, <3>1, <3>2, <3>3
    <2>3. ASSUME NEW u \in frame[Minder].todo, sse[u] # None, Goto(Minder, "cancelUser"),
                 frame' = [frame EXCEPT ![Minder] = [@ EXCEPT !.todo = frame[Minder].todo \ {u},
                                                              !.user = u, !.client = sse[u]]]
          PROVE  TypeInv' /\ OthersStay(Minder) /\ pc'[Minder] # "idle"
        <3> DEFINE f == [frame[Minder] EXCEPT !.todo = frame[Minder].todo \ {u}, !.user = u,
                                              !.client = sse[u]]
        <3>1. f \in Frame /\ f.user \in User /\ f.client \in Stream
            BY <1>0, <2>3 DEF Frame
        <3>2. frame' = [frame EXCEPT ![Minder] = f]
            BY <2>3
        <3> HIDE DEF f
        <3> QED
            BY <2>1, <2>3, <3>1, <3>2 DEF Goto
    <2>4. CASE Goto(Minder, "clear") /\ UNCHANGED frame
        BY <1>0, <2>1, <2>4, SameFrame DEF Goto
    <2> QED
        BY <1>3, <2>2, <2>3, <2>4 DEF Cancel
<1>5. CASE CancelUser
    <2>0. /\ UNCHANGED <<lobbyVars, sse, state, owner, stale, missed>> /\ pc[Minder] = "cancelUser"
          /\ frame[Minder].user \in User
        BY <1>0, <1>5 DEF CancelUser, TypeInv, LocalOK
    <2>1. ASSUME NEW s \in Loaded(Minder), s # None, done' = Cancelled(s), Goto(Minder, "cancel"),
                 frame' = [frame EXCEPT ![Minder].user = None, ![Minder].client = None],
                 UNCHANGED crashed
          PROVE  TypeInv' /\ OthersStay(Minder) /\ pc'[Minder] # "idle"
        <3> DEFINE f == [frame[Minder] EXCEPT !.user = None, !.client = None]
        <3>1. f \in Frame /\ frame' = [frame EXCEPT ![Minder] = f]
            BY <1>0, <2>1 DEF Frame
        <3> HIDE DEF f
        <3>2. done' \in SUBSET Stream
            BY <1>0, <2>0, <2>1, LoadedType DEF Cancelled, TypeInv, TypeOK
        <3>3. pc'[Minder] = "cancel"
            BY <1>0, <2>1 DEF Goto
        <3>4. pc'[Minder] = "cancel" /\ frame'[Minder] = f => LocalOK(Minder)'
            BY DEF LocalOK, Kicking
        <3> QED
            BY <1>0, <2>0, <2>1, <3>1, <3>2, <3>3, <3>4, GoType DEF TypeInv, TypeOK, lobbyVars, Label
    <2>2. CASE Panic(Minder) /\ UNCHANGED done
        <3>1. UNCHANGED pc
            BY <2>2, Who DEF Panic
        <3> QED
            BY <1>0, <2>0, <2>2, <3>1, PanicType DEF streamVars, TypeInv, TypeOK
    <2> QED
        BY <1>5, <2>1, <2>2 DEF CancelUser
<1>4. CASE KickRest
    <2>1. ASSUME NEW u \in frame[Minder].todo,
                 frame' = [frame EXCEPT ![Minder] = [@ EXCEPT !.todo = frame[Minder].todo \ {u}, !.user = u,
                                                              !.next = "kickRest"]],
                 Goto(Minder, "kickCheck"), UNCHANGED timer
          PROVE  TypeInv' /\ OthersStay(Minder) /\ pc'[Minder] # "idle"
        <3> DEFINE f == [frame[Minder] EXCEPT !.todo = frame[Minder].todo \ {u}, !.user = u,
                                              !.next = "kickRest"]
        <3>1. f \in Frame /\ f.user = u /\ f.next = "kickRest" /\ u \in User
            BY <1>0 DEF Frame, Label
        <3>2. frame' = [frame EXCEPT ![Minder] = f]
            BY <2>1
        <3> HIDE DEF f
        <3>3. /\ pc' \in [Goroutine -> Label] /\ pc'[Minder] = "kickCheck"
              /\ frame' \in [Goroutine -> Frame] /\ frame'[Minder] = f /\ OthersStay(Minder)
            BY <1>0, <2>1, <3>1, <3>2, LocalType DEF OthersStay, Label
        <3>4. TypeOK' /\ OwnersOK'
            BY <1>4, <2>1, <3>3 DEF KickRest, TypeInv, TypeOK, OwnersOK, streamVars
        <3>5. LocalOK(Minder)'
            BY <3>1, <3>3 DEF LocalOK, Kicking
        <3> QED
            BY <1>0, <3>3, <3>4, <3>5, LocalsKept
    <2>2. CASE /\ timer' = FALSE
               /\ frame' = [frame EXCEPT ![Minder] = Blank]
               /\ Goto(Minder, "stopped")
        <3>1. /\ pc' \in [Goroutine -> Label] /\ pc'[Minder] = "stopped"
              /\ frame' \in [Goroutine -> Frame] /\ OthersStay(Minder)
            BY <1>0, <2>2, BlankType, LocalType DEF OthersStay, Label
        <3>2. TypeOK' /\ OwnersOK'
            BY <1>4, <2>2, <3>1 DEF KickRest, TypeInv, TypeOK, OwnersOK, streamVars
        <3>3. LocalOK(Minder)'
            BY <3>1 DEF LocalOK, Kicking
        <3> QED
            BY <1>0, <3>1, <3>2, <3>3, LocalsKept
    <2> QED
        BY <1>4, <2>1, <2>2 DEF KickRest
<1> QED
    BY <1>1, <1>2, <1>3, <1>4, <1>5 DEF Expire

\* The streams' own steps.
Streaming ==
    \/ \E s \in Stream : Handle(s) \/ Drop(s)
    \/ \E s, t \in Stream : Reconnect(s, t)

LEMMA StreamingType ==
    ASSUME TypeInv, Streaming
    PROVE  TypeInv' /\ UNCHANGED <<pc, frame, lobbyVars>>
<1>1. UNCHANGED <<pc, frame, lobbyVars, crashed>>
    BY DEF Streaming, Handle, Drop, Reconnect, Connect, Register, Close, Finish
<1>2. ASSUME NEW s \in Stream, Handle(s) PROVE TypeOK' /\ OwnersOK'
    <2>1. CASE Connect(s)
        BY <2>1 DEF Connect, lobbyVars, TypeInv, TypeOK, OwnersOK, State
    <2>2. CASE Register(s)
        BY <2>2 DEF Register, lobbyVars, TypeInv, TypeOK, OwnersOK, State
    <2>3. CASE Close(s)
        BY <2>3 DEF Close, lobbyVars, TypeInv, TypeOK, OwnersOK, State
    <2>4. CASE Finish(s)
        BY <2>4 DEF Finish, Away, lobbyVars, TypeInv, TypeOK, OwnersOK, State
    <2> QED
        BY <1>2, <2>1, <2>2, <2>3, <2>4 DEF Handle
<1>3. ASSUME NEW s \in Stream, Drop(s) PROVE TypeOK' /\ OwnersOK'
    BY <1>3 DEF Drop, lobbyVars, TypeInv, TypeOK, OwnersOK
<1>4. ASSUME NEW s \in Stream, NEW t \in Stream, Reconnect(s, t) PROVE TypeOK' /\ OwnersOK'
    BY <1>4 DEF Reconnect, lobbyVars, TypeInv, TypeOK, OwnersOK, State
<1>5. TypeOK' /\ OwnersOK'
    BY <1>2, <1>3, <1>4 DEF Streaming
<1> QED
    BY <1>1, <1>5 DEF TypeInv, LocalOK

LEMMA ArriveType ==
    ASSUME TypeInv, NEW p \in Request, Arrive(p)
    PROVE  TypeInv' /\ OthersStay(p)
BY UpdateType, JoinType, PageType DEF Arrive

LEMMA ContinueType ==
    ASSUME TypeInv, NEW p \in Goroutine, Continue(p)
    PROVE  TypeInv' /\ OthersStay(p)
BY EnterType, LoopType, SendType, TouchType, KickType, ForgetType DEF Continue

LEMMA TypeStep == TypeInv /\ [Next]_vars => TypeInv'
<1> SUFFICES ASSUME TypeInv, [Next]_vars PROVE TypeInv'
    OBVIOUS
<1>1. CASE UNCHANGED vars
    BY <1>1 DEF vars, lobbyVars, streamVars, TypeInv, TypeOK, OwnersOK, LocalOK
<1> QED
    BY <1>1, ArriveType, RemoveType, ContinueType, FireType, ExpireType, StreamingType
       DEF Next, Streaming

LEMMA TypeInit == Init => TypeInv
<1> SUFFICES ASSUME Init PROVE TypeInv
    OBVIOUS
<1>1. TypeOK
    BY BlankType DEF Init, TypeOK, State, Label
<1>2. OwnersOK /\ \A p \in Goroutine : LocalOK(p)
    BY DEF Init, OwnersOK, LocalOK, Kicking
<1> QED
    BY <1>1, <1>2 DEF TypeInv

\* The lobby, the streams and the goroutines keep their types, whatever panics.
THEOREM Typing == Spec => []TypeOK
<1>1. TypeInv => TypeOK
    BY DEF TypeInv
<1> QED
    BY <1>1, TypeInit, TypeStep, PTL DEF Spec

-----------------------------------------------------------------------------
(* Registered streams *)

LEMMA RegisteredStep == TypeInv /\ RegisteredRuns /\ [Next]_vars => RegisteredRuns'
<1> SUFFICES ASSUME TypeInv, RegisteredRuns, [Next]_vars PROVE RegisteredRuns'
    OBVIOUS
<1>0. /\ sse \in [User -> Stream \cup {None}] /\ state \in [Stream -> State]
      /\ owner \in [Stream -> User \cup {None}]
      /\ \A s \in Stream : state[s] # "away" => owner[s] \in User
    BY DEF TypeInv, TypeOK, OwnersOK
<1>1. CASE UNCHANGED <<sse, state, owner>>
    BY <1>1 DEF RegisteredRuns
<1>2. ASSUME NEW p \in Request, Arrive(p) PROVE RegisteredRuns'
    <2>1. ASSUME NEW u \in User, NEW t \in Stream, Page(p, u, t) PROVE RegisteredRuns'
        BY <1>0, <2>1 DEF Page, Unused, RegisteredRuns
    <2>2. CASE Update(p) \/ \E u \in User : Join(p, u)
        BY <1>1, <2>2 DEF Update, Join, streamVars
    <2> QED
        BY <1>2, <2>1, <2>2 DEF Arrive
<1>3. ASSUME NEW p \in Goroutine, Continue(p) PROVE UNCHANGED <<sse, state, owner>>
    BY <1>3 DEF Continue, Enter, Cast, Send, Touch, Rearm, KickCheck, KickErr, KickSend, KickCancel,
                Forget, streamVars
<1>4. ASSUME NEW p \in Goroutine, NEW u \in User, RemoveUser(p, u)
      PROVE  UNCHANGED <<sse, state, owner>>
    BY <1>4 DEF RemoveUser, streamVars
<1>5. ASSUME FireExpiry \/ Expire PROVE UNCHANGED <<sse, state, owner>>
    BY <1>5 DEF FireExpiry, Expire, CancelAll, Cancel, CancelUser, Clear, Unlist, KickRest, streamVars
<1>6. ASSUME NEW s \in Stream, Handle(s) PROVE RegisteredRuns'
    <2>1. CASE Connect(s)
        BY <1>0, <2>1 DEF Connect, RegisteredRuns
    <2>2. CASE Register(s)
        BY <1>0, <2>2 DEF Register, RegisteredRuns
    <2>3. CASE Close(s)
        BY <1>0, <2>3 DEF Close, RegisteredRuns
    <2>4. CASE Finish(s)
        <3>1. owner[s] \in User
            BY <1>0, <2>4 DEF Finish
        <3>2. \A u \in User : sse'[u] # None => sse'[u] = sse[u] /\ u # owner[s]
            BY <1>0, <2>4, <3>1 DEF Finish
        <3>3. \A u \in User : sse'[u] # None => sse[u] # s
            BY <3>2 DEF RegisteredRuns
        <3> QED
            BY <1>0, <2>4, <3>2, <3>3 DEF Finish, Away, RegisteredRuns
    <2> QED
        BY <1>6, <2>1, <2>2, <2>3, <2>4 DEF Handle
<1>7. ASSUME NEW s \in Stream, Drop(s) PROVE UNCHANGED <<sse, state, owner>>
    BY <1>7 DEF Drop
<1>8. ASSUME NEW s \in Stream, NEW t \in Stream, Reconnect(s, t) PROVE RegisteredRuns'
    BY <1>0, <1>8 DEF Reconnect, Unused, RegisteredRuns
<1>9. CASE UNCHANGED vars
    BY <1>1, <1>9 DEF vars, streamVars
<1> QED
    BY <1>1, <1>2, <1>3, <1>4, <1>5, <1>6, <1>7, <1>8, <1>9 DEF Next

\* No user's SSE ever points to a response whose handler has returned, or to
\* somebody else's, however the connections of one user overlap.
THEOREM StreamsRun == Spec => []RegisteredRuns
<1>1. Init => RegisteredRuns
    BY DEF Init, RegisteredRuns
<1> QED
    BY <1>1, TypeInit, TypeStep, RegisteredStep, PTL DEF Spec

-----------------------------------------------------------------------------
(* The expiry *)

\* Somebody who is at "rearm" stays there until the timer runs.
LEMMA PendingKept ==
    ASSUME TypeInv, ExpiryPending, NEW p \in Goroutine, OthersStay(p),
           UNCHANGED timer, listed' => listed,
           pc[p] # "rearm",
           p = Minder /\ pc[Minder] # "idle" => pc'[Minder] # "idle"
    PROVE  ExpiryPending'
BY Who DEF ExpiryPending, OthersStay

LEMMA PendingStep == TypeInv /\ ExpiryPending /\ [Next]_vars => ExpiryPending'
<1> SUFFICES ASSUME TypeInv, ExpiryPending, [Next]_vars PROVE ExpiryPending'
    OBVIOUS
<1>1. ASSUME NEW p \in Request, Arrive(p) PROVE ExpiryPending'
    <2>1. UNCHANGED <<timer, listed>> /\ pc[p] = "idle"
        BY <1>1 DEF Arrive, Update, Join, Page, lobbyVars
    <2> QED
        BY <1>1, <2>1, Who, ArriveType, PendingKept
<1>2. ASSUME NEW p \in Goroutine, NEW u \in User, RemoveUser(p, u) PROVE ExpiryPending'
    <2>1. UNCHANGED <<timer, listed>> /\ pc[p] = "idle" /\ p # Minder
        BY <1>2 DEF RemoveUser
    <2> QED
        BY <1>2, <2>1, RemoveType, PendingKept
<1>3. ASSUME NEW p \in Goroutine, Continue(p) PROVE ExpiryPending'
    <2>0. OthersStay(p) /\ LocalOK(p)
        BY <1>3, ContinueType DEF TypeInv
    <2>1. CASE Touch(p)
        <3>1. p \in Request /\ pc'[p] = "rearm"
            BY <2>0, <2>1, LocalType DEF Touch, LocalOK, Label
        <3> QED
            BY <3>1 DEF ExpiryPending
    <2>2. CASE Rearm(p)
        BY <2>2 DEF Rearm, ExpiryPending
    <2>3. CASE \/ Enter(p) \/ Send(p) \/ Cast(p) \/ Forget(p)
               \/ KickCheck(p) \/ KickErr(p) \/ KickSend(p) \/ KickCancel(p)
        <3>1. /\ UNCHANGED <<timer, listed>>
              /\ pc[p] \in {"enter", "cast", "send", "kickCheck", "kickErr", "kickSend",
                           "kickCancel", "forget"}
            BY <2>3 DEF Enter, Cast, Send, KickCheck, KickErr, KickSend, KickCancel, Forget, lobbyVars
        <3>2. p = Minder => pc'[Minder] # "idle"
            <4> SUFFICES ASSUME p = Minder PROVE pc'[p] # "idle"
                OBVIOUS
            <4>1. p \notin Request /\ Then(p) = {"cancelAll"}
                BY Who DEF Then
            <4>2. Panic(p) => UNCHANGED <<pc, frame>>
                BY <4>1 DEF Panic
            <4>3. pc \in [Goroutine -> Label]
                BY DEF TypeInv, TypeOK
            <4>4. CASE Enter(p)
                BY <2>0, <4>1, <4>4 DEF Enter, LocalOK
            <4>5. CASE Send(p)
                BY <3>1, <4>2, <4>3, <4>5 DEF Send, Goto
            <4>6. CASE Cast(p)
                <5>1. pc[p] = "cast" /\ frame[p].next = "cancelAll"
                    BY <2>0, <4>1, <4>6 DEF Cast, LocalOK
                <5> QED
                    BY <4>3, <4>6, <5>1 DEF Cast, Goto
            <4>7. CASE KickCheck(p) \/ KickErr(p) \/ KickSend(p) \/ KickCancel(p)
                BY <3>1, <4>2, <4>3, <4>7 DEF KickCheck, KickErr, KickSend, KickCancel, Goto
            <4>8. CASE Forget(p)
                BY <4>3, <4>8 DEF Forget, StartCast, Goto
            <4> QED
                BY <2>3, <4>4, <4>5, <4>6, <4>7, <4>8
        <3> QED
            BY <2>0, <3>1, <3>2, PendingKept
    <2> QED
        BY <1>3, <2>1, <2>2, <2>3 DEF Continue
<1>4. CASE FireExpiry
    BY <1>4, FireType DEF ExpiryPending
<1>5. CASE Expire
    BY <1>5, ExpireType DEF ExpiryPending
<1>6. CASE Streaming
    BY <1>6, StreamingType DEF ExpiryPending, lobbyVars
<1>7. CASE UNCHANGED vars
    BY <1>7 DEF vars, lobbyVars, ExpiryPending
<1> QED
    BY <1>1, <1>2, <1>3, <1>4, <1>5, <1>6, <1>7 DEF Next, Streaming

\* However many requests touch the lobby at a time, none leaves it without a timer.
THEOREM ExpiryComes == Spec => []ExpiryPending
<1>1. Init => ExpiryPending
    BY DEF Init, ExpiryPending
<1> QED
    BY <1>1, TypeInit, TypeStep, PendingStep, PTL DEF Spec

-----------------------------------------------------------------------------
(* The pages *)

\* A Broadcast that p does not make goes on, and so does none that p is not making.
LEMMA ComingKept ==
    ASSUME NEW p \in Goroutine, OthersStay(p), pc[p] \notin {"cast", "send"},
           NEW u, NEW s, Coming(u, s)
    PROVE  Coming(u, s)'
BY DEF Coming, OthersStay

LEMMA ToldKept ==
    ASSUME PagesTold, NEW p \in Goroutine, OthersStay(p), pc[p] \notin {"cast", "send"},
           members' \subseteq members, UNCHANGED <<sse, stale, missed>>
    PROVE  PagesTold'
<1> SUFFICES ASSUME NEW u \in members', sse'[u] \in stale', sse'[u] \notin missed'
             PROVE  Coming(u, sse[u])'
    BY DEF PagesTold, Coming
<1>1. Coming(u, sse[u])
    BY DEF PagesTold
<1> QED
    BY <1>1, ComingKept DEF Coming, OthersStay

\* The Broadcast of a change finds everybody who is in the lobby.
LEMMA CastTells ==
    ASSUME TypeInv, NEW p \in Goroutine, NEW next \in Then(p), StartCast(p, next),
           members' \in SUBSET User
    PROVE  PagesTold'
<1>1. pc'[p] = "cast" /\ frame'[p].todo = members'
    BY DEF StartCast, Goto, TypeInv, TypeOK, Blank
<1> QED
    BY <1>1 DEF PagesTold, Coming

LEMMA LoopTells ==
    ASSUME TypeInv, PagesTold, NEW p \in Goroutine, Cast(p)
    PROVE  PagesTold'
<1>1. /\ UNCHANGED <<members, sse, stale, missed>> /\ pc[p] = "cast" /\ OthersStay(p)
      /\ pc \in [Goroutine -> Label] /\ frame \in [Goroutine -> Frame]
      /\ stale \subseteq Stream
    BY LoopType DEF Cast, lobbyVars, streamVars, TypeInv, TypeOK
<1> SUFFICES ASSUME NEW u \in members, sse[u] \in stale, sse[u] \notin missed
             PROVE  Coming(u, sse[u])'
    BY <1>1 DEF PagesTold, Coming
<1>2. Coming(u, sse[u]) /\ sse[u] # None
    BY <1>1, NoneAssumption DEF PagesTold
<1>3. CASE u \in frame[p].todo
    <2>1. CASE \E v \in frame[p].todo :
                 /\ sse[v] = None
                 /\ frame' = [frame EXCEPT ![p] = [@ EXCEPT !.todo = frame[p].todo \ {v}]]
                 /\ UNCHANGED pc
        <3>1. pc'[p] = "cast" /\ u \in frame'[p].todo
            BY <1>1, <1>2, <1>3, <2>1 DEF Frame
        <3> QED
            BY <1>1, <3>1 DEF Coming
    <2>2. ASSUME NEW v \in frame[p].todo, sse[v] # None, Goto(p, "send"),
                 frame' = [frame EXCEPT ![p] = [@ EXCEPT !.todo = frame[p].todo \ {v}, !.user = v,
                                                         !.client = sse[v]]]
          PROVE  Coming(u, sse[u])'
        <3>1. /\ pc'[p] = "send" /\ frame'[p].user = v /\ frame'[p].client = sse[v]
              /\ frame'[p].todo = frame[p].todo \ {v}
            BY <1>1, <2>2 DEF Goto, Frame
        <3>2. CASE u = v
            BY <1>1, <3>1, <3>2 DEF Coming
        <3>3. CASE u # v
            BY <1>1, <1>3, <3>1, <3>3 DEF Coming
        <3> QED
            BY <3>2, <3>3
    <2> QED
        BY <1>3, <2>1, <2>2 DEF Cast
<1>4. CASE u \notin frame[p].todo
    BY <1>1, <1>2, <1>4 DEF Coming, OthersStay
<1> QED
    BY <1>3, <1>4

LEMMA SendTells ==
    ASSUME TypeInv, RegisteredRuns, PagesTold, NEW p \in Goroutine, Send(p)
    PROVE  PagesTold'
<1>1. /\ UNCHANGED <<members, sse>> /\ pc[p] = "send" /\ OthersStay(p)
      /\ pc \in [Goroutine -> Label] /\ frame \in [Goroutine -> Frame]
      /\ stale \subseteq Stream /\ members \subseteq User
    BY SendType DEF Send, lobbyVars, TypeInv, TypeOK
<1> SUFFICES ASSUME NEW u \in members, sse[u] \in stale', sse[u] \notin missed'
             PROVE  Coming(u, sse[u])'
    BY <1>1 DEF PagesTold, Coming
<1>2. CASE /\ \E s \in Loaded(p) \ {None} : stale' = stale \ {s} /\ missed' = missed \ {s}
           /\ Goto(p, "cast")
           /\ frame' = [frame EXCEPT ![p].user = None, ![p].client = None]
    <2>1. PICK s \in Loaded(p) : stale' = stale \ {s} /\ missed' = missed \ {s}
        BY <1>2
    <2>2. Coming(u, sse[u]) /\ s # sse[u]
        BY <2>1 DEF PagesTold
    <2>3. ~(frame[p].user = u /\ frame[p].client = sse[u])
        BY <2>2 DEF Loaded
    <2>4. pc'[p] = "cast" /\ frame'[p].todo = frame[p].todo
        BY <1>1, <1>2 DEF Goto, Frame
    <2> QED
        BY <1>1, <2>2, <2>3, <2>4 DEF Coming, OthersStay
<1>3. CASE /\ \E s \in Loaded(p) : Gone(s)
           /\ missed' = missed \cup {sse[v] : v \in frame[p].todo}
           /\ UNCHANGED stale
    <2>1. u \notin frame[p].todo /\ Coming(u, sse[u]) /\ sse[u] \in Stream
        BY <1>1, <1>3 DEF PagesTold
    <2>2. ~Gone(sse[u])
        BY <1>1, <2>1, NoneAssumption DEF Gone, RegisteredRuns
    <2>3. ~(frame[p].user = u /\ frame[p].client = sse[u])
        BY <1>3, <2>2 DEF Loaded
    <2> QED
        BY <1>1, <2>1, <2>3 DEF Coming, OthersStay
<1> QED
    BY <1>2, <1>3 DEF Send

LEMMA StreamingTells ==
    ASSUME TypeInv, RegisteredRuns, PagesTold, Streaming
    PROVE  PagesTold'
<1>0. /\ UNCHANGED <<members, pc, frame>> /\ members \subseteq User
      /\ sse \in [User -> Stream \cup {None}] /\ stale \subseteq Stream
      /\ owner \in [Stream -> User \cup {None}]
      /\ \A u, s : Coming(u, s) => Coming(u, s)'
    BY StreamingType DEF lobbyVars, TypeInv, TypeOK, Coming
<1>1. ASSUME NEW s \in Stream, Connect(s) \/ Close(s) \/ Drop(s)
      PROVE  PagesTold'
    BY <1>0, <1>1 DEF Connect, Close, Drop, PagesTold, Coming
<1>2. ASSUME NEW s \in Stream, Register(s)
      PROVE  PagesTold'
    <2> SUFFICES ASSUME NEW u \in members, sse'[u] \in stale, sse'[u] \notin missed'
                 PROVE  Coming(u, sse'[u])
        BY <1>0, <1>2 DEF Register, PagesTold, Coming
    <2>1. CASE u = owner[s]
        BY <1>0, <1>2, <2>1 DEF Register
    <2>2. CASE u # owner[s]
        BY <1>0, <1>2, <2>2 DEF Register, PagesTold
    <2> QED
        BY <2>1, <2>2
<1>3. ASSUME NEW s \in Stream, Finish(s)
      PROVE  PagesTold'
    <2>1. ASSUME NEW u \in members, sse'[u] \in stale' PROVE sse'[u] = sse[u] /\ sse[u] # s
        BY <1>0, <1>3, <2>1, NoneAssumption DEF Finish, Away
    <2>2. stale' = stale \ {s} /\ missed' = missed \ {s}
        BY <1>3 DEF Finish, Away
    <2> QED
        BY <1>0, <2>1, <2>2 DEF PagesTold, Coming
<1>4. ASSUME NEW s \in Stream, NEW t \in Stream, Reconnect(s, t)
      PROVE  PagesTold'
    <2>1. \A u \in members : sse[u] # None => sse[u] # t
        BY <1>0, <1>4 DEF Reconnect, Unused, RegisteredRuns
    <2>2. UNCHANGED <<sse, missed>> /\ stale' \subseteq stale \cup {t}
        BY <1>4 DEF Reconnect
    <2>3. \A u \in members : sse[u] \in stale' => sse[u] \in stale
        BY <1>0, <2>1, <2>2, NoneAssumption
    <2> QED
        BY <1>0, <2>2, <2>3 DEF PagesTold, Coming
<1> QED
    BY <1>1, <1>2, <1>3, <1>4 DEF Streaming, Handle

LEMMA ToldStep == TypeInv /\ RegisteredRuns /\ PagesTold /\ [Next]_vars => PagesTold'
<1> SUFFICES ASSUME TypeInv, RegisteredRuns, PagesTold, [Next]_vars PROVE PagesTold'
    OBVIOUS
<1>0. members' \in SUBSET User
    BY TypeStep DEF TypeInv, TypeOK
<1>1. ASSUME NEW p \in Request, Arrive(p) PROVE PagesTold'
    <2>1. CASE Update(p)
        BY <1>0, <2>1, Who, CastTells DEF Update, Then
    <2>2. CASE (\E u \in User : Join(p, u)) \/ \E u \in User, t \in Stream : Page(p, u, t)
        <3>1. UNCHANGED <<members, sse, stale, missed>> /\ pc[p] = "idle" /\ OthersStay(p)
            BY <1>1, <2>2, ArriveType DEF Join, Page, lobbyVars, streamVars
        <3> QED
            BY <3>1, Who, ToldKept
    <2> QED
        BY <1>1, <2>1, <2>2 DEF Arrive
<1>2. ASSUME NEW p \in Goroutine, NEW u \in User, RemoveUser(p, u) PROVE PagesTold'
    BY <1>2, RemoveType, ToldKept DEF RemoveUser, streamVars
<1>3. ASSUME NEW p \in Goroutine, Continue(p) PROVE PagesTold'
    <2>0. OthersStay(p) /\ LocalOK(p)
        BY <1>3, ContinueType DEF TypeInv
    <2>1. CASE Enter(p)
        <3>1. "touch" \in Then(p)
            BY <2>0, <2>1, Who DEF Enter, LocalOK, Then
        <3> QED
            BY <1>0, <2>1, <3>1, CastTells DEF Enter
    <2>2. CASE Cast(p) \/ Send(p)
        BY <2>2, LoopTells, SendTells
    <2>3. CASE \/ Touch(p) \/ Rearm(p)
               \/ KickCheck(p) \/ KickErr(p) \/ KickSend(p) \/ KickCancel(p)
        <3>1. /\ UNCHANGED <<members, sse, stale, missed>>
              /\ pc[p] \in {"touch", "rearm", "kickCheck", "kickErr", "kickSend", "kickCancel"}
            BY <2>3 DEF Touch, Rearm, KickCheck, KickErr, KickSend, KickCancel, lobbyVars, streamVars
        <3> QED
            BY <2>0, <3>1, ToldKept
    <2>4. CASE Forget(p)
        <3>1. CASE UNCHANGED <<sessions, stale, missed, frame, members>>
            BY <2>0, <2>4, <3>1, ToldKept DEF Forget
        <3>2. CASE frame[p].next = "cast" /\ StartCast(p, "idle")
            <4>1. "idle" \in Then(p)
                BY <2>0, <2>4, <3>2 DEF Forget, LocalOK, Kicking, Then
            <4> QED
                BY <1>0, <3>2, <4>1, CastTells
        <3> QED
            BY <2>4, <3>1, <3>2 DEF Forget
    <2> QED
        BY <1>3, <2>1, <2>2, <2>3, <2>4 DEF Continue
<1>4. CASE FireExpiry
    BY <1>0, <1>4, Who, CastTells DEF FireExpiry, Then
<1>5. CASE Expire
    <2>1. /\ UNCHANGED <<sse, stale, missed>> /\ members' \subseteq members
          /\ pc[Minder] \in {"cancelAll", "cancel", "cancelUser", "clear", "unlist", "kickRest"}
        BY <1>5 DEF Expire, CancelAll, Cancel, CancelUser, Clear, Unlist, KickRest, lobbyVars, streamVars
    <2> QED
        BY <1>5, <2>1, Who, ExpireType, ToldKept
<1>6. CASE Streaming
    BY <1>6, StreamingTells
<1>7. CASE UNCHANGED vars
    BY <1>7 DEF vars, lobbyVars, streamVars, PagesTold, Coming
<1> QED
    BY <1>1, <1>2, <1>3, <1>4, <1>5, <1>6, <1>7 DEF Next, Streaming

\* A change reaches everybody: a page in a lobby that shows an old picture on a registered
\* stream has a Broadcast coming, unless it registered after the Broadcast had passed, or
\* a panic over the stream of another user ended it.
THEOREM NobodySkipped == Spec => []PagesTold
<1>1. Init => PagesTold
    BY DEF Init, PagesTold
<1>2. Init => RegisteredRuns
    BY DEF Init, RegisteredRuns
<1> QED
    BY <1>1, <1>2, TypeInit, TypeStep, RegisteredStep, ToldStep, PTL DEF Spec

=============================================================================
