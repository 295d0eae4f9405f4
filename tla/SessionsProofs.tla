--------------------------- MODULE SessionsProofs ---------------------------
(***************************************************************************)
(* The invariants of Sessions, for every set of users, addresses and       *)
(* lobbies, and any number of requests and cleanups.                       *)
(***************************************************************************)
EXTENDS Sessions, TLAPS

\* The locals of a handler that makes a user.
Making(p) ==
    /\ p \in Request
    /\ frame[p].user \in User /\ frame[p].ip = IPOf[frame[p].user]
    /\ frame[p].lobby \in Lobby

MakeLabel == {"device", "cookie", "address", "register", "session", "open", "enter"}

RemoveLabel == {"drop", "forget"}

\* What goroutine p's locals hold where they are used.
LocalOK(p) ==
    /\ pc[p] \in MakeLabel => Making(p)
    /\ pc[p] \in RemoveLabel =>
          /\ frame[p].old \in User
          /\ frame[p].next = "check" \/ (frame[p].next \in {"address", "register"} /\ Making(p))

\* An address belongs to the user found under it.
AddressOK == \A ip \in IP : byIP[ip] # None => IPOf[byIP[ip]] = ip

TypeInv == TypeOK /\ AddressOK /\ \A p \in Goroutine : LocalOK(p)

\* p makes a step: the other goroutines stay where they are.
OthersStay(p) == \A q \in Goroutine \ {p} : pc'[q] = pc[q] /\ frame'[q] = frame[q]

-----------------------------------------------------------------------------
(* Typing *)

LEMMA BlankType == Blank \in Frame
BY DEF Blank, Frame, Label

\* What typing gives a step of p.
LEMMA LocalType ==
    ASSUME TypeInv, NEW p \in Goroutine
    PROVE  /\ pc \in [Goroutine -> Label] /\ frame \in [Goroutine -> Frame] /\ frame[p] \in Frame
           /\ \A label \in Label : Goto(p, label) =>
                /\ pc' \in [Goroutine -> Label] /\ pc'[p] = label
                /\ \A q \in Goroutine \ {p} : pc'[q] = pc[q]
           /\ End(p) => /\ pc' \in [Goroutine -> Label] /\ frame' \in [Goroutine -> Frame]
                        /\ pc'[p] = "idle" /\ frame'[p] = Blank /\ OthersStay(p)
<1>1. pc \in [Goroutine -> Label] /\ frame \in [Goroutine -> Frame] /\ frame[p] \in Frame
    BY DEF TypeInv, TypeOK
<1>2. \A label \in Label : Goto(p, label) =>
         /\ pc' \in [Goroutine -> Label] /\ pc'[p] = label
         /\ \A q \in Goroutine \ {p} : pc'[q] = pc[q]
    BY <1>1 DEF Goto
<1>3. End(p) => /\ pc' \in [Goroutine -> Label] /\ frame' \in [Goroutine -> Frame]
                /\ pc'[p] = "idle" /\ frame'[p] = Blank /\ OthersStay(p)
    BY <1>1, BlankType DEF End, Goto, OthersStay, Label
<1> QED
    BY <1>1, <1>2, <1>3

\* Only the stepping goroutine's locals, and the addresses, need a look.
LEMMA LocalsKept ==
    ASSUME TypeInv, NEW p \in Goroutine, OthersStay(p), TypeOK', AddressOK', LocalOK(p)'
    PROVE  TypeInv'
<1>1. \A q \in Goroutine \ {p} : LocalOK(q)'
    BY DEF TypeInv, LocalOK, Making, OthersStay
<1> QED
    BY <1>1 DEF TypeInv

LEMMA TypeInit == Init => TypeInv
<1> SUFFICES ASSUME Init PROVE TypeInv
    OBVIOUS
<1>1. TypeOK
    BY BlankType DEF Init, TypeOK, Label
<1>2. AddressOK
    BY DEF Init, AddressOK
<1>3. \A p \in Goroutine : LocalOK(p)
    BY DEF Init, LocalOK, MakeLabel, RemoveLabel
<1> QED
    BY <1>1, <1>2, <1>3 DEF TypeInv

\* The arrival of a request, and the checks before it changes anything.
LEMMA ArriveType ==
    ASSUME TypeInv, NEW p \in Request, NEW u \in User, NEW c \in Cookie \cup {None},
           NEW l \in Lobby, Create(p, u, c, l) \/ Join(p, u, c, l)
    PROVE  TypeInv'
<1>0. /\ p \in Goroutine /\ c \in User \cup {None} /\ IPOf[u] \in IP
      /\ frame \in [Goroutine -> Frame] /\ frame[p] \in Frame
    BY AddressAssumption, LocalType DEF Goroutine, Cookie, TypeInv, TypeOK
<1>1. /\ frame' \in [Goroutine -> Frame]
      /\ frame'[p].user = u /\ frame'[p].ip = IPOf[u] /\ frame'[p].lobby = l
      /\ \A q \in Goroutine \ {p} : frame'[q] = frame[q]
    <2> DEFINE made1 == [frame[p] EXCEPT !.ip = IPOf[u], !.cookie = c, !.lobby = l, !.new = TRUE, !.user = u]
               join1 == [frame[p] EXCEPT !.ip = IPOf[u], !.cookie = c, !.lobby = l, !.user = u]
    <2>1. /\ made1 \in Frame /\ made1.user = u /\ made1.ip = IPOf[u] /\ made1.lobby = l
          /\ join1 \in Frame /\ join1.user = u /\ join1.ip = IPOf[u] /\ join1.lobby = l
        BY <1>0 DEF Frame
    <2>2. Create(p, u, c, l) => frame' = [frame EXCEPT ![p] = made1]
        BY <1>0 DEF Create, Frame
    <2>3. Join(p, u, c, l) => frame' = [frame EXCEPT ![p] = join1]
        BY <1>0 DEF Join, Frame
    <2> HIDE DEF made1, join1
    <2> QED
        BY <1>0, <2>1, <2>2, <2>3
<1>2. /\ pc' \in [Goroutine -> Label] /\ pc'[p] \in {"cookie", "device"}
      /\ \A q \in Goroutine \ {p} : pc'[q] = pc[q]
    BY <1>0, LocalType DEF Create, Join, Label
<1>3. TypeOK'
    BY <1>1, <1>2 DEF TypeInv, TypeOK, Create, Join, maps
<1>4. AddressOK'
    BY DEF TypeInv, AddressOK, Create, Join, maps
<1>5. LocalOK(p)'
    BY <1>1, <1>2 DEF LocalOK, Making, RemoveLabel
<1> QED
    BY <1>0, <1>1, <1>2, <1>3, <1>4, <1>5, LocalsKept DEF OthersStay

LEMMA EvictType ==
    ASSUME TypeInv, NEW p \in Goroutine, pc[p] \in MakeLabel,
           NEW u \in User, NEW next \in {"address", "register"}, Evict(p, u, next),
           UNCHANGED <<ids, maps, idle, cleaning>>
    PROVE  TypeInv'
<1>1. /\ frame' \in [Goroutine -> Frame]
      /\ frame'[p] = [frame[p] EXCEPT !.cookie = None, !.old = u, !.next = next]
      /\ \A q \in Goroutine \ {p} : frame'[q] = frame[q]
    <2> DEFINE evicting == [frame[p] EXCEPT !.cookie = None, !.old = u, !.next = next]
    <2>0. frame \in [Goroutine -> Frame] /\ frame[p] \in Frame
        BY LocalType
    <2>1. evicting \in Frame
        BY <2>0 DEF Frame, Label
    <2>2. frame' = [frame EXCEPT ![p] = evicting]
        BY <2>0 DEF Evict, Frame
    <2> HIDE DEF evicting
    <2>3. /\ frame' \in [Goroutine -> Frame] /\ frame'[p] = evicting
          /\ \A q \in Goroutine \ {p} : frame'[q] = frame[q]
        BY <2>0, <2>1, <2>2
    <2> QED
        BY <2>3 DEF evicting
<1>2. /\ frame'[p].old = u /\ frame'[p].next = next /\ frame'[p].user = frame[p].user
      /\ frame'[p].ip = frame[p].ip /\ frame'[p].lobby = frame[p].lobby
    BY <1>1, LocalType DEF Frame
<1>3. /\ pc' \in [Goroutine -> Label] /\ pc'[p] = "drop"
      /\ \A q \in Goroutine \ {p} : pc'[q] = pc[q]
    BY LocalType DEF Evict, Label
<1>4. TypeOK' /\ AddressOK'
    BY <1>1, <1>3 DEF TypeInv, TypeOK, AddressOK, ids, maps
<1>5. LocalOK(p)'
    BY <1>2, <1>3 DEF TypeInv, LocalOK, Making, MakeLabel
<1> QED
    BY <1>1, <1>3, <1>4, <1>5, LocalsKept DEF OthersStay

\* A step that goes on with the same locals.
LEMMA MoveLocal ==
    ASSUME TypeInv, NEW p \in Goroutine, UNCHANGED frame, NEW label, Goto(p, label),
           \/ pc[p] \in MakeLabel /\ label \in MakeLabel
           \/ pc[p] \in RemoveLabel /\ label \in RemoveLabel
    PROVE  /\ pc' \in [Goroutine -> Label] /\ frame' \in [Goroutine -> Frame]
           /\ OthersStay(p) /\ LocalOK(p)'
<1>1. /\ pc' \in [Goroutine -> Label] /\ pc'[p] = label
      /\ \A q \in Goroutine \ {p} : pc'[q] = pc[q]
    BY LocalType DEF MakeLabel, RemoveLabel, Label
<1>2. LocalOK(p)'
    BY <1>1 DEF TypeInv, LocalOK, Making, MakeLabel, RemoveLabel
<1> QED
    BY <1>1, <1>2, LocalType DEF OthersStay

\* A request whose cookie has no session goes on without it.
LEMMA NoCookieLocal ==
    ASSUME TypeInv, NEW p \in Goroutine, pc[p] \in MakeLabel, Goto(p, "address"),
           frame' = [frame EXCEPT ![p].cookie = None]
    PROVE  /\ pc' \in [Goroutine -> Label] /\ frame' \in [Goroutine -> Frame]
           /\ OthersStay(p) /\ LocalOK(p)'
<1> DEFINE without == [frame[p] EXCEPT !.cookie = None]
<1>0. frame \in [Goroutine -> Frame] /\ frame[p] \in Frame
    BY LocalType
<1>1. /\ without \in Frame /\ without.user = frame[p].user
      /\ without.ip = frame[p].ip /\ without.lobby = frame[p].lobby
    BY <1>0 DEF Frame
<1>2. frame' = [frame EXCEPT ![p] = without]
    BY <1>0
<1> HIDE DEF without
<1>3. /\ frame' \in [Goroutine -> Frame] /\ frame'[p] = without
      /\ \A q \in Goroutine \ {p} : frame'[q] = frame[q]
    BY <1>0, <1>1, <1>2
<1>4. /\ pc' \in [Goroutine -> Label] /\ pc'[p] = "address"
      /\ \A q \in Goroutine \ {p} : pc'[q] = pc[q]
    BY LocalType DEF Label
<1>5. LocalOK(p)'
    BY <1>1, <1>3, <1>4 DEF TypeInv, LocalOK, Making, MakeLabel, RemoveLabel
<1> QED
    BY <1>3, <1>4, <1>5 DEF OthersStay

\* A handler or a cleanup ends.
LEMMA EndLocal ==
    ASSUME TypeInv, NEW p \in Goroutine, End(p)
    PROVE  /\ pc' \in [Goroutine -> Label] /\ frame' \in [Goroutine -> Frame]
           /\ OthersStay(p) /\ LocalOK(p)'
BY LocalType DEF LocalOK, MakeLabel, RemoveLabel

\* What a goroutine knows where it makes a user.
LEMMA MakingAt ==
    ASSUME TypeInv, NEW p \in Goroutine, pc[p] \in MakeLabel
    PROVE  Making(p)
BY DEF TypeInv, LocalOK

LEMMA SearchType ==
    ASSUME TypeInv, NEW p \in Goroutine, CheckDevice(p) \/ FindCookie(p) \/ FindAddress(p)
    PROVE  TypeInv'
<1>1. CASE CheckDevice(p)
    <2>1. /\ pc' \in [Goroutine -> Label] /\ frame' \in [Goroutine -> Frame]
          /\ OthersStay(p) /\ LocalOK(p)'
        BY <1>1, MoveLocal, EndLocal DEF CheckDevice, MakeLabel
    <2>2. TypeOK' /\ AddressOK'
        BY <1>1, <2>1 DEF CheckDevice, TypeInv, TypeOK, AddressOK, ids, maps
    <2> QED
        BY <2>1, <2>2, LocalsKept
<1>2. CASE FindCookie(p)
    <2>1. pc[p] \in MakeLabel /\ sessions \in SUBSET User
        BY <1>2 DEF FindCookie, MakeLabel, TypeInv, TypeOK
    <2>2. CASE frame[p].cookie \in sessions
        BY <1>2, <2>1, <2>2, EvictType DEF FindCookie
    <2>3. CASE frame[p].cookie \notin sessions
        <3>1. /\ pc' \in [Goroutine -> Label] /\ frame' \in [Goroutine -> Frame]
              /\ OthersStay(p) /\ LocalOK(p)'
            BY <1>2, <2>1, <2>3, NoCookieLocal DEF FindCookie
        <3>2. TypeOK' /\ AddressOK'
            BY <1>2, <3>1 DEF FindCookie, TypeInv, TypeOK, AddressOK, ids, maps
        <3> QED
            BY <3>1, <3>2, LocalsKept
    <2> QED
        BY <2>2, <2>3
<1>3. CASE FindAddress(p)
    <2>1. pc[p] \in MakeLabel
        BY <1>3 DEF FindAddress, MakeLabel
    <2>2. Making(p) /\ byIP \in [IP -> User \cup {None}]
        BY <2>1, MakingAt DEF TypeInv, TypeOK
    <2>3. byIP[frame[p].ip] \in User \cup {None}
        BY <2>2, AddressAssumption DEF Making
    <2>4. CASE byIP[frame[p].ip] # None
        BY <1>3, <2>1, <2>3, <2>4, EvictType DEF FindAddress
    <2>5. CASE byIP[frame[p].ip] = None
        <3>1. /\ pc' \in [Goroutine -> Label] /\ frame' \in [Goroutine -> Frame]
              /\ OthersStay(p) /\ LocalOK(p)'
            BY <1>3, <2>1, <2>5, MoveLocal DEF FindAddress, MakeLabel
        <3>2. TypeOK' /\ AddressOK'
            BY <1>3, <3>1 DEF FindAddress, TypeInv, TypeOK, AddressOK, ids, maps
        <3> QED
            BY <3>1, <3>2, LocalsKept
    <2> QED
        BY <2>4, <2>5
<1> QED
    BY <1>1, <1>2, <1>3

LEMMA RemoveType ==
    ASSUME TypeInv, NEW p \in Goroutine, Drop(p) \/ Forget(p)
    PROVE  TypeInv'
<1>1. CASE Drop(p)
    <2>1. /\ pc' \in [Goroutine -> Label] /\ frame' \in [Goroutine -> Frame]
          /\ OthersStay(p) /\ LocalOK(p)'
        BY <1>1, MoveLocal DEF Drop, RemoveLabel
    <2>2. TypeOK' /\ AddressOK'
        BY <1>1, <2>1 DEF Drop, TypeInv, TypeOK, AddressOK, ids
    <2> QED
        BY <2>1, <2>2, LocalsKept
<1>2. CASE Forget(p)
    <2> DEFINE forgotten == [frame[p] EXCEPT !.old = None]
    <2>0. /\ frame \in [Goroutine -> Frame] /\ frame[p] \in Frame
          /\ frame[p].next = "check" \/ (frame[p].next \in {"address", "register"} /\ Making(p))
        BY <1>2, LocalType DEF Forget, RemoveLabel, TypeInv, LocalOK
    <2>1. /\ forgotten \in Frame /\ forgotten.user = frame[p].user
          /\ forgotten.ip = frame[p].ip /\ forgotten.lobby = frame[p].lobby
        BY <2>0 DEF Frame
    <2>2. frame' = [frame EXCEPT ![p] = forgotten]
        BY <1>2, <2>0 DEF Forget, Frame
    <2> HIDE DEF forgotten
    <2>3. /\ frame' \in [Goroutine -> Frame] /\ frame'[p] = forgotten
          /\ \A q \in Goroutine \ {p} : frame'[q] = frame[q]
        BY <2>0, <2>1, <2>2
    <2>4. /\ pc' \in [Goroutine -> Label] /\ pc'[p] = frame[p].next
          /\ \A q \in Goroutine \ {p} : pc'[q] = pc[q]
        BY <1>2, <2>0, LocalType DEF Forget, Label
    <2>5. LocalOK(p)'
        BY <2>0, <2>1, <2>3, <2>4 DEF LocalOK, Making, MakeLabel, RemoveLabel
    <2>6. byIP' = [byIP EXCEPT ![IPOf[frame[p].old]] = None] /\ byIP \in [IP -> User \cup {None}]
        BY <1>2 DEF Forget, TypeInv, TypeOK
    <2>7. byIP' \in [IP -> User \cup {None}] /\ AddressOK'
        BY <2>6 DEF TypeInv, AddressOK
    <2>8. TypeOK'
        BY <1>2, <2>3, <2>4, <2>7 DEF Forget, TypeInv, TypeOK, ids
    <2> QED
        BY <2>3, <2>4, <2>5, <2>7, <2>8, LocalsKept DEF OthersStay
<1> QED
    BY <1>1, <1>2

LEMMA MakeType ==
    ASSUME TypeInv, NEW p \in Goroutine,
           Register(p) \/ OpenSession(p) \/ OpenLobby(p) \/ Enter(p)
    PROVE  TypeInv'
<1>0. pc[p] \in MakeLabel /\ Making(p)
    BY MakingAt DEF Register, OpenSession, OpenLobby, Enter, MakeLabel
<1>1. CASE Register(p)
    <2>1. /\ pc' \in [Goroutine -> Label] /\ frame' \in [Goroutine -> Frame]
          /\ OthersStay(p) /\ LocalOK(p)'
        BY <1>0, <1>1, MoveLocal DEF Register, MakeLabel
    <2>2. /\ byIP' = [byIP EXCEPT ![IPOf[frame[p].user]] = frame[p].user]
          /\ byIP \in [IP -> User \cup {None}] /\ frame[p].user \in User
        BY <1>0, <1>1 DEF Register, Making, TypeInv, TypeOK
    <2>3. byIP' \in [IP -> User \cup {None}] /\ AddressOK'
        BY <2>2 DEF TypeInv, AddressOK
    <2>4. TypeOK'
        BY <1>1, <2>1, <2>3 DEF Register, TypeInv, TypeOK, ids
    <2> QED
        BY <2>1, <2>3, <2>4, LocalsKept
<1>2. CASE OpenSession(p)
    <2>1. /\ pc' \in [Goroutine -> Label] /\ frame' \in [Goroutine -> Frame]
          /\ OthersStay(p) /\ LocalOK(p)'
        BY <1>0, <1>2, MoveLocal DEF OpenSession, MakeLabel
    <2>2. TypeOK' /\ AddressOK'
        BY <1>0, <1>2, <2>1 DEF OpenSession, Making, TypeInv, TypeOK, AddressOK, ids
    <2> QED
        BY <2>1, <2>2, LocalsKept
<1>3. CASE OpenLobby(p)
    <2>1. /\ pc' \in [Goroutine -> Label] /\ frame' \in [Goroutine -> Frame]
          /\ OthersStay(p) /\ LocalOK(p)'
        BY <1>0, <1>3, MoveLocal DEF OpenLobby, MakeLabel
    <2>2. TypeOK' /\ AddressOK'
        BY <1>0, <1>3, <2>1 DEF OpenLobby, Making, TypeInv, TypeOK, AddressOK, ids
    <2> QED
        BY <2>1, <2>2, LocalsKept
<1>4. CASE Enter(p)
    <2>1. /\ pc' \in [Goroutine -> Label] /\ frame' \in [Goroutine -> Frame]
          /\ OthersStay(p) /\ LocalOK(p)'
        BY <1>4, EndLocal DEF Enter
    <2>2. lobbyOf' \in [User -> Lobby \cup {None}]
        BY <1>0, <1>4 DEF Enter, Making, TypeInv, TypeOK
    <2>3. TypeOK' /\ AddressOK'
        BY <1>4, <2>1, <2>2 DEF Enter, TypeInv, TypeOK, AddressOK, ids
    <2> QED
        BY <2>1, <2>3, LocalsKept
<1> QED
    BY <1>1, <1>2, <1>3, <1>4

LEMMA CleanupType ==
    ASSUME TypeInv, NEW p \in Goroutine,
           \/ p \in Cleaner /\ CleanupUsers(p)
           \/ \E u \in User : CheckUser(p, u)
           \/ CleanupDone(p)
    PROVE  TypeInv'
<1>0. /\ frame \in [Goroutine -> Frame] /\ frame[p] \in Frame /\ pc \in [Goroutine -> Label]
      /\ cleaning \in Cleaner \cup {None}
    BY LocalType DEF TypeInv, TypeOK
<1>1. CASE p \in Cleaner /\ CleanupUsers(p)
    <2> DEFINE copied == [frame[p] EXCEPT !.todo = {u \in User : \E ip \in IP : byIP[ip] = u}]
    <2>1. copied \in Frame
        BY <1>0 DEF Frame
    <2>2. frame' = [frame EXCEPT ![p] = copied]
        BY <1>0, <1>1 DEF CleanupUsers
    <2> HIDE DEF copied
    <2>3. frame' \in [Goroutine -> Frame] /\ \A q \in Goroutine \ {p} : frame'[q] = frame[q]
        BY <1>0, <2>1, <2>2
    <2>4. /\ pc' \in [Goroutine -> Label] /\ pc'[p] = "check"
          /\ \A q \in Goroutine \ {p} : pc'[q] = pc[q]
        BY <1>1, LocalType DEF CleanupUsers, Label
    <2>5. LocalOK(p)'
        BY <2>4 DEF LocalOK, MakeLabel, RemoveLabel
    <2>6. TypeOK' /\ AddressOK'
        BY <1>0, <1>1, <2>3, <2>4 DEF CleanupUsers, TypeInv, TypeOK, AddressOK, ids, maps
    <2> QED
        BY <2>3, <2>4, <2>5, <2>6, LocalsKept DEF OthersStay
<1>2. ASSUME NEW u \in User, CheckUser(p, u) PROVE TypeInv'
    <2> DEFINE skipped == [frame[p] EXCEPT !.todo = @ \ {u}]
               removing == [frame[p] EXCEPT !.todo = @ \ {u}, !.old = u, !.next = "check"]
    <2>1. /\ skipped \in Frame /\ removing \in Frame
          /\ removing.old = u /\ removing.next = "check"
        BY <1>0 DEF Frame, Label
    <2>2. \/ frame' = [frame EXCEPT ![p] = skipped] /\ UNCHANGED pc
          \/ frame' = [frame EXCEPT ![p] = removing] /\ Goto(p, "drop")
        BY <1>0, <1>2 DEF CheckUser, Frame
    <2> HIDE DEF skipped, removing
    <2>3. frame' \in [Goroutine -> Frame] /\ \A q \in Goroutine \ {p} : frame'[q] = frame[q]
        BY <1>0, <2>1, <2>2
    <2>4. /\ pc' \in [Goroutine -> Label] /\ \A q \in Goroutine \ {p} : pc'[q] = pc[q]
        BY <1>0, <2>2, LocalType DEF Label
    <2>5. \/ pc'[p] = "check"
          \/ pc'[p] = "drop" /\ frame'[p] = removing
        BY <1>0, <1>2, <2>2, LocalType DEF CheckUser, Label
    <2>6. LocalOK(p)'
        BY <1>2, <2>1, <2>5 DEF LocalOK, MakeLabel, RemoveLabel
    <2>7. TypeOK' /\ AddressOK'
        BY <1>0, <1>2, <2>3, <2>4 DEF CheckUser, TypeInv, TypeOK, AddressOK, ids, maps
    <2> QED
        BY <2>3, <2>4, <2>6, <2>7, LocalsKept DEF OthersStay
<1>3. CASE CleanupDone(p)
    <2>1. /\ pc' \in [Goroutine -> Label] /\ frame' \in [Goroutine -> Frame]
          /\ OthersStay(p) /\ LocalOK(p)'
        BY <1>3, EndLocal DEF CleanupDone
    <2>2. TypeOK' /\ AddressOK'
        BY <1>3, <2>1 DEF CleanupDone, TypeInv, TypeOK, AddressOK, ids, maps
    <2> QED
        BY <2>1, <2>2, LocalsKept
<1> QED
    BY <1>1, <1>2, <1>3

\* The steps that no goroutine of the model takes.
LEMMA OutsideType ==
    ASSUME TypeInv,
           \/ \E u \in User, ip \in IP : Heartbeat(u, ip)
           \/ \E u \in User : TimeOut(u)
           \/ \E l \in Lobby : RemoveLobby(l)
    PROVE  TypeInv'
<1>1. TypeOK'
    BY DEF Heartbeat, TimeOut, Cookie, RemoveLobby, TypeInv, TypeOK, ids, maps
<1>2. UNCHANGED <<pc, frame, byIP>>
    BY DEF Heartbeat, TimeOut, RemoveLobby, maps
<1> QED
    BY <1>1, <1>2 DEF TypeInv, AddressOK, LocalOK, Making

LEMMA TypeStep == TypeInv /\ [Next]_vars => TypeInv'
<1> SUFFICES ASSUME TypeInv, [Next]_vars PROVE TypeInv'
    OBVIOUS
<1>1. ASSUME NEW p \in Request, NEW u \in User, NEW c \in Cookie \cup {None}, NEW l \in Lobby,
             Create(p, u, c, l) \/ Join(p, u, c, l)
      PROVE  TypeInv'
    BY <1>1, ArriveType
<1>2. ASSUME NEW p \in Goroutine, Continue(p) PROVE TypeInv'
    BY <1>2, SearchType, RemoveType, MakeType, CleanupType DEF Continue
<1>3. ASSUME NEW p \in Cleaner, CleanupUsers(p) PROVE TypeInv'
    BY <1>3, CleanupType DEF Goroutine
<1>4. CASE UNCHANGED vars
    BY <1>4 DEF vars, ids, maps, TypeInv, TypeOK, AddressOK, LocalOK, Making
<1> QED
    BY <1>1, <1>2, <1>3, <1>4, OutsideType DEF Next

\* Every variable of the lobby manager, and every goroutine's locals, keep their
\* types through every interleaving of the handlers and the cleanups.
THEOREM Typing == Spec => []TypeOK
<1>1. TypeInv => TypeOK
    BY DEF TypeInv
<1> QED
    BY <1>1, TypeInit, TypeStep, PTL DEF Spec

-----------------------------------------------------------------------------
(* The addresses *)

\* Requests and goroutines that are not p stay where they are when p steps.
LEMMA StepStays ==
    ASSUME TypeInv, NEW p \in Goroutine,
           \/ Continue(p)
           \/ CleanupUsers(p)
           \/ \E u \in User, c \in Cookie \cup {None}, l \in Lobby : Create(p, u, c, l) \/ Join(p, u, c, l)
    PROVE  OthersStay(p)
<1>1. pc \in [Goroutine -> Label] /\ frame \in [Goroutine -> Frame]
    BY LocalType
<1>2. (CheckDevice(p) \/ Enter(p) \/ CleanupDone(p)) => OthersStay(p)
    BY <1>1 DEF CheckDevice, Enter, CleanupDone, End, Goto, OthersStay
<1>3. (FindCookie(p) \/ FindAddress(p)) => OthersStay(p)
    BY <1>1 DEF FindCookie, FindAddress, Evict, Goto, OthersStay
<1>4. (Drop(p) \/ Forget(p)) => OthersStay(p)
    BY <1>1 DEF Drop, Forget, Goto, OthersStay
<1>5. (Register(p) \/ OpenSession(p) \/ OpenLobby(p)) => OthersStay(p)
    BY <1>1 DEF Register, OpenSession, OpenLobby, Goto, OthersStay
<1>6. ((\E u \in User : CheckUser(p, u)) \/ CleanupUsers(p)) => OthersStay(p)
    BY <1>1 DEF CheckUser, CleanupUsers, Goto, OthersStay
<1>7. ASSUME NEW u \in User, NEW c \in Cookie \cup {None}, NEW l \in Lobby,
             Create(p, u, c, l) \/ Join(p, u, c, l)
      PROVE  OthersStay(p)
    BY <1>1, <1>7 DEF Create, Join, Goto, OthersStay
<1> QED
    BY <1>2, <1>3, <1>4, <1>5, <1>6, <1>7 DEF Continue

\* A step of a goroutine that is neither about to open a session nor about to
\* delete an address, and leaves the two maps alone, blocks no address.
LEMMA AddressKept ==
    ASSUME AddressNotBlocked, NEW p \in Goroutine, OthersStay(p),
           pc[p] \notin {"session", "forget"}, UNCHANGED <<byIP, sessions>>
    PROVE  AddressNotBlocked'
<1> SUFFICES ASSUME NEW ip \in IP, byIP'[ip] # None, byIP'[ip] \notin sessions'
             PROVE  \/ \E q \in Request : pc'[q] = "session" /\ frame'[q].user = byIP'[ip]
                    \/ \E q \in Goroutine : pc'[q] = "forget" /\ IPOf[frame'[q].old] = ip
    BY DEF AddressNotBlocked
<1>1. CASE \E q \in Request : pc[q] = "session" /\ frame[q].user = byIP[ip]
    BY <1>1 DEF OthersStay, Goroutine
<1>2. CASE \E q \in Goroutine : pc[q] = "forget" /\ IPOf[frame[q].old] = ip
    BY <1>2 DEF OthersStay
<1> QED
    BY <1>1, <1>2 DEF AddressNotBlocked

\* RemoveUser: the session goes first, and the goroutine is on the way to the address.
LEMMA AddressDrop ==
    ASSUME TypeInv, AddressNotBlocked, NEW p \in Goroutine, Drop(p)
    PROVE  AddressNotBlocked'
<1>0. /\ OthersStay(p) /\ pc'[p] = "forget" /\ frame' = frame /\ pc[p] = "drop"
      /\ byIP' = byIP /\ sessions' = sessions \ {frame[p].old}
    BY StepStays, LocalType DEF Continue, Drop, Label
<1> SUFFICES ASSUME NEW ip \in IP, byIP[ip] # None, byIP[ip] \notin sessions'
             PROVE  \/ \E q \in Request : pc'[q] = "session" /\ frame[q].user = byIP[ip]
                    \/ \E q \in Goroutine : pc'[q] = "forget" /\ IPOf[frame[q].old] = ip
    BY <1>0 DEF AddressNotBlocked
<1>1. CASE byIP[ip] = frame[p].old
    BY <1>0, <1>1 DEF TypeInv, AddressOK
<1>2. CASE byIP[ip] \notin sessions
    <2>1. CASE \E q \in Request : pc[q] = "session" /\ frame[q].user = byIP[ip]
        BY <1>0, <2>1 DEF OthersStay, Goroutine
    <2>2. CASE \E q \in Goroutine : pc[q] = "forget" /\ IPOf[frame[q].old] = ip
        BY <1>0, <2>2 DEF OthersStay
    <2> QED
        BY <1>2, <2>1, <2>2 DEF AddressNotBlocked
<1> QED
    BY <1>0, <1>1, <1>2

\* The end of RemoveUser: the address p was responsible for has nobody any more.
LEMMA AddressForget ==
    ASSUME TypeInv, AddressNotBlocked, NEW p \in Goroutine, Forget(p)
    PROVE  AddressNotBlocked'
<1>0. /\ OthersStay(p) /\ pc[p] = "forget" /\ sessions' = sessions
      /\ byIP' = [byIP EXCEPT ![IPOf[frame[p].old]] = None]
      /\ byIP \in [IP -> User \cup {None}]
    BY StepStays DEF Continue, Forget, TypeInv, TypeOK
<1> SUFFICES ASSUME NEW ip \in IP, byIP'[ip] # None, byIP'[ip] \notin sessions
             PROVE  \/ \E q \in Request : pc'[q] = "session" /\ frame'[q].user = byIP'[ip]
                    \/ \E q \in Goroutine : pc'[q] = "forget" /\ IPOf[frame'[q].old] = ip
    BY <1>0 DEF AddressNotBlocked
<1>1. IPOf[frame[p].old] # ip /\ byIP'[ip] = byIP[ip]
    BY <1>0
<1>2. CASE \E q \in Request : pc[q] = "session" /\ frame[q].user = byIP[ip]
    BY <1>0, <1>1, <1>2 DEF OthersStay, Goroutine
<1>3. CASE \E q \in Goroutine : pc[q] = "forget" /\ IPOf[frame[q].old] = ip
    BY <1>0, <1>1, <1>3 DEF OthersStay
<1> QED
    BY <1>1, <1>2, <1>3 DEF AddressNotBlocked

\* NewUser: the address is taken first, and the goroutine is on the way to the session.
LEMMA AddressRegister ==
    ASSUME TypeInv, AddressNotBlocked, NEW p \in Goroutine, Register(p)
    PROVE  AddressNotBlocked'
<1>0. /\ OthersStay(p) /\ pc[p] = "register" /\ pc'[p] = "session" /\ frame' = frame
      /\ sessions' = sessions /\ byIP' = [byIP EXCEPT ![frame[p].ip] = frame[p].user]
      /\ byIP \in [IP -> User \cup {None}] /\ p \in Request
    BY StepStays, LocalType, MakingAt
       DEF Continue, Register, TypeInv, TypeOK, Label, MakeLabel, Making
<1> SUFFICES ASSUME NEW ip \in IP, byIP'[ip] # None, byIP'[ip] \notin sessions
             PROVE  \/ \E q \in Request : pc'[q] = "session" /\ frame[q].user = byIP'[ip]
                    \/ \E q \in Goroutine : pc'[q] = "forget" /\ IPOf[frame[q].old] = ip
    BY <1>0 DEF AddressNotBlocked
<1>1. CASE ip = frame[p].ip
    BY <1>0, <1>1
<1>2. CASE ip # frame[p].ip
    <2>0. byIP'[ip] = byIP[ip]
        BY <1>0, <1>2
    <2>1. CASE \E q \in Request : pc[q] = "session" /\ frame[q].user = byIP[ip]
        BY <1>0, <2>0, <2>1 DEF OthersStay, Goroutine
    <2>2. CASE \E q \in Goroutine : pc[q] = "forget" /\ IPOf[frame[q].old] = ip
        BY <1>0, <2>0, <2>2 DEF OthersStay
    <2> QED
        BY <2>0, <2>1, <2>2 DEF AddressNotBlocked
<1> QED
    BY <1>1, <1>2

\* The end of NewUser: the user p was responsible for has a session.
LEMMA AddressSession ==
    ASSUME TypeInv, AddressNotBlocked, NEW p \in Goroutine, OpenSession(p)
    PROVE  AddressNotBlocked'
<1>0. /\ OthersStay(p) /\ pc[p] = "session" /\ frame' = frame /\ byIP' = byIP
      /\ sessions' = sessions \cup {frame[p].user}
    BY StepStays DEF Continue, OpenSession
<1> SUFFICES ASSUME NEW ip \in IP, byIP[ip] # None, byIP[ip] \notin sessions'
             PROVE  \/ \E q \in Request : pc'[q] = "session" /\ frame[q].user = byIP[ip]
                    \/ \E q \in Goroutine : pc'[q] = "forget" /\ IPOf[frame[q].old] = ip
    BY <1>0 DEF AddressNotBlocked
<1>1. CASE \E q \in Request : pc[q] = "session" /\ frame[q].user = byIP[ip]
    BY <1>0, <1>1 DEF OthersStay, Goroutine
<1>2. CASE \E q \in Goroutine : pc[q] = "forget" /\ IPOf[frame[q].old] = ip
    BY <1>0, <1>2 DEF OthersStay
<1> QED
    BY <1>0, <1>1, <1>2 DEF AddressNotBlocked

LEMMA AddressInit == Init => AddressNotBlocked
BY DEF Init, AddressNotBlocked

LEMMA AddressStep == TypeInv /\ AddressNotBlocked /\ [Next]_vars => AddressNotBlocked'
<1> SUFFICES ASSUME TypeInv, AddressNotBlocked, [Next]_vars PROVE AddressNotBlocked'
    OBVIOUS
<1>1. ASSUME NEW p \in Request, NEW u \in User, NEW c \in Cookie \cup {None}, NEW l \in Lobby,
             Create(p, u, c, l) \/ Join(p, u, c, l)
      PROVE  AddressNotBlocked'
    <2>1. p \in Goroutine /\ OthersStay(p)
        BY <1>1, StepStays DEF Goroutine
    <2>2. pc[p] = "idle" /\ UNCHANGED <<byIP, sessions>>
        BY <1>1 DEF Create, Join, maps
    <2> QED
        BY <2>1, <2>2, AddressKept
<1>2. ASSUME NEW p \in Goroutine, Continue(p) PROVE AddressNotBlocked'
    <2>0. OthersStay(p)
        BY <1>2, StepStays
    <2>1. ASSUME \/ CheckDevice(p) \/ FindCookie(p) \/ FindAddress(p)
                 \/ OpenLobby(p) \/ Enter(p)
                 \/ (\E u \in User : CheckUser(p, u)) \/ CleanupDone(p)
          PROVE  AddressNotBlocked'
        <3>1. pc[p] \notin {"session", "forget"} /\ UNCHANGED <<byIP, sessions>>
            BY <2>1 DEF CheckDevice, FindCookie, FindAddress, OpenLobby, Enter,
                        CheckUser, CleanupDone, maps
        <3> QED
            BY <2>0, <3>1, AddressKept
    <2> QED
        BY <1>2, <2>1, AddressDrop, AddressForget, AddressRegister, AddressSession DEF Continue
<1>3. ASSUME NEW p \in Cleaner, CleanupUsers(p) PROVE AddressNotBlocked'
    <2>1. p \in Goroutine /\ OthersStay(p)
        BY <1>3, StepStays DEF Goroutine
    <2>2. pc[p] = "idle" /\ UNCHANGED <<byIP, sessions>>
        BY <1>3 DEF CleanupUsers, maps
    <2> QED
        BY <2>1, <2>2, AddressKept
<1>4. ASSUME \/ \E u \in User, ip \in IP : Heartbeat(u, ip)
             \/ \E u \in User : TimeOut(u)
             \/ \E l \in Lobby : RemoveLobby(l)
             \/ UNCHANGED vars
      PROVE  AddressNotBlocked'
    <2>1. UNCHANGED <<pc, frame, byIP, sessions>>
        BY <1>4 DEF Heartbeat, TimeOut, RemoveLobby, vars, maps
    <2> QED
        BY <2>1 DEF AddressNotBlocked
<1> QED
    BY <1>1, <1>2, <1>3, <1>4 DEF Next

\* However joins, removals and cleanups interleave, an address under which there is
\* a user without a session is one that a goroutine is about to put right.
THEOREM NotBlocked == Spec => []AddressNotBlocked
<1> QED
    BY TypeInit, TypeStep, AddressInit, AddressStep, PTL DEF Spec

=============================================================================
