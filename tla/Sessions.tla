------------------------------ MODULE Sessions ------------------------------
(***************************************************************************)
(* Who is known to the lobby manager: creating and joining lobbies, the    *)
(* session a request is served under, the removal of users who have gone   *)
(* idle and of lobbies (internal/dj/manager.go, NewUser and AddUser of     *)
(* internal/dj/lobby.go, the session handlers of                           *)
(* internal/service/handlers.go).                                          *)
(*                                                                         *)
(* Each map has a mutex of its own and no other protects them together, so *)
(* a handler is a sequence of steps, one per map operation.                *)
(*                                                                         *)
(* Left out: what happens inside a lobby, with its Users (RoundRobin and   *)
(* Streams have them), and names.  Random ids do not repeat, so a request  *)
(* that makes a user or a lobby draws its id when it arrives.              *)
(***************************************************************************)
EXTENDS Naturals, FiniteSets

CONSTANTS
    User,       \* user ids, each with its session id
    IP,         \* addresses
    IPOf,       \* the address each user id is made for
    Lobby,      \* lobby ids
    Request,    \* goroutines of HTTP requests
    Cleaner,    \* goroutines that run CleanupUsers
    MaxLobbies, \* LobbyManager.MaxLobbies
    None        \* no user, no lobby, no cookie

ASSUME AddressAssumption == IPOf \in [User -> IP]

ASSUME SessionGoroutineAssumption == Request \cap Cleaner = {} /\ None \notin Request \cup Cleaner

ASSUME SessionNoneAssumption == None \notin User \cup Lobby

ASSUME LimitAssumption == MaxLobbies \in Nat \ {0}

Goroutine == Request \cup Cleaner

VARIABLES
    born,       \* the user ids drawn so far
    made,       \* the lobby ids drawn so far
    sessions,   \* LobbyManager.UsersBySessionID
    byIP,       \* LobbyManager.UsersByIP
    lobbies,    \* LobbyManager.Lobbies
    lobbyOf,    \* User.LobbyID; also which lobby's UsersBySession has the user
    idle,       \* the users whose LastActivity is more than 45 seconds ago
    cleaning,   \* LobbyManager.Mutex: the goroutine that runs CleanupUsers
    pc,         \* where each goroutine is
    frame       \* its local variables

ids == <<born, made>>
maps == <<sessions, byIP, lobbies, lobbyOf>>
vars == <<ids, maps, idle, cleaning, pc, frame>>

Label == {"idle", "device", "cookie", "address", "drop", "forget",
          "register", "session", "open", "enter", "check"}

\* user: the user being made; old: the user being removed; next: where to go after.
Blank == [ip |-> None, cookie |-> None, lobby |-> None, new |-> FALSE, user |-> None,
          old |-> None, next |-> "idle", todo |-> {}]

Goto(p, label) == pc' = [pc EXCEPT ![p] = label]

End(p) == Goto(p, "idle") /\ frame' = [frame EXCEPT ![p] = Blank]

-----------------------------------------------------------------------------
(* The session of a request *)

\* Whose cookie a browser may have: the answer that sets it follows AddUser.  One
\* whose session is gone changes nothing.
Cookie == {u \in sessions : lobbyOf[u] # None}

\* InjectSession lets a request with u's cookie through: the session exists,
\* and the address of the request is not somebody else's.
Admitted(u, ip) == u \in sessions /\ byIP[ip] \in {None, u}

\* WithLobbyAndUser around HandleHeartbeat (HandleLobbyPage does the same).
Heartbeat(u, ip) ==
    /\ u \in Cookie \cap idle /\ Admitted(u, ip) /\ lobbyOf[u] \in lobbies
    /\ idle' = idle \ {u}
    /\ UNCHANGED <<ids, maps, cleaning, pc, frame>>

\* 45 seconds without a heartbeat, longer than it takes to make the user;
\* HandleLogout takes 25 of them away.
TimeOut(u) ==
    /\ lobbyOf[u] # None /\ u \notin idle
    /\ idle' = idle \cup {u}
    /\ UNCHANGED <<ids, maps, cleaning, pc, frame>>

-----------------------------------------------------------------------------
(* HandleCreateLobby and HandleJoinLobby, up to CleanExistingSessions *)

\* Ids are interchangeable, so they are drawn in a fixed order (of each address).
NextUser(u) == u \notin born /\ u = CHOOSE w \in User \ born : IPOf[w] = IPOf[u]

NextLobby(l) == l \notin made /\ l = CHOOSE k \in Lobby : k \notin made

\* The number of lobbies is checked first; /create has no InjectSession.
Create(p, u, c, l) ==
    /\ pc[p] = "idle"
    /\ NextUser(u) /\ NextLobby(l)
    /\ Cardinality(lobbies) < MaxLobbies
    /\ born' = born \cup {u} /\ made' = made \cup {l}
    /\ frame' = [frame EXCEPT ![p].ip = IPOf[u], ![p].cookie = c, ![p].lobby = l,
                              ![p].new = TRUE, ![p].user = u]
    /\ Goto(p, "cookie")
    /\ UNCHANGED <<maps, idle, cleaning>>

\* InjectSession, and the lobby found in the manager.
Join(p, u, c, l) ==
    /\ pc[p] = "idle"
    /\ NextUser(u) /\ l \in lobbies
    /\ c # None => Admitted(c, IPOf[u])
    /\ born' = born \cup {u}
    /\ frame' = [frame EXCEPT ![p].ip = IPOf[u], ![p].cookie = c, ![p].lobby = l, ![p].user = u]
    /\ Goto(p, "device")
    /\ UNCHANGED <<made, maps, idle, cleaning>>

\* "Multiple Device Error": the address has a user in this lobby, and the user an
\* event stream, which may be or not.
CheckDevice(p) ==
    /\ pc[p] = "device"
    /\ \/ /\ \E u \in User : byIP[frame[p].ip] = u /\ lobbyOf[u] = frame[p].lobby
          /\ End(p)
       \/ Goto(p, "cookie") /\ UNCHANGED frame
    /\ UNCHANGED <<ids, maps, idle, cleaning>>

-----------------------------------------------------------------------------
(* CleanExistingSessions: first the cookie's user, then the address's *)

\* The user u is removed: from its lobby, the sessions and the addresses.
Evict(p, u, next) ==
    /\ frame' = [frame EXCEPT ![p].cookie = None, ![p].old = u, ![p].next = next]
    /\ Goto(p, "drop")

FindCookie(p) ==
    /\ pc[p] = "cookie"
    /\ LET c == frame[p].cookie
       IN  IF c \in sessions
           THEN Evict(p, c, "address")
           ELSE Goto(p, "address") /\ frame' = [frame EXCEPT ![p].cookie = None]
    /\ UNCHANGED <<ids, maps, idle, cleaning>>

FindAddress(p) ==
    /\ pc[p] = "address"
    /\ LET u == byIP[frame[p].ip]
       IN  IF u # None
           THEN Evict(p, u, "register")
           ELSE Goto(p, "register") /\ UNCHANGED frame
    /\ UNCHANGED <<ids, maps, idle, cleaning>>

Drop(p) ==
    /\ pc[p] = "drop"
    /\ sessions' = sessions \ {frame[p].old}
    /\ Goto(p, "forget")
    /\ UNCHANGED <<ids, byIP, lobbies, lobbyOf, idle, cleaning, frame>>

\* (Mutant: Get instead of Delete, as in RemoveLobby.)
ForgetGets(p) ==
    /\ pc[p] = "forget"
    /\ frame' = [frame EXCEPT ![p].old = None]
    /\ Goto(p, frame[p].next)
    /\ UNCHANGED <<ids, maps, idle, cleaning>>

\* (Mutant: the entry is looked up by the user's id, as in RemoveLobby.)
ForgetByID(p) ==
    /\ pc[p] = "forget"
    /\ byIP' = [k \in IP \cup {frame[p].old} |-> IF k \in IP THEN byIP[k] ELSE None]
    /\ frame' = [frame EXCEPT ![p].old = None]
    /\ Goto(p, frame[p].next)
    /\ UNCHANGED <<ids, sessions, lobbies, lobbyOf, idle, cleaning>>

\* UsersByIP.Delete(u.IP), whoever is there by now.
Forget(p) ==
    /\ pc[p] = "forget"
    /\ byIP' = [byIP EXCEPT ![IPOf[frame[p].old]] = None]
    /\ frame' = [frame EXCEPT ![p].old = None]
    /\ Goto(p, frame[p].next)
    /\ UNCHANGED <<ids, sessions, lobbies, lobbyOf, idle, cleaning>>

-----------------------------------------------------------------------------
(* NewUser, NewLobby and AddUser *)

Register(p) ==
    /\ pc[p] = "register"
    /\ byIP' = [byIP EXCEPT ![frame[p].ip] = frame[p].user]
    /\ Goto(p, "session")
    /\ UNCHANGED <<ids, sessions, lobbies, lobbyOf, idle, cleaning, frame>>

OpenSession(p) ==
    /\ pc[p] = "session"
    /\ sessions' = sessions \cup {frame[p].user}
    /\ Goto(p, IF frame[p].new THEN "open" ELSE "enter")
    /\ UNCHANGED <<ids, byIP, lobbies, lobbyOf, idle, cleaning, frame>>

OpenLobby(p) ==
    /\ pc[p] = "open"
    /\ lobbies' = lobbies \cup {frame[p].lobby}
    /\ Goto(p, "enter")
    /\ UNCHANGED <<ids, sessions, byIP, lobbyOf, idle, cleaning, frame>>

\* AddUser, which does not ask whether the lobby is still there.
Enter(p) ==
    /\ pc[p] = "enter"
    /\ lobbyOf' = [lobbyOf EXCEPT ![frame[p].user] = frame[p].lobby]
    /\ End(p)
    /\ UNCHANGED <<ids, sessions, byIP, lobbies, idle, cleaning>>

-----------------------------------------------------------------------------
(* CleanupUsers, started by the manager's ticker *)

\* The manager's mutex, and a copy of UsersByIP.
CleanupUsers(p) ==
    /\ pc[p] = "idle"
    /\ cleaning = None
    /\ cleaning' = p
    /\ frame' = [frame EXCEPT ![p].todo = {u \in User : \E ip \in IP : byIP[ip] = u}]
    /\ Goto(p, "check")
    /\ UNCHANGED <<ids, maps, idle>>

\* The next user of the copy, who has timed out or not.
CheckUser(p, u) ==
    /\ pc[p] = "check"
    /\ u \in frame[p].todo
    /\ \/ /\ u \in idle
          /\ frame' = [frame EXCEPT ![p].todo = @ \ {u}, ![p].old = u, ![p].next = "check"]
          /\ Goto(p, "drop")
       \/ /\ u \notin idle
          /\ frame' = [frame EXCEPT ![p].todo = @ \ {u}]
          /\ UNCHANGED pc
    /\ UNCHANGED <<ids, maps, idle, cleaning>>

CleanupDone(p) ==
    /\ pc[p] = "check"
    /\ frame[p].todo = {}
    /\ cleaning' = None
    /\ End(p)
    /\ UNCHANGED <<ids, maps, idle>>

-----------------------------------------------------------------------------
(* RemoveLobby, at the end of Expire (Streams says when) *)

\* What it does for each user is Get where a Delete was meant: nothing.
RemoveLobby(l) ==
    /\ l \in lobbies
    /\ lobbies' = lobbies \ {l}
    /\ UNCHANGED <<ids, sessions, byIP, lobbyOf, idle, cleaning, pc, frame>>

-----------------------------------------------------------------------------

Init ==
    /\ born = {} /\ made = {}
    /\ sessions = {} /\ byIP = [ip \in IP |-> None]
    /\ lobbies = {} /\ lobbyOf = [u \in User |-> None]
    /\ idle = {}
    /\ cleaning = None
    /\ pc = [p \in Goroutine |-> "idle"]
    /\ frame = [p \in Goroutine |-> Blank]

\* A goroutine that has started goes on.
Continue(p) ==
    \/ CheckDevice(p) \/ FindCookie(p) \/ FindAddress(p)
    \/ Drop(p) \/ Forget(p)
    \/ Register(p) \/ OpenSession(p) \/ OpenLobby(p) \/ Enter(p)
    \/ (\E u \in User : CheckUser(p, u)) \/ CleanupDone(p)

Next ==
    \/ \E p \in Request, u \in User, c \in Cookie \cup {None}, l \in Lobby :
          Create(p, u, c, l) \/ Join(p, u, c, l)
    \/ \E p \in Goroutine : Continue(p)
    \/ \E p \in Cleaner : CleanupUsers(p)
    \/ \E u \in User, ip \in IP : Heartbeat(u, ip)
    \/ \E u \in User : TimeOut(u)
    \/ \E l \in Lobby : RemoveLobby(l)

Spec == Init /\ [][Next]_vars

\* Goroutines run, the ticker ticks and the manager's mutex is handed over.
Fairness ==
    /\ \A p \in Goroutine : WF_vars(Continue(p))
    /\ \A p \in Cleaner : SF_vars(CleanupUsers(p))

FairSpec == Spec /\ Fairness

-----------------------------------------------------------------------------
(* Properties *)

Frame == [ip : IP \cup {None}, cookie : User \cup {None}, lobby : Lobby \cup {None},
          new : BOOLEAN, user : User \cup {None}, old : User \cup {None},
          next : Label, todo : SUBSET User]

\* Every variable has its type.
TypeOK ==
    /\ born \in SUBSET User /\ made \in SUBSET Lobby
    /\ sessions \in SUBSET User /\ byIP \in [IP -> User \cup {None}]
    /\ lobbies \in SUBSET Lobby
    /\ lobbyOf \in [User -> Lobby \cup {None}]
    /\ idle \in SUBSET User
    /\ cleaning \in Cleaner \cup {None}
    /\ pc \in [Goroutine -> Label]
    /\ frame \in [Goroutine -> Frame]

\* An address is never left to a user whose session is gone: InjectSession would
\* refuse everybody else from it.  UsersByIP and UsersBySessionID are written one
\* after the other and under no common lock, so such an entry exists for a while,
\* but only while somebody is on the way to open the session or to delete the entry.
AddressNotBlocked ==
    \A ip \in IP : byIP[ip] # None =>
        \/ byIP[ip] \in sessions
        \/ \E p \in Request : pc[p] = "session" /\ frame[p].user = byIP[ip]
        \/ \E p \in Goroutine : pc[p] = "forget" /\ IPOf[frame[p].old] = ip

\* A user who has gone does not keep the address: CleanupUsers gets to it,
\* whatever joins and cleanups go on, unless the user comes back.
AddressFreed ==
    \A u \in User : byIP[IPOf[u]] = u /\ u \in idle ~> byIP[IPOf[u]] # u \/ u \notin idle

-----------------------------------------------------------------------------
(* What a comment says, and the code does not do *)

\* "ensure one session per IP": no two users of an address are both served.
OneSessionPerIP ==
    \A u, w \in sessions : IPOf[u] = IPOf[w] /\ Admitted(u, IPOf[u]) /\ Admitted(w, IPOf[w]) => u = w

=============================================================================
