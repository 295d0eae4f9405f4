------------------------------ MODULE Streams -------------------------------
(***************************************************************************)
(* One lobby and the event streams of its users: HandleSSE and the pages   *)
(* that open streams (internal/service/handlers.go, templates/lobby.templ),*)
(* Broadcast and RemoveUser, which write to them and end them, and the     *)
(* expiry of the lobby with its timer (internal/dj/lobby.go, manager.go).  *)
(*                                                                         *)
(* User.SSE is written by HandleSSE and read by everybody else without a   *)
(* common lock, and often twice: once to see that it is not nil, and again *)
(* to use it.  A second load right after the first is merged with it in a  *)
(* release build and not in the development build (-race), so either value *)
(* may be used; a load after a call is always a new one.  What has been     *)
(* loaded may be a stream whose handler has returned before it is used.    *)
(***************************************************************************)
EXTENDS Naturals, FiniteSets

CONSTANTS
    User,       \* ids of users; one that nothing mentions any more is given again
    Stream,     \* goroutines of HandleSSE, each with the page that is at its other end
    Request,    \* goroutines of the other requests
    Cleaner,    \* goroutines of LobbyManager.CleanupUsers
    Minder,     \* the goroutine of Lobby.timerMinder
    None        \* the nil *sse.Client, and no user

ASSUME GoroutineAssumption ==
    /\ Request \cap Cleaner = {}
    /\ Minder \notin Request \cup Cleaner

ASSUME NoneAssumption == None \notin User \cup Stream

Goroutine == Request \cup Cleaner \cup {Minder}

VARIABLES
    listed,     \* is the lobby in LobbyManager.Lobbies?
    members,    \* Lobby.Users
    sessions,   \* LobbyManager.UsersBySessionID
    sse,        \* User.SSE
    timer,      \* is expiryTimer armed?
    state,      \* where each HandleSSE and its page are
    owner,      \* the user of that page
    done,       \* the streams whose context is done, known to the handler or not yet
    stale,      \* the pages that show the lobby as it was before some change
    missed,     \* history: the pages that the last change did not or will not reach, as
                \* their stream was registered too late or the Broadcast panicked
    crashed,    \* the process died of a panic no handler recovers
    pc,         \* where each other goroutine is
    frame       \* its local variables

lobbyVars == <<listed, members, sessions, timer>>
streamVars == <<sse, state, owner, done, stale>>
vars == <<lobbyVars, streamVars, missed, crashed, pc, frame>>

-----------------------------------------------------------------------------

\* No page; a page that has not opened its stream; past InjectSession; in the loop
\* of HandleSSE; out of it.
State == {"away", "page", "connecting", "open", "closing"}

Label == {"idle", "enter", "cast", "send", "touch", "rearm",
          "kickCheck", "kickErr", "kickSend", "kickCancel", "forget",
          "cancelAll", "cancel", "cancelUser", "clear", "unlist", "kickRest", "stopped"}

\* todo: the users a loop has still to visit; user: the one it visits; client: the
\* stream loaded; next: where to go after a Broadcast or a kick.
Blank == [todo |-> {}, user |-> None, client |-> None, next |-> "idle"]

Goto(p, label) == pc' = [pc EXCEPT ![p] = label]

End(p) == Goto(p, "idle") /\ frame' = [frame EXCEPT ![p] = Blank]

\* A nil pointer used: net/http recovers it in a request, elsewhere the process dies.
Panic(p) ==
    \/ /\ p \in Request
       /\ End(p)
       /\ UNCHANGED crashed
    \/ /\ p \notin Request
       /\ crashed' = TRUE
       /\ UNCHANGED <<pc, frame>>

-----------------------------------------------------------------------------
(* HandleSSE *)

\* (InjectSession) The session exists and the lobby is there; else the page is left
\* with an error or sent away.
Connect(s) ==
    /\ state[s] = "page"
    /\ state' = [state EXCEPT ![s] = IF listed /\ owner[s] \in sessions
                                     THEN "connecting" ELSE "away"]
    /\ UNCHANGED <<lobbyVars, sse, owner, done, stale, crashed, pc, frame, missed>>

\* A Broadcast is on its way to the user, and will find the stream.
Coming(u, s) ==
    \E p \in Goroutine :
        \/ pc[p] \in {"cast", "send"} /\ u \in frame[p].todo
        \/ pc[p] = "send" /\ frame[p].user = u /\ frame[p].client = s

Register(s) ==
    /\ state[s] = "connecting"
    /\ sse' = [sse EXCEPT ![owner[s]] = s]
    /\ state' = [state EXCEPT ![s] = "open"]
    /\ missed' = IF Coming(owner[s], s) THEN missed ELSE missed \cup {s}
    /\ UNCHANGED <<lobbyVars, owner, done, stale, crashed, pc, frame>>

\* The page is closed, or its connection lost: the context of the request is done.
Drop(s) ==
    /\ state[s] = "open" /\ s \notin done
    /\ done' = done \cup {s}
    /\ UNCHANGED <<lobbyVars, sse, state, owner, stale, crashed, pc, frame, missed>>

\* No request of this name is under way, and nobody holds a client of one.
Unused(t) == state[t] = "away" /\ \A p \in Goroutine : frame[p].client # t

\* The same connection, opened again by the browser before the server has noticed.
Reconnect(s, t) ==
    /\ state[s] = "open" /\ s \notin done /\ Unused(t)
    /\ done' = done \cup {s}
    /\ state' = [state EXCEPT ![t] = "page"]
    /\ owner' = [owner EXCEPT ![t] = owner[s]]
    /\ stale' = IF s \in stale THEN (stale \ {s}) \cup {t} ELSE stale \ {t}
    /\ UNCHANGED <<lobbyVars, sse, crashed, pc, frame, missed>>

\* `case <-ctx.Done()`.
Close(s) ==
    /\ state[s] = "open" /\ s \in done
    /\ state' = [state EXCEPT ![s] = "closing"]
    /\ UNCHANGED <<lobbyVars, sse, owner, done, stale, crashed, pc, frame, missed>>

\* The handler is gone, and with it what the model knows of its page.
Away(s) ==
    /\ state' = [state EXCEPT ![s] = "away"]
    /\ owner' = [owner EXCEPT ![s] = None]
    /\ done' = done \ {s}
    /\ stale' = stale \ {s}
    /\ missed' = missed \ {s}

\* (Mutant: the registration is left.)
FinishKeeps(s) ==
    /\ state[s] = "closing"
    /\ Away(s)
    /\ UNCHANGED <<lobbyVars, sse, crashed, pc, frame>>

\* user.SSE = nil, whichever stream it holds.
Finish(s) ==
    /\ state[s] = "closing"
    /\ sse' = [sse EXCEPT ![owner[s]] = None]
    /\ Away(s)
    /\ UNCHANGED <<lobbyVars, crashed, pc, frame>>

-----------------------------------------------------------------------------
(* Pages, and changes of the lobby that its users are told about *)

\* HandleLobbyPage, refused if the user has a stream ("Multiple Device Error"); it
\* shows the lobby as it is, and touches it.
Page(p, u, t) ==
    /\ pc[p] = "idle"
    /\ listed /\ u \in sessions /\ sse[u] = None
    /\ Unused(t)
    /\ state' = [state EXCEPT ![t] = "page"]
    /\ owner' = [owner EXCEPT ![t] = u]
    /\ Goto(p, "touch")
    /\ UNCHANGED <<lobbyVars, sse, done, stale, crashed, frame, missed>>

\* A Broadcast begins, to those who are in the lobby now (the copy or the order the
\* map's iterator gives is not specified).
StartCast(p, next) ==
    /\ Goto(p, "cast")
    /\ frame' = [frame EXCEPT ![p] = [Blank EXCEPT !.todo = members', !.next = next]]

\* What every open page shows is out of date.
AllStale == {s \in Stream : state[s] # "away"}

\* (Mutant: the change is made and nobody is told.)
UpdateSilent(p) ==
    /\ pc[p] = "idle"
    /\ listed /\ sessions # {}
    /\ stale' = AllStale /\ missed' = {}
    /\ Goto(p, "touch")
    /\ UNCHANGED <<lobbyVars, sse, state, owner, done, crashed, frame>>

\* A handler changes the lobby and broadcasts; AddVideo touches it as well.
Update(p) ==
    /\ pc[p] = "idle"
    /\ listed /\ sessions # {}
    /\ stale' = AllStale /\ missed' = {}
    /\ UNCHANGED <<lobbyVars, sse, state, owner, done, crashed>>
    /\ \E next \in {"touch", "idle"} : StartCast(p, next)

-----------------------------------------------------------------------------
(* Broadcast, for a goroutine p *)

\* The next user of the loop is passed over or, if `user.SSE != nil`, sent to.
Cast(p) ==
    /\ pc[p] = "cast"
    /\ \/ \E u \in frame[p].todo :
            \/ /\ sse[u] = None
               /\ frame' = [frame EXCEPT ![p] = [@ EXCEPT !.todo = frame[p].todo \ {u}]]
               /\ UNCHANGED pc
            \/ /\ sse[u] # None
               /\ frame' = [frame EXCEPT ![p] = [@ EXCEPT !.todo = frame[p].todo \ {u}, !.user = u,
                                                          !.client = sse[u]]]
               /\ Goto(p, "send")
       \/ /\ frame[p].todo = {}
          /\ Goto(p, frame[p].next)
          /\ frame' = [frame EXCEPT ![p] = Blank]
    /\ UNCHANGED <<lobbyVars, streamVars, crashed, missed>>

\* The streams a use of user.SSE after its check may find: the one it was checked
\* with, or the one there now.
Loaded(p) == {frame[p].client, sse[frame[p].user]}

\* The nil pointer, or a stream whose handler has returned.
Gone(s) == s \in Stream => state[s] = "away"

\* Client.Send: the page on that stream asks for what has changed.  A stream whose
\* handler has returned takes nothing, or the write panics on its released buffer.
Send(p) ==
    /\ pc[p] = "send"
    /\ \/ /\ \E s \in Loaded(p) \ {None} : stale' = stale \ {s} /\ missed' = missed \ {s}
          /\ Goto(p, "cast")
          /\ frame' = [frame EXCEPT ![p].user = None, ![p].client = None]
          /\ UNCHANGED crashed
       \/ /\ \E s \in Loaded(p) : Gone(s)
          /\ Panic(p)
          /\ missed' = missed \cup {sse[u] : u \in frame[p].todo}
          /\ UNCHANGED stale
    /\ UNCHANGED <<lobbyVars, sse, state, owner, done>>

-----------------------------------------------------------------------------
(* Touch *)

\* expiryTimer.Stop(), then ExpiresAt, then Reset.
Touch(p) ==
    /\ pc[p] = "touch"
    /\ timer' = FALSE
    /\ Goto(p, "rearm")
    /\ UNCHANGED <<listed, members, sessions, streamVars, crashed, frame, missed>>

\* (Mutant: stopped and not reset.)
RearmForgets(p) ==
    /\ pc[p] = "rearm"
    /\ End(p)
    /\ UNCHANGED <<lobbyVars, streamVars, crashed, missed>>

Rearm(p) ==
    /\ pc[p] = "rearm"
    /\ timer' = TRUE
    /\ End(p)
    /\ UNCHANGED <<listed, members, sessions, streamVars, crashed, missed>>

-----------------------------------------------------------------------------
(* AddUser and RemoveUser *)

\* Nothing mentions the id: as good as the new one GenerateID makes.
Fresh(u) ==
    /\ u \notin sessions \cup members
    /\ sse[u] = None
    /\ \A s \in Stream : owner[s] # u
    /\ \A p \in Goroutine : frame[p].user # u /\ u \notin frame[p].todo

\* HandleJoinLobby: the lobby is found, a user made ...
Join(p, u) ==
    /\ pc[p] = "idle"
    /\ listed /\ Fresh(u)
    /\ sessions' = sessions \cup {u}
    /\ Goto(p, "enter")
    /\ frame' = [frame EXCEPT ![p] = [Blank EXCEPT !.user = u]]
    /\ UNCHANGED <<listed, members, timer, streamVars, crashed, missed>>

\* ... and added, whatever has become of the lobby; everybody is told.
Enter(p) ==
    /\ pc[p] = "enter"
    /\ members' = members \cup {frame[p].user}
    /\ stale' = AllStale /\ missed' = {}
    /\ StartCast(p, "touch")
    /\ UNCHANGED <<listed, sessions, timer, sse, state, owner, done, crashed>>

\* RemoveUser, of a request's own session or of a user CleanupUsers finds timed out.
RemoveUser(p, u) ==
    /\ pc[p] = "idle"
    /\ p # Minder
    /\ u \in members
    /\ members' = members \ {u}
    /\ Goto(p, "kickCheck")
    /\ frame' = [frame EXCEPT ![p] = [Blank EXCEPT !.user = u, !.next = "cast"]]
    /\ UNCHANGED <<listed, sessions, timer, streamVars, crashed, missed>>

\* `user.SSE != nil`; RemoveLobby goes on to Send, RemoveUser to Context.Err().
KickCheck(p) ==
    /\ pc[p] = "kickCheck"
    /\ \/ /\ sse[frame[p].user] = None
          /\ Goto(p, "forget")
          /\ UNCHANGED frame
       \/ /\ sse[frame[p].user] # None
          /\ frame' = [frame EXCEPT ![p].client = sse[frame[p].user]]
          /\ Goto(p, IF p = Minder THEN "kickSend" ELSE "kickErr")
    /\ UNCHANGED <<lobbyVars, streamVars, crashed, missed>>

\* `user.SSE.Context.Err() == nil`.  Whether the context of a stream in done says so
\* yet is left open; that of a handler that has returned does.
KickErr(p) ==
    /\ pc[p] = "kickErr"
    /\ \E s \in Loaded(p) :
        \/ /\ s # None
           /\ \/ state[s] # "away" /\ Goto(p, "kickSend")
              \/ (s \in done \/ state[s] = "away") /\ Goto(p, "forget")
           /\ frame' = [frame EXCEPT ![p].client = None]
           /\ UNCHANGED crashed
        \/ s = None /\ Panic(p)
    /\ UNCHANGED <<lobbyVars, streamVars, missed>>

\* user.SSE.Send("redirect", "/"), with what user.SSE is now, or, in RemoveLobby,
\* was when it was checked.
KickSend(p) ==
    /\ pc[p] = "kickSend"
    /\ \E s \in IF p = Minder THEN Loaded(p) ELSE {sse[frame[p].user]} :
        \/ /\ s # None
           /\ Goto(p, "kickCancel")
           /\ frame' = [frame EXCEPT ![p].client = None]
           /\ UNCHANGED crashed
        \/ /\ Gone(s)
           /\ Panic(p)
    /\ UNCHANGED <<lobbyVars, streamVars, missed>>

\* user.SSE.Cancel.
KickCancel(p) ==
    /\ pc[p] = "kickCancel"
    /\ \/ /\ sse[frame[p].user] # None
          /\ done' = done \cup {sse[frame[p].user]}
          /\ Goto(p, "forget")
          /\ UNCHANGED <<crashed, frame>>
       \/ /\ sse[frame[p].user] = None
          /\ Panic(p)
          /\ UNCHANGED done
    /\ UNCHANGED <<lobbyVars, sse, state, owner, stale, missed>>

\* After the kick: RemoveUser broadcasts, and its caller deletes the session;
\* RemoveLobby goes on with its loop.
Forget(p) ==
    /\ pc[p] = "forget"
    /\ \/ /\ frame[p].next = "kickRest"
          /\ Goto(p, "kickRest")
          /\ UNCHANGED <<sessions, stale, missed, frame, members>>
       \/ /\ frame[p].next = "cast"
          /\ sessions' = sessions \ {frame[p].user}
          /\ stale' = AllStale /\ missed' = {}
          /\ UNCHANGED members
          /\ StartCast(p, "idle")
    /\ UNCHANGED <<listed, timer, sse, state, owner, done, crashed>>

-----------------------------------------------------------------------------
(* Expire, run by the minder itself, and RemoveLobby *)

\* timerMinder receives the tick.  A timer that was stopped or reset delivers no
\* old one (go.mod asks for go 1.24).
FireExpiry ==
    /\ pc[Minder] = "idle"
    /\ timer
    /\ timer' = FALSE
    /\ UNCHANGED <<listed, members, sessions, streamVars, crashed, missed>>
    /\ StartCast(Minder, "cancelAll")

\* The loop over Users starts.
CancelAll ==
    /\ pc[Minder] = "cancelAll"
    /\ Goto(Minder, "cancel")
    /\ frame' = [frame EXCEPT ![Minder] = [Blank EXCEPT !.todo = members]]
    /\ UNCHANGED <<lobbyVars, streamVars, crashed, missed>>

\* `if user.SSE != nil` for the next of them.
Cancel ==
    /\ pc[Minder] = "cancel"
    /\ \/ \E u \in frame[Minder].todo :
            \/ /\ sse[u] = None
               /\ frame' = [frame EXCEPT ![Minder] = [@ EXCEPT !.todo = frame[Minder].todo \ {u}]]
               /\ UNCHANGED pc
            \/ /\ sse[u] # None
               /\ frame' = [frame EXCEPT ![Minder] = [@ EXCEPT !.todo = frame[Minder].todo \ {u},
                                                               !.user = u, !.client = sse[u]]]
               /\ Goto(Minder, "cancelUser")
       \/ /\ frame[Minder].todo = {}
          /\ Goto(Minder, "clear")
          /\ UNCHANGED frame
    /\ UNCHANGED <<lobbyVars, streamVars, crashed, missed>>

\* The contexts that are done after Cancel is called on stream s.
Cancelled(s) == IF state[s] = "away" THEN done ELSE done \cup {s}

\* (Mutant: the nil pointer is not noticed.)
CancelAny ==
    /\ pc[Minder] = "cancelUser"
    /\ \E s \in Loaded(Minder) : done' = done \cup {s}
    /\ Goto(Minder, "cancel")
    /\ frame' = [frame EXCEPT ![Minder].user = None, ![Minder].client = None]
    /\ UNCHANGED <<lobbyVars, sse, state, owner, stale, crashed, missed>>

\* `user.SSE.Cancel(LobbyExpired)`.
CancelUser ==
    /\ pc[Minder] = "cancelUser"
    /\ \E s \in Loaded(Minder) :
        \/ /\ s # None
           /\ done' = Cancelled(s)
           /\ Goto(Minder, "cancel")
           /\ frame' = [frame EXCEPT ![Minder].user = None, ![Minder].client = None]
           /\ UNCHANGED crashed
        \/ s = None /\ Panic(Minder) /\ UNCHANGED done
    /\ UNCHANGED <<lobbyVars, sse, state, owner, stale, missed>>

Clear ==
    /\ pc[Minder] = "clear"
    /\ members' = {}
    /\ Goto(Minder, "unlist")
    /\ UNCHANGED <<listed, sessions, timer, streamVars, crashed, frame, missed>>

\* RemoveLobby: who has come in since is copied, the lobby deleted ...
Unlist ==
    /\ pc[Minder] = "unlist"
    /\ listed' = FALSE
    /\ Goto(Minder, "kickRest")
    /\ frame' = [frame EXCEPT ![Minder] = [Blank EXCEPT !.todo = members]]
    /\ UNCHANGED <<members, sessions, timer, streamVars, crashed, missed>>

\* ... and sent away; then the minder stops the timer and returns.
KickRest ==
    /\ pc[Minder] = "kickRest"
    /\ \/ \E u \in frame[Minder].todo :
            /\ frame' = [frame EXCEPT ![Minder] = [@ EXCEPT !.todo = frame[Minder].todo \ {u}, !.user = u,
                                                            !.next = "kickRest"]]
            /\ Goto(Minder, "kickCheck")
            /\ UNCHANGED timer
       \/ /\ frame[Minder].todo = {}
          /\ timer' = FALSE
          /\ frame' = [frame EXCEPT ![Minder] = Blank]
          /\ Goto(Minder, "stopped")
    /\ UNCHANGED <<listed, members, sessions, streamVars, crashed, missed>>

-----------------------------------------------------------------------------

\* NewLobby, before its creator is added.
Init ==
    /\ listed = TRUE
    /\ members = {}
    /\ sessions = {}
    /\ sse = [u \in User |-> None]
    /\ timer = TRUE
    /\ state = [s \in Stream |-> "away"]
    /\ owner = [s \in Stream |-> None]
    /\ done = {}
    /\ stale = {}
    /\ missed = {}
    /\ crashed = FALSE
    /\ pc = [p \in Goroutine |-> "idle"]
    /\ frame = [p \in Goroutine |-> Blank]

Arrive(p) ==
    \/ Update(p)
    \/ \E u \in User : Join(p, u)
    \/ \E u \in User, t \in Stream : Page(p, u, t)

\* A goroutine that has started goes on.
Continue(p) ==
    \/ Enter(p) \/ Cast(p) \/ Send(p) \/ Touch(p) \/ Rearm(p)
    \/ KickCheck(p) \/ KickErr(p) \/ KickSend(p) \/ KickCancel(p) \/ Forget(p)

Expire == CancelAll \/ Cancel \/ CancelUser \/ Clear \/ Unlist \/ KickRest

\* The server's side of a stream.
Handle(s) == Connect(s) \/ Register(s) \/ Close(s) \/ Finish(s)

Next ==
    /\ ~crashed
    /\ \/ \E p \in Request : Arrive(p)
       \/ \E p \in Goroutine, u \in User : RemoveUser(p, u)
       \/ \E p \in Goroutine : Continue(p)
       \/ FireExpiry \/ Expire
       \/ \E s \in Stream : Handle(s) \/ Drop(s)
       \/ \E s, t \in Stream : Reconnect(s, t)

Spec == Init /\ [][Next]_vars

\* Go runs every goroutine that can run, a timer's tick is delivered, and a page that
\* was loaded connects.  Nobody has to send a request, to leave or to lose a connection.
Fairness ==
    /\ \A p \in Goroutine : WF_vars(~crashed /\ Continue(p))
    /\ WF_vars(~crashed /\ FireExpiry) /\ WF_vars(~crashed /\ Expire)
    /\ \A s \in Stream : WF_vars(~crashed /\ Handle(s))

FairSpec == Spec /\ Fairness

-----------------------------------------------------------------------------
(* Properties *)

Frame == [todo : SUBSET User, user : User \cup {None}, client : Stream \cup {None},
          next : Label]

\* Every variable has its type.
TypeOK ==
    /\ listed \in BOOLEAN
    /\ members \in SUBSET User
    /\ sessions \in SUBSET User
    /\ sse \in [User -> Stream \cup {None}]
    /\ timer \in BOOLEAN
    /\ state \in [Stream -> State]
    /\ owner \in [Stream -> User \cup {None}]
    /\ done \in SUBSET Stream
    /\ stale \in SUBSET Stream
    /\ missed \subseteq Stream \cup {None}
    /\ crashed \in BOOLEAN
    /\ pc \in [Goroutine -> Label]
    /\ frame \in [Goroutine -> Frame]

\* A registered stream is one of the user's own whose handler has not returned: the
\* late end of an old stream may hide a new one, but user.SSE itself never points to a
\* response that is finished.  (A client loaded before the end may be used after it.)
RegisteredRuns ==
    \A u \in User : sse[u] # None =>
        state[sse[u]] \in {"open", "closing"} /\ owner[sse[u]] = u

\* A lobby that can be found has its expiry coming: the timer runs, or a Touch is
\* about to start it again, or the minder is in the middle of Expire.
ExpiryPending ==
    listed => timer \/ pc[Minder] # "idle" \/ \E p \in Request : pc[p] = "rearm"

\* Everybody watches the same: a page with a registered stream that shows an old
\* picture of its user's lobby has a Broadcast coming, whatever streams and users come
\* and go under the loop, unless the stream came too late for the last change or
\* another's, which ended, made its Broadcast panic.
PagesTold ==
    \A u \in members : sse[u] \in stale => sse[u] \in missed \/ Coming(u, sse[u])

\* A lobby that is not touched any more is removed.
LobbyGoes == <>[][\A p \in Request : pc'[p] # "rearm"]_pc => <>(~listed \/ crashed)

=============================================================================
