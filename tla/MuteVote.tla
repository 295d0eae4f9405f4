------------------------------ MODULE MuteVote ------------------------------
(***************************************************************************)
(* The vote to mute a user of one lobby, and the mutes and cooldowns it    *)
(* leaves behind (internal/dj/votes.go, AddUser, RemoveUser and            *)
(* CleanupMuteExpirations of internal/dj/lobby.go, HandleVoteMuteStart and *)
(* HandleVoteMuteSubmit of internal/service/handlers.go).                  *)
(*                                                                         *)
(* All of VoteMute is accessed inside the lobby mutex, so a locked section *)
(* is one step, except where what it calls (Users, MutesByIP) is changed   *)
(* outside the mutex by others.  The checks of HandleVoteMuteStart, the    *)
(* arming of the timer, joining, leaving and the cleanup are outside.  A   *)
(* Broadcast may panic wherever there is one (Streams says why); in a      *)
(* request the panic is recovered, in a goroutine of the timer minder or   *)
(* of the manager it ends the process, and all lobbies with it: such a     *)
(* behaviour merely stops, and is left out.                                *)
(*                                                                         *)
(* Left out: names, toasts, and who initiated the vote (display only).  A  *)
(* map entry that is absent is one that ended at 0, before the clock runs. *)
(***************************************************************************)
EXTENDS Naturals, FiniteSets

CONSTANTS
    User,       \* user ids; whoever leaves comes back under a new one
    IP,         \* addresses
    IPOf,       \* the address of each user id
    CreatorIP,  \* Lobby.CreatorIP
    Request,    \* goroutines of HTTP requests
    Timer,      \* goroutines started by timerMinder
    MuteTime,   \* VoteMuteDuration
    Cooldown,   \* how long a user who started a vote may start no other
    MaxTime,    \* bound on the clock
    None,       \* the empty VoteMute.TargetID
    Free,       \* the mutex is not held
    Leaked      \* the mutex is held by a handler that panicked: nobody will release it

ASSUME AddressAssumption == IPOf \in [User -> IP] /\ CreatorIP \in IP

ASSUME MuteGoroutineAssumption ==
    Request \cap Timer = {} /\ {Free, Leaked} \cap (Request \cup Timer) = {} /\ Free # Leaked

ASSUME TargetAssumption == None \notin User /\ IsFiniteSet(User)

ASSUME TimeAssumption == MuteTime \in Nat /\ Cooldown \in Nat /\ MaxTime \in Nat

Goroutine == Request \cup Timer

VARIABLES
    now,        \* the clock
    present,    \* Lobby.Users
    joined,     \* the ids that have been given out
    mutedUntil, \* User.MutedUntil
    mutes,      \* Lobby.MutesByIP
    cooldowns,  \* Lobby.MuteCooldownsByIP
    vote,       \* Lobby.VoteMute
    muteTimer,  \* is voteMuteTimer armed?
    mutex,      \* the lobby's sync.Mutex: Free, Leaked or its holder
    pc,         \* where each goroutine is
    frame,      \* its local variables
    unarmed,    \* history: the Broadcast of a vote's start panicked before the timer
                \* was reset, and no timer was since
    raced       \* history: the addresses of which two ids were in the lobby at once, or
                \* on which a verdict fell while their user was joining

people == <<now, present, joined>>
muteVars == <<mutedUntil, mutes, cooldowns>>
control == <<mutex, pc, frame>>
history == <<unarmed, raced>>
vars == <<people, muteVars, vote, muteTimer, control, history>>

Label == {"idle", "cooldown", "find", "start", "arm", "calc", "impose", "clear",
          "joinQueue", "joinLook", "joinMute", "sweep"}

Blank == [user |-> None, target |-> None, mutes |-> {}, cooldowns |-> {}, until |-> 0]

NoVote == [active |-> FALSE, target |-> None, yes |-> {}, no |-> {}]

Goto(p, label) == pc' = [pc EXCEPT ![p] = label]

End(p) == Goto(p, "idle") /\ frame' = [frame EXCEPT ![p] = Blank]

-----------------------------------------------------------------------------
(* HandleVoteMuteStart and StartVoteMute *)

\* The first locked section: no vote is on, and nobody votes to mute himself.
\* (Whoever sent the request may have left meanwhile.)
MuteStart(p, u, t) ==
    /\ pc[p] = "idle"
    /\ mutex = Free
    /\ u \in joined /\ ~vote.active /\ t # u
    /\ frame' = [frame EXCEPT ![p].user = u, ![p].target = t]
    /\ Goto(p, "cooldown")
    /\ UNCHANGED <<people, muteVars, vote, muteTimer, mutex, history>>

CheckCooldown(p) ==
    /\ pc[p] = "cooldown"
    /\ \/ now < cooldowns[IPOf[frame[p].user]] /\ End(p)
       \/ now >= cooldowns[IPOf[frame[p].user]] /\ Goto(p, "find") /\ UNCHANGED frame
    /\ UNCHANGED <<people, muteVars, vote, muteTimer, mutex, history>>

\* StartVoteMute looks the target up before it takes the lock.
FindTarget(p) ==
    /\ pc[p] = "find"
    /\ \/ frame[p].target \notin present /\ End(p)
       \/ frame[p].target \in present /\ Goto(p, "start") /\ UNCHANGED frame
    /\ UNCHANGED <<people, muteVars, vote, muteTimer, mutex, history>>

\* Its locked section, which does not look at VoteMute.Active again.
StartVote(p) ==
    /\ pc[p] = "start"
    /\ mutex = Free
    /\ LET ip == IPOf[frame[p].user]
       IN  cooldowns' = IF ip = CreatorIP THEN cooldowns
                        ELSE [cooldowns EXCEPT ![ip] = now + Cooldown]
    /\ vote' = [vote EXCEPT !.active = TRUE, !.target = frame[p].target,
                            !.yes = @ \cup {frame[p].user}]
    /\ frame' = [frame EXCEPT ![p] = Blank]
    /\ Goto(p, "arm")
    /\ UNCHANGED <<people, mutedUntil, mutes, muteTimer, mutex, history>>

\* (Mutant: the timer is not reset.)
ArmForgets(p) ==
    /\ pc[p] = "arm"
    /\ End(p)
    /\ UNCHANGED <<people, muteVars, vote, muteTimer, mutex, history>>

\* After the unlock, the broadcast and then voteMuteTimer.Reset.  If the broadcast
\* panics, net/http recovers it and the timer is not reset.
Arm(p) ==
    /\ pc[p] = "arm"
    /\ \/ muteTimer' = TRUE /\ unarmed' = FALSE
       \/ unarmed' = TRUE /\ UNCHANGED muteTimer
    /\ End(p)
    /\ UNCHANGED <<people, muteVars, vote, mutex, raced>>

-----------------------------------------------------------------------------
(* HandleVoteMuteSubmit: RecordMuteVote *)

EarlyQuorum(yes) == Cardinality(yes) > (Cardinality(present) + 2) \div 2

\* Without a quorum the tally is broadcast with the mutex held; no Unlock of this
\* handler is deferred.
Submit(p, u, yes) ==
    /\ pc[p] = "idle"
    /\ mutex = Free
    /\ u \in joined /\ vote.active
    /\ vote' = IF yes
               THEN [vote EXCEPT !.yes = @ \cup {u}, !.no = @ \ {u}]
               ELSE [vote EXCEPT !.no = @ \cup {u}, !.yes = @ \ {u}]
    /\ IF EarlyQuorum(vote'.yes)
       THEN Goto(p, "calc") /\ UNCHANGED mutex
       ELSE mutex' \in {Free, Leaked} /\ UNCHANGED pc
    /\ UNCHANGED <<people, muteVars, muteTimer, frame, history>>

-----------------------------------------------------------------------------
(* CalcVoteMuteResult and EndVoteMute *)

VotePasses == Cardinality(vote.yes) >= (Cardinality(present) + 1) \div 2

\* The lock, the verdict, voteMuteTimer.Stop() and Users.Get(TargetID).
Calc(p) ==
    /\ pc[p] = "calc"
    /\ mutex = Free
    /\ \/ /\ ~vote.active
          /\ End(p)
          /\ UNCHANGED <<muteTimer, mutex>>
       \/ /\ vote.active
          /\ mutex' = p
          /\ muteTimer' = FALSE
          /\ Goto(p, IF VotePasses /\ vote.target \in present THEN "impose" ELSE "clear")
          /\ UNCHANGED frame
    /\ UNCHANGED <<people, muteVars, vote, history>>

Joining(u) ==
    \E p \in Request : pc[p] \in {"joinQueue", "joinLook", "joinMute"} /\ frame[p].user = u

\* The target found in Users is muted, and so is its address.
Impose(p) ==
    /\ pc[p] = "impose"
    /\ mutedUntil' = [mutedUntil EXCEPT ![vote.target] = now + MuteTime]
    /\ mutes' = [mutes EXCEPT ![IPOf[vote.target]] = now + MuteTime]
    /\ raced' = IF Joining(vote.target) THEN raced \cup {IPOf[vote.target]} ELSE raced
    /\ Goto(p, "clear")
    /\ UNCHANGED <<people, cooldowns, vote, muteTimer, mutex, frame, unarmed>>

\* (Mutant: NoVotes is not cleared.)
ClearYes(p) ==
    /\ pc[p] = "clear"
    /\ vote' = [NoVote EXCEPT !.no = vote.no]
    /\ mutex' = Free
    /\ End(p)
    /\ UNCHANGED <<people, muteVars, muteTimer, history>>

\* The vote is cleared and everybody told.  A panic of the broadcast does no more
\* than the return, as the Unlock is deferred.
Clear(p) ==
    /\ pc[p] = "clear"
    /\ vote' = NoVote
    /\ unarmed' = FALSE
    /\ mutex' = Free
    /\ End(p)
    /\ UNCHANGED <<people, muteVars, muteTimer, raced>>

-----------------------------------------------------------------------------
(* AddUser and RemoveUser *)

\* Users.Set, for a new id, whoever else of the address is in the lobby.
Enter(p, u) ==
    /\ pc[p] = "idle"
    /\ u \notin joined
    /\ present' = present \cup {u}
    /\ joined' = joined \cup {u}
    /\ raced' = IF \E w \in present : IPOf[w] = IPOf[u] THEN raced \cup {IPOf[u]} ELSE raced
    /\ frame' = [frame EXCEPT ![p].user = u]
    /\ Goto(p, "joinQueue")
    /\ UNCHANGED <<now, muteVars, vote, muteTimer, mutex, unarmed>>

\* (Mutant: AddUser does not pass through the mutex.)
JoinUnlocked(p) ==
    /\ pc[p] = "joinQueue"
    /\ Goto(p, "joinLook")
    /\ UNCHANGED <<people, muteVars, vote, muteTimer, mutex, frame, history>>

\* The place in RoundRobinQueue, inside the mutex.
JoinQueue(p) ==
    /\ pc[p] = "joinQueue"
    /\ mutex = Free
    /\ Goto(p, "joinLook")
    /\ UNCHANGED <<people, muteVars, vote, muteTimer, mutex, frame, history>>

\* MutesByIP.Get: the newcomer inherits the mute of the address if there is one ...
JoinLook(p) ==
    /\ pc[p] = "joinLook"
    /\ \/ mutes[IPOf[frame[p].user]] = 0 /\ End(p)
       \/ /\ mutes[IPOf[frame[p].user]] > 0
          /\ frame' = [frame EXCEPT ![p].until = mutes[IPOf[frame[p].user]]]
          /\ Goto(p, "joinMute")
    /\ UNCHANGED <<people, muteVars, vote, muteTimer, mutex, history>>

\* ... as it was when it was looked up.
JoinMute(p) ==
    /\ pc[p] = "joinMute"
    /\ mutedUntil' = [mutedUntil EXCEPT ![frame[p].user] = frame[p].until]
    /\ End(p)
    /\ UNCHANGED <<people, mutes, cooldowns, vote, muteTimer, mutex, history>>

\* A user leaves, thrown out by a handler or by the manager's cleanup.
RemoveUser(u) ==
    /\ u \in present
    /\ present' = present \ {u}
    /\ UNCHANGED <<now, joined, muteVars, vote, muteTimer, mutex, pc, frame, history>>

-----------------------------------------------------------------------------
(* timerMinder and CleanupMuteExpirations *)

FireMute(p) ==
    /\ pc[p] = "idle"
    /\ muteTimer
    /\ muteTimer' = FALSE
    /\ Goto(p, "calc")
    /\ UNCHANGED <<people, muteVars, vote, mutex, frame, history>>

Expired(until) == {ip \in IP : 0 < until[ip] /\ until[ip] < now}

\* muteExpiryTicker: the cleanup first collects what has expired...
Scan(p) ==
    /\ pc[p] = "idle"
    /\ Expired(mutes) # {} \/ Expired(cooldowns) # {}
    /\ frame' = [frame EXCEPT ![p].mutes = Expired(mutes), ![p].cooldowns = Expired(cooldowns)]
    /\ Goto(p, "sweep")
    /\ UNCHANGED <<people, muteVars, vote, muteTimer, mutex, history>>

\* (Mutant: the addresses vanish from the maps altogether.)
SweepAway(p) ==
    /\ pc[p] = "sweep"
    /\ mutes' = [ip \in IP \ frame[p].mutes |-> mutes[ip]]
    /\ cooldowns' = [ip \in IP \ frame[p].cooldowns |-> cooldowns[ip]]
    /\ End(p)
    /\ UNCHANGED <<people, mutedUntil, vote, muteTimer, mutex, history>>

\* ... and then deletes it, whatever it has become.
Sweep(p) ==
    /\ pc[p] = "sweep"
    /\ mutes' = [ip \in IP |-> IF ip \in frame[p].mutes THEN 0 ELSE mutes[ip]]
    /\ cooldowns' = [ip \in IP |-> IF ip \in frame[p].cooldowns THEN 0 ELSE cooldowns[ip]]
    /\ End(p)
    /\ UNCHANGED <<people, mutedUntil, vote, muteTimer, mutex, history>>

Tick ==
    /\ now < MaxTime
    /\ now' = now + 1
    /\ UNCHANGED <<present, joined, muteVars, vote, muteTimer, control, history>>

-----------------------------------------------------------------------------

Init ==
    /\ now = 1
    /\ present = {}
    /\ joined = {}
    /\ mutedUntil = [u \in User |-> 0]
    /\ mutes = [ip \in IP |-> 0]
    /\ cooldowns = [ip \in IP |-> 0]
    /\ vote = NoVote
    /\ muteTimer = FALSE
    /\ mutex = Free
    /\ pc = [p \in Goroutine |-> "idle"]
    /\ frame = [p \in Goroutine |-> Blank]
    /\ unarmed = FALSE
    /\ raced = {}

\* A new request.
Arrive(p) ==
    \/ \E u, t \in User : MuteStart(p, u, t)
    \/ \E u \in User, yes \in BOOLEAN : Submit(p, u, yes)
    \/ \E u \in User : Enter(p, u)

\* A goroutine that has started goes on.
Continue(p) ==
    \/ CheckCooldown(p) \/ FindTarget(p) \/ StartVote(p) \/ Arm(p)
    \/ Calc(p) \/ Impose(p) \/ Clear(p)
    \/ JoinQueue(p) \/ JoinLook(p) \/ JoinMute(p)
    \/ Sweep(p)

Next ==
    \/ \E p \in Request : Arrive(p)
    \/ \E p \in Timer : FireMute(p) \/ Scan(p)
    \/ \E p \in Goroutine : Continue(p)
    \/ \E u \in User : RemoveUser(u)
    \/ Tick

Spec == Init /\ [][Next]_vars

\* Goroutines run, the mutex is handed to whoever waits, ticks are delivered.
Fairness ==
    /\ \A p \in Goroutine : SF_vars(Continue(p))
    /\ \A p \in Timer : SF_vars(FireMute(p))

FairSpec == Spec /\ Fairness

-----------------------------------------------------------------------------
(* Properties *)

Frame == [user : User \cup {None}, target : User \cup {None},
          mutes : SUBSET IP, cooldowns : SUBSET IP, until : Nat]

\* Every variable has its type.
TypeOK ==
    /\ now \in Nat
    /\ present \in SUBSET User
    /\ joined \in SUBSET User
    /\ mutedUntil \in [User -> Nat]
    /\ mutes \in [IP -> Nat]
    /\ cooldowns \in [IP -> Nat]
    /\ vote \in [active : BOOLEAN, target : User \cup {None},
                 yes : SUBSET User, no : SUBSET User]
    /\ muteTimer \in BOOLEAN
    /\ mutex \in Goroutine \cup {Free, Leaked}
    /\ pc \in [Goroutine -> Label]
    /\ frame \in [Goroutine -> Frame]
    /\ unarmed \in BOOLEAN
    /\ raced \in SUBSET IP

\* An open vote always has an end: its timer is armed, or about to be by who
\* started it, or somebody is on the way to count it.  The timer is reset outside
\* the mutex, races with the early end of the vote, and is stopped by a verdict.
\* The one exception is a vote whose starter's broadcast panicked.
VoteHasEnd ==
    vote.active /\ ~unarmed =>
        muteTimer \/ \E p \in Goroutine : pc[p] \in {"arm", "calc", "impose", "clear"}

\* A vote starts from nothing: StartVoteMute does not clear the ballots, so none
\* may come in after EndVoteMute has.
NoBallotsLeft == ~vote.active => vote.yes = {} /\ vote.no = {}

\* A mute sticks to the address: who leaves and comes back under a new id, even
\* while the verdict is being carried out, is muted as long as the address is.
\* (It need not if the address has two users in the lobby, or if the verdict falls
\* on somebody between his entry and his AddUser's look at MutesByIP.)
MuteFollowsIP ==
    \A u \in present :
        IPOf[u] \in raced \/ Joining(u) \/ mutes[IPOf[u]] <= mutedUntil[u]

\* An open vote ends, even if others override it and reset its timer, unless the
\* broadcast of its start panicked or the mutex leaks.
MuteVoteEnds == vote.active ~> ~vote.active \/ unarmed \/ mutex = Leaked

\* The poll the module Poll describes, which is over when its verdict falls, and whom
\* it has muted.
Counted == \E p \in Goroutine : pc[p] = "clear"
OpenPoll == IF Counted THEN NoVote ELSE vote
Silenced == {u \in User : mutedUntil[u] > 0}

Promise == INSTANCE Poll WITH poll <- OpenPoll, silenced <- Silenced

\* However requests, timers, joins and cleanups interleave, the vote to mute is such
\* a poll: it ends with all of its ballots in one step, which is the one that mutes
\* its target, and nobody is muted otherwise unless somebody of his address is.
KeepsPromise == Promise!Spec

-----------------------------------------------------------------------------
(* What the documentation and the messages say, and the code does not do *)

\* "A vote to mute is already pending": an open vote keeps its target.
OneVoteAtATime == [][vote.active /\ vote'.active => vote'.target = vote.target]_vars

=============================================================================
