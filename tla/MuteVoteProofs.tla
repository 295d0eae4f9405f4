--------------------------- MODULE MuteVoteProofs ---------------------------
(***************************************************************************)
(* The invariants of MuteVote, for every set of users, addresses and       *)
(* goroutines, every duration and every horizon of the clock.              *)
(***************************************************************************)
EXTENDS MuteVote, FiniteSetTheorems, TLAPS

JoinLabel == {"joinQueue", "joinLook", "joinMute"}

\* What the locals and the vote hold where a step reads them as users.
LocalsOK ==
    /\ \A p \in Goroutine :
        /\ pc[p] \in {"cooldown", "find", "start"} =>
              frame[p].user \in User /\ frame[p].target \in User
        /\ pc[p] \in JoinLabel => p \in Request /\ frame[p].user \in User
        /\ pc[p] = "impose" => vote.active
    /\ vote.active => vote.target \in User

\* Exactly the goroutine that is ending the vote holds the mutex.
LockOK == \A p \in Goroutine : pc[p] \in {"impose", "clear"} <=> mutex = p

TypeInv == TypeOK /\ LocalsOK /\ LockOK

-----------------------------------------------------------------------------
(* Typing and the mutex *)

\* The steps of p change only p's place and locals.
OthersStay(p) == \A q \in Goroutine \ {p} : pc'[q] = pc[q] /\ frame'[q] = frame[q]

\* What typing gives a step of p.
LEMMA LocalType ==
    ASSUME TypeInv, NEW p \in Goroutine
    PROVE  /\ pc \in [Goroutine -> Label] /\ frame \in [Goroutine -> Frame] /\ frame[p] \in Frame
           /\ \A label \in Label : Goto(p, label) =>
                /\ pc' \in [Goroutine -> Label] /\ pc'[p] = label
                /\ \A q \in Goroutine \ {p} : pc'[q] = pc[q]
           /\ End(p) => /\ pc' \in [Goroutine -> Label] /\ frame' \in [Goroutine -> Frame]
                        /\ pc'[p] = "idle" /\ OthersStay(p)
<1>1. pc \in [Goroutine -> Label] /\ frame \in [Goroutine -> Frame] /\ frame[p] \in Frame
    BY DEF TypeInv, TypeOK
<1>2. \A label \in Label : Goto(p, label) =>
         /\ pc' \in [Goroutine -> Label] /\ pc'[p] = label
         /\ \A q \in Goroutine \ {p} : pc'[q] = pc[q]
    BY <1>1 DEF Goto
<1>3. Blank \in Frame
    BY DEF Blank, Frame
<1>4. End(p) => /\ pc' \in [Goroutine -> Label] /\ frame' \in [Goroutine -> Frame]
                /\ pc'[p] = "idle" /\ OthersStay(p)
    BY <1>1, <1>3 DEF End, Goto, OthersStay, Label
<1> QED
    BY <1>1, <1>2, <1>4

\* A step that leaves the vote and the mutex alone, for a label that neither
\* reads locals nor holds the mutex.
LEMMA PlainStep ==
    ASSUME TypeInv, NEW p \in Goroutine, OthersStay(p),
           pc[p] \notin {"impose", "clear"}, pc'[p] \in {"idle", "arm", "calc", "sweep"},
           UNCHANGED <<vote, mutex>>
    PROVE  LocalsOK' /\ LockOK'
BY DEF TypeInv, LocalsOK, LockOK, OthersStay, JoinLabel

LEMMA StartType ==
    ASSUME TypeInv, NEW p \in Goroutine,
           \/ \E u, t \in User : MuteStart(p, u, t)
           \/ CheckCooldown(p) \/ FindTarget(p) \/ StartVote(p) \/ Arm(p)
    PROVE  TypeInv'
<1> USE DEF Label, people, muteVars, history
<1>0. pc \in [Goroutine -> Label] /\ frame \in [Goroutine -> Frame] /\ frame[p] \in Frame
    BY LocalType
<1>1. ASSUME NEW u \in User, NEW t \in User, MuteStart(p, u, t) PROVE TypeInv'
    <2>1. frame' \in [Goroutine -> Frame]
        BY <1>0, <1>1 DEF MuteStart, Frame
    <2>2. frame'[p].user = u /\ frame'[p].target = t
          /\ \A q \in Goroutine \ {p} : frame'[q] = frame[q]
        BY <1>0, <1>1 DEF MuteStart, Frame
    <2>3. pc' \in [Goroutine -> Label] /\ pc'[p] = "cooldown"
          /\ \A q \in Goroutine \ {p} : pc'[q] = pc[q]
        BY <1>1, LocalType DEF MuteStart
    <2>4. TypeOK'
        BY <1>1, <2>1, <2>3 DEF MuteStart, TypeInv, TypeOK, muteVars
    <2>5. LocalsOK' /\ LockOK'
        BY <1>1, <2>2, <2>3 DEF MuteStart, TypeInv, LocalsOK, LockOK, JoinLabel
    <2> QED
        BY <2>4, <2>5 DEF TypeInv
<1>2. CASE CheckCooldown(p) \/ FindTarget(p)
    <2>1. UNCHANGED <<people, muteVars, vote, muteTimer, mutex, history>>
          /\ pc[p] \in {"cooldown", "find"}
        BY <1>2 DEF CheckCooldown, FindTarget
    <2>2. CASE End(p)
        BY <2>1, <2>2, LocalType, PlainStep DEF TypeInv, TypeOK, muteVars
    <2>3. CASE (Goto(p, "find") \/ Goto(p, "start")) /\ UNCHANGED frame
        <3>1. pc' \in [Goroutine -> Label] /\ pc'[p] \in {"find", "start"}
              /\ \A q \in Goroutine \ {p} : pc'[q] = pc[q]
            BY <2>3, LocalType
        <3>2. TypeOK'
            BY <2>1, <2>3, <3>1 DEF TypeInv, TypeOK, muteVars
        <3>3. LocalsOK' /\ LockOK'
            BY <2>1, <2>3, <3>1 DEF TypeInv, LocalsOK, LockOK, JoinLabel
        <3> QED
            BY <3>2, <3>3 DEF TypeInv
    <2> QED
        BY <1>2, <2>2, <2>3 DEF CheckCooldown, FindTarget
<1>3. CASE StartVote(p)
    <2>1. frame[p].user \in User /\ frame[p].target \in User /\ IPOf[frame[p].user] \in IP
        BY <1>3, AddressAssumption DEF StartVote, TypeInv, LocalsOK
    <2>2. pc' \in [Goroutine -> Label] /\ pc'[p] = "arm"
          /\ \A q \in Goroutine \ {p} : pc'[q] = pc[q]
        BY <1>3, LocalType DEF StartVote
    <2>3. cooldowns' \in [IP -> Nat]
        BY <1>3, <2>1, TimeAssumption DEF StartVote, TypeInv, TypeOK
    <2>4. /\ vote' \in [active : BOOLEAN, target : User \cup {None}, yes : SUBSET User, no : SUBSET User]
          /\ vote'.active /\ vote'.target = frame[p].target
        BY <1>3, <2>1 DEF StartVote, TypeInv, TypeOK
    <2>5. frame' \in [Goroutine -> Frame] /\ \A q \in Goroutine \ {p} : frame'[q] = frame[q]
        BY <1>0, <1>3 DEF StartVote, Blank, Frame
    <2>6. TypeOK'
        BY <1>3, <2>2, <2>3, <2>4, <2>5 DEF StartVote, TypeInv, TypeOK
    <2>7. LocalsOK' /\ LockOK'
        BY <1>3, <2>1, <2>2, <2>4, <2>5 DEF StartVote, TypeInv, LocalsOK, LockOK, JoinLabel
    <2> QED
        BY <2>6, <2>7 DEF TypeInv
<1>4. CASE Arm(p)
    BY <1>4, LocalType, PlainStep DEF Arm, TypeInv, TypeOK, muteVars
<1> QED
    BY <1>1, <1>2, <1>3, <1>4

LEMMA CountType ==
    ASSUME TypeInv, NEW p \in Goroutine,
           \/ \E u \in User, yes \in BOOLEAN : Submit(p, u, yes)
           \/ Calc(p) \/ Impose(p) \/ Clear(p)
    PROVE  TypeInv'
<1> USE DEF Label, people, muteVars, history
<1>0. pc \in [Goroutine -> Label] /\ frame \in [Goroutine -> Frame] /\ frame[p] \in Frame
    BY LocalType
<1>1. ASSUME NEW u \in User, NEW yes \in BOOLEAN, Submit(p, u, yes) PROVE TypeInv'
    <2>1. /\ vote' \in [active : BOOLEAN, target : User \cup {None}, yes : SUBSET User, no : SUBSET User]
          /\ vote'.active = vote.active /\ vote'.target = vote.target
        BY <1>1 DEF Submit, TypeInv, TypeOK
    <2>2. pc' \in [Goroutine -> Label] /\ pc'[p] \in {"calc", "idle"}
          /\ \A q \in Goroutine \ {p} : pc'[q] = pc[q]
        BY <1>1, LocalType DEF Submit
    <2>3. mutex = Free /\ mutex' \in {Free, Leaked}
        BY <1>1 DEF Submit
    <2>4. TypeOK'
        BY <1>1, <2>1, <2>2, <2>3 DEF Submit, TypeInv, TypeOK
    <2>5. LocalsOK'
        BY <1>1, <2>1, <2>2 DEF Submit, TypeInv, LocalsOK, JoinLabel
    <2>6. LockOK'
        BY <1>1, <2>2, <2>3, MuteGoroutineAssumption DEF Submit, TypeInv, LockOK, Goroutine
    <2> QED
        BY <2>4, <2>5, <2>6 DEF TypeInv
<1>2. CASE Calc(p)
    <2>1. UNCHANGED <<people, muteVars, vote, history>> /\ pc[p] = "calc"
        BY <1>2 DEF Calc
    <2>2. CASE End(p) /\ UNCHANGED <<muteTimer, mutex>>
        BY <2>1, <2>2, LocalType, PlainStep DEF TypeInv, TypeOK, muteVars
    <2>3. CASE vote.active /\ mutex' = p /\ UNCHANGED frame
        <3>1. pc' \in [Goroutine -> Label] /\ pc'[p] \in {"impose", "clear"}
              /\ \A q \in Goroutine \ {p} : pc'[q] = pc[q]
            BY <1>2, <2>3, LocalType DEF Calc
        <3>2. TypeOK'
            BY <1>2, <2>1, <2>3, <3>1 DEF Calc, TypeInv, TypeOK, muteVars
        <3>3. LocalsOK'
            BY <2>1, <2>3, <3>1 DEF TypeInv, LocalsOK, JoinLabel
        <3>4. LockOK'
            BY <1>2, <2>3, <3>1, MuteGoroutineAssumption DEF Calc, TypeInv, LockOK, Goroutine
        <3> QED
            BY <3>2, <3>3, <3>4 DEF TypeInv
    <2> QED
        BY <1>2, <2>2, <2>3 DEF Calc
<1>3. CASE Impose(p)
    <2>1. vote.target \in User /\ IPOf[vote.target] \in IP
        BY <1>3, AddressAssumption DEF Impose, TypeInv, LocalsOK
    <2>2. pc' \in [Goroutine -> Label] /\ pc'[p] = "clear"
          /\ \A q \in Goroutine \ {p} : pc'[q] = pc[q]
        BY <1>3, LocalType DEF Impose
    <2>3. mutedUntil' \in [User -> Nat] /\ mutes' \in [IP -> Nat]
        BY <1>3, <2>1, TimeAssumption DEF Impose, TypeInv, TypeOK
    <2>4. TypeOK'
        BY <1>3, <2>2, <2>3 DEF Impose, TypeInv, TypeOK
    <2>5. LocalsOK' /\ LockOK'
        BY <1>3, <2>2 DEF Impose, TypeInv, LocalsOK, LockOK, JoinLabel
    <2> QED
        BY <2>4, <2>5 DEF TypeInv
<1>4. CASE Clear(p)
    <2>1. pc' \in [Goroutine -> Label] /\ frame' \in [Goroutine -> Frame]
          /\ pc'[p] = "idle" /\ OthersStay(p)
        BY <1>4, LocalType DEF Clear
    <2>2. mutex = p /\ \A q \in Goroutine \ {p} : pc[q] \notin {"impose", "clear"}
        BY <1>4 DEF Clear, TypeInv, LockOK
    <2>3. TypeOK'
        BY <1>4, <2>1 DEF Clear, NoVote, TypeInv, TypeOK, muteVars
    <2>4. LocalsOK'
        BY <1>4, <2>1, <2>2 DEF Clear, NoVote, TypeInv, LocalsOK, OthersStay, JoinLabel
    <2>5. LockOK'
        BY <1>4, <2>1, <2>2, MuteGoroutineAssumption DEF Clear, LockOK, OthersStay, Goroutine
    <2> QED
        BY <2>3, <2>4, <2>5 DEF TypeInv
<1> QED
    BY <1>1, <1>2, <1>3, <1>4

LEMMA JoinType ==
    ASSUME TypeInv, NEW p \in Goroutine,
           \/ p \in Request /\ \E u \in User : Enter(p, u)
           \/ JoinQueue(p) \/ JoinLook(p) \/ JoinMute(p)
    PROVE  TypeInv'
<1> USE DEF Label, people, muteVars, history
<1>0. pc \in [Goroutine -> Label] /\ frame \in [Goroutine -> Frame] /\ frame[p] \in Frame
    BY LocalType
<1>1. ASSUME p \in Request, NEW u \in User, Enter(p, u) PROVE TypeInv'
    <2>1. frame' \in [Goroutine -> Frame] /\ frame'[p].user = u
          /\ \A q \in Goroutine \ {p} : frame'[q] = frame[q]
        BY <1>0, <1>1 DEF Enter, Frame
    <2>2. pc' \in [Goroutine -> Label] /\ pc'[p] = "joinQueue"
          /\ \A q \in Goroutine \ {p} : pc'[q] = pc[q]
        BY <1>1, LocalType DEF Enter
    <2>3. present' \in SUBSET User /\ joined' \in SUBSET User /\ raced' \in SUBSET IP
        BY <1>1, AddressAssumption DEF Enter, TypeInv, TypeOK
    <2>4. TypeOK'
        BY <1>1, <2>1, <2>2, <2>3 DEF Enter, TypeInv, TypeOK
    <2>5. LocalsOK' /\ LockOK'
        BY <1>1, <2>1, <2>2 DEF Enter, TypeInv, LocalsOK, LockOK, JoinLabel
    <2> QED
        BY <2>4, <2>5 DEF TypeInv
<1>2. CASE JoinQueue(p)
    <2>1. pc' \in [Goroutine -> Label] /\ pc'[p] = "joinLook"
          /\ \A q \in Goroutine \ {p} : pc'[q] = pc[q]
        BY <1>2, LocalType DEF JoinQueue
    <2>2. TypeOK'
        BY <1>2, <2>1 DEF JoinQueue, TypeInv, TypeOK, muteVars
    <2>3. LocalsOK' /\ LockOK'
        BY <1>2, <2>1 DEF JoinQueue, TypeInv, LocalsOK, LockOK, JoinLabel
    <2> QED
        BY <2>2, <2>3 DEF TypeInv
<1>3. CASE JoinLook(p)
    <2>1. frame[p].user \in User /\ IPOf[frame[p].user] \in IP /\ pc[p] = "joinLook"
        BY <1>3, AddressAssumption DEF JoinLook, TypeInv, LocalsOK, JoinLabel
    <2>2. CASE End(p)
        BY <1>3, <2>1, <2>2, LocalType, PlainStep DEF JoinLook, TypeInv, TypeOK
    <2>3. CASE /\ frame' = [frame EXCEPT ![p].until = mutes[IPOf[frame[p].user]]]
               /\ Goto(p, "joinMute")
        <3>1. pc' \in [Goroutine -> Label] /\ pc'[p] = "joinMute"
              /\ \A q \in Goroutine \ {p} : pc'[q] = pc[q]
            BY <2>3, LocalType
        <3>2. mutes[IPOf[frame[p].user]] \in Nat
            BY <2>1 DEF TypeInv, TypeOK
        <3>3. frame' \in [Goroutine -> Frame] /\ frame'[p].user = frame[p].user
              /\ \A q \in Goroutine \ {p} : frame'[q] = frame[q]
            BY <1>0, <2>3, <3>2 DEF Frame
        <3>4. TypeOK'
            BY <1>3, <3>1, <3>3 DEF JoinLook, TypeInv, TypeOK
        <3>5. LocalsOK' /\ LockOK'
            BY <1>3, <2>1, <3>1, <3>3 DEF JoinLook, TypeInv, LocalsOK, LockOK, JoinLabel
        <3> QED
            BY <3>4, <3>5 DEF TypeInv
    <2> QED
        BY <1>3, <2>2, <2>3 DEF JoinLook
<1>4. CASE JoinMute(p)
    <2>1. frame[p].user \in User /\ frame[p].until \in Nat
        BY <1>0, <1>4 DEF JoinMute, TypeInv, LocalsOK, JoinLabel, Frame
    <2>2. mutedUntil' \in [User -> Nat]
        BY <1>4, <2>1 DEF JoinMute, TypeInv, TypeOK
    <2>3. pc' \in [Goroutine -> Label] /\ frame' \in [Goroutine -> Frame]
          /\ pc'[p] = "idle" /\ OthersStay(p)
        BY <1>4, LocalType DEF JoinMute
    <2>4. TypeOK'
        BY <1>4, <2>2, <2>3 DEF JoinMute, TypeInv, TypeOK
    <2>5. LocalsOK' /\ LockOK'
        BY <1>4, <2>3, PlainStep DEF JoinMute
    <2> QED
        BY <2>4, <2>5 DEF TypeInv
<1> QED
    BY <1>1, <1>2, <1>3, <1>4

LEMMA TimerType ==
    ASSUME TypeInv, NEW p \in Goroutine, FireMute(p) \/ Scan(p) \/ Sweep(p)
    PROVE  TypeInv'
<1> USE DEF Label, people, muteVars, history
<1>0. pc \in [Goroutine -> Label] /\ frame \in [Goroutine -> Frame] /\ frame[p] \in Frame
    BY LocalType
<1>1. CASE FireMute(p)
    <2>1. pc' \in [Goroutine -> Label] /\ pc'[p] = "calc" /\ OthersStay(p)
        BY <1>1, LocalType DEF FireMute, OthersStay
    <2>2. TypeOK'
        BY <1>1, <2>1 DEF FireMute, TypeInv, TypeOK, muteVars
    <2> QED
        BY <1>1, <2>1, <2>2, PlainStep DEF FireMute, TypeInv
<1>2. CASE Scan(p)
    <2>1. Expired(mutes) \in SUBSET IP /\ Expired(cooldowns) \in SUBSET IP
        BY DEF Expired
    <2>2. frame' \in [Goroutine -> Frame]
        BY <1>0, <1>2, <2>1 DEF Scan, Frame
    <2>3. pc' \in [Goroutine -> Label] /\ pc'[p] = "sweep" /\ OthersStay(p)
        BY <1>0, <1>2, LocalType DEF Scan, OthersStay
    <2>4. TypeOK'
        BY <1>2, <2>2, <2>3 DEF Scan, TypeInv, TypeOK, muteVars
    <2> QED
        BY <1>2, <2>3, <2>4, PlainStep DEF Scan, TypeInv
<1>3. CASE Sweep(p)
    <2>1. pc' \in [Goroutine -> Label] /\ frame' \in [Goroutine -> Frame]
          /\ pc'[p] = "idle" /\ OthersStay(p)
        BY <1>3, LocalType DEF Sweep
    <2>2. mutes' \in [IP -> Nat] /\ cooldowns' \in [IP -> Nat]
        BY <1>3 DEF Sweep, TypeInv, TypeOK
    <2>3. TypeOK'
        BY <1>3, <2>1, <2>2 DEF Sweep, TypeInv, TypeOK
    <2> QED
        BY <1>3, <2>1, <2>3, PlainStep DEF Sweep, TypeInv
<1> QED
    BY <1>1, <1>2, <1>3

LEMMA TypeStep ==
    ASSUME TypeInv, [Next]_vars
    PROVE  TypeInv'
<1>1. CASE UNCHANGED vars
    BY <1>1 DEF vars, people, muteVars, control, history, TypeInv, TypeOK, LocalsOK, LockOK
<1>2. CASE (\E u \in User : RemoveUser(u)) \/ Tick
    BY <1>2 DEF RemoveUser, Tick, muteVars, control, history, TypeInv, TypeOK, LocalsOK, LockOK
<1>3. ASSUME NEW p \in Request, Arrive(p) PROVE TypeInv'
    BY <1>3, StartType, CountType, JoinType DEF Arrive, Goroutine
<1>4. ASSUME NEW p \in Goroutine, FireMute(p) \/ Scan(p) \/ Continue(p) PROVE TypeInv'
    BY <1>4, StartType, CountType, JoinType, TimerType DEF Continue
<1> QED
    BY <1>1, <1>2, <1>3, <1>4 DEF Next, Goroutine

LEMMA TypeInit == Init => TypeInv
<1> SUFFICES ASSUME Init PROVE TypeInv
    OBVIOUS
<1>1. TypeOK
    BY DEF Init, TypeOK, NoVote, Blank, Frame, Label
<1>2. LocalsOK /\ LockOK
    BY MuteGoroutineAssumption DEF Init, NoVote, LocalsOK, LockOK, Goroutine, JoinLabel
<1> QED
    BY <1>1, <1>2 DEF TypeInv

\* The variables of the mute vote keep their types.
THEOREM Typing == Spec => []TypeOK
<1>1. TypeInv => TypeOK
    BY DEF TypeInv
<1> QED
    BY <1>1, TypeInit, TypeStep, PTL DEF Spec

-----------------------------------------------------------------------------
(* The end of a vote *)

Ending(p) == pc[p] \in {"arm", "calc", "impose", "clear"}

LEMMA EndStep ==
    ASSUME TypeInv, VoteHasEnd, NoBallotsLeft, [Next]_vars
    PROVE  VoteHasEnd' /\ NoBallotsLeft'
<1> USE DEF VoteHasEnd, NoBallotsLeft, Label, history
<1>1. ASSUME UNCHANGED <<vote, muteTimer, unarmed>>, NEW p \in Goroutine, ~Ending(p),
             \A q \in Goroutine \ {p} : pc'[q] = pc[q]
      PROVE  VoteHasEnd' /\ NoBallotsLeft'
    BY <1>1 DEF Ending
<1>2. ASSUME NEW p \in Goroutine, NEW label \in Label, Goto(p, label)
      PROVE  pc'[p] = label /\ \A q \in Goroutine \ {p} : pc'[q] = pc[q]
    BY <1>2, LocalType
<1>3. ASSUME NEW p \in Goroutine, End(p)
      PROVE  pc'[p] = "idle" /\ \A q \in Goroutine \ {p} : pc'[q] = pc[q]
    BY <1>3, LocalType DEF OthersStay
<1>4. CASE UNCHANGED vars \/ Tick \/ \E u \in User : RemoveUser(u)
    BY <1>4 DEF vars, control, Tick, RemoveUser
<1>5. ASSUME NEW p \in Goroutine,
             \/ \E u, t \in User : MuteStart(p, u, t)
             \/ \E u \in User : Enter(p, u)
             \/ CheckCooldown(p) \/ FindTarget(p) \/ JoinQueue(p) \/ JoinLook(p) \/ JoinMute(p)
             \/ Scan(p) \/ Sweep(p)
      PROVE  VoteHasEnd' /\ NoBallotsLeft'
    <2>1. UNCHANGED <<vote, muteTimer, unarmed>> /\ ~Ending(p)
        BY <1>5 DEF MuteStart, Enter, CheckCooldown, FindTarget, JoinQueue, JoinLook, JoinMute,
                    Scan, Sweep, Ending
    <2>2. \A q \in Goroutine \ {p} : pc'[q] = pc[q]
        BY <1>2, <1>3, <1>5 DEF MuteStart, Enter, CheckCooldown, FindTarget, JoinQueue,
                                JoinLook, JoinMute, Scan, Sweep
    <2> QED
        BY <1>1, <2>1, <2>2
<1>6. ASSUME NEW p \in Goroutine, StartVote(p) PROVE VoteHasEnd' /\ NoBallotsLeft'
    <2>1. pc'[p] = "arm"
        BY <1>2, <1>6 DEF StartVote
    <2>2. vote'.active
        BY <1>6 DEF StartVote, TypeInv, TypeOK
    <2> QED
        BY <2>1, <2>2
<1>7. ASSUME NEW p \in Goroutine, Arm(p) PROVE VoteHasEnd' /\ NoBallotsLeft'
    BY <1>7 DEF Arm
<1>8. ASSUME NEW p \in Goroutine, NEW u \in User, NEW yes \in BOOLEAN, Submit(p, u, yes)
      PROVE  VoteHasEnd' /\ NoBallotsLeft'
    <2>1. vote.active /\ vote'.active /\ pc[p] = "idle" /\ UNCHANGED <<muteTimer, unarmed>>
        BY <1>8 DEF Submit, TypeInv, TypeOK
    <2>2. \A q \in Goroutine \ {p} : pc'[q] = pc[q]
        BY <1>2, <1>8 DEF Submit
    <2> QED
        BY <2>1, <2>2
<1>9. ASSUME NEW p \in Goroutine, Calc(p) PROVE VoteHasEnd' /\ NoBallotsLeft'
    <2>1. UNCHANGED <<vote, unarmed>>
        BY <1>9 DEF Calc
    <2>2. vote.active => pc'[p] \in {"impose", "clear"}
        BY <1>2, <1>9 DEF Calc
    <2> QED
        BY <2>1, <2>2
<1>10. ASSUME NEW p \in Goroutine, Impose(p) PROVE VoteHasEnd' /\ NoBallotsLeft'
    BY <1>2, <1>10 DEF Impose
<1>11. ASSUME NEW p \in Goroutine, Clear(p) PROVE VoteHasEnd' /\ NoBallotsLeft'
    BY <1>11 DEF Clear, NoVote
<1>12. ASSUME NEW p \in Goroutine, FireMute(p) PROVE VoteHasEnd' /\ NoBallotsLeft'
    BY <1>2, <1>12 DEF FireMute
<1> QED
    BY <1>4, <1>5, <1>6, <1>7, <1>8, <1>9, <1>10, <1>11, <1>12
    DEF Next, Arrive, Continue, Goroutine

\* No open vote is ever left without a timer or a goroutine that will end it, whichever
\* starters override it and whichever verdicts stop its timer, unless the broadcast of
\* its start panicked.
THEOREM VotesHaveEnds == Spec => []VoteHasEnd
<1>1. Init => TypeInv /\ VoteHasEnd /\ NoBallotsLeft
    BY TypeInit DEF Init, NoVote, VoteHasEnd, NoBallotsLeft
<1>2. TypeInv /\ VoteHasEnd /\ NoBallotsLeft /\ [Next]_vars
        => (TypeInv /\ VoteHasEnd /\ NoBallotsLeft)'
    BY TypeStep, EndStep
<1> QED
    BY <1>1, <1>2, PTL DEF Spec

\* No ballot of one vote is counted in the next.
THEOREM BallotsEnd == Spec => []NoBallotsLeft
<1>1. Init => TypeInv /\ VoteHasEnd /\ NoBallotsLeft
    BY TypeInit DEF Init, NoVote, VoteHasEnd, NoBallotsLeft
<1>2. TypeInv /\ VoteHasEnd /\ NoBallotsLeft /\ [Next]_vars
        => (TypeInv /\ VoteHasEnd /\ NoBallotsLeft)'
    BY TypeStep, EndStep
<1> QED
    BY <1>1, <1>2, PTL DEF Spec

-----------------------------------------------------------------------------
(* The mute of an address and the users who come from it *)

\* The invariant, for the addresses that have not raced.  Such an address has at most
\* one user in the lobby; a user is joined by one goroutine; while a verdict is carried
\* out on a target, whoever else is there from his address came after he was found and
\* left, and waits for the mutex in AddUser, to read the mute that is about to be set;
\* and the mute AddUser has looked up is still as long as the address is muted.
Alone == \A u, w \in present : IPOf[u] = IPOf[w] /\ IPOf[u] \notin raced => u = w

JoinOnce ==
    \A p \in Goroutine : pc[p] \in JoinLabel =>
        /\ frame[p].user \in joined
        /\ \A q \in Goroutine : pc[q] \in JoinLabel /\ frame[q].user = frame[p].user => q = p

ReturnWaits ==
    \A p \in Goroutine : pc[p] = "impose" =>
        \A w \in present :
            IPOf[w] = IPOf[vote.target] /\ w # vote.target /\ IPOf[w] \notin raced =>
                \E q \in Request : pc[q] = "joinQueue" /\ frame[q].user = w

LookedUp ==
    \A p \in Goroutine : pc[p] = "joinMute" /\ frame[p].user \in present =>
        IPOf[frame[p].user] \in raced \/ mutes[IPOf[frame[p].user]] <= frame[p].until

FollowInv == Alone /\ JoinOnce /\ ReturnWaits /\ LookedUp /\ MuteFollowsIP

\* Nobody carries out a verdict while the mutex is free.
LEMMA FreeMeansNoVerdict ==
    ASSUME TypeInv, mutex = Free
    PROVE  \A q \in Goroutine : pc[q] # "impose"
BY MuteGoroutineAssumption DEF TypeInv, LockOK, Goroutine

\* A step of a goroutine that is not joining and will not be, nor starts to carry out
\* a verdict, and that leaves the users and their mutes alone.
LEMMA FollowKept ==
    ASSUME TypeInv, FollowInv, NEW p \in Goroutine, OthersStay(p),
           pc[p] \notin JoinLabel, pc'[p] \notin JoinLabel \cup {"impose"},
           UNCHANGED <<people, mutes, mutedUntil, raced>>,
           mutex = Free \/ UNCHANGED vote
    PROVE  FollowInv'
<1> USE DEF JoinLabel, people
<1>1. Alone'
    BY DEF FollowInv, Alone
<1>2. JoinOnce'
    BY DEF FollowInv, JoinOnce, OthersStay
<1>3. LookedUp'
    BY DEF FollowInv, LookedUp, OthersStay
<1>4. \A u \in present : Joining(u) => Joining(u)'
    BY DEF Joining, OthersStay, Goroutine
<1>5. MuteFollowsIP'
    BY <1>4 DEF FollowInv, MuteFollowsIP
<1>6. ReturnWaits'
    <2>1. CASE mutex = Free
        BY <2>1, FreeMeansNoVerdict DEF ReturnWaits, OthersStay
    <2>2. CASE UNCHANGED vote
        <3> SUFFICES ASSUME NEW r \in Goroutine, pc'[r] = "impose", NEW w \in present',
                            IPOf[w] = IPOf[vote.target], w # vote.target, IPOf[w] \notin raced'
                     PROVE  \E q \in Request : pc'[q] = "joinQueue" /\ frame'[q].user = w
            BY <2>2 DEF ReturnWaits
        <3>1. r # p /\ pc[r] = "impose" /\ w \in present /\ IPOf[w] \notin raced
            BY DEF OthersStay
        <3>2. PICK q \in Request : pc[q] = "joinQueue" /\ frame[q].user = w
            BY <3>1 DEF FollowInv, ReturnWaits
        <3>3. q # p /\ q \in Goroutine
            BY <3>2 DEF Goroutine
        <3> QED
            BY <3>2, <3>3 DEF OthersStay
    <2> QED
        BY <2>1, <2>2
<1> QED
    BY <1>1, <1>2, <1>3, <1>5, <1>6 DEF FollowInv

LEMMA StartFollow ==
    ASSUME TypeInv, FollowInv, NEW p \in Goroutine,
           \/ \E u, t \in User : MuteStart(p, u, t)
           \/ CheckCooldown(p) \/ FindTarget(p) \/ StartVote(p) \/ Arm(p)
           \/ \E u \in User, yes \in BOOLEAN : Submit(p, u, yes)
           \/ FireMute(p) \/ Scan(p) \/ Clear(p)
    PROVE  FollowInv'
<1> USE DEF Label, JoinLabel
<1>0. pc \in [Goroutine -> Label] /\ frame \in [Goroutine -> Frame]
    BY LocalType
<1>1. UNCHANGED <<people, mutes, mutedUntil, raced>> /\ pc[p] \notin JoinLabel
    BY DEF MuteStart, CheckCooldown, FindTarget, StartVote, Arm, Submit, FireMute, Scan, Clear,
           muteVars, history
<1>2. pc'[p] \notin JoinLabel \cup {"impose"} /\ OthersStay(p)
    <2>1. ASSUME NEW label \in Label \ (JoinLabel \cup {"impose"}), Goto(p, label),
                 \A q \in Goroutine \ {p} : frame'[q] = frame[q]
          PROVE  pc'[p] \notin JoinLabel \cup {"impose"} /\ OthersStay(p)
        BY <2>1, LocalType DEF OthersStay
    <2>2. CASE \E u, t \in User : MuteStart(p, u, t)
        BY <1>0, <2>1, <2>2 DEF MuteStart
    <2>3. CASE CheckCooldown(p) \/ FindTarget(p) \/ Arm(p) \/ Clear(p)
        BY <2>1, <2>3, LocalType DEF CheckCooldown, FindTarget, Arm, Clear
    <2>4. CASE StartVote(p) \/ FireMute(p)
        BY <1>0, <2>1, <2>4 DEF StartVote, FireMute
    <2>5. CASE \E u \in User, yes \in BOOLEAN : Submit(p, u, yes)
        <3>1. (Goto(p, "calc") \/ UNCHANGED pc) /\ UNCHANGED frame /\ pc[p] = "idle"
            BY <2>5 DEF Submit
        <3> QED
            BY <2>1, <3>1 DEF OthersStay
    <2>6. CASE Scan(p)
        BY <1>0, <2>1, <2>6 DEF Scan
    <2> QED
        BY <2>2, <2>3, <2>4, <2>5, <2>6
<1>3. CASE Clear(p)
    <2>1. \A q \in Goroutine : pc'[q] # "impose"
        BY <1>2, <1>3 DEF Clear, TypeInv, LockOK, OthersStay
    <2>2. \A u \in present : Joining(u) => Joining(u)'
        BY <1>1, <1>2 DEF Joining, OthersStay, Goroutine
    <2>3. Alone' /\ JoinOnce' /\ LookedUp'
        BY <1>1, <1>2 DEF FollowInv, Alone, JoinOnce, LookedUp, OthersStay, people
    <2>4. MuteFollowsIP'
        BY <1>1, <2>2 DEF FollowInv, MuteFollowsIP, people
    <2> QED
        BY <2>1, <2>3, <2>4 DEF FollowInv, ReturnWaits
<1>4. CASE ~Clear(p)
    <2>1. mutex = Free \/ UNCHANGED vote
        BY <1>4 DEF MuteStart, CheckCooldown, FindTarget, StartVote, Arm, Submit, FireMute, Scan
    <2> QED
        BY <1>1, <1>2, <2>1, FollowKept
<1> QED
    BY <1>3, <1>4

LEMMA CalcFollow ==
    ASSUME TypeInv, FollowInv, NEW p \in Goroutine, Calc(p)
    PROVE  FollowInv'
<1> USE DEF Label, JoinLabel, people, muteVars, history
<1>1. UNCHANGED <<people, mutes, mutedUntil, raced, vote>> /\ pc[p] = "calc" /\ mutex = Free
    BY DEF Calc
<1>2. CASE End(p)
    BY <1>1, <1>2, LocalType, FollowKept
<1>3. CASE /\ Goto(p, IF VotePasses /\ vote.target \in present THEN "impose" ELSE "clear")
           /\ UNCHANGED frame
    <2>1. OthersStay(p) /\ pc'[p] \in {"impose", "clear"}
          /\ (pc'[p] = "impose" => vote.target \in present)
        BY <1>3, LocalType DEF OthersStay
    <2>2. Alone' /\ JoinOnce' /\ LookedUp'
        BY <1>1, <2>1 DEF FollowInv, Alone, JoinOnce, LookedUp, OthersStay
    <2>3. \A u \in present : Joining(u) => Joining(u)'
        BY <1>1, <2>1 DEF Joining, OthersStay, Goroutine
    <2>4. MuteFollowsIP'
        BY <1>1, <2>3 DEF FollowInv, MuteFollowsIP
    <2>5. \A q \in Goroutine \ {p} : pc'[q] # "impose"
        BY <1>1, <2>1, FreeMeansNoVerdict DEF OthersStay
    <2>6. ReturnWaits'
        BY <1>1, <2>1, <2>5 DEF FollowInv, Alone, ReturnWaits
    <2> QED
        BY <2>2, <2>4, <2>6 DEF FollowInv
<1> QED
    BY <1>2, <1>3 DEF Calc

LEMMA ImposeFollow ==
    ASSUME TypeInv, FollowInv, NEW p \in Goroutine, Impose(p)
    PROVE  FollowInv'
<1> USE DEF Label, JoinLabel, people
<1>1. UNCHANGED <<present, joined, vote>> /\ pc'[p] = "clear" /\ pc[p] = "impose" /\ OthersStay(p)
      /\ UNCHANGED frame
    BY LocalType DEF Impose, OthersStay
<1>2. vote.target \in User /\ IPOf[vote.target] \in IP /\ now + MuteTime \in Nat
    <2>1. vote.target \in User
        BY DEF Impose, TypeInv, LocalsOK
    <2>2. now \in Nat /\ MuteTime \in Nat
        BY TimeAssumption DEF TypeInv, TypeOK
    <2> QED
        BY <2>1, <2>2, AddressAssumption
<1>3. raced \subseteq raced' /\ (Joining(vote.target) => IPOf[vote.target] \in raced')
    BY DEF Impose
<1>4. /\ \A ip \in IP \ {IPOf[vote.target]} : mutes'[ip] = mutes[ip]
      /\ \A u \in User \ {vote.target} : mutedUntil'[u] = mutedUntil[u]
      /\ mutes'[IPOf[vote.target]] = now + MuteTime
      /\ mutedUntil'[vote.target] = now + MuteTime
    BY <1>2 DEF Impose, TypeInv, TypeOK
<1>5. \A u \in present : u \in User /\ IPOf[u] \in IP
    BY AddressAssumption DEF TypeInv, TypeOK
<1>6. \A u \in User : Joining(u) => Joining(u)'
    BY <1>1 DEF Joining, OthersStay, Goroutine
<1>7. ASSUME NEW u \in present, u # vote.target, IPOf[u] = IPOf[vote.target], IPOf[u] \notin raced
      PROVE  \E q \in Request : pc[q] = "joinQueue" /\ frame[q].user = u
    BY <1>1, <1>7 DEF FollowInv, ReturnWaits
<1>8. Alone' /\ JoinOnce'
    BY <1>1, <1>3 DEF FollowInv, Alone, JoinOnce, OthersStay
<1>9. LookedUp'
    <2> SUFFICES ASSUME NEW q \in Goroutine, pc'[q] = "joinMute", frame'[q].user \in present',
                        IPOf[frame'[q].user] \notin raced'
                 PROVE  mutes'[IPOf[frame'[q].user]] <= frame'[q].until
        BY DEF LookedUp
    <2>1. q # p /\ pc[q] = "joinMute" /\ frame[q].user \in present
          /\ IPOf[frame[q].user] \notin raced /\ UNCHANGED frame
        BY <1>1, <1>3 DEF OthersStay
    <2>2. Joining(frame[q].user)
        BY <2>1 DEF Joining, TypeInv, LocalsOK
    <2>3. frame[q].user # vote.target
        BY <1>1, <1>3, <2>2
    <2>4. IPOf[frame[q].user] # IPOf[vote.target]
        <3> SUFFICES ASSUME IPOf[frame[q].user] = IPOf[vote.target] PROVE FALSE
            OBVIOUS
        <3>1. PICK r \in Request : pc[r] = "joinQueue" /\ frame[r].user = frame[q].user
            BY <1>7, <2>1, <2>3
        <3> QED
            BY <2>1, <3>1 DEF FollowInv, JoinOnce, Goroutine
    <2> QED
        BY <1>4, <1>5, <2>1, <2>4 DEF FollowInv, LookedUp
<1>10. ASSUME NEW u \in present'
       PROVE  IPOf[u] \in raced' \/ Joining(u)' \/ mutes'[IPOf[u]] <= mutedUntil'[u]
    <2>1. u \in present /\ u \in User /\ IPOf[u] \in IP
        BY <1>1, <1>5, <1>10
    <2>2. CASE u = vote.target
        BY <1>2, <1>4, <2>2
    <2>3. CASE u # vote.target /\ IPOf[u] = IPOf[vote.target]
        BY <1>3, <1>6, <1>7, <2>1, <2>3 DEF Joining
    <2>4. CASE IPOf[u] # IPOf[vote.target]
        BY <1>3, <1>4, <1>6, <2>1, <2>4 DEF FollowInv, MuteFollowsIP
    <2> QED
        BY <2>2, <2>3, <2>4
<1>11. ReturnWaits'
    <2>1. \A q \in Goroutine : pc'[q] # "impose"
        BY <1>1 DEF Impose, TypeInv, LockOK, OthersStay
    <2> QED
        BY <2>1 DEF ReturnWaits
<1>12. MuteFollowsIP'
    BY <1>10 DEF MuteFollowsIP
<1> QED
    BY <1>8, <1>9, <1>11, <1>12 DEF FollowInv

LEMMA EnterFollow ==
    ASSUME TypeInv, FollowInv, NEW p \in Request, NEW u \in User, Enter(p, u)
    PROVE  FollowInv'
<1> USE DEF Label, JoinLabel, Goroutine
<1>1. pc[p] = "idle" /\ pc'[p] = "joinQueue" /\ frame'[p].user = u /\ OthersStay(p)
    BY LocalType DEF Enter, OthersStay, Frame
<1>2. /\ present' = present \cup {u} /\ joined' = joined \cup {u}
      /\ u \notin joined
      /\ UNCHANGED <<mutes, mutedUntil, vote, mutex>>
      /\ raced \subseteq raced'
      /\ (\E w \in present : IPOf[w] = IPOf[u]) => IPOf[u] \in raced'
    BY DEF Enter, muteVars
<1>3. Alone'
    BY <1>2 DEF FollowInv, Alone
<1>4. JoinOnce'
    BY <1>1, <1>2 DEF FollowInv, JoinOnce, OthersStay
<1>5. LookedUp'
    <2> SUFFICES ASSUME NEW q \in Goroutine, pc'[q] = "joinMute", frame'[q].user \in present',
                        IPOf[frame'[q].user] \notin raced'
                 PROVE  mutes'[IPOf[frame'[q].user]] <= frame'[q].until
        BY DEF LookedUp
    <2>1. q # p /\ pc[q] = "joinMute" /\ frame'[q] = frame[q]
        BY <1>1 DEF OthersStay
    <2>2. frame[q].user \in joined
        BY <2>1 DEF FollowInv, JoinOnce
    <2>3. frame[q].user \in present /\ IPOf[frame[q].user] \notin raced
        BY <1>2, <2>1, <2>2
    <2> QED
        BY <1>2, <2>1, <2>3 DEF FollowInv, LookedUp
<1>6. MuteFollowsIP'
    <2>1. Joining(u)'
        BY <1>1 DEF Joining
    <2>2. \A w \in present : Joining(w) => Joining(w)'
        BY <1>1 DEF Joining, OthersStay
    <2> QED
        BY <1>2, <2>1, <2>2 DEF FollowInv, MuteFollowsIP
<1>7. ReturnWaits'
    <2> SUFFICES ASSUME NEW r \in Goroutine, pc'[r] = "impose", NEW w \in present',
                        IPOf[w] = IPOf[vote.target], w # vote.target, IPOf[w] \notin raced'
                 PROVE  \E q \in Request : pc'[q] = "joinQueue" /\ frame'[q].user = w
        BY <1>2 DEF ReturnWaits
    <2>1. CASE w = u
        BY <1>1, <2>1
    <2>2. CASE w # u
        <3>1. r # p /\ pc[r] = "impose" /\ w \in present /\ IPOf[w] \notin raced
            BY <1>1, <1>2, <2>2 DEF OthersStay
        <3>2. PICK q \in Request : pc[q] = "joinQueue" /\ frame[q].user = w
            BY <3>1 DEF FollowInv, ReturnWaits
        <3>3. q # p
            BY <1>1, <3>2
        <3> QED
            BY <1>1, <3>2, <3>3 DEF OthersStay
    <2> QED
        BY <2>1, <2>2
<1> QED
    BY <1>3, <1>4, <1>5, <1>6, <1>7 DEF FollowInv

LEMMA JoinFollow ==
    ASSUME TypeInv, FollowInv, NEW p \in Goroutine, JoinQueue(p) \/ JoinLook(p) \/ JoinMute(p)
    PROVE  FollowInv'
<1> USE DEF Label, JoinLabel, people, history
<1> DEFINE u == frame[p].user
<1>0. /\ pc \in [Goroutine -> Label] /\ frame \in [Goroutine -> Frame] /\ frame[p] \in Frame
      /\ pc[p] \in JoinLabel /\ p \in Request /\ u \in User /\ IPOf[u] \in IP
    BY LocalType, AddressAssumption DEF JoinQueue, JoinLook, JoinMute, TypeInv, LocalsOK
<1>1. /\ UNCHANGED <<present, joined, mutes, vote, raced>>
      /\ UNCHANGED mutedUntil \/ JoinMute(p)
    BY DEF JoinQueue, JoinLook, JoinMute, muteVars
<1>2. /\ OthersStay(p)
      /\ \/ pc'[p] = "idle"
         \/ pc'[p] = "joinLook" /\ UNCHANGED frame
         \/ pc'[p] = "joinMute" /\ frame'[p].user = u /\ frame'[p].until = mutes[IPOf[u]]
    <2>1. CASE JoinQueue(p)
        BY <2>1, LocalType DEF JoinQueue, OthersStay
    <2>2. CASE JoinMute(p) \/ End(p)
        BY <2>2, LocalType DEF JoinMute
    <2>3. CASE /\ Goto(p, "joinMute")
               /\ frame' = [frame EXCEPT ![p].until = mutes[IPOf[frame[p].user]]]
        BY <1>0, <2>3, LocalType DEF OthersStay, Frame
    <2> QED
        BY <2>1, <2>2, <2>3 DEF JoinLook
<1>3. \A w \in present \ {u} : Joining(w) => Joining(w)'
    BY <1>2 DEF Joining, OthersStay, Goroutine
<1>4. Alone' /\ JoinOnce'
    BY <1>0, <1>1, <1>2 DEF FollowInv, Alone, JoinOnce, OthersStay
<1>5. \A ip \in IP : mutes[ip] \in Nat
    BY DEF TypeInv, TypeOK
<1>6. LookedUp'
    BY <1>0, <1>1, <1>2, <1>5 DEF FollowInv, LookedUp, OthersStay
<1>7. ASSUME NEW w \in present
      PROVE  IPOf[w] \in raced \/ Joining(w)' \/ mutes[IPOf[w]] <= mutedUntil'[w]
    <2>0. w \in User /\ mutedUntil \in [User -> Nat]
        BY <1>7 DEF TypeInv, TypeOK
    <2>1. CASE w # u
        <3>1. mutedUntil'[w] = mutedUntil[w]
            BY <1>0, <1>1, <2>0, <2>1 DEF JoinMute
        <3> QED
            BY <1>3, <2>1, <3>1 DEF FollowInv, MuteFollowsIP
    <2>2. CASE w = u /\ pc'[p] # "idle"
        BY <1>0, <1>2, <2>2 DEF Joining
    <2>3. CASE w = u /\ JoinMute(p)
        <3>1. mutedUntil'[u] = frame[p].until /\ pc[p] = "joinMute"
            BY <1>0, <2>0, <2>3 DEF JoinMute
        <3> QED
            BY <2>3, <3>1 DEF FollowInv, LookedUp
    <2>4. CASE w = u /\ JoinLook(p) /\ pc'[p] = "idle"
        <3>1. mutes[IPOf[u]] = 0 /\ UNCHANGED mutedUntil
            BY <2>4, LocalType DEF JoinLook, muteVars
        <3>2. mutedUntil[w] \in Nat
            BY <2>0
        <3> QED
            BY <2>4, <3>1, <3>2
    <2>5. CASE JoinQueue(p)
        BY <2>1, <2>2, <2>5, LocalType DEF JoinQueue
    <2> QED
        BY <2>1, <2>2, <2>3, <2>4, <2>5
<1>8. MuteFollowsIP'
    BY <1>1, <1>7 DEF MuteFollowsIP
<1>9. ReturnWaits'
    <2>1. CASE JoinQueue(p)
        BY <1>2, <2>1, FreeMeansNoVerdict, LocalType DEF JoinQueue, ReturnWaits, OthersStay
    <2>2. CASE ~JoinQueue(p)
        <3> SUFFICES ASSUME NEW r \in Goroutine, pc'[r] = "impose", NEW w \in present,
                            IPOf[w] = IPOf[vote.target], w # vote.target, IPOf[w] \notin raced
                     PROVE  \E q \in Request : pc'[q] = "joinQueue" /\ frame'[q].user = w
            BY <1>1 DEF ReturnWaits
        <3>1. r # p /\ pc[r] = "impose"
            BY <1>2 DEF OthersStay
        <3>2. PICK q \in Request : pc[q] = "joinQueue" /\ frame[q].user = w
            BY <3>1 DEF FollowInv, ReturnWaits
        <3>3. q # p /\ q \in Goroutine
            BY <2>2, <3>2 DEF Goroutine, JoinLook, JoinMute
        <3> QED
            BY <1>2, <3>2, <3>3 DEF OthersStay
    <2> QED
        BY <2>1, <2>2
<1> QED
    BY <1>4, <1>6, <1>8, <1>9 DEF FollowInv

LEMMA SweepFollow ==
    ASSUME TypeInv, FollowInv, NEW p \in Goroutine, Sweep(p)
    PROVE  FollowInv'
<1> USE DEF JoinLabel, people, history
<1>1. pc'[p] = "idle" /\ pc[p] = "sweep" /\ OthersStay(p)
      /\ UNCHANGED <<present, joined, mutedUntil, vote, raced>>
    BY LocalType DEF Sweep
<1>2. \A ip \in IP : mutes'[ip] <= mutes[ip] /\ mutes'[ip] \in Nat /\ mutes[ip] \in Nat
    BY DEF Sweep, TypeInv, TypeOK
<1>3. ASSUME NEW w \in present
      PROVE  IPOf[w] \in raced \/ Joining(w)' \/ mutes'[IPOf[w]] <= mutedUntil[w]
    <2>1. IPOf[w] \in IP /\ mutedUntil[w] \in Nat
        BY <1>3, AddressAssumption DEF TypeInv, TypeOK
    <2>2. Joining(w) => Joining(w)'
        BY <1>1 DEF Joining, OthersStay, Goroutine
    <2> QED
        BY <1>2, <2>1, <2>2 DEF FollowInv, MuteFollowsIP
<1>4. MuteFollowsIP' /\ Alone' /\ JoinOnce'
    BY <1>1, <1>3 DEF FollowInv, MuteFollowsIP, Alone, JoinOnce, OthersStay
<1>5. LookedUp'
    <2> SUFFICES ASSUME NEW q \in Goroutine, pc'[q] = "joinMute", frame'[q].user \in present',
                        IPOf[frame'[q].user] \notin raced'
                 PROVE  mutes'[IPOf[frame'[q].user]] <= frame'[q].until
        BY DEF LookedUp
    <2>1. pc[q] = "joinMute" /\ frame'[q] = frame[q]
        BY <1>1 DEF OthersStay
    <2>2. IPOf[frame[q].user] \in IP /\ frame[q].until \in Nat
        BY <2>1, AddressAssumption DEF TypeInv, TypeOK, LocalsOK, Frame
    <2>3. mutes[IPOf[frame[q].user]] <= frame[q].until
        BY <1>1, <2>1 DEF FollowInv, LookedUp
    <2> QED
        BY <1>2, <2>1, <2>2, <2>3
<1>6. ReturnWaits'
    <2> SUFFICES ASSUME NEW r \in Goroutine, pc'[r] = "impose", NEW w \in present,
                        IPOf[w] = IPOf[vote.target], w # vote.target, IPOf[w] \notin raced
                 PROVE  \E q \in Request : pc'[q] = "joinQueue" /\ frame'[q].user = w
        BY <1>1 DEF ReturnWaits
    <2>1. r # p /\ pc[r] = "impose"
        BY <1>1 DEF OthersStay
    <2>2. PICK q \in Request : pc[q] = "joinQueue" /\ frame[q].user = w
        BY <2>1 DEF FollowInv, ReturnWaits
    <2>3. q # p /\ q \in Goroutine
        BY <1>1, <2>2 DEF Goroutine
    <2> QED
        BY <1>1, <2>2, <2>3 DEF OthersStay
<1> QED
    BY <1>4, <1>5, <1>6 DEF FollowInv

LEMMA FollowStep ==
    ASSUME TypeInv, FollowInv, [Next]_vars
    PROVE  FollowInv'
<1> USE DEF FollowInv, Alone, JoinOnce, ReturnWaits, LookedUp, MuteFollowsIP, Joining
<1>1. CASE UNCHANGED vars \/ Tick
    <2>1. UNCHANGED <<present, joined, mutes, mutedUntil, vote, pc, frame, raced>>
        BY <1>1 DEF vars, people, Tick, muteVars, control, history
    <2> QED
        BY <2>1
<1>2. ASSUME NEW u \in User, RemoveUser(u) PROVE FollowInv'
    <2>1. present' \subseteq present /\ UNCHANGED <<joined, mutes, mutedUntil, vote, pc, frame, raced>>
        BY <1>2 DEF RemoveUser, muteVars, history
    <2> QED
        BY <2>1
<1>3. ASSUME NEW p \in Request, Arrive(p) PROVE FollowInv'
    BY <1>3, StartFollow, EnterFollow DEF Arrive, Goroutine
<1>4. ASSUME NEW p \in Goroutine, FireMute(p) \/ Scan(p) \/ Continue(p) PROVE FollowInv'
    BY <1>4, StartFollow, CalcFollow, ImposeFollow, JoinFollow, SweepFollow DEF Continue
<1> QED
    BY <1>1, <1>2, <1>3, <1>4 DEF Next, Goroutine

\* Nobody shakes off a mute by leaving and coming back, however the return interleaves
\* with the verdict: AddUser reads MutesByIP only after it has had the mutex that
\* EndVoteMute holds.  Two races are excepted (see MuteFollowsIP), and a target who is
\* away at the moment of the verdict is not muted.
THEOREM MutesStick == Spec => []MuteFollowsIP
<1>1. FollowInv => MuteFollowsIP
    BY DEF FollowInv
<1>2. Init => TypeInv /\ FollowInv
    BY TypeInit DEF Init, FollowInv, Alone, JoinOnce, ReturnWaits, LookedUp, MuteFollowsIP, JoinLabel
<1>3. TypeInv /\ FollowInv /\ [Next]_vars => (TypeInv /\ FollowInv)'
    BY TypeStep, FollowStep
<1> QED
    BY <1>1, <1>2, <1>3, PTL DEF Spec

-----------------------------------------------------------------------------
(* The poll that the vote implements *)

\* Somebody of the address is muted, or was.
Heard(ip) == \E w \in Silenced : IPOf[w] = ip

\* A verdict to mute is carried out on the target of an open vote, to which somebody
\* has said yes; and every mute of an address goes back to one of a user.
PollOK ==
    /\ now >= 1
    /\ \A p \in Goroutine : pc[p] = "impose" => vote.active /\ vote.yes # {}
    /\ \A ip \in IP : mutes[ip] > 0 => Heard(ip)
    /\ \A p \in Goroutine : pc[p] = "joinMute" => frame[p].until > 0 /\ Heard(IPOf[frame[p].user])

\* Nobody has reached a verdict while the mutex is free.
LEMMA FreeMeansNotCounted ==
    ASSUME TypeInv, mutex = Free
    PROVE  \A q \in Goroutine : pc[q] \notin {"impose", "clear"}
BY MuteGoroutineAssumption DEF TypeInv, LockOK, Goroutine

\* A majority of the lobby is somebody, if there is somebody in the lobby.
LEMMA PassNeedsYes ==
    ASSUME TypeInv, VotePasses, vote.target \in present
    PROVE  vote.yes # {}
<1>1. IsFiniteSet(present) /\ present # {}
    BY TargetAssumption, FS_Subset DEF TypeInv, TypeOK
<1>2. Cardinality(present) \in Nat /\ Cardinality(present) # 0
    BY <1>1, FS_EmptySet, FS_CardinalityType
<1>3. Cardinality({}) = 0
    BY FS_EmptySet
<1>4. (Cardinality(present) + 1) \div 2 \in Nat /\ (Cardinality(present) + 1) \div 2 >= 1
    BY <1>2
<1> QED
    BY <1>3, <1>4 DEF VotePasses

\* The steps outside the vote: they change neither the poll nor a mute.
LEMMA PollIdle ==
    ASSUME TypeInv, PollOK, NEW p \in Goroutine, OthersStay(p),
           {pc[p], pc'[p]} \cap {"impose", "clear", "joinMute"} = {},
           UNCHANGED <<now, vote, mutedUntil>>,
           \A ip \in IP : mutes'[ip] > 0 => mutes[ip] > 0
    PROVE  PollOK' /\ UNCHANGED <<OpenPoll, Silenced>>
<1>1. UNCHANGED <<Counted, Silenced>>
    BY DEF Counted, Silenced, OthersStay
<1>2. \A ip : Heard(ip) => Heard(ip)'
    BY <1>1 DEF Heard
<1>3. PollOK'
    BY <1>2 DEF PollOK, OthersStay
<1> QED
    BY <1>1, <1>3 DEF OpenPoll

LEMMA PollArrive ==
    ASSUME TypeInv, PollOK, NEW p \in Goroutine,
           \/ \E u, t \in User : MuteStart(p, u, t)
           \/ p \in Request /\ \E u \in User : Enter(p, u)
           \/ CheckCooldown(p) \/ FindTarget(p) \/ Arm(p) \/ JoinQueue(p)
           \/ FireMute(p) \/ Scan(p) \/ Sweep(p)
    PROVE  PollOK' /\ UNCHANGED <<OpenPoll, Silenced>>
<1> USE DEF Label, people, muteVars
<1>0. pc \in [Goroutine -> Label] /\ frame \in [Goroutine -> Frame]
    BY LocalType
<1>1. /\ UNCHANGED <<now, vote, mutedUntil>>
      /\ pc[p] \notin {"impose", "clear", "joinMute"}
    BY DEF MuteStart, Enter, CheckCooldown, FindTarget, Arm, JoinQueue, FireMute, Scan, Sweep
<1>2. \A ip \in IP : mutes'[ip] > 0 => mutes[ip] > 0
    <2>1. CASE Sweep(p)
        BY <2>1 DEF Sweep
    <2>2. CASE ~Sweep(p)
        <3>1. mutes' = mutes
            BY <2>2 DEF MuteStart, Enter, CheckCooldown, FindTarget, Arm, JoinQueue, FireMute, Scan
        <3> QED
            BY <3>1
    <2> QED
        BY <2>1, <2>2
<1>3. pc'[p] \notin {"impose", "clear", "joinMute"} /\ OthersStay(p)
    <2>1. ASSUME NEW label \in Label \ {"impose", "clear", "joinMute"}, Goto(p, label),
                 \A q \in Goroutine \ {p} : frame'[q] = frame[q]
          PROVE  pc'[p] \notin {"impose", "clear", "joinMute"} /\ OthersStay(p)
        BY <2>1, LocalType DEF OthersStay
    <2>2. CASE (\E u, t \in User : MuteStart(p, u, t)) \/ Scan(p) \/ \E u \in User : Enter(p, u)
        BY <1>0, <2>1, <2>2 DEF MuteStart, Scan, Enter
    <2>3. CASE CheckCooldown(p) \/ FindTarget(p) \/ Arm(p) \/ Sweep(p)
        BY <2>1, <2>3, LocalType DEF CheckCooldown, FindTarget, Arm, Sweep
    <2>4. CASE JoinQueue(p) \/ FireMute(p)
        BY <1>0, <2>1, <2>4 DEF JoinQueue, FireMute
    <2> QED
        BY <2>2, <2>3, <2>4
<1> QED
    BY <1>1, <1>2, <1>3, PollIdle

\* The steps of the vote before it is counted need the mutex.
LEMMA PollVotes ==
    ASSUME TypeInv, PollOK, NEW p \in Goroutine,
           StartVote(p) \/ \E u \in User, yes \in BOOLEAN : Submit(p, u, yes)
    PROVE  PollOK' /\ Promise!Next
<1> USE DEF Label, people, muteVars
<1>0. pc \in [Goroutine -> Label] /\ frame \in [Goroutine -> Frame] /\ mutex = Free
    BY LocalType DEF StartVote, Submit
<1>1. OthersStay(p) /\ pc'[p] \in {"idle", "arm", "calc"} /\ UNCHANGED <<now, mutes, mutedUntil>>
    <2>1. CASE StartVote(p)
        BY <1>0, <2>1, LocalType DEF StartVote, OthersStay
    <2>2. CASE \E u \in User, yes \in BOOLEAN : Submit(p, u, yes)
        <3>1. Goto(p, "calc") \/ (UNCHANGED pc /\ pc[p] = "idle")
            BY <2>2 DEF Submit
        <3> QED
            BY <2>2, <3>1, LocalType DEF Submit, OthersStay
    <2> QED
        BY <2>1, <2>2
<1>2. /\ \A q \in Goroutine : pc[q] \notin {"impose", "clear"} /\ pc'[q] \notin {"impose", "clear"}
      /\ UNCHANGED Silenced
    BY <1>0, <1>1, FreeMeansNotCounted DEF OthersStay, Silenced
<1>3. OpenPoll = vote /\ OpenPoll' = vote'
    BY <1>2 DEF OpenPoll, Counted
<1>4. PollOK'
    <2>1. \A ip : Heard(ip) => Heard(ip)'
        BY <1>2 DEF Heard
    <2> QED
        BY <1>1, <1>2, <2>1 DEF PollOK, OthersStay
<1>5. CASE StartVote(p)
    <2>1. Promise!Open(frame[p].user, frame[p].target)
        BY <1>2, <1>3, <1>5 DEF Promise!Open, StartVote
    <2>2. frame[p].user \in User /\ frame[p].target \in User
        BY <1>5 DEF StartVote, TypeInv, LocalsOK
    <2> QED
        BY <1>4, <2>1, <2>2 DEF Promise!Next
<1>6. ASSUME NEW u \in User, NEW yes \in BOOLEAN, Submit(p, u, yes) PROVE Promise!Next
    <2>1. Promise!Cast(u)
        BY <1>2, <1>3, <1>6 DEF Promise!Cast, Submit
    <2> QED
        BY <2>1 DEF Promise!Next
<1> QED
    BY <1>4, <1>5, <1>6

\* The verdict, which closes the poll: at once if nobody is muted ...
LEMMA PollCalc ==
    ASSUME TypeInv, PollOK, NEW p \in Goroutine, Calc(p)
    PROVE  PollOK' /\ (Promise!Next \/ UNCHANGED <<OpenPoll, Silenced>>)
<1> USE DEF Label, people, muteVars
<1>0. mutex = Free /\ UNCHANGED <<now, mutes, mutedUntil, vote>> /\ pc[p] = "calc"
    BY DEF Calc
<1>1. CASE End(p)
    BY <1>0, <1>1, LocalType, PollIdle
<1>2. CASE /\ vote.active /\ UNCHANGED frame
           /\ Goto(p, IF VotePasses /\ vote.target \in present THEN "impose" ELSE "clear")
    <2>1. /\ OthersStay(p) /\ pc'[p] \in {"impose", "clear"}
          /\ (pc'[p] = "impose" => VotePasses /\ vote.target \in present)
        BY <1>2, LocalType DEF OthersStay
    <2>2. UNCHANGED Silenced /\ \A q \in Goroutine : pc[q] \notin {"impose", "clear"}
        BY <1>0, FreeMeansNotCounted DEF Silenced
    <2>3. PollOK'
        <3>1. \A ip : Heard(ip) => Heard(ip)'
            BY <2>2 DEF Heard
        <3>2. \A q \in Goroutine : pc'[q] = "impose" => vote.active /\ vote.yes # {}
            BY <1>2, <2>1, <2>2, PassNeedsYes DEF OthersStay
        <3> QED
            BY <1>0, <2>1, <3>1, <3>2 DEF PollOK, OthersStay
    <2>4. OpenPoll = vote
        BY <2>2 DEF OpenPoll, Counted
    <2>5. CASE pc'[p] = "impose"
        <3>1. OpenPoll' = vote'
            BY <2>1, <2>2, <2>5 DEF OpenPoll, Counted, OthersStay
        <3> QED
            BY <1>0, <2>2, <2>3, <2>4, <3>1
    <2>6. CASE pc'[p] = "clear"
        <3>1. OpenPoll' = NoVote
            BY <2>6 DEF OpenPoll, Counted
        <3>2. Promise!Close
            BY <1>2, <2>2, <2>4, <3>1 DEF Promise!Close, Promise!Closed, NoVote
        <3> QED
            BY <2>3, <3>2 DEF Promise!Next
    <2> QED
        BY <2>1, <2>5, <2>6
<1> QED
    BY <1>1, <1>2 DEF Calc

\* ... or with the mute of its target.
LEMMA PollImpose ==
    ASSUME TypeInv, PollOK, NEW p \in Goroutine, Impose(p)
    PROVE  PollOK' /\ Promise!Next
<1> USE DEF Label, people, muteVars
<1>1. pc[p] = "impose" /\ pc'[p] = "clear" /\ OthersStay(p) /\ UNCHANGED <<now, vote>>
    BY LocalType DEF Impose, OthersStay
<1>2. \A q \in Goroutine \ {p} : pc[q] \notin {"impose", "clear"}
    BY <1>1 DEF TypeInv, LockOK
<1>3. vote.active /\ vote.yes # {}
    BY <1>1 DEF PollOK
<1>4. /\ vote.target \in User /\ IPOf[vote.target] \in IP
      /\ now + MuteTime \in Nat /\ now + MuteTime > 0
    <2>1. vote.target \in User
        BY <1>3 DEF TypeInv, LocalsOK
    <2>2. now \in Nat /\ now >= 1 /\ MuteTime \in Nat
        BY TimeAssumption DEF TypeInv, TypeOK, PollOK
    <2> QED
        BY <2>1, <2>2, AddressAssumption
<1>5. Silenced' = Silenced \cup {vote.target}
    BY <1>4 DEF Impose, Silenced, TypeInv, TypeOK
<1>6. OpenPoll = vote /\ OpenPoll' = NoVote
    BY <1>1, <1>2 DEF OpenPoll, Counted
<1>7. Promise!Next
    BY <1>3, <1>5, <1>6 DEF Promise!Next, Promise!Close, Promise!Closed, NoVote
<1>8. PollOK'
    <2>1. \A ip : Heard(ip) => Heard(ip)'
        BY <1>5 DEF Heard
    <2>2. \A ip \in IP : mutes'[ip] > 0 => mutes[ip] > 0 \/ ip = IPOf[vote.target]
        BY <1>4 DEF Impose, TypeInv, TypeOK
    <2>3. \A ip : ip = IPOf[vote.target] => Heard(ip)'
        BY <1>5 DEF Heard
    <2>4. \A q \in Goroutine : pc'[q] # "impose"
        BY <1>1, <1>2 DEF OthersStay
    <2> QED
        BY <1>1, <2>1, <2>2, <2>3, <2>4 DEF PollOK, OthersStay
<1> QED
    BY <1>7, <1>8

LEMMA PollClear ==
    ASSUME TypeInv, PollOK, NEW p \in Goroutine, Clear(p)
    PROVE  PollOK' /\ UNCHANGED <<OpenPoll, Silenced>>
<1> USE DEF Label, people, muteVars
<1>1. /\ pc[p] = "clear" /\ pc'[p] = "idle" /\ OthersStay(p) /\ vote' = NoVote
      /\ UNCHANGED <<now, mutes, mutedUntil>>
    BY LocalType DEF Clear
<1>2. \A q \in Goroutine \ {p} : pc[q] \notin {"impose", "clear"}
    BY <1>1 DEF TypeInv, LockOK
<1>3. OpenPoll = NoVote /\ OpenPoll' = NoVote /\ UNCHANGED Silenced
    BY <1>1 DEF OpenPoll, Counted, Silenced
<1>4. PollOK'
    <2>1. \A ip : Heard(ip) => Heard(ip)'
        BY <1>3 DEF Heard
    <2> QED
        BY <1>1, <1>2, <2>1 DEF PollOK, OthersStay
<1> QED
    BY <1>3, <1>4

\* A mute is inherited from whoever of the address was muted.
LEMMA PollJoin ==
    ASSUME TypeInv, PollOK, NEW p \in Goroutine, JoinLook(p) \/ JoinMute(p)
    PROVE  PollOK' /\ (Promise!Next \/ UNCHANGED <<OpenPoll, Silenced>>)
<1> USE DEF Label, people, muteVars
<1>0. /\ pc \in [Goroutine -> Label] /\ frame \in [Goroutine -> Frame] /\ frame[p] \in Frame
      /\ frame[p].user \in User /\ IPOf[frame[p].user] \in IP
    BY LocalType, AddressAssumption DEF JoinLook, JoinMute, TypeInv, LocalsOK, JoinLabel
<1>1. CASE End(p) /\ JoinLook(p)
    BY <1>1, LocalType, PollIdle DEF JoinLook
<1>2. CASE /\ JoinLook(p)
           /\ mutes[IPOf[frame[p].user]] > 0
           /\ frame' = [frame EXCEPT ![p].until = mutes[IPOf[frame[p].user]]]
           /\ Goto(p, "joinMute")
    <2>1. /\ OthersStay(p) /\ pc[p] = "joinLook" /\ pc'[p] = "joinMute"
          /\ frame'[p].user = frame[p].user /\ frame'[p].until > 0
          /\ UNCHANGED <<now, vote, mutes, mutedUntil>>
        BY <1>0, <1>2, LocalType DEF JoinLook, OthersStay, Frame
    <2>2. UNCHANGED <<OpenPoll, Silenced>>
        BY <2>1 DEF OpenPoll, Counted, Silenced, OthersStay
    <2>3. \A ip : Heard(ip) => Heard(ip)'
        BY <2>2 DEF Heard
    <2>4. Heard(IPOf[frame[p].user])
        BY <1>0, <1>2 DEF PollOK
    <2> QED
        BY <2>1, <2>2, <2>3, <2>4 DEF PollOK, OthersStay
<1>3. CASE JoinMute(p)
    <2>1. /\ OthersStay(p) /\ pc[p] = "joinMute" /\ pc'[p] = "idle"
          /\ UNCHANGED <<now, vote, mutes>>
        BY <1>3, LocalType DEF JoinMute
    <2>2. frame[p].until > 0 /\ Heard(IPOf[frame[p].user])
        BY <2>1 DEF PollOK
    <2>3. Silenced' = Silenced \cup {frame[p].user}
        BY <1>0, <1>3, <2>2 DEF JoinMute, Silenced, TypeInv, TypeOK
    <2>4. UNCHANGED OpenPoll
        BY <2>1 DEF OpenPoll, Counted, OthersStay
    <2>5. Promise!Inherit(frame[p].user)
        BY <2>2, <2>3, <2>4 DEF Promise!Inherit, Heard
    <2>6. \A ip : Heard(ip) => Heard(ip)'
        BY <2>3 DEF Heard
    <2>7. PollOK'
        BY <2>1, <2>6 DEF PollOK, OthersStay
    <2> QED
        BY <1>0, <2>5, <2>7 DEF Promise!Next
<1> QED
    BY <1>1, <1>2, <1>3 DEF JoinLook

LEMMA PollStep ==
    ASSUME TypeInv, PollOK, [Next]_vars
    PROVE  PollOK' /\ [Promise!Next]_<<OpenPoll, Silenced>>
<1>1. CASE UNCHANGED vars \/ Tick \/ \E u \in User : RemoveUser(u)
    <2>1. UNCHANGED <<mutes, mutedUntil, vote, pc, frame>> /\ now' \in {now, now + 1}
        BY <1>1 DEF vars, people, muteVars, control, Tick, RemoveUser
    <2>2. UNCHANGED <<OpenPoll, Silenced>>
        BY <2>1 DEF OpenPoll, Counted, Silenced
    <2>3. now \in Nat
        BY DEF TypeInv, TypeOK
    <2> QED
        BY <2>1, <2>2, <2>3 DEF PollOK, Heard
<1>2. ASSUME NEW p \in Request, Arrive(p) PROVE PollOK' /\ [Promise!Next]_<<OpenPoll, Silenced>>
    BY <1>2, PollArrive, PollVotes DEF Arrive, Goroutine
<1>3. ASSUME NEW p \in Goroutine, FireMute(p) \/ Scan(p) \/ Continue(p)
      PROVE  PollOK' /\ [Promise!Next]_<<OpenPoll, Silenced>>
    BY <1>3, PollArrive, PollVotes, PollCalc, PollImpose, PollClear, PollJoin DEF Continue
<1> QED
    BY <1>1, <1>2, <1>3 DEF Next, Goroutine

\* The vote to mute implements the poll: however starts, ballots, verdicts, joins and
\* cleanups interleave, whoever is muted is the target of an open poll somebody has said
\* yes to, or comes from the address of one who is; a poll ends with all of its ballots.
THEOREM PromiseKept == Spec => KeepsPromise
<1>1. Init => PollOK /\ Promise!Init
    BY DEF Init, PollOK, OpenPoll, Counted, Silenced, NoVote, Promise!Init, Promise!Closed
<1>2. TypeInv /\ PollOK /\ [Next]_vars => PollOK' /\ [Promise!Next]_<<OpenPoll, Silenced>>
    BY PollStep
<1> QED
    BY <1>1, <1>2, TypeInit, TypeStep, PTL DEF Spec, KeepsPromise, Promise!Spec

=============================================================================
