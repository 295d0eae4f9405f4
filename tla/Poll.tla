-------------------------------- MODULE Poll --------------------------------
(***************************************************************************)
(* What the vote to mute promises, without goroutines, timers and locks: a *)
(* poll about one user at a time, whose verdict mutes him and ends it with *)
(* all of its ballots.  Whoever comes from the address of a muted user may *)
(* be muted too.                                                           *)
(***************************************************************************)
CONSTANTS
    User,       \* user ids
    IPOf,       \* the address of each
    None        \* no target

VARIABLES
    poll,       \* the poll: is it open, its target and its ballots
    silenced    \* the users who were muted

Closed == [active |-> FALSE, target |-> None, yes |-> {}, no |-> {}]

\* A poll is opened; one that is open already goes on about another target.
Open(u, t) ==
    /\ poll' = [poll EXCEPT !.active = TRUE, !.target = t, !.yes = @ \cup {u}]
    /\ UNCHANGED silenced

\* Somebody's ballot, which replaces an earlier one.
Cast(u) ==
    /\ poll.active
    /\ \/ poll' = [poll EXCEPT !.yes = @ \cup {u}, !.no = @ \ {u}]
       \/ poll' = [poll EXCEPT !.no = @ \cup {u}, !.yes = @ \ {u}]
    /\ UNCHANGED silenced

\* The verdict and what it entails; it needs a vote for it.
Close ==
    /\ poll.active
    /\ poll' = Closed
    /\ \/ UNCHANGED silenced
       \/ poll.yes # {} /\ silenced' = silenced \cup {poll.target}

\* Somebody inherits the mute of his address.
Inherit(u) ==
    /\ \E w \in silenced : IPOf[w] = IPOf[u]
    /\ silenced' = silenced \cup {u}
    /\ UNCHANGED poll

Init == poll = Closed /\ silenced = {}

Next ==
    \/ \E u, t \in User : Open(u, t)
    \/ \E u \in User : Cast(u) \/ Inherit(u)
    \/ Close

Spec == Init /\ [][Next]_<<poll, silenced>>

=============================================================================
