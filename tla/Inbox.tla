------------------------------- MODULE Inbox --------------------------------
(***************************************************************************)
(* What a webhook receiver promises about each event, however often the    *)
(* sender delivers it: the event is accepted once, takes effect at most    *)
(* once and only while it is open, and is never reopened once closed.      *)
(* Closing without effect is allowed: the receiver may refuse an event.    *)
(***************************************************************************)
EXTENDS Naturals

CONSTANT Messages

VARIABLES
    state,      \* message -> "new", "open" or "closed"
    effects     \* message -> number of times it took effect

vars == <<state, effects>>

Init ==
    /\ state = [m \in Messages |-> "new"]
    /\ effects = [m \in Messages |-> 0]

Accept(m) ==
    /\ state[m] = "new"
    /\ state' = [state EXCEPT ![m] = "open"]
    /\ UNCHANGED effects

TakeEffect(m) ==
    /\ state[m] = "open"
    /\ effects[m] = 0
    /\ effects' = [effects EXCEPT ![m] = 1]
    /\ UNCHANGED state

Close(m) ==
    /\ state[m] = "open"
    /\ state' = [state EXCEPT ![m] = "closed"]
    /\ UNCHANGED effects

Next == \E m \in Messages : Accept(m) \/ TakeEffect(m) \/ Close(m)

Spec == Init /\ [][Next]_vars

=============================================================================
