---------------------------- MODULE SerialChannel ----------------------------
(***************************************************************************)
(* What MI2.sendCommand promises its callers, with nothing of how: calls   *)
(* are served one at a time in the order they were made, and each call is  *)
(* settled once, as resolved or as rejected.  Calls are numbered in the    *)
(* order they are made.                                                    *)
(***************************************************************************)
EXTENDS Naturals

CONSTANT MaxCalls   \* bound on the calls of a behaviour

VARIABLES made,     \* calls made so far: 1..made
          busy,     \* TRUE while the oldest unsettled call is being served
          outcome   \* how each call ended, "none" until it does

vars == <<made, busy, outcome>>

Calls    == 1..MaxCalls
Outcomes == {"resolved", "rejected"}

Init ==
    /\ made = 0
    /\ busy = FALSE
    /\ outcome = [c \in Calls |-> "none"]

\* call c is the oldest call not settled yet
Oldest(c) ==
    /\ c <= made
    /\ outcome[c] = "none"
    /\ \A d \in 1..(c - 1) : outcome[d] # "none"

Call ==
    /\ made < MaxCalls
    /\ made' = made + 1
    /\ UNCHANGED <<busy, outcome>>

Begin ==
    /\ ~busy
    /\ \E c \in Calls : Oldest(c)
    /\ busy' = TRUE
    /\ UNCHANGED <<made, outcome>>

\* A call that is not being served can only be refused.
Settle(c, o) ==
    /\ Oldest(c)
    /\ busy \/ o = "rejected"
    /\ busy' = FALSE
    /\ outcome' = [outcome EXCEPT ![c] = o]
    /\ UNCHANGED made

Next == Call \/ Begin \/ \E c \in Calls, o \in Outcomes : Settle(c, o)

Spec == Init /\ [][Next]_vars
=============================================================================
