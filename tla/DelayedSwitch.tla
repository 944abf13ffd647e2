--------------------------- MODULE DelayedSwitch ---------------------------
(***************************************************************************)
(* What the bridge promises of arrangement recording (README.md:3): OBS is  *)
(* a copy of Live's record switch that lags behind.  Every time it is       *)
(* switched on becomes a take of its own, in order, and none is joined to   *)
(* the next; one may be missing only if it is known to have ended before    *)
(* OBS began.  OBS follows in the end.  Only the death of the bridge loses  *)
(* what it had still to do.                                                 *)
(***************************************************************************)
EXTENDS Naturals, Sequences

VARIABLES
    switch,     \* is arrangement record on?
    pending,    \* what it was switched to and OBS has not followed yet
    rolling     \* is OBS recording a take?

Init == switch = FALSE /\ pending = <<>> /\ rolling = FALSE

Flip ==
    /\ switch' = ~switch
    /\ pending' = Append(pending, ~switch)
    /\ UNCHANGED rolling

Follow ==
    /\ pending # <<>>
    /\ rolling' = Head(pending)
    /\ pending' = Tail(pending)
    /\ UNCHANGED switch

\* Switched on, and off again since: that take is left out.
Skip ==
    /\ Len(pending) > 1
    /\ Head(pending)
    /\ pending' = Tail(pending)
    /\ UNCHANGED <<switch, rolling>>

\* The next bridge stops what OBS records and knows nothing of Live yet.
Restart == switch' = FALSE /\ pending' = <<>> /\ rolling' = FALSE

Next == Flip \/ Follow \/ Skip \/ Restart

vars == <<switch, pending, rolling>>

Safety == Init /\ [][Next]_vars

Spec == Safety /\ WF_vars(Follow)
=============================================================================
