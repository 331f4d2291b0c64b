----------------------------- MODULE Refresher -----------------------------
(***************************************************************************)
(* What refresh.Refresher promises: at most one revalidation of a key at a  *)
(* time, none launched after Close, and a Close that returns only when      *)
(* every launched revalidation is over.                                     *)
(***************************************************************************)
CONSTANT Keys

VARIABLES active,   \* the keys whose revalidation is pending or running
          phase     \* "open", then "closing" while Close waits, then "closed"

vars == <<active, phase>>

\* Schedule returned true; a suppressed Schedule changes nothing.
Launch(k) ==
    /\ phase = "open" /\ k \notin active
    /\ active' = active \cup {k}
    /\ UNCHANGED phase

Finish(k) ==
    /\ k \in active
    /\ active' = active \ {k}
    /\ UNCHANGED phase

Close ==
    /\ phase = "open"
    /\ phase' = "closing"
    /\ UNCHANGED active

CloseReturns ==
    /\ phase = "closing" /\ active = {}
    /\ phase' = "closed"
    /\ UNCHANGED active

Init == active = {} /\ phase = "open"

Next == (\E k \in Keys : Launch(k) \/ Finish(k)) \/ Close \/ CloseReturns

Spec == Init /\ [][Next]_vars
=============================================================================
