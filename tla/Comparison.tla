----------------------------- MODULE Comparison -----------------------------
(***************************************************************************)
(* What comparing two flattened configurations promises: in one step, the  *)
(* report of their differences.  Nothing is said of how they are found.    *)
(***************************************************************************)
EXTENDS Differences

CONSTANT Pending    \* no report yet

VARIABLES m1, m2, report

vars == <<m1, m2, report>>

Init ==
    /\ m1 \in FlatMap
    /\ m2 \in FlatMap
    /\ report = Pending

Compare ==
    /\ report = Pending
    /\ report' # Pending
    /\ IsReport(report', m1, m2)
    /\ UNCHANGED <<m1, m2>>

Spec == Init /\ [][Compare]_vars
=============================================================================
