---------------------------- MODULE ProbeSweep ----------------------------
(***************************************************************************)
(* What every port scanner of the program promises its caller, whatever it *)
(* uses to reach the target: a port gets at most one verdict and keeps it, *)
(* nothing is added once the scan is over, and the report that closes the  *)
(* scan accounts for every port that was asked for ("probes.len() +        *)
(* unscanned == requested", ScanOutcome).  A scan says it is truncated     *)
(* exactly when it left ports out, and says it was cancelled only then.    *)
(***************************************************************************)
EXTENDS Naturals, FiniteSets

CONSTANTS Ports,     \* the ports requested, without repetition
          Verdicts   \* what may be concluded about one

VARIABLES found,     \* [Ports -> Verdicts \cup {"none"}]
          report     \* what the caller is told; NoReport until the scan is over

NoReport == [over |-> FALSE, unscanned |-> 0, truncated |-> FALSE, cancelled |-> FALSE]

Left == {p \in Ports : found[p] = "none"}

Init == /\ found = [p \in Ports |-> "none"]
        /\ report = NoReport

\* Some undecided ports get their verdicts: one answer, or one round of polling.
Settle ==
    /\ ~ report.over
    /\ found' \in [Ports -> Verdicts \cup {"none"}]
    /\ \A p \in Ports \ Left : found'[p] = found[p]
    /\ UNCHANGED report

Close ==
    /\ ~ report.over
    /\ \E stopped \in BOOLEAN :
          /\ stopped => Left # {}
          /\ report' = [over |-> TRUE, unscanned |-> Cardinality(Left),
                        truncated |-> Left # {}, cancelled |-> stopped]
    /\ UNCHANGED found

Spec == Init /\ [][Settle \/ Close]_<<found, report>>
=============================================================================
