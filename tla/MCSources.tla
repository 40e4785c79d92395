------------------------------ MODULE MCSources ------------------------------
(***************************************************************************)
(* An instance of AngelSources small enough for TLC, and the comparison of *)
(* masters of InstrumentLifecycle on every pair of one-line masters.       *)
(***************************************************************************)
EXTENDS AngelSources, InstrumentLifecycle, TLC

CONSTANTS s1, s2, b1, old, new, nse, jwt1, jwt2

(* A transfer that begins with the old master and ends with the new one    *)
(* names an instrument twice, the other mixture does not name it.          *)
TwoMasters ==
  [m \in Masters |-> IF m = old THEN <<{nse}, {}>> ELSE <<{}, {nse}>>]

Alike == Permutations(Tokens) \cup Permutations(Sessions)

OneLine == UNION { [I -> Instrument] : I \in SUBSET {nse} }

(* The two services agree: see LifecycleAgreesWithAvailability.            *)
ASSUME LifecycleChecked ==
  \A baseline, current \in OneLine :
    \A id \in Selectable(baseline) :
      LET row == Project(current, baseline)[id]
          report == Assess({id}, baseline, current)
      IN /\ row = "MISSING" <=> report[id] = "MISSING"
         /\ row \in {"INACTIVE", "EXPIRED", "UNRESOLVED"}
              <=> report[id] = "INACTIVE"
         /\ report[id] = "MAPPING_CHANGED" => row = "REVIEW_REQUIRED"
         /\ row = "READY" => IsFullyActive(report)

=============================================================================
