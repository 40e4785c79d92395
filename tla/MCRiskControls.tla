--------------------------- MODULE MCRiskControls ---------------------------
(***************************************************************************)
(* Instances of RiskControls small enough for TLC.                         *)
(***************************************************************************)
EXTENDS RiskControls

CONSTANTS s1, s2

(* A hash that orders changes of one instant: an inactive one above an     *)
(* active one, an initial one above an operator's.                         *)
InactiveAboveActive(c) ==
  4 * c.occurred_at + (IF c.active THEN 0 ELSE 2)
    + (IF c.reason = "operator" THEN 0 ELSE 1)

=============================================================================
