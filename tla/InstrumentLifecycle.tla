-------------------------- MODULE InstrumentLifecycle --------------------------
(***************************************************************************)
(* What two read services make of a pair of retained instrument masters:   *)
(* the lifecycle projection of the Data & instruments page                 *)
(* (application/instrument_lifecycle.py) and the availability of a         *)
(* research universe (application/universe_availability.py).  Both compare *)
(* a current snapshot with a baseline, in words of their own.              *)
(*                                                                         *)
(* A snapshot is a function from the canonical identities it lists to what *)
(* it says of each.                                                        *)
(***************************************************************************)
CONSTANTS
  Symbols,       \* trading symbols
  DisplayNames,
  Contracts,     \* type, expiry, strike, option type, lot and tick size
  NotListed      \* no baseline, or none for an identity

InstrumentStatus == {"ACTIVE", "INACTIVE", "EXPIRED", "UNRESOLVED"}

Instrument ==
  [ status : InstrumentStatus, trading_symbol : Symbols,
    display_name : DisplayNames, contract : Contracts ]

ASSUME NotListedAssumption == NotListed \notin Instrument

-----------------------------------------------------------------------------
(* The lifecycle projection.  A status other than ACTIVE is its own state. *)

StatusState(instrument) ==
  IF instrument.status = "ACTIVE" THEN "READY" ELSE instrument.status

ContractChanged(baseline, current) ==
  \/ baseline.trading_symbol # current.trading_symbol
  \/ baseline.display_name # current.display_name
  \/ baseline.contract # current.contract

CurrentRow(instrument, baseline) ==
  IF /\ StatusState(instrument) = "READY"
     /\ baseline # NotListed
     /\ ContractChanged(baseline, instrument)
  THEN "REVIEW_REQUIRED"
  ELSE StatusState(instrument)

Listing(snapshot, id) == IF id \in DOMAIN snapshot THEN snapshot[id] ELSE NotListed

(* One row per identity of either snapshot.                                *)
Project(current, baseline) ==
  [ id \in DOMAIN current \cup DOMAIN baseline |->
      IF id \in DOMAIN current
      THEN CurrentRow(current[id], Listing(baseline, id))
      ELSE "MISSING" ]

-----------------------------------------------------------------------------
(* The availability of the identities of a universe.  It was created from  *)
(* the baseline snapshot, out of instruments that were active there.       *)

Selectable(baseline) ==
  { id \in DOMAIN baseline : baseline[id].status = "ACTIVE" }

Assess(universe, baseline, current) ==
  [ id \in universe |->
      IF id \notin DOMAIN current THEN "MISSING"
      ELSE IF current[id].status # "ACTIVE" THEN "INACTIVE"
      ELSE IF \/ current[id].trading_symbol # baseline[id].trading_symbol
              \/ current[id].display_name # baseline[id].display_name
           THEN "MAPPING_CHANGED"
      ELSE "ACTIVE" ]

IsFullyActive(report) == \A id \in DOMAIN report : report[id] = "ACTIVE"

=============================================================================
