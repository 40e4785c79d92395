---------------------------- MODULE RiskControls ----------------------------
(***************************************************************************)
(* The durable risk controls: versioned central policies and the global    *)
(* kill switch (application/risk_controls.py over                          *)
(* infrastructure/risk/sqlite_repository.py), as the sessions of the       *)
(* workbench use them.  A run of the paper page first calls                *)
(* ensure_snapshot and only then offers the operator the kill switch.      *)
(*                                                                         *)
(* Every lookup and every insert is a transaction of its own, and a call   *)
(* reads the clock once, when it starts.                                   *)
(***************************************************************************)
EXTENDS Integers, Sequences

CONSTANTS
  Sessions,       \* threads that run the paper page
  Versions,       \* policy versions
  Limits,         \* the contents a policy version may have
  MaxClock,       \* bound on the clock readings of a behaviour
  MinTick,        \* what the clock advances at least between two readings
  ChangeId(_),    \* the hash that names a kill-switch change
  Absent,         \* no row, no change
  NoCall          \* what a session that is in no call has for locals

ASSUME MaxClockAssumption == MaxClock \in Nat
ASSUME MinTickAssumption == MinTick \in {0, 1}

Stamps == 0..MaxClock
Reasons == {"initial", "operator"}
KillSwitchChange ==
  [ active : BOOLEAN, reason : Reasons, occurred_at : Stamps ]
CentralRiskPolicy == [ policy_version : Versions, limits : Limits ]
PolicyRow == [ limits : Limits, persisted_at : Stamps ]
RiskControlSnapshot ==
  [ policy_version : Versions, policy : PolicyRow,
    kill_switch_change : KillSwitchChange ]

ASSUME AbsentAssumption ==
  Absent \notin PolicyRow \cup KillSwitchChange \cup RiskControlSnapshot
ASSUME ChangeIdAssumption ==
  /\ \A c \in KillSwitchChange : ChangeId(c) \in Int
  /\ \A c, d \in KillSwitchChange : ChangeId(c) = ChangeId(d) => c = d

VARIABLES
  clock,     \* the last reading anybody took
  policies,  \* the table central_risk_policies
  changes,   \* the rows of kill_switch_changes in the order of insertion
  held,      \* per session, the snapshot it was last given
  pc,        \* per session, the stage of its page run
  call       \* per session, the locals of that run

tables == <<policies, changes>>
vars == <<clock, policies, changes, held, pc, call>>

(* The policy a run asks for, its reading of the clock, the change it is   *)
(* about to record and the policy row its snapshot will carry.             *)
Call ==
  [ policy : CentralRiskPolicy, at : Stamps,
    change : KillSwitchChange \cup {Absent}, row : PolicyRow \cup {Absent} ]

ASSUME NoCallAssumption == NoCall \notin Call

Stages ==
  { "idle", "get_policy", "save_policy", "insert_policy", "current",
    "append_change", "insert_change", "snapshot_policy", "snapshot_change",
    "ready" }

Recorded == { changes[i] : i \in 1..Len(changes) }

TypeOK ==
  /\ clock \in Stamps
  /\ policies \in [Versions -> PolicyRow \cup {Absent}]
  /\ changes \in Seq(KillSwitchChange)
  /\ held \in [Sessions -> RiskControlSnapshot \cup {Absent}]
  /\ pc \in [Sessions -> Stages]
  /\ call \in [Sessions -> Call \cup {NoCall}]
  /\ \A s \in Sessions : pc[s] = "idle" <=> call[s] = NoCall

Init ==
  /\ clock = 0
  /\ policies = [v \in Versions |-> Absent]
  /\ changes = << >>
  /\ held = [s \in Sessions |-> Absent]
  /\ pc = [s \in Sessions |-> "idle"]
  /\ call = [s \in Sessions |-> NoCall]

-----------------------------------------------------------------------------
(* Helpers. *)

ReadClock(at) ==
  /\ at \in (clock + MinTick)..(clock + 1)
  /\ at <= MaxClock
  /\ clock' = at

Goto(s, stage, c) ==
  /\ pc' = [pc EXCEPT ![s] = stage]
  /\ call' = [call EXCEPT ![s] = c]

(* The run ends: it is over, it raised, or its process died.               *)
End(s) == Goto(s, "idle", NoCall)

(* ORDER BY occurred_at DESC, change_id DESC LIMIT 1                       *)
Precedes(c, d) ==
  \/ c.occurred_at < d.occurred_at
  \/ c.occurred_at = d.occurred_at /\ ChangeId(c) <= ChangeId(d)

(* Mutant of CurrentChange: the row inserted last.                         *)
LastInserted == changes[Len(changes)]

CurrentChange == CHOOSE c \in Recorded : \A d \in Recorded : Precedes(d, c)

Version(s) == call[s].policy.policy_version

-----------------------------------------------------------------------------
(* ensure_snapshot. *)

EnsureSnapshot(s, policy, at) ==
  /\ pc[s] = "idle"
  /\ ReadClock(at)
  /\ Goto(s, "get_policy",
          [policy |-> policy, at |-> at, change |-> Absent, row |-> Absent])
  /\ UNCHANGED <<tables, held>>

(* Mutant of GetPolicy: the policy is taken to be there.                   *)
GetPolicyUnchecked(s) ==
  /\ pc[s] = "get_policy"
  /\ Goto(s, "current", call[s])
  /\ UNCHANGED <<clock, tables, held>>

GetPolicy(s) ==
  /\ pc[s] = "get_policy"
  /\ Goto(s, IF policies[Version(s)] = Absent THEN "save_policy"
                                              ELSE "current", call[s])
  /\ UNCHANGED <<clock, tables, held>>

(* save_policy looks the version up again: its content may have come in    *)
(* from another session, and then it must be the same.                     *)
SavePolicy(s) ==
  LET row == policies[Version(s)] IN
  /\ pc[s] = "save_policy"
  /\ CASE row = Absent -> Goto(s, "insert_policy", call[s])
       [] row # Absent /\ row.limits = call[s].policy.limits ->
            Goto(s, "current", call[s])
       [] OTHER -> End(s)
  /\ UNCHANGED <<clock, tables, held>>

(* Mutant of InsertPolicy: INSERT OR REPLACE.                              *)
ReplacePolicy(s) ==
  /\ pc[s] = "insert_policy"
  /\ policies' = [policies EXCEPT ![Version(s)] =
       [limits |-> call[s].policy.limits, persisted_at |-> call[s].at]]
  /\ Goto(s, "current", call[s])
  /\ UNCHANGED <<clock, changes, held>>

(* The version is the primary key: a second insert raises.                 *)
InsertPolicy(s) ==
  /\ pc[s] = "insert_policy"
  /\ IF policies[Version(s)] = Absent
     THEN /\ policies' = [policies EXCEPT ![Version(s)] =
               [limits |-> call[s].policy.limits, persisted_at |-> call[s].at]]
          /\ Goto(s, "current", call[s])
     ELSE End(s) /\ UNCHANGED policies
  /\ UNCHANGED <<clock, changes, held>>

(* Mutant of CheckSwitch: every run records an initial change.             *)
CheckSwitchAlways(s) ==
  /\ pc[s] = "current"
  /\ Goto(s, "append_change",
          [call[s] EXCEPT !.change =
             [active |-> FALSE, reason |-> "initial",
              occurred_at |-> call[s].at]])
  /\ UNCHANGED <<clock, tables, held>>

(* Without any change on record the switch is initialized, inactive, with  *)
(* the reading that ensure_snapshot took when it started.                  *)
CheckSwitch(s) ==
  /\ pc[s] = "current"
  /\ IF Recorded = {}
     THEN Goto(s, "append_change",
               [call[s] EXCEPT !.change =
                  [active |-> FALSE, reason |-> "initial",
                   occurred_at |-> call[s].at]])
     ELSE Goto(s, "snapshot_policy", call[s])
  /\ UNCHANGED <<clock, tables, held>>

(* Mutant of SnapshotPolicy: the policy asked for in place of its row.     *)
SnapshotPolicyAsAsked(s) ==
  /\ pc[s] = "snapshot_policy"
  /\ Goto(s, "snapshot_change", [call[s] EXCEPT !.row = call[s].policy])
  /\ UNCHANGED <<clock, tables, held>>

SnapshotPolicy(s) ==
  /\ pc[s] = "snapshot_policy"
  /\ IF policies[Version(s)] = Absent
     THEN End(s)
     ELSE Goto(s, "snapshot_change",
               [call[s] EXCEPT !.row = policies[Version(s)]])
  /\ UNCHANGED <<clock, tables, held>>

SnapshotChange(s) ==
  /\ pc[s] = "snapshot_change"
  /\ IF Recorded = {}
     THEN End(s) /\ UNCHANGED held
     ELSE /\ held' = [held EXCEPT ![s] =
               [policy_version |-> Version(s), policy |-> call[s].row,
                kill_switch_change |-> CurrentChange]]
          /\ Goto(s, "ready", call[s])
  /\ UNCHANGED <<clock, tables>>

-----------------------------------------------------------------------------
(* set_kill_switch: by the operator of a page that is ready, or the        *)
(* initial change of ensure_snapshot, which goes on to its snapshot.       *)

SetKillSwitch(s, active, at) ==
  /\ pc[s] = "ready"
  /\ ReadClock(at)
  /\ Goto(s, "append_change",
          [call[s] EXCEPT !.change =
             [active |-> active, reason |-> "operator", occurred_at |-> at]])
  /\ UNCHANGED <<tables, held>>

ChangeIsOnRecord(s) ==
  IF call[s].change.reason = "initial"
  THEN Goto(s, "snapshot_policy", call[s])
  ELSE End(s)

(* The lookup of append_kill_switch_change: a change on record is kept.    *)
AppendChange(s) ==
  /\ pc[s] = "append_change"
  /\ IF call[s].change \in Recorded
     THEN ChangeIsOnRecord(s)
     ELSE Goto(s, "insert_change", call[s])
  /\ UNCHANGED <<clock, tables, held>>

InsertChange(s) ==
  /\ pc[s] = "insert_change"
  /\ IF call[s].change \in Recorded
     THEN End(s) /\ UNCHANGED changes
     ELSE /\ changes' = Append(changes, call[s].change)
          /\ ChangeIsOnRecord(s)
  /\ UNCHANGED <<clock, policies, held>>

(* The page run ends without a change, or dies at any stage.               *)
Leave(s) ==
  /\ pc[s] # "idle"
  /\ End(s)
  /\ UNCHANGED <<clock, tables, held>>

Step(s) ==
  \/ \E policy \in CentralRiskPolicy, at \in Stamps :
       EnsureSnapshot(s, policy, at)
  \/ GetPolicy(s)
  \/ SavePolicy(s)
  \/ InsertPolicy(s)
  \/ CheckSwitch(s)
  \/ SnapshotPolicy(s)
  \/ SnapshotChange(s)
  \/ \E active \in BOOLEAN, at \in Stamps : SetKillSwitch(s, active, at)
  \/ AppendChange(s)
  \/ InsertChange(s)
  \/ Leave(s)

Next == \E s \in Sessions : Step(s)

Spec == Init /\ [][Next]_vars

-----------------------------------------------------------------------------
(* Properties. *)

(* Whatever several sessions with different contents for one version do,   *)
(* every snapshot ever handed out for a version carries one and the same   *)
(* policy, the one on record.                                              *)
SnapshotsAgreeOnPolicies ==
  \A s \in Sessions :
    held[s] # Absent =>
      policies[held[s].policy_version] = held[s].policy

(* After ensure_snapshot's own checks its snapshot cannot fail: the errors *)
(* "not persisted" and "not initialized" are for callers that skipped it.  *)
EnsuredControlsExist ==
  \A s \in Sessions :
    /\ pc[s] \in {"current", "snapshot_policy", "snapshot_change", "ready"}
         => policies[Version(s)] # Absent
    /\ pc[s] \in {"snapshot_policy", "snapshot_change", "ready"}
         => Recorded # {}

(* A session never sees the kill switch go back to an older change than    *)
(* the one it has seen already.                                            *)
SnapshotsOnlyAdvance ==
  [][\A s \in Sessions :
       held[s] # Absent =>
         Precedes(held[s].kill_switch_change,
                  held'[s].kill_switch_change)]_vars

(* The implicit, inactive initialization of a racing session never         *)
(* overrides an operator's change, unless both carry one reading of the    *)
(* clock; readings that all differ (MinTick = 1) leave no exception.       *)
InitializationNeverDisarms ==
  \A c \in Recorded :
    c.reason = "operator" =>
      \/ CurrentChange.reason = "operator"
      \/ MinTick = 0 /\ CurrentChange.occurred_at = c.occurred_at

=============================================================================
