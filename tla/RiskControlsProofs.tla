------------------------- MODULE RiskControlsProofs -------------------------
(***************************************************************************)
(* Proofs about the durable risk controls, for every number of sessions,   *)
(* policies and clock readings.                                            *)
(***************************************************************************)
EXTENDS RiskControls, SequenceTheorems, TLAPS

-----------------------------------------------------------------------------
(* Types. *)

(* Moving on to a stage with well typed locals keeps the types of both.    *)
LEMMA GotoType ==
  ASSUME TypeOK, NEW s \in Sessions, NEW stage \in Stages \ {"idle"},
         NEW c \in Call, Goto(s, stage, c)
  PROVE  /\ pc' \in [Sessions -> Stages]
         /\ call' \in [Sessions -> Call \cup {NoCall}]
         /\ \A t \in Sessions : pc'[t] = "idle" <=> call'[t] = NoCall
<1>1. c # NoCall
  BY NoCallAssumption
<1> QED
  BY <1>1 DEF TypeOK, Goto

(* So does ending the run.                                                 *)
LEMMA EndType ==
  ASSUME TypeOK, NEW s \in Sessions, End(s)
  PROVE  /\ pc' \in [Sessions -> Stages]
         /\ call' \in [Sessions -> Call \cup {NoCall}]
         /\ \A t \in Sessions : pc'[t] = "idle" <=> call'[t] = NoCall
  BY DEF TypeOK, End, Goto, Stages

(* The locals of a run in progress are well typed, field by field.         *)
LEMMA CallTypes ==
  ASSUME TypeOK, NEW s \in Sessions, pc[s] # "idle"
  PROVE  /\ call[s] \in Call
         /\ call[s].policy \in CentralRiskPolicy
         /\ Version(s) \in Versions
         /\ call[s].policy.limits \in Limits
         /\ call[s].at \in Stamps
         /\ call[s].change \in KillSwitchChange \cup {Absent}
         /\ call[s].row \in PolicyRow \cup {Absent}
<1>1. call[s] \in Call
  BY DEF TypeOK
<1> QED
  BY <1>1 DEF Call, CentralRiskPolicy, Version

(* A reading of the clock is a stamp, and the clock never goes back.       *)
LEMMA ReadClockType ==
  ASSUME TypeOK, NEW at \in Stamps, ReadClock(at)
  PROVE  clock' \in Stamps /\ clock' = at /\ clock <= at
                           /\ (clock + MinTick <= at)
  BY MaxClockAssumption, MinTickAssumption DEF TypeOK, ReadClock, Stamps

(* A run about to record a change, or to hand out a policy row, has one.   *)
LocalsAreInHand ==
  \A s \in Sessions :
    /\ pc[s] \in {"append_change", "insert_change"} =>
         call[s].change \in KillSwitchChange
    /\ pc[s] = "snapshot_change" => call[s].row \in PolicyRow

(* The change that the snapshot will show is always defined: among the     *)
(* changes on record one follows all others.                               *)
ALatestChangeExists ==
  Recorded # {} =>
    \E c \in Recorded : \A d \in Recorded : Precedes(d, c)

TypeInv == TypeOK /\ LocalsAreInHand /\ ALatestChangeExists

(* What an insert adds to the set of changes on record.                    *)
LEMMA RecordedAppend ==
  ASSUME TypeOK, NEW c \in KillSwitchChange, changes' = Append(changes, c)
  PROVE  /\ changes' \in Seq(KillSwitchChange)
         /\ Recorded' = Recorded \cup {c}
<1>1. /\ changes \in Seq(KillSwitchChange) /\ Len(changes) \in Nat
      /\ Len(changes') = Len(changes) + 1
      /\ \A i \in 1..Len(changes) : changes'[i] = changes[i]
      /\ changes'[Len(changes) + 1] = c
      /\ changes' \in Seq(KillSwitchChange)
  BY DEF TypeOK
<1>2. Recorded' = { changes'[i] : i \in 1..(Len(changes) + 1) }
  BY <1>1 DEF Recorded
<1>3. 1..(Len(changes) + 1) = 1..Len(changes) \cup {Len(changes) + 1}
  BY <1>1
<1> QED
  BY <1>1, <1>2, <1>3 DEF Recorded

(* Changes on record are kill-switch changes.                              *)
LEMMA RecordedType ==
  ASSUME TypeOK
  PROVE  \A c \in Recorded : c \in KillSwitchChange
<1>1. changes \in Seq(KillSwitchChange)
  BY DEF TypeOK
<1>2. \A i \in 1..Len(changes) : changes[i] \in KillSwitchChange
  BY <1>1
<1> QED
  BY <1>2 DEF Recorded

(* The order of the changes is total and transitive.                       *)
LEMMA PrecedesOrders ==
  ASSUME NEW b \in KillSwitchChange, NEW c \in KillSwitchChange,
         NEW d \in KillSwitchChange
  PROVE  /\ Precedes(c, d) \/ Precedes(d, c)
         /\ Precedes(b, c) /\ Precedes(c, d) => Precedes(b, d)
         /\ Precedes(c, c)
         /\ Precedes(c, d) => c.occurred_at <= d.occurred_at
<1>1. /\ b.occurred_at \in Int /\ c.occurred_at \in Int
      /\ d.occurred_at \in Int
  BY MaxClockAssumption DEF KillSwitchChange, Stamps
<1>2. ChangeId(b) \in Int /\ ChangeId(c) \in Int /\ ChangeId(d) \in Int
  BY ChangeIdAssumption
<1> QED
  BY <1>1, <1>2 DEF Precedes

(* An insert keeps a latest change among those on record.                  *)
LEMMA AppendKeepsLatest ==
  ASSUME TypeOK, ALatestChangeExists, NEW c \in KillSwitchChange,
         Recorded' = Recorded \cup {c}
  PROVE  ALatestChangeExists'
<1>1. CASE Recorded = {}
  <2>1. Precedes(c, c)
    BY PrecedesOrders
  <2> QED
    BY <1>1, <2>1 DEF ALatestChangeExists, Precedes
<1>2. CASE Recorded # {}
  <2>1. PICK b \in Recorded : \A d \in Recorded : Precedes(d, b)
    BY <1>2 DEF ALatestChangeExists
  <2>2. b \in KillSwitchChange /\ \A d \in Recorded : d \in KillSwitchChange
    BY <2>1, RecordedType
  <2>3. CASE Precedes(b, c)
    <3>1. \A d \in Recorded \cup {c} : Precedes(d, c)
      BY <2>1, <2>2, <2>3, PrecedesOrders
    <3> QED
      BY <3>1 DEF ALatestChangeExists, Precedes
  <2>4. CASE Precedes(c, b)
    <3>1. \A d \in Recorded \cup {c} : Precedes(d, b)
      BY <2>1, <2>4
    <3> QED
      BY <3>1, <2>1 DEF ALatestChangeExists, Precedes
  <2> QED
    BY <2>2, <2>3, <2>4, PrecedesOrders
<1> QED
  BY <1>1, <1>2

(* A run that moves on to a stage, with well typed locals and with a       *)
(* change in hand if it is to record one, keeps the types.                 *)
LEMMA GotoKeepsTypes ==
  ASSUME TypeInv, NEW s \in Sessions, NEW stage \in Stages \ {"idle"},
         NEW c \in Call, Goto(s, stage, c),
         stage \in {"append_change", "insert_change"} =>
           c.change \in KillSwitchChange,
         stage = "snapshot_change" => c.row \in PolicyRow,
         clock' \in Stamps, policies' \in [Versions -> PolicyRow \cup {Absent}],
         changes' \in Seq(KillSwitchChange),
         held' \in [Sessions -> RiskControlSnapshot \cup {Absent}]
  PROVE  TypeOK' /\ LocalsAreInHand'
<1>1. TypeOK'
  BY GotoType DEF TypeInv, TypeOK
<1>2. LocalsAreInHand'
  BY DEF TypeInv, TypeOK, LocalsAreInHand, Goto
<1> QED
  BY <1>1, <1>2

(* So does a run that ends.                                                *)
LEMMA EndKeepsTypes ==
  ASSUME TypeInv, NEW s \in Sessions, End(s),
         clock' \in Stamps, policies' \in [Versions -> PolicyRow \cup {Absent}],
         changes' \in Seq(KillSwitchChange),
         held' \in [Sessions -> RiskControlSnapshot \cup {Absent}]
  PROVE  TypeOK' /\ LocalsAreInHand'
<1>1. TypeOK'
  BY EndType DEF TypeInv, TypeOK
<1>2. LocalsAreInHand'
  BY DEF TypeInv, TypeOK, LocalsAreInHand, End, Goto
<1> QED
  BY <1>1, <1>2

(* The latest change is one of the changes on record.                      *)
LEMMA CurrentChangeIsLatest ==
  ASSUME ALatestChangeExists, Recorded # {}
  PROVE  /\ CurrentChange \in Recorded
         /\ \A d \in Recorded : Precedes(d, CurrentChange)
  BY DEF ALatestChangeExists, CurrentChange

(* Every step keeps the types and the existence of a latest change.        *)
LEMMA NextKeepsTypes == TypeInv /\ [Next]_vars => TypeInv'
<1> SUFFICES ASSUME TypeInv, [Next]_vars PROVE TypeInv'
  OBVIOUS
<1> USE DEF tables
<1>t. TypeOK /\ LocalsAreInHand /\ ALatestChangeExists
  BY DEF TypeInv
<1>k. ASSUME UNCHANGED changes PROVE ALatestChangeExists'
  BY <1>t, <1>k DEF ALatestChangeExists, Recorded, Precedes
<1>1. ASSUME NEW s \in Sessions, NEW policy \in CentralRiskPolicy,
             NEW at \in Stamps, EnsureSnapshot(s, policy, at)
      PROVE  TypeInv'
  <2> DEFINE c == [policy |-> policy, at |-> at, change |-> Absent,
                   row |-> Absent]
  <2>1. c \in Call
    BY DEF Call
  <2>2. clock' \in Stamps
    BY <1>t, <1>1, ReadClockType DEF EnsureSnapshot
  <2>3. TypeOK' /\ LocalsAreInHand'
    BY <1>t, <1>1, <2>1, <2>2, GotoKeepsTypes
    DEF EnsureSnapshot, TypeOK, Stages
  <2> QED
    BY <1>1, <1>k, <2>3 DEF EnsureSnapshot, TypeInv
<1>2. ASSUME NEW s \in Sessions, GetPolicy(s)
      PROVE  TypeInv'
  <2>1. TypeOK' /\ LocalsAreInHand'
    BY <1>t, <1>2, CallTypes, GotoKeepsTypes DEF GetPolicy, TypeOK, Stages
  <2> QED
    BY <1>2, <1>k, <2>1 DEF GetPolicy, TypeInv
<1>3. ASSUME NEW s \in Sessions, SavePolicy(s)
      PROVE  TypeInv'
  <2>1. \/ Goto(s, "insert_policy", call[s])
        \/ Goto(s, "current", call[s])
        \/ End(s)
    BY <1>3 DEF SavePolicy
  <2>2. pc[s] # "idle" /\ UNCHANGED <<clock, policies, changes, held>>
    BY <1>3 DEF SavePolicy
  <2>3. TypeOK' /\ LocalsAreInHand'
    BY <1>t, <2>1, <2>2, CallTypes, GotoKeepsTypes, EndKeepsTypes
    DEF TypeOK, Stages
  <2> QED
    BY <2>2, <1>k, <2>3 DEF TypeInv
<1>4. ASSUME NEW s \in Sessions, InsertPolicy(s)
      PROVE  TypeInv'
  <2>1. /\ Version(s) \in Versions /\ call[s] \in Call
        /\ [limits |-> call[s].policy.limits, persisted_at |-> call[s].at]
             \in PolicyRow
    BY <1>t, <1>4, CallTypes DEF InsertPolicy, PolicyRow
  <2>2. policies' \in [Versions -> PolicyRow \cup {Absent}]
    BY <1>t, <1>4, <2>1 DEF InsertPolicy, TypeOK
  <2>3. Goto(s, "current", call[s]) \/ End(s)
    BY <1>4 DEF InsertPolicy
  <2>4. UNCHANGED <<clock, changes, held>>
    BY <1>4 DEF InsertPolicy
  <2>5. TypeOK' /\ LocalsAreInHand'
    BY <1>t, <2>1, <2>2, <2>3, <2>4, GotoKeepsTypes, EndKeepsTypes
    DEF TypeOK, Stages
  <2> QED
    BY <2>4, <1>k, <2>5 DEF TypeInv
<1>5. ASSUME NEW s \in Sessions, CheckSwitch(s)
      PROVE  TypeInv'
  <2> DEFINE change == [active |-> FALSE, reason |-> "initial",
                        occurred_at |-> call[s].at]
  <2>1. call[s] \in Call /\ call[s].at \in Stamps
    BY <1>t, <1>5, CallTypes DEF CheckSwitch
  <2>2. change \in KillSwitchChange
    BY <2>1 DEF KillSwitchChange, Reasons
  <2> DEFINE c == [call[s] EXCEPT !.change = change]
  <2>3. c \in Call /\ c.change = change
    BY <2>1, <2>2 DEF Call
  <2>4. Goto(s, "append_change", c) \/ Goto(s, "snapshot_policy", call[s])
    BY <1>5 DEF CheckSwitch
  <2>5. UNCHANGED <<clock, policies, changes, held>>
    BY <1>5 DEF CheckSwitch
  <2> HIDE DEF c
  <2>6. TypeOK' /\ LocalsAreInHand'
    BY <1>t, <2>1, <2>2, <2>3, <2>4, <2>5, GotoKeepsTypes
    DEF TypeOK, Stages
  <2> QED
    BY <2>5, <1>k, <2>6 DEF TypeInv
<1>6. ASSUME NEW s \in Sessions, SnapshotPolicy(s)
      PROVE  TypeInv'
  <2> DEFINE c == [call[s] EXCEPT !.row = policies[Version(s)]]
  <2>1. call[s] \in Call /\ Version(s) \in Versions
    BY <1>t, <1>6, CallTypes DEF SnapshotPolicy
  <2>2. c \in Call
    BY <1>t, <2>1 DEF TypeOK, Call
  <2>3. \/ End(s)
        \/ Goto(s, "snapshot_change", c) /\ c.row \in PolicyRow
    BY <1>t, <1>6, <2>1 DEF SnapshotPolicy, TypeOK, Call
  <2>4. UNCHANGED <<clock, policies, changes, held>>
    BY <1>6 DEF SnapshotPolicy
  <2> HIDE DEF c
  <2>5. TypeOK' /\ LocalsAreInHand'
    BY <1>t, <2>2, <2>3, <2>4, GotoKeepsTypes, EndKeepsTypes
    DEF TypeOK, Stages
  <2> QED
    BY <2>4, <1>k, <2>5 DEF TypeInv
<1>7. ASSUME NEW s \in Sessions, SnapshotChange(s)
      PROVE  TypeInv'
  <2> DEFINE snapshot ==
        [ policy_version |-> Version(s), policy |-> call[s].row,
          kill_switch_change |-> CurrentChange ]
  <2>1. call[s] \in Call /\ Version(s) \in Versions
    BY <1>t, <1>7, CallTypes DEF SnapshotChange
  <2>2. call[s].row \in PolicyRow
    BY <1>t, <1>7 DEF SnapshotChange, LocalsAreInHand
  <2>3. Recorded # {} => snapshot \in RiskControlSnapshot
    BY <1>t, <2>1, <2>2, CurrentChangeIsLatest, RecordedType
    DEF RiskControlSnapshot
  <2>4. UNCHANGED <<clock, policies, changes>>
    BY <1>7 DEF SnapshotChange
  <2>5. Recorded # {} => held' = [held EXCEPT ![s] = snapshot]
    BY <1>7 DEF SnapshotChange
  <2> HIDE DEF snapshot
  <2>6. held' \in [Sessions -> RiskControlSnapshot \cup {Absent}]
    BY <1>t, <1>7, <2>3, <2>5 DEF SnapshotChange, TypeOK
  <2>7. End(s) \/ Goto(s, "ready", call[s])
    BY <1>7 DEF SnapshotChange
  <2>8. TypeOK' /\ LocalsAreInHand'
    BY <1>t, <2>1, <2>4, <2>6, <2>7, GotoKeepsTypes, EndKeepsTypes
    DEF TypeOK, Stages
  <2> QED
    BY <2>4, <1>k, <2>8 DEF TypeInv
<1>8. ASSUME NEW s \in Sessions, NEW active \in BOOLEAN, NEW at \in Stamps,
             SetKillSwitch(s, active, at)
      PROVE  TypeInv'
  <2> DEFINE change == [active |-> active, reason |-> "operator",
                        occurred_at |-> at]
  <2>1. call[s] \in Call
    BY <1>t, <1>8, CallTypes DEF SetKillSwitch
  <2>2. change \in KillSwitchChange
    BY DEF KillSwitchChange, Reasons
  <2> DEFINE c == [call[s] EXCEPT !.change = change]
  <2>3. c \in Call /\ c.change = change
    BY <2>1, <2>2 DEF Call
  <2>4. Goto(s, "append_change", c) /\ UNCHANGED <<policies, changes, held>>
    BY <1>8 DEF SetKillSwitch
  <2>5. clock' \in Stamps
    BY <1>t, <1>8, ReadClockType DEF SetKillSwitch
  <2> HIDE DEF c
  <2>6. TypeOK' /\ LocalsAreInHand'
    BY <1>t, <2>2, <2>3, <2>4, <2>5, GotoKeepsTypes DEF TypeOK, Stages
  <2> QED
    BY <2>4, <1>k, <2>6 DEF TypeInv
<1>9. ASSUME NEW s \in Sessions, AppendChange(s)
      PROVE  TypeInv'
  <2>1. call[s] \in Call /\ call[s].change \in KillSwitchChange
    BY <1>t, <1>9, CallTypes DEF AppendChange, LocalsAreInHand
  <2>2. \/ Goto(s, "snapshot_policy", call[s])
        \/ End(s)
        \/ Goto(s, "insert_change", call[s])
    BY <1>9 DEF AppendChange, ChangeIsOnRecord
  <2>3. UNCHANGED <<clock, policies, changes, held>>
    BY <1>9 DEF AppendChange
  <2>4. TypeOK' /\ LocalsAreInHand'
    BY <1>t, <2>1, <2>2, <2>3, GotoKeepsTypes, EndKeepsTypes
    DEF TypeOK, Stages
  <2> QED
    BY <2>3, <1>k, <2>4 DEF TypeInv
<1>10. ASSUME NEW s \in Sessions, InsertChange(s)
       PROVE  TypeInv'
  <2>1. call[s] \in Call /\ call[s].change \in KillSwitchChange
    BY <1>t, <1>10, CallTypes DEF InsertChange, LocalsAreInHand
  <2>2. Goto(s, "snapshot_policy", call[s]) \/ End(s)
    BY <1>10 DEF InsertChange, ChangeIsOnRecord
  <2>3. UNCHANGED <<clock, policies, held>>
    BY <1>10 DEF InsertChange
  <2>4. /\ changes' \in Seq(KillSwitchChange)
        /\ UNCHANGED changes \/ Recorded' = Recorded \cup {call[s].change}
    BY <1>t, <1>10, <2>1, RecordedAppend DEF InsertChange, TypeOK
  <2>5. TypeOK' /\ LocalsAreInHand'
    BY <1>t, <2>1, <2>2, <2>3, <2>4, GotoKeepsTypes, EndKeepsTypes
    DEF TypeOK, Stages
  <2>6. ALatestChangeExists'
    BY <1>t, <1>k, <2>1, <2>4, AppendKeepsLatest
  <2> QED
    BY <2>5, <2>6 DEF TypeInv
<1>11. ASSUME NEW s \in Sessions, Leave(s)
       PROVE  TypeInv'
  <2>1. TypeOK' /\ LocalsAreInHand'
    BY <1>t, <1>11, EndKeepsTypes DEF Leave, TypeOK
  <2> QED
    BY <1>11, <1>k, <2>1 DEF Leave, TypeInv
<1>12. CASE UNCHANGED vars
  BY <1>t, <1>12
  DEF vars, TypeInv, TypeOK, LocalsAreInHand, ALatestChangeExists,
      Recorded, Precedes
<1> QED
  BY <1>1, <1>2, <1>3, <1>4, <1>5, <1>6, <1>7, <1>8, <1>9, <1>10, <1>11, <1>12
  DEF Next, Step

(* The empty tables are well typed.                                        *)
LEMMA InitTypes == Init => TypeInv
  BY MaxClockAssumption
  DEF Init, TypeInv, TypeOK, LocalsAreInHand, ALatestChangeExists, Recorded,
      Stages, Stamps

(* The strengthened type invariant holds in every reachable state.         *)
LEMMA TypeInvHolds == Spec => []TypeInv
  BY InitTypes, NextKeepsTypes, PTL DEF Spec

(* Every variable keeps its type, whatever the parameters.                 *)
THEOREM TypeCorrect == Spec => []TypeOK
<1>1. TypeInv => TypeOK
  BY DEF TypeInv
<1> QED
  BY <1>1, TypeInvHolds, PTL

-----------------------------------------------------------------------------
(* Policies and what ensure_snapshot relies on. *)

(* A row that a run has read for its snapshot is the row on record, and a  *)
(* run that records a change has its policy on record.                     *)
RowsAreOnRecord ==
  \A s \in Sessions :
    /\ pc[s] = "snapshot_change" => call[s].row = policies[Version(s)]
    /\ pc[s] \in {"append_change", "insert_change"} =>
         policies[Version(s)] # Absent

(* The inductive invariant: snapshots agree because rows, once inserted,   *)
(* stay, and because a run in progress holds only rows that are on record. *)
PolicyInv ==
  /\ TypeInv
  /\ SnapshotsAgreeOnPolicies
  /\ EnsuredControlsExist
  /\ RowsAreOnRecord

(* Nothing that is on record is ever lost or changed.                      *)
LEMMA RecordsAreKept ==
  ASSUME TypeInv, [Next]_vars
  PROVE  /\ Recorded \subseteq Recorded'
         /\ \A v \in Versions : policies[v] # Absent =>
              policies'[v] = policies[v]
<1>1. ASSUME NEW s \in Sessions, InsertPolicy(s)
      PROVE  /\ UNCHANGED changes
             /\ \A v \in Versions : policies[v] # Absent =>
                  policies'[v] = policies[v]
  BY <1>1 DEF InsertPolicy, TypeInv, TypeOK
<1>2. ASSUME NEW s \in Sessions, InsertChange(s)
      PROVE  /\ Recorded \subseteq Recorded' /\ UNCHANGED policies
  <2>1. call[s].change \in KillSwitchChange
    BY <1>2 DEF InsertChange, TypeInv, LocalsAreInHand
  <2> QED
    BY <1>2, <2>1, RecordedAppend DEF InsertChange, TypeInv, Recorded
<1>3. \/ \E s \in Sessions : InsertPolicy(s) \/ InsertChange(s)
      \/ UNCHANGED <<changes, policies>>
  BY DEF Next, Step, vars, tables, EnsureSnapshot, GetPolicy, SavePolicy,
         CheckSwitch, SnapshotPolicy, SnapshotChange, SetKillSwitch,
         AppendChange, Leave
<1> QED
  BY <1>1, <1>2, <1>3 DEF Recorded

(* A snapshot in hand stays the one on record.                             *)
LEMMA SnapshotsStay ==
  ASSUME PolicyInv, [Next]_vars, UNCHANGED held
  PROVE  SnapshotsAgreeOnPolicies'
<1> SUFFICES ASSUME NEW s \in Sessions, held[s] # Absent
             PROVE  policies'[held[s].policy_version] = held[s].policy
  BY DEF SnapshotsAgreeOnPolicies
<1>1. held[s] \in RiskControlSnapshot
  BY DEF PolicyInv, TypeInv, TypeOK
<1>2. held[s].policy_version \in Versions /\ held[s].policy \in PolicyRow
  BY <1>1 DEF RiskControlSnapshot
<1>3. policies[held[s].policy_version] = held[s].policy
  BY DEF PolicyInv, SnapshotsAgreeOnPolicies
<1>4. policies[held[s].policy_version] # Absent
  BY <1>2, <1>3, AbsentAssumption
<1> QED
  BY <1>2, <1>3, <1>4, RecordsAreKept DEF PolicyInv

(* A run that ends relies on nothing any more.                             *)
LEMMA EndKeepsPolicies ==
  ASSUME PolicyInv, [Next]_vars, NEW s \in Sessions, End(s), UNCHANGED held
  PROVE  SnapshotsAgreeOnPolicies' /\ EnsuredControlsExist' /\ RowsAreOnRecord'
<1>1. /\ pc' = [pc EXCEPT ![s] = "idle"] /\ pc \in [Sessions -> Stages]
      /\ \A t \in Sessions \ {s} : call'[t] = call[t]
  BY DEF End, Goto, PolicyInv, TypeInv, TypeOK
<1>2. /\ Recorded \subseteq Recorded'
      /\ \A v \in Versions : policies[v] # Absent => policies'[v] = policies[v]
  BY RecordsAreKept DEF PolicyInv
<1>3. SnapshotsAgreeOnPolicies'
  BY SnapshotsStay
<1>4. EnsuredControlsExist'
  BY <1>1, <1>2, CallTypes
  DEF PolicyInv, TypeInv, EnsuredControlsExist, Version, Stages
<1>5. RowsAreOnRecord'
  BY <1>1, <1>2, CallTypes
  DEF PolicyInv, TypeInv, RowsAreOnRecord, EnsuredControlsExist, Version
<1> QED
  BY <1>3, <1>4, <1>5

(* A run that moves on keeps them if what its next stage relies on exists. *)
LEMMA GotoKeepsPolicies ==
  ASSUME PolicyInv, [Next]_vars, NEW s \in Sessions, NEW stage \in Stages,
         NEW c \in Call, Goto(s, stage, c),
         stage \in {"current", "append_change", "insert_change",
                    "snapshot_policy", "snapshot_change", "ready"}
           => policies'[c.policy.policy_version] # Absent,
         stage \in {"snapshot_policy", "snapshot_change", "ready"}
           => Recorded' # {},
         stage = "snapshot_change" =>
           c.row = policies'[c.policy.policy_version]
  PROVE  EnsuredControlsExist' /\ RowsAreOnRecord'
<1>1. /\ pc \in [Sessions -> Stages] /\ pc'[s] = stage /\ call'[s] = c
      /\ \A t \in Sessions \ {s} : call'[t] = call[t] /\ pc'[t] = pc[t]
  BY DEF Goto, PolicyInv, TypeInv, TypeOK
<1>2. /\ Recorded \subseteq Recorded'
      /\ \A v \in Versions : policies[v] # Absent => policies'[v] = policies[v]
  BY RecordsAreKept DEF PolicyInv
<1>3. EnsuredControlsExist'
  BY <1>1, <1>2, CallTypes
  DEF PolicyInv, TypeInv, EnsuredControlsExist, Version
<1>4. RowsAreOnRecord'
  BY <1>1, <1>2, CallTypes
  DEF PolicyInv, TypeInv, RowsAreOnRecord, EnsuredControlsExist, Version
<1> QED
  BY <1>3, <1>4

(* Every step keeps the agreement on policies.                             *)
LEMMA NextKeepsPolicies == PolicyInv /\ [Next]_vars => PolicyInv'
<1> SUFFICES ASSUME PolicyInv, [Next]_vars PROVE PolicyInv'
  OBVIOUS
<1> USE DEF tables
<1>t. TypeInv' /\ TypeInv /\ TypeOK
  BY NextKeepsTypes DEF PolicyInv, TypeInv
<1>k. /\ Recorded \subseteq Recorded'
      /\ \A v \in Versions : policies[v] # Absent => policies'[v] = policies[v]
  BY <1>t, RecordsAreKept
<1>h. ASSUME UNCHANGED held PROVE SnapshotsAgreeOnPolicies'
  BY <1>h, SnapshotsStay
<1>1. ASSUME NEW s \in Sessions, NEW policy \in CentralRiskPolicy,
             NEW at \in Stamps, EnsureSnapshot(s, policy, at)
      PROVE  PolicyInv'
  <2> DEFINE c == [policy |-> policy, at |-> at, change |-> Absent,
                   row |-> Absent]
  <2>1. c \in Call
    BY DEF Call
  <2>2. Goto(s, "get_policy", c)
    BY <1>1 DEF EnsureSnapshot
  <2>3. EnsuredControlsExist' /\ RowsAreOnRecord'
    BY <2>1, <2>2, GotoKeepsPolicies DEF Stages
  <2> QED
    BY <1>1, <1>t, <1>h, <2>3 DEF EnsureSnapshot, PolicyInv
<1>2. ASSUME NEW s \in Sessions, GetPolicy(s)
      PROVE  PolicyInv'
  <2>1. call[s] \in Call /\ Version(s) \in Versions
    BY <1>t, <1>2, CallTypes DEF GetPolicy
  <2>2. \/ Goto(s, "save_policy", call[s])
        \/ Goto(s, "current", call[s]) /\ policies'[Version(s)] # Absent
    BY <1>2 DEF GetPolicy
  <2>3. EnsuredControlsExist' /\ RowsAreOnRecord'
    BY <2>1, <2>2, GotoKeepsPolicies DEF Stages, Version
  <2> QED
    BY <1>2, <1>t, <1>h, <2>3 DEF GetPolicy, PolicyInv
<1>3. ASSUME NEW s \in Sessions, SavePolicy(s)
      PROVE  PolicyInv'
  <2>1. call[s] \in Call /\ Version(s) \in Versions
    BY <1>t, <1>3, CallTypes DEF SavePolicy
  <2>2. \/ Goto(s, "insert_policy", call[s])
        \/ Goto(s, "current", call[s]) /\ policies'[Version(s)] # Absent
        \/ End(s)
    BY <1>3 DEF SavePolicy
  <2>3. UNCHANGED held
    BY <1>3 DEF SavePolicy
  <2>4. EnsuredControlsExist' /\ RowsAreOnRecord'
    BY <2>1, <2>2, <2>3, GotoKeepsPolicies, EndKeepsPolicies
    DEF Stages, Version
  <2> QED
    BY <1>t, <1>h, <2>3, <2>4 DEF PolicyInv
<1>4. ASSUME NEW s \in Sessions, InsertPolicy(s)
      PROVE  PolicyInv'
  <2>1. call[s] \in Call /\ Version(s) \in Versions
    BY <1>t, <1>4, CallTypes DEF InsertPolicy
  <2>2. policies'[Version(s)] \in PolicyRow \cup {Absent}
    BY <1>t, <2>1 DEF TypeInv, TypeOK
  <2>3. \/ Goto(s, "current", call[s]) /\ policies'[Version(s)] # Absent
        \/ End(s)
    <3>1. CASE policies[Version(s)] = Absent
      <4>1. [limits |-> call[s].policy.limits, persisted_at |-> call[s].at]
              \in PolicyRow
        BY <1>t, <1>4, CallTypes DEF InsertPolicy, PolicyRow
      <4>2. policies'[Version(s)] \in PolicyRow
        BY <1>4, <1>t, <2>1, <3>1, <4>1 DEF InsertPolicy, TypeOK
      <4> QED
        BY <1>4, <3>1, <4>2, AbsentAssumption DEF InsertPolicy
    <3>2. CASE policies[Version(s)] # Absent
      BY <1>4, <3>2 DEF InsertPolicy
    <3> QED
      BY <3>1, <3>2
  <2>4. UNCHANGED held
    BY <1>4 DEF InsertPolicy
  <2>5. EnsuredControlsExist' /\ RowsAreOnRecord'
    BY <2>1, <2>3, <2>4, GotoKeepsPolicies, EndKeepsPolicies
    DEF Stages, Version
  <2> QED
    BY <1>t, <1>h, <2>4, <2>5 DEF PolicyInv
<1>5. ASSUME NEW s \in Sessions, CheckSwitch(s)
      PROVE  PolicyInv'
  <2> DEFINE c == [call[s] EXCEPT !.change =
                     [active |-> FALSE, reason |-> "initial",
                      occurred_at |-> call[s].at]]
  <2>1. /\ call[s] \in Call /\ Version(s) \in Versions
        /\ call[s].at \in Stamps
    BY <1>t, <1>5, CallTypes DEF CheckSwitch
  <2>2. c \in Call /\ c.policy = call[s].policy
    BY <2>1 DEF Call, KillSwitchChange, Reasons
  <2>3. policies[Version(s)] # Absent /\ UNCHANGED <<policies, changes, held>>
    BY <1>5 DEF CheckSwitch, PolicyInv, EnsuredControlsExist
  <2>4. \/ Goto(s, "append_change", c)
        \/ Goto(s, "snapshot_policy", call[s]) /\ Recorded # {}
    BY <1>5 DEF CheckSwitch
  <2> HIDE DEF c
  <2>5. EnsuredControlsExist' /\ RowsAreOnRecord'
    BY <1>k, <2>1, <2>2, <2>3, <2>4, GotoKeepsPolicies DEF Stages, Version
  <2> QED
    BY <1>t, <1>h, <2>3, <2>5 DEF PolicyInv
<1>6. ASSUME NEW s \in Sessions, SnapshotPolicy(s)
      PROVE  PolicyInv'
  <2> DEFINE c == [call[s] EXCEPT !.row = policies[Version(s)]]
  <2>1. call[s] \in Call /\ Version(s) \in Versions
    BY <1>t, <1>6, CallTypes DEF SnapshotPolicy
  <2>2. /\ c \in Call /\ c.row = policies[Version(s)]
        /\ c.policy = call[s].policy
    BY <1>t, <2>1 DEF TypeOK, Call
  <2>3. /\ policies[Version(s)] # Absent /\ Recorded # {}
        /\ UNCHANGED <<policies, changes, held>>
    BY <1>6 DEF SnapshotPolicy, PolicyInv, EnsuredControlsExist
  <2>4. Goto(s, "snapshot_change", c)
    BY <1>6, <2>3 DEF SnapshotPolicy
  <2> HIDE DEF c
  <2>5. EnsuredControlsExist' /\ RowsAreOnRecord'
    BY <1>k, <2>1, <2>2, <2>3, <2>4, GotoKeepsPolicies DEF Stages, Version
  <2> QED
    BY <1>t, <1>h, <2>3, <2>5 DEF PolicyInv
<1>7. ASSUME NEW s \in Sessions, SnapshotChange(s)
      PROVE  PolicyInv'
  <2>1. call[s] \in Call /\ Version(s) \in Versions
    BY <1>t, <1>7, CallTypes DEF SnapshotChange
  <2>2. /\ policies[Version(s)] # Absent /\ Recorded # {}
        /\ call[s].row = policies[Version(s)]
        /\ UNCHANGED <<policies, changes>>
    BY <1>7 DEF SnapshotChange, PolicyInv, EnsuredControlsExist,
                RowsAreOnRecord
  <2>3. /\ Goto(s, "ready", call[s])
        /\ held' = [held EXCEPT ![s] =
             [policy_version |-> Version(s), policy |-> call[s].row,
              kill_switch_change |-> CurrentChange]]
    BY <1>7, <2>2 DEF SnapshotChange
  <2>4. EnsuredControlsExist' /\ RowsAreOnRecord'
    BY <1>k, <2>1, <2>2, <2>3, GotoKeepsPolicies DEF Stages, Version
  <2>5. held \in [Sessions -> RiskControlSnapshot \cup {Absent}]
    BY <1>t DEF TypeOK
  <2>6. /\ held'[s].policy_version = Version(s)
        /\ held'[s].policy = policies[Version(s)]
        /\ \A t \in Sessions \ {s} : held'[t] = held[t]
    BY <2>2, <2>3, <2>5
  <2>7. SnapshotsAgreeOnPolicies'
    BY <2>2, <2>6 DEF PolicyInv, SnapshotsAgreeOnPolicies
  <2> QED
    BY <1>t, <2>4, <2>7 DEF PolicyInv
<1>8. ASSUME NEW s \in Sessions, NEW active \in BOOLEAN, NEW at \in Stamps,
             SetKillSwitch(s, active, at)
      PROVE  PolicyInv'
  <2> DEFINE c == [call[s] EXCEPT !.change =
                     [active |-> active, reason |-> "operator",
                      occurred_at |-> at]]
  <2>1. call[s] \in Call
    BY <1>t, <1>8, CallTypes DEF SetKillSwitch
  <2>2. c \in Call /\ c.policy = call[s].policy
    BY <2>1 DEF Call, KillSwitchChange, Reasons
  <2>3. /\ Goto(s, "append_change", c) /\ UNCHANGED <<policies, held>>
        /\ policies[Version(s)] # Absent
    BY <1>8 DEF SetKillSwitch, PolicyInv, EnsuredControlsExist
  <2> HIDE DEF c
  <2>4. EnsuredControlsExist' /\ RowsAreOnRecord'
    BY <2>2, <2>3, GotoKeepsPolicies DEF Stages, Version
  <2> QED
    BY <1>t, <1>h, <2>3, <2>4 DEF PolicyInv
<1>9. ASSUME NEW s \in Sessions, AppendChange(s)
      PROVE  PolicyInv'
  <2>1. call[s] \in Call /\ Version(s) \in Versions
    BY <1>t, <1>9, CallTypes DEF AppendChange
  <2>2. policies[Version(s)] # Absent /\ UNCHANGED <<policies, changes, held>>
    BY <1>9 DEF AppendChange, PolicyInv, RowsAreOnRecord
  <2>3. \/ Goto(s, "snapshot_policy", call[s]) /\ Recorded # {}
        \/ Goto(s, "insert_change", call[s])
        \/ End(s)
    BY <1>9 DEF AppendChange, ChangeIsOnRecord
  <2>4. EnsuredControlsExist' /\ RowsAreOnRecord'
    BY <1>k, <2>1, <2>2, <2>3, GotoKeepsPolicies, EndKeepsPolicies
    DEF Stages, Version
  <2> QED
    BY <1>t, <1>h, <2>2, <2>4 DEF PolicyInv
<1>10. ASSUME NEW s \in Sessions, InsertChange(s)
       PROVE  PolicyInv'
  <2>1. /\ call[s] \in Call /\ Version(s) \in Versions
        /\ call[s].change \in KillSwitchChange
    BY <1>t, <1>10, CallTypes DEF InsertChange, TypeInv, LocalsAreInHand
  <2>2. policies[Version(s)] # Absent /\ UNCHANGED <<policies, held>>
    BY <1>10 DEF InsertChange, PolicyInv, RowsAreOnRecord
  <2>3. \/ /\ Goto(s, "snapshot_policy", call[s])
           /\ changes' = Append(changes, call[s].change)
        \/ End(s)
    BY <1>10 DEF InsertChange, ChangeIsOnRecord
  <2>4. changes' = Append(changes, call[s].change) => Recorded' # {}
    BY <1>t, <2>1, RecordedAppend
  <2>5. EnsuredControlsExist' /\ RowsAreOnRecord'
    BY <2>1, <2>2, <2>3, <2>4, GotoKeepsPolicies, EndKeepsPolicies
    DEF Stages, Version
  <2> QED
    BY <1>t, <1>h, <2>2, <2>5 DEF PolicyInv
<1>11. ASSUME NEW s \in Sessions, Leave(s)
       PROVE  PolicyInv'
  BY <1>11, <1>t, <1>h, EndKeepsPolicies DEF Leave, PolicyInv
<1>12. CASE UNCHANGED vars
  BY <1>12, <1>t, <1>h
  DEF vars, PolicyInv, EnsuredControlsExist, RowsAreOnRecord, Version,
      Recorded
<1> QED
  BY <1>1, <1>2, <1>3, <1>4, <1>5, <1>6, <1>7, <1>8, <1>9, <1>10, <1>11,
     <1>12 DEF Next, Step

(* The invariant holds in every reachable state.                           *)
LEMMA PolicyInvHolds == Spec => []PolicyInv
<1>1. Init => PolicyInv
  BY InitTypes
  DEF Init, PolicyInv, SnapshotsAgreeOnPolicies, EnsuredControlsExist,
      RowsAreOnRecord
<1> QED
  BY <1>1, NextKeepsPolicies, PTL DEF Spec

(* Sessions that race to insert different contents of one version end up   *)
(* with snapshots of one and the same policy.                              *)
THEOREM PoliciesAgree == Spec => []SnapshotsAgreeOnPolicies
<1>1. PolicyInv => SnapshotsAgreeOnPolicies
  BY DEF PolicyInv
<1> QED
  BY <1>1, PolicyInvHolds, PTL

(* ensure_snapshot never fails for want of a policy or of a change.        *)
THEOREM ControlsExist == Spec => []EnsuredControlsExist
<1>1. PolicyInv => EnsuredControlsExist
  BY DEF PolicyInv
<1> QED
  BY <1>1, PolicyInvHolds, PTL

-----------------------------------------------------------------------------
(* Snapshots only advance. *)

(* The change of a snapshot in hand is on record.                          *)
HeldInv ==
  /\ TypeInv
  /\ \A s \in Sessions :
       held[s] # Absent => held[s].kill_switch_change \in Recorded

(* The one step that hands out a snapshot hands out the current change.    *)
LEMMA HeldStep ==
  ASSUME TypeInv, [Next]_vars, NEW s \in Sessions
  PROVE  \/ held'[s] = held[s]
         \/ /\ Recorded # {}
            /\ held'[s].kill_switch_change = CurrentChange
<1>1. ASSUME NEW t \in Sessions, SnapshotChange(t), held'[s] # held[s]
      PROVE  /\ Recorded # {}
             /\ held'[s].kill_switch_change = CurrentChange
  <2>1. held \in [Sessions -> RiskControlSnapshot \cup {Absent}]
    BY DEF TypeInv, TypeOK
  <2> QED
    BY <1>1, <2>1 DEF SnapshotChange
<1>2. (\E t \in Sessions : SnapshotChange(t)) \/ UNCHANGED held
  BY DEF Next, Step, vars, tables, EnsureSnapshot, GetPolicy, SavePolicy,
         InsertPolicy, CheckSwitch, SnapshotPolicy, SetKillSwitch,
         AppendChange, InsertChange, Leave
<1> QED
  BY <1>1, <1>2

(* Every step keeps the snapshots in hand on record.                       *)
LEMMA NextKeepsHeld == HeldInv /\ [Next]_vars => HeldInv'
<1> SUFFICES ASSUME HeldInv, [Next]_vars PROVE HeldInv'
  OBVIOUS
<1>1. TypeInv' /\ Recorded \subseteq Recorded'
  BY NextKeepsTypes, RecordsAreKept DEF HeldInv
<1>2. Recorded # {} => CurrentChange \in Recorded
  BY CurrentChangeIsLatest DEF HeldInv, TypeInv
<1>3. ASSUME NEW s \in Sessions, held'[s] # Absent
      PROVE  held'[s].kill_switch_change \in Recorded'
  BY <1>1, <1>2, <1>3, HeldStep DEF HeldInv
<1> QED
  BY <1>1, <1>3 DEF HeldInv

(* No session sees the kill switch go back to an older change.             *)
THEOREM SnapshotsAdvance == Spec => SnapshotsOnlyAdvance
<1>1. Init => HeldInv
  BY InitTypes DEF Init, HeldInv
<1>2. HeldInv /\ [Next]_vars =>
        [\A s \in Sessions :
           held[s] # Absent =>
             Precedes(held[s].kill_switch_change,
                      held'[s].kill_switch_change)]_vars
  <2> SUFFICES ASSUME HeldInv, [Next]_vars, NEW s \in Sessions,
                      held[s] # Absent
               PROVE  Precedes(held[s].kill_switch_change,
                               held'[s].kill_switch_change)
    OBVIOUS
  <2>1. /\ held[s].kill_switch_change \in Recorded
        /\ held[s].kill_switch_change \in KillSwitchChange
    BY RecordedType DEF HeldInv, TypeInv
  <2>2. CASE held'[s] = held[s]
    BY <2>1, <2>2, PrecedesOrders
  <2>3. CASE /\ Recorded # {}
             /\ held'[s].kill_switch_change = CurrentChange
    BY <2>1, <2>3, CurrentChangeIsLatest DEF HeldInv, TypeInv
  <2> QED
    BY <2>2, <2>3, HeldStep DEF HeldInv
<1> QED
  BY <1>1, <1>2, NextKeepsHeld, PTL DEF Spec, SnapshotsOnlyAdvance

-----------------------------------------------------------------------------
(* The initialization of the switch, when the clock advances strictly. *)

Recording(s) == pc[s] \in {"append_change", "insert_change"}

(* The changes on record and those about to be recorded.                   *)
Known == Recorded \cup { call[s].change : s \in { t \in Sessions : Recording(t) } }

(* An initial change is only ever prepared while no operator has had a     *)
(* page to act on, with a reading of the clock from before that; so every  *)
(* operator's change carries a later reading than every initial one.       *)
OrderInv ==
  /\ PolicyInv
  /\ \A s \in Sessions : pc[s] # "idle" => call[s].at <= clock
  /\ \A c \in Known : c.occurred_at <= clock
  /\ Recorded = {} => \A c \in Known : c.reason = "initial"
  /\ \A c, d \in Known :
       c.reason = "initial" /\ d.reason = "operator" =>
         c.occurred_at + MinTick <= d.occurred_at

(* Known changes are kill-switch changes.                                  *)
LEMMA KnownType ==
  ASSUME TypeInv
  PROVE  \A c \in Known : c \in KillSwitchChange /\ c.occurred_at \in Int
<1>1. \A c \in Known : c \in KillSwitchChange
  BY RecordedType DEF Known, Recording, TypeInv, LocalsAreInHand
<1> QED
  BY <1>1, MaxClockAssumption DEF KillSwitchChange, Stamps

(* A step that makes no new change known keeps the order.                  *)
LEMMA OldChangesKeepOrder ==
  ASSUME OrderInv, PolicyInv', Known' \subseteq Known,
         Recorded \subseteq Recorded', clock <= clock',
         \A s \in Sessions : pc'[s] # "idle" => call'[s].at <= clock'
  PROVE  OrderInv'
<1>1. clock \in Int /\ clock' \in Int
  BY MaxClockAssumption DEF OrderInv, PolicyInv, TypeInv, TypeOK, Stamps
<1>2. \A c \in Known : c \in KillSwitchChange /\ c.occurred_at \in Int
  BY KnownType DEF OrderInv, PolicyInv
<1>3. \A c \in Known' : c.occurred_at <= clock'
  BY <1>1, <1>2 DEF OrderInv
<1> QED
  BY <1>3 DEF OrderInv

(* A step that makes one change known keeps the order if that change is    *)
(* the first of all, or an operator's with a fresh reading of the clock.   *)
LEMMA NewChangeKeepsOrder ==
  ASSUME OrderInv, PolicyInv', NEW e \in KillSwitchChange,
         Known' \subseteq Known \cup {e},
         Recorded' = Recorded, clock <= clock', e.occurred_at <= clock',
         \A s \in Sessions : pc'[s] # "idle" => call'[s].at <= clock',
         \/ Recorded = {} /\ e.reason = "initial"
         \/ Recorded # {} /\ e.reason = "operator"
            /\ clock + MinTick <= e.occurred_at
  PROVE  OrderInv'
<1>1. clock \in Int /\ clock' \in Int /\ e.occurred_at \in Int
  BY MaxClockAssumption
  DEF OrderInv, PolicyInv, TypeInv, TypeOK, Stamps, KillSwitchChange
<1>2. \A c \in Known : c \in KillSwitchChange /\ c.occurred_at \in Int
  BY KnownType DEF OrderInv, PolicyInv
<1>3. \A c \in Known' : c.occurred_at <= clock'
  BY <1>1, <1>2 DEF OrderInv
<1>4. CASE Recorded = {} /\ e.reason = "initial"
  <2>1. \A c \in Known' : c.reason = "initial"
    BY <1>4 DEF OrderInv
  <2> QED
    BY <1>3, <2>1 DEF OrderInv
<1>5. CASE /\ Recorded # {} /\ e.reason = "operator"
           /\ clock + MinTick <= e.occurred_at
  <2>1. \A c, d \in Known' :
          c.reason = "initial" /\ d.reason = "operator" =>
            c.occurred_at + MinTick <= d.occurred_at
    <3> SUFFICES ASSUME NEW c \in Known', NEW d \in Known',
                        c.reason = "initial", d.reason = "operator"
                 PROVE  c.occurred_at + MinTick <= d.occurred_at
      OBVIOUS
    <3>1. c \in Known
      BY <1>5
    <3>2. c.occurred_at \in Int /\ c.occurred_at <= clock
      BY <3>1, <1>2 DEF OrderInv
    <3>3. CASE d = e
      BY <1>1, <1>5, <3>2, <3>3, MinTickAssumption
    <3>4. CASE d \in Known
      BY <3>1, <3>4 DEF OrderInv
    <3> QED
      BY <3>3, <3>4
  <2> QED
    BY <1>3, <1>5, <2>1 DEF OrderInv
<1> QED
  BY <1>4, <1>5

(* What becomes known when one session moves.                              *)
LEMMA MoveKeepsKnown ==
  ASSUME NEW s \in Sessions, NEW S, Known \subseteq S,
         Recorded' \subseteq S,
         \A t \in Sessions \ {s} : pc'[t] = pc[t] /\ call'[t] = call[t],
         pc'[s] \in {"append_change", "insert_change"} =>
           call'[s].change \in S
  PROVE  Known' \subseteq S
<1> SUFFICES ASSUME NEW t \in Sessions, Recording(t)'
             PROVE  call'[t].change \in S
  BY DEF Known
<1>1. CASE t = s
  BY <1>1 DEF Recording
<1>2. CASE t # s
  BY <1>2 DEF Recording, Known
<1> QED
  BY <1>1, <1>2

(* Every step keeps the order of initial and operator changes.             *)
LEMMA NextKeepsOrder == OrderInv /\ [Next]_vars => OrderInv'
<1> SUFFICES ASSUME OrderInv, [Next]_vars PROVE OrderInv'
  OBVIOUS
<1>t. /\ TypeInv /\ TypeOK /\ PolicyInv /\ PolicyInv' /\ TypeOK'
      /\ Recorded \subseteq Recorded'
  BY NextKeepsPolicies, RecordsAreKept DEF OrderInv, PolicyInv, TypeInv
<1>c. clock \in Int /\ clock' \in Int
  BY <1>t, MaxClockAssumption DEF TypeOK, Stamps
<1>1. ASSUME NEW s \in Sessions, NEW policy \in CentralRiskPolicy,
             NEW at \in Stamps, EnsureSnapshot(s, policy, at)
      PROVE  OrderInv'
  <2>1. clock' = at /\ clock <= clock'
    BY <1>t, <1>1, ReadClockType DEF EnsureSnapshot
  <2>2. /\ pc'[s] = "get_policy" /\ call'[s].at = at
        /\ \A t \in Sessions \ {s} : pc'[t] = pc[t] /\ call'[t] = call[t]
        /\ Recorded' = Recorded
    BY <1>t, <1>1 DEF EnsureSnapshot, Goto, TypeOK, Recorded, tables
  <2>3. Known' \subseteq Known
    <3>1. Recorded \subseteq Known
      BY DEF Known
    <3> QED
      BY <2>2, <3>1, MoveKeepsKnown
  <2>4. \A t \in Sessions : pc'[t] # "idle" => call'[t].at <= clock'
    <3> SUFFICES ASSUME NEW t \in Sessions, pc'[t] # "idle"
                 PROVE  call'[t].at <= clock'
      OBVIOUS
    <3>1. CASE t = s
      BY <3>1, <2>1, <2>2, <1>c
    <3>2. CASE t # s
      <4>1. call[t].at \in Stamps /\ call[t].at <= clock
        BY <3>2, <2>2, <1>t, CallTypes DEF OrderInv
      <4> QED
        BY <4>1, <3>2, <2>1, <2>2, <1>c, MaxClockAssumption DEF Stamps
    <3> QED
      BY <3>1, <3>2
  <2> QED
    BY <1>t, <2>1, <2>3, <2>4, OldChangesKeepOrder
<1>2. ASSUME NEW s \in Sessions, NEW active \in BOOLEAN, NEW at \in Stamps,
             SetKillSwitch(s, active, at)
      PROVE  OrderInv'
  <2> DEFINE e == [active |-> active, reason |-> "operator",
                   occurred_at |-> at]
  <2>1. clock' = at /\ clock + MinTick <= at /\ clock <= clock'
    BY <1>t, <1>2, <1>c, ReadClockType DEF SetKillSwitch
  <2>2. e \in KillSwitchChange /\ e.occurred_at = at /\ e.reason = "operator"
    BY DEF KillSwitchChange, Reasons
  <2>3. pc[s] = "ready" /\ call[s] \in Call
    BY <1>t, <1>2, CallTypes DEF SetKillSwitch
  <2>4. /\ pc'[s] = "append_change" /\ call'[s] = [call[s] EXCEPT !.change = e]
        /\ \A t \in Sessions \ {s} : pc'[t] = pc[t] /\ call'[t] = call[t]
        /\ Recorded' = Recorded
    BY <1>t, <1>2 DEF SetKillSwitch, Goto, TypeOK, Recorded, tables
  <2>5. call'[s].change = e /\ call'[s].at = call[s].at
    BY <2>3, <2>4 DEF Call
  <2> HIDE DEF e
  <2>6. Known' \subseteq Known \cup {e}
    <3>1. Recorded \subseteq Known \cup {e}
      BY DEF Known
    <3> QED
      BY <2>4, <2>5, <3>1, MoveKeepsKnown
  <2>7. \A t \in Sessions : pc'[t] # "idle" => call'[t].at <= clock'
    <3> SUFFICES ASSUME NEW t \in Sessions, pc'[t] # "idle"
                 PROVE  call'[t].at <= clock'
      OBVIOUS
    <3>1. pc[t] # "idle" /\ call'[t].at = call[t].at
      BY <2>3, <2>4, <2>5
    <3>2. call[t].at \in Stamps /\ call[t].at <= clock
      BY <3>1, <1>t, CallTypes DEF OrderInv
    <3> QED
      BY <3>1, <3>2, <2>1, <1>c, MaxClockAssumption DEF Stamps
  <2>8. Recorded # {}
    BY <2>3, <1>t DEF PolicyInv, EnsuredControlsExist
  <2>9. e.occurred_at <= clock' /\ clock + MinTick <= e.occurred_at
    BY <2>1, <2>2, <1>c
  <2> QED
    BY <1>t, <2>1, <2>2, <2>4, <2>6, <2>7, <2>8, <2>9, NewChangeKeepsOrder
<1>3. ASSUME NEW s \in Sessions, CheckSwitch(s), Recorded = {}
      PROVE  OrderInv'
  <2> DEFINE e == [active |-> FALSE, reason |-> "initial",
                   occurred_at |-> call[s].at]
  <2>1. pc[s] = "current" /\ call[s] \in Call /\ call[s].at \in Stamps
    BY <1>t, <1>3, CallTypes DEF CheckSwitch
  <2>2. /\ e \in KillSwitchChange /\ e.occurred_at = call[s].at
        /\ e.reason = "initial"
    BY <2>1 DEF KillSwitchChange, Reasons
  <2>3. /\ pc'[s] = "append_change" /\ call'[s] = [call[s] EXCEPT !.change = e]
        /\ \A t \in Sessions \ {s} : pc'[t] = pc[t] /\ call'[t] = call[t]
        /\ Recorded' = Recorded /\ clock' = clock
    BY <1>t, <1>3 DEF CheckSwitch, Goto, TypeOK, Recorded, tables
  <2>4. call'[s].change = e /\ call'[s].at = call[s].at
    BY <2>1, <2>3 DEF Call
  <2> HIDE DEF e
  <2>5. Known' \subseteq Known \cup {e}
    <3>1. Recorded \subseteq Known \cup {e}
      BY DEF Known
    <3> QED
      BY <2>3, <2>4, <3>1, MoveKeepsKnown
  <2>6. \A t \in Sessions : pc'[t] # "idle" => call'[t].at <= clock'
    BY <2>1, <2>3, <2>4 DEF OrderInv
  <2>7. e.occurred_at <= clock' /\ clock <= clock'
    BY <2>1, <2>2, <2>3, <1>c DEF OrderInv
  <2> QED
    BY <1>t, <1>3, <2>2, <2>3, <2>5, <2>6, <2>7, NewChangeKeepsOrder
<1>4. ASSUME NEW s \in Sessions,
             \/ GetPolicy(s) \/ SavePolicy(s) \/ InsertPolicy(s)
             \/ CheckSwitch(s) /\ Recorded # {}
             \/ SnapshotPolicy(s) \/ SnapshotChange(s)
             \/ AppendChange(s) \/ InsertChange(s) \/ Leave(s)
      PROVE  OrderInv'
  <2>1. pc[s] # "idle" /\ call[s] \in Call
    BY <1>t, <1>4, CallTypes
    DEF GetPolicy, SavePolicy, InsertPolicy, CheckSwitch, SnapshotPolicy,
        SnapshotChange, AppendChange, InsertChange, Leave
  <2>2. \/ End(s)
        \/ \E stage \in Stages :
             /\ \/ Goto(s, stage, call[s])
                \/ Goto(s, stage,
                        [call[s] EXCEPT !.row = policies[Version(s)]])
             /\ stage = "insert_change" => pc[s] = "append_change"
             /\ stage # "append_change"
    BY <1>4
    DEF GetPolicy, SavePolicy, InsertPolicy, CheckSwitch, SnapshotPolicy,
        SnapshotChange, AppendChange, InsertChange, Leave, ChangeIsOnRecord,
        Stages
  <2>3. clock' = clock
    BY <1>4
    DEF GetPolicy, SavePolicy, InsertPolicy, CheckSwitch, SnapshotPolicy,
        SnapshotChange, AppendChange, InsertChange, Leave
  <2>4. /\ \A t \in Sessions \ {s} : pc'[t] = pc[t] /\ call'[t] = call[t]
        /\ pc'[s] # "idle" =>
             call'[s].at = call[s].at /\ call'[s].change = call[s].change
        /\ pc'[s] \in {"append_change", "insert_change"} =>
             pc[s] = "append_change"
    BY <1>t, <2>1, <2>2 DEF End, Goto, TypeOK, Call
  <2>5. Recorded' \subseteq Known
    <3>1. CASE InsertChange(s)
      <4>1. call[s].change \in KillSwitchChange /\ pc[s] = "insert_change"
        BY <1>t, <3>1 DEF InsertChange, TypeInv, LocalsAreInHand
      <4>2. \/ UNCHANGED changes
            \/ changes' = Append(changes, call[s].change)
        BY <3>1 DEF InsertChange
      <4>3. Recorded' \subseteq Recorded \cup {call[s].change}
        BY <1>t, <4>1, <4>2, RecordedAppend DEF Recorded
      <4> QED
        BY <4>1, <4>3 DEF Known, Recording
    <3>2. CASE UNCHANGED changes
      BY <3>2 DEF Recorded, Known
    <3> QED
      BY <1>4, <3>1, <3>2
      DEF GetPolicy, SavePolicy, InsertPolicy, CheckSwitch, SnapshotPolicy,
          SnapshotChange, AppendChange, Leave, tables
  <2>6. pc'[s] \in {"append_change", "insert_change"} =>
          call'[s].change \in Known
    BY <2>4 DEF Known, Recording
  <2>7. Known' \subseteq Known
    BY <2>4, <2>5, <2>6, MoveKeepsKnown
  <2>8. \A t \in Sessions : pc'[t] # "idle" => call'[t].at <= clock'
    BY <2>1, <2>3, <2>4 DEF OrderInv
  <2>9. clock <= clock'
    BY <2>3, <1>c
  <2> QED
    BY <1>t, <2>7, <2>8, <2>9, OldChangesKeepOrder
<1>5. CASE UNCHANGED vars
  <2>1. /\ Known' = Known /\ Recorded' = Recorded /\ clock' = clock
        /\ pc' = pc /\ call' = call
    BY <1>5 DEF vars, tables, Known, Recorded, Recording
  <2> QED
    BY <1>t, <2>1 DEF OrderInv
<1> QED
  BY <1>1, <1>2, <1>3, <1>4, <1>5 DEF Next, Step

(* No racing initialization overrides an operator's change, unless both    *)
(* carry one reading of a clock that may stand still.                      *)
THEOREM OperatorsPrevail == Spec => []InitializationNeverDisarms
<1>1. Init => OrderInv
  <2>1. ASSUME Init PROVE Known = {} /\ Recorded = {}
    BY <2>1 DEF Init, Known, Recorded, Recording
  <2>2. Init => PolicyInv
    BY InitTypes
    DEF Init, PolicyInv, SnapshotsAgreeOnPolicies, EnsuredControlsExist,
        RowsAreOnRecord
  <2> QED
    BY <2>1, <2>2 DEF Init, OrderInv
<1>2. OrderInv => InitializationNeverDisarms
  <2> SUFFICES ASSUME OrderInv, NEW d \in Recorded, d.reason = "operator"
               PROVE  \/ CurrentChange.reason = "operator"
                      \/ /\ MinTick = 0
                         /\ CurrentChange.occurred_at = d.occurred_at
    BY DEF InitializationNeverDisarms
  <2>1. /\ CurrentChange \in Recorded /\ Precedes(d, CurrentChange)
        /\ CurrentChange \in KillSwitchChange /\ d \in KillSwitchChange
    BY CurrentChangeIsLatest, RecordedType
    DEF OrderInv, PolicyInv, TypeInv
  <2>2. d.occurred_at <= CurrentChange.occurred_at
    BY <2>1, PrecedesOrders
  <2>3. d.occurred_at \in Int /\ CurrentChange.occurred_at \in Int
    BY <2>1, MaxClockAssumption DEF KillSwitchChange, Stamps
  <2>4. CASE CurrentChange.reason = "initial"
    <3>1. CurrentChange.occurred_at + MinTick <= d.occurred_at
      BY <2>1, <2>4 DEF OrderInv, Known
    <3> QED
      BY <3>1, <2>2, <2>3, MinTickAssumption
  <2> QED
    BY <2>1, <2>4 DEF KillSwitchChange, Reasons
<1>3. OrderInv /\ [Next]_vars => OrderInv'
  BY NextKeepsOrder
<1> QED
  BY <1>1, <1>2, <1>3, PTL DEF Spec

=============================================================================
