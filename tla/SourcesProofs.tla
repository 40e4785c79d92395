---------------------------- MODULE SourcesProofs ----------------------------
(***************************************************************************)
(* Proofs about the broker's instrument master, its local copies and what  *)
(* is made of them, for any number of sessions, masters and calls.         *)
(***************************************************************************)
EXTENDS AngelSources, InstrumentLifecycle, SequenceTheorems, TLAPS

-----------------------------------------------------------------------------
(* The two comparisons of a current snapshot with a baseline agree on every *)
(* identity of a universe: the same ones are missing, the same ones are    *)
(* out of use, a mapping that changed is put to review, and an instrument  *)
(* is ready in the projection only if it is available to the universe.     *)
THEOREM LifecycleAgreesWithAvailability ==
  ASSUME NotListed \notin Instrument,
         NEW I, NEW J, NEW baseline \in [I -> Instrument],
         NEW current \in [J -> Instrument],
         NEW universe \in SUBSET Selectable(baseline), NEW id \in universe
  PROVE  LET row == Project(current, baseline)[id]
             state == Assess(universe, baseline, current)[id]
         IN /\ row = "MISSING" <=> state = "MISSING"
            /\ row \in {"INACTIVE", "EXPIRED", "UNRESOLVED"} <=> state = "INACTIVE"
            /\ state = "MAPPING_CHANGED" => row = "REVIEW_REQUIRED"
            /\ row = "READY" => state = "ACTIVE"
            /\ state = "ACTIVE" /\ row # "READY" =>
                 current[id].contract # baseline[id].contract
<1>1. id \in I /\ DOMAIN baseline = I /\ DOMAIN current = J
  BY DEF Selectable
<1>2. baseline[id] \in Instrument /\ baseline[id] # NotListed
  BY <1>1
<1>3. id \in J => current[id] \in Instrument
  BY <1>1
<1>4. Listing(baseline, id) = baseline[id]
  BY <1>1 DEF Listing
<1>5. Project(current, baseline)[id] =
        IF id \in J THEN CurrentRow(current[id], baseline[id]) ELSE "MISSING"
  BY <1>1, <1>4 DEF Project
<1>6. CASE id \notin J
  BY <1>1, <1>5, <1>6 DEF Assess
<1>7. CASE id \in J
  <2>1. current[id].status \in InstrumentStatus
    BY <1>3, <1>7 DEF Instrument
  <2> QED
    BY <1>1, <1>2, <1>5, <1>7, <2>1
    DEF Assess, CurrentRow, StatusState, ContractChanged, InstrumentStatus
<1> QED
  BY <1>6, <1>7


-----------------------------------------------------------------------------
(* The local copies of the master. *)

(* Among the retained snapshots one has the latest stamp, so that Latest   *)
(* is defined.                                                             *)
ALatestExists ==
  snapshots # {} =>
    \E r \in snapshots : \A q \in snapshots : q.downloaded_at <= r.downloaded_at

(* Whatever carries a stamp was stamped in the past.                       *)
StampsArePast ==
  /\ \A m \in Masters : withdrawn[m] # Absent => withdrawn[m] <= now
  /\ \A r \in snapshots : r.downloaded_at <= now
  /\ checked # Absent => checked.last_checked_at <= now
  /\ answer # Absent => answer.since <= now
  /\ \A s \in Sessions : pc[s] # "idle" => call[s].now <= now

(* What a call has in hand at each stage.                                  *)
InHand(stage, c) ==
  /\ \A i \in 1..Len(c.received) : ServedSince(c.received[i], c.now)
  /\ stage = "age" => c.received = << >> /\ c.latest \in snapshots \cup {Absent}
  /\ stage \in {"find", "lookup", "insert"} =>
       /\ c.result \in Snapshot /\ c.result.downloaded_at = c.now
       /\ BothServedSince(c.result.content, c.now)
  /\ stage \in {"confirm", "record"} =>
       /\ c.result \in Snapshot
       /\ BothServedSince(c.result.content, c.now)
       /\ \E r \in snapshots : IdOf(r) = IdOf(c.result)

HandsOK == \A s \in Sessions : pc[s] # "idle" => InHand(pc[s], call[s])

(* An answer other than a fresh one was served since its call began.       *)
AnswersAreBacked ==
  answer # Absent =>
    /\ \E r \in snapshots : IdOf(r) = IdOf(answer.snapshot)
    /\ answer.reason # "fresh_snapshot" =>
         BothServedSince(answer.snapshot.content, answer.since)

MasterInv ==
  /\ TypeOK /\ ALatestExists /\ StampsArePast /\ HandsOK
  /\ ChecksAreBacked /\ AnswersAreBacked

(* All that the world does is to replace the master.                       *)
WorldStep == UNCHANGED world \/ \E m \in Masters : Publish(m)

-----------------------------------------------------------------------------
(* Types. *)

LEMMA StampsAreNaturals ==
  ASSUME NEW t \in Stamps PROVE t \in Nat /\ t # Absent
  BY BoundsAssumption, AbsentAssumption DEF Stamps

LEMMA SnapshotTypes ==
  ASSUME NEW r \in Snapshot
  PROVE  /\ r # Absent /\ r.downloaded_at \in Stamps /\ r.downloaded_at \in Nat
         /\ r.content \in Content
         /\ r.content[1] \in Masters /\ r.content[2] \in Masters
         /\ IdOf(r) \in SnapshotId /\ IdOf(r).content = r.content
<1>1. r.downloaded_at \in Stamps /\ r.content \in Content /\ r # Absent
  BY AbsentAssumption DEF Snapshot
<1>2. r.downloaded_at \in Nat
  BY <1>1, StampsAreNaturals
<1>3. r.downloaded_at \div PerSecond \in Nat
  BY <1>2, BoundsAssumption
<1> QED
  BY <1>1, <1>2, <1>3 DEF Content, IdOf, SnapshotId

LEMMA CheckTypes ==
  ASSUME NEW k \in Check
  PROVE  /\ k # Absent /\ k.last_checked_at \in Stamps
         /\ k.last_checked_at \in Nat /\ k.snapshot_id \in SnapshotId
         /\ k.snapshot_id.content \in Content
<1>1. /\ k # Absent /\ k.last_checked_at \in Stamps
      /\ k.snapshot_id \in SnapshotId
  BY AbsentAssumption DEF Check
<1> QED
  BY <1>1, StampsAreNaturals DEF SnapshotId

LEMMA AnswerTypes ==
  ASSUME NEW a \in Answer
  PROVE  /\ a # Absent /\ a.snapshot \in Snapshot
         /\ a.since \in Stamps /\ a.since \in Nat
<1>1. a # Absent /\ a.snapshot \in Snapshot /\ a.since \in Stamps
  BY AbsentAssumption DEF Answer
<1> QED
  BY <1>1, StampsAreNaturals

LEMMA CallTypes ==
  ASSUME NEW c \in Call
  PROVE  /\ c # Absent /\ c.now \in Stamps /\ c.now \in Nat
         /\ c.force \in BOOLEAN /\ c.latest \in Snapshot \cup {Absent}
         /\ c.received \in Seq(Masters) /\ Len(c.received) \in Nat
         /\ \A i \in 1..Len(c.received) : c.received[i] \in Masters
         /\ c.attempts \in Nat /\ c.result \in Snapshot \cup {Absent}
<1>1. /\ c # Absent /\ c.now \in Stamps
      /\ c.force \in BOOLEAN /\ c.latest \in Snapshot \cup {Absent}
      /\ c.received \in Seq(Masters)
      /\ c.attempts \in Nat /\ c.result \in Snapshot \cup {Absent}
  BY AbsentAssumption DEF Call
<1> QED
  BY <1>1, StampsAreNaturals

(* The call of a session that is not idle.                                 *)
LEMMA BusyTypes ==
  ASSUME TypeOK, NEW s \in Sessions, pc[s] # "idle"
  PROVE  /\ call[s] \in Call /\ pc[s] \in Stages
         /\ Len(call[s].received) <= 2 /\ call[s].attempts < MaxAttempts
  BY DEF TypeOK, CallsOK

(* Moving on to a stage with well typed locals keeps the types of both.    *)
LEMMA GotoType ==
  ASSUME TypeOK, NEW s \in Sessions, NEW stage \in Stages \ {"idle"},
         NEW c \in Call, Len(c.received) <= 2, c.attempts < MaxAttempts,
         Goto(s, stage, c)
  PROVE  /\ CallsOK' /\ pc'[s] = stage /\ call'[s] = c
         /\ \A t \in Sessions \ {s} : pc'[t] = pc[t] /\ call'[t] = call[t]
  BY CallTypes DEF TypeOK, CallsOK, Goto

(* So does the end of a call.                                              *)
LEMMA EndType ==
  ASSUME TypeOK, NEW s \in Sessions, End(s)
  PROVE  /\ CallsOK' /\ pc'[s] = "idle"
         /\ \A t \in Sessions \ {s} : pc'[t] = pc[t] /\ call'[t] = call[t]
  BY DEF TypeOK, CallsOK, End, Goto, Stages

-----------------------------------------------------------------------------
(* What was served stays served. *)

LEMMA ServedStays ==
  ASSUME TypeOK, StampsArePast, WorldStep
  PROVE  \A m \in Masters, t \in Stamps :
           t <= now /\ ServedSince(m, t) => ServedSince(m, t)'
<1> SUFFICES ASSUME NEW m \in Masters, NEW t \in Stamps, t <= now,
                    ServedSince(m, t)
             PROVE  ServedSince(m, t)'
  OBVIOUS
<1>1. CASE UNCHANGED world
  BY <1>1 DEF world, ServedSince
<1>2. ASSUME NEW n \in Masters, Publish(n)
      PROVE  ServedSince(m, t)'
  <2>1. now \in Stamps /\ now # Absent /\ now \in Nat /\ t \in Nat
    BY StampsAreNaturals DEF TypeOK
  <2>2. CASE m = published
    BY <1>2, <2>1, <2>2 DEF TypeOK, Publish, ServedSince
  <2>3. CASE m # published
    BY <1>2, <2>1, <2>3 DEF TypeOK, Publish, ServedSince
  <2> QED
    BY <2>2, <2>3
<1> QED
  BY <1>1, <1>2 DEF WorldStep

LEMMA ContentStays ==
  ASSUME TypeOK, StampsArePast, WorldStep
  PROVE  \A c \in Content, t \in Stamps :
           t <= now /\ BothServedSince(c, t) => BothServedSince(c, t)'
<1> SUFFICES ASSUME NEW c \in Content, NEW t \in Stamps, t <= now,
                    BothServedSince(c, t)
             PROVE  BothServedSince(c, t)'
  OBVIOUS
<1>1. c[1] \in Masters /\ c[2] \in Masters
  BY DEF Content
<1> QED
  BY <1>1, ServedStays DEF BothServedSince

(* The claims of the tables, as long as nothing is added to them.          *)
LEMMA ChecksStay ==
  ASSUME MasterInv, WorldStep, UNCHANGED tables
  PROVE  ChecksAreBacked'
<1>1. snapshots' = snapshots /\ checked' = checked
  BY DEF tables
<1>2. ASSUME NEW r \in snapshots
      PROVE  BothServedSince(r.content, r.downloaded_at)'
  <2>1. /\ r.content \in Content /\ r.downloaded_at \in Stamps
        /\ r.downloaded_at <= now /\ BothServedSince(r.content, r.downloaded_at)
    BY SnapshotTypes DEF MasterInv, TypeOK, StampsArePast, ChecksAreBacked
  <2> QED
    BY <2>1, ContentStays DEF MasterInv
<1>3. ASSUME NEW k \in Check, k = checked
      PROVE  BothServedSince(k.snapshot_id.content, k.last_checked_at)'
  <2>1. /\ k.snapshot_id.content \in Content /\ k.last_checked_at \in Stamps
        /\ k.last_checked_at <= now
        /\ BothServedSince(k.snapshot_id.content, k.last_checked_at)
    BY <1>3, CheckTypes DEF MasterInv, StampsArePast, ChecksAreBacked
  <2> QED
    BY <2>1, ContentStays DEF MasterInv
<1>4. checked # Absent => checked \in Check
  BY DEF MasterInv, TypeOK
<1> QED
  BY <1>1, <1>2, <1>3, <1>4 DEF MasterInv, ChecksAreBacked

(* What the last answer said, as long as it is the last.                   *)
LEMMA AnswerStays ==
  ASSUME MasterInv, WorldStep, snapshots \subseteq snapshots', answer' = answer
  PROVE  AnswersAreBacked'
<1>1. ASSUME NEW a \in Answer, a = answer, a.reason # "fresh_snapshot"
      PROVE  BothServedSince(a.snapshot.content, a.since)'
  <2>1. /\ a.snapshot.content \in Content /\ a.since \in Stamps
        /\ a.since <= now /\ BothServedSince(a.snapshot.content, a.since)
    BY <1>1, AnswerTypes, SnapshotTypes
    DEF MasterInv, StampsArePast, AnswersAreBacked
  <2> QED
    BY <2>1, ContentStays DEF MasterInv
<1>2. answer # Absent => answer \in Answer
  BY DEF MasterInv, TypeOK
<1> QED
  BY <1>1, <1>2 DEF MasterInv, AnswersAreBacked

(* What a call has in hand, whatever is done elsewhere.                    *)
LEMMA HandsStay ==
  ASSUME MasterInv, WorldStep, snapshots \subseteq snapshots'
  PROVE  \A stage \in Stages, c \in Call :
           Len(c.received) <= 2 /\ c.now <= now /\ InHand(stage, c)
             => InHand(stage, c)'
<1> SUFFICES ASSUME NEW stage \in Stages, NEW c \in Call,
                    c.now <= now, InHand(stage, c)
             PROVE  InHand(stage, c)'
  OBVIOUS
<1> USE DEF MasterInv
<1>1. c.now \in Stamps /\ \A i \in 1..Len(c.received) : c.received[i] \in Masters
  BY CallTypes
<1>2. \A i \in 1..Len(c.received) : ServedSince(c.received[i], c.now)'
  BY <1>1, ServedStays DEF InHand
<1>3. c.result \in Snapshot /\ BothServedSince(c.result.content, c.now)
        => BothServedSince(c.result.content, c.now)'
  BY <1>1, SnapshotTypes, ContentStays
<1> QED
  BY <1>2, <1>3 DEF InHand

(* The calls of all sessions after a step that moves one of them on.       *)
LEMMA OneMoves ==
  ASSUME MasterInv, WorldStep, snapshots \subseteq snapshots',
         now \in Nat, now' \in Nat, now <= now', NEW s \in Sessions, CallsOK',
         \A t \in Sessions \ {s} : pc'[t] = pc[t] /\ call'[t] = call[t],
         pc'[s] # "idle" => call'[s].now <= now' /\ InHand(pc[s], call[s])'
  PROVE  /\ HandsOK'
         /\ \A t \in Sessions : pc'[t] # "idle" => call'[t].now <= now'
<1> SUFFICES ASSUME NEW t \in Sessions, pc'[t] # "idle"
             PROVE  InHand(pc[t], call[t])' /\ call'[t].now <= now'
  BY DEF HandsOK
<1>1. CASE t = s
  BY <1>1
<1>2. CASE t # s
  <2> DEFINE stage == pc[t]
             c == call[t]
  <2>1. /\ pc'[t] = pc[t] /\ call'[t] = call[t]
        /\ pc[t] \in Stages /\ call[t] \in Call /\ Len(call[t].received) <= 2
        /\ call[t].now \in Nat
    BY <1>2, BusyTypes, CallTypes DEF MasterInv
  <2>2. call[t].now <= now /\ InHand(pc[t], call[t])
    BY <1>2, <2>1 DEF MasterInv, StampsArePast, HandsOK
  <2>3. \A u \in Stages, d \in Call :
          u = pc[t] /\ d = call[t] => InHand(u, d)'
    BY <2>1, <2>2, HandsStay
  <2>4. \A u \in Stages, d \in Call :
          u = pc'[t] /\ d = call'[t] => InHand(u, d)'
    BY <2>1, <2>3
  <2>5. InHand(pc[t], call[t])'
    BY <2>1, <2>4 DEF InHand, ServedSince, BothServedSince
  <2> QED
    BY <2>1, <2>2, <2>5
<1> QED
  BY <1>1, <1>2

(* A step of a call that only moves it on.                                 *)
LEMMA GotoStep ==
  ASSUME MasterInv, NEW s \in Sessions, NEW stage \in Stages \ {"idle"},
         NEW c \in Call, Len(c.received) <= 2, c.attempts < MaxAttempts,
         c.now <= now, InHand(stage, c), Goto(s, stage, c),
         UNCHANGED <<answer, now, world, tables, orderly>>
  PROVE  MasterInv'
<1>1. /\ UNCHANGED world /\ UNCHANGED tables /\ WorldStep
      /\ snapshots' = snapshots /\ checked' = checked
      /\ answer' = answer /\ now' = now /\ orderly' = orderly
      /\ published' = published /\ withdrawn' = withdrawn
  BY DEF tables, world, WorldStep
<1>2. /\ CallsOK' /\ pc'[s] = stage /\ call'[s] = c
      /\ \A t \in Sessions \ {s} : pc'[t] = pc[t] /\ call'[t] = call[t]
  BY GotoType DEF MasterInv
<1>3. now \in Nat
  BY StampsAreNaturals DEF MasterInv, TypeOK
<1>4. InHand(pc[s], call[s])'
  BY <1>1, <1>2 DEF InHand, ServedSince, BothServedSince
<1>5. HandsOK' /\ \A t \in Sessions : pc'[t] # "idle" => call'[t].now <= now'
  BY <1>1, <1>2, <1>3, <1>4, OneMoves
<1>6. TypeOK' /\ ALatestExists' /\ StampsArePast'
  BY <1>1, <1>2, <1>5 DEF MasterInv, TypeOK, ALatestExists, StampsArePast
<1> QED
  BY <1>1, <1>5, <1>6, ChecksStay, AnswerStays DEF MasterInv

(* The end of a call that answers nothing.                                 *)
LEMMA EndStep ==
  ASSUME MasterInv, NEW s \in Sessions, End(s),
         UNCHANGED <<answer, now, world, tables, orderly>>
  PROVE  MasterInv'
<1>1. /\ UNCHANGED world /\ UNCHANGED tables /\ WorldStep
      /\ snapshots' = snapshots /\ checked' = checked
      /\ answer' = answer /\ now' = now /\ orderly' = orderly
      /\ published' = published /\ withdrawn' = withdrawn
  BY DEF tables, world, WorldStep
<1>2. /\ CallsOK' /\ pc'[s] = "idle"
      /\ \A t \in Sessions \ {s} : pc'[t] = pc[t] /\ call'[t] = call[t]
  BY EndType DEF MasterInv
<1>3. now \in Nat
  BY StampsAreNaturals DEF MasterInv, TypeOK
<1>4. HandsOK' /\ \A t \in Sessions : pc'[t] # "idle" => call'[t].now <= now'
  BY <1>1, <1>2, <1>3, OneMoves
<1>5. TypeOK' /\ ALatestExists' /\ StampsArePast'
  BY <1>1, <1>2, <1>4 DEF MasterInv, TypeOK, ALatestExists, StampsArePast
<1> QED
  BY <1>1, <1>4, <1>5, ChecksStay, AnswerStays DEF MasterInv

-----------------------------------------------------------------------------
(* One lemma per step. *)

(* What is known of a call that is under way.                              *)
LEMMA Busy ==
  ASSUME MasterInv, NEW s \in Sessions, pc[s] # "idle"
  PROVE  /\ call[s] \in Call /\ Len(call[s].received) <= 2
         /\ Len(call[s].received) \in Nat /\ call[s].attempts \in Nat
         /\ call[s].attempts < MaxAttempts
         /\ call[s].now \in Stamps /\ call[s].now <= now
         /\ InHand(pc[s], call[s])
  BY BusyTypes, CallTypes DEF MasterInv, StampsArePast, HandsOK

LEMMA PublishStep ==
  ASSUME MasterInv, NEW m \in Masters, Publish(m)
  PROVE  MasterInv'
<1>1. /\ UNCHANGED tables /\ WorldStep /\ snapshots' = snapshots
      /\ checked' = checked /\ answer' = answer /\ now' = now
      /\ pc' = pc /\ call' = call
  BY DEF Publish, tables, WorldStep
<1>2. now \in Stamps /\ now \in Nat /\ now # Absent /\ published \in Masters
  BY StampsAreNaturals DEF MasterInv, TypeOK
<1>3. CallsOK'
  BY <1>1 DEF MasterInv, TypeOK, CallsOK
<1>4. ASSUME NEW s \in Sessions, pc[s] # "idle"
      PROVE  InHand(pc[s], call[s])'
  <2>1. /\ pc[s] \in Stages /\ call[s] \in Call /\ Len(call[s].received) <= 2
        /\ call[s].now <= now /\ InHand(pc[s], call[s])
    BY <1>4, Busy, BusyTypes DEF MasterInv
  <2>2. \A u \in Stages, d \in Call : u = pc[s] /\ d = call[s] => InHand(u, d)'
    BY <1>1, <2>1, HandsStay
  <2>3. \A u \in Stages, d \in Call : u = pc'[s] /\ d = call'[s] => InHand(u, d)'
    BY <1>1, <2>2
  <2> QED
    BY <1>1, <2>1, <2>3 DEF InHand, ServedSince, BothServedSince
<1>5. TypeOK' /\ ALatestExists'
  BY <1>1, <1>2, <1>3 DEF MasterInv, TypeOK, ALatestExists, Publish
<1>6. StampsArePast'
  BY <1>1, <1>2 DEF MasterInv, TypeOK, StampsArePast, Publish
<1>7. HandsOK'
  BY <1>1, <1>4 DEF HandsOK
<1> QED
  BY <1>1, <1>5, <1>6, <1>7, ChecksStay, AnswerStays DEF MasterInv

LEMMA LatestType ==
  ASSUME MasterInv
  PROVE  /\ Latest \in snapshots \cup {Absent}
         /\ snapshots # {} => Latest \in snapshots
  BY DEF MasterInv, ALatestExists, Latest

LEMMA BeginStep ==
  ASSUME MasterInv, NEW s \in Sessions, NEW force \in BOOLEAN, Begin(s, force)
  PROVE  MasterInv'
<1> DEFINE c == [ now |-> now', force |-> force, latest |-> Latest,
                  received |-> << >>, attempts |-> 0, result |-> Absent ]
<1>1. /\ UNCHANGED world /\ UNCHANGED tables /\ WorldStep
      /\ snapshots' = snapshots /\ checked' = checked /\ answer' = answer
      /\ published' = published /\ withdrawn' = withdrawn
      /\ orderly' \in BOOLEAN
  BY DEF Begin, tables, world, WorldStep, MasterInv, TypeOK
<1>2. /\ now \in Nat /\ now' = now + 1 /\ now' \in Stamps /\ now' \in Nat
      /\ now <= now'
  BY BoundsAssumption, StampsAreNaturals
  DEF Begin, TakeStamp, MasterInv, TypeOK, Stamps
<1>3. Latest \in Snapshot \cup {Absent} /\ Latest \in snapshots \cup {Absent}
  BY LatestType DEF MasterInv, TypeOK
<1>4. /\ c \in Call /\ Len(c.received) <= 2 /\ c.attempts < MaxAttempts
      /\ c.now = now' /\ c.received = << >> /\ c.latest = Latest
  BY <1>2, <1>3, BoundsAssumption DEF Call
<1>5. Goto(s, "age", c)
  BY DEF Begin
<1> HIDE DEF c
<1>6. /\ CallsOK' /\ pc'[s] = "age" /\ call'[s] = c
      /\ \A t \in Sessions \ {s} : pc'[t] = pc[t] /\ call'[t] = call[t]
  <2>1. "age" \in Stages \ {"idle"}
    BY DEF Stages
  <2> QED
    BY <1>4, <1>5, <2>1, GotoType DEF MasterInv
<1>7. InHand(pc[s], call[s])'
  BY <1>1, <1>3, <1>4, <1>6 DEF InHand
<1>8. HandsOK' /\ \A t \in Sessions : pc'[t] # "idle" => call'[t].now <= now'
  BY <1>1, <1>2, <1>4, <1>6, <1>7, OneMoves
<1>9. TypeOK' /\ ALatestExists'
  BY <1>1, <1>2, <1>6 DEF MasterInv, TypeOK, ALatestExists
<1>10. StampsArePast'
  <2>1. \A m \in Masters : withdrawn[m] # Absent => withdrawn[m] \in Nat
    BY StampsAreNaturals DEF MasterInv, TypeOK
  <2>2. \A r \in snapshots : r.downloaded_at \in Nat
    BY SnapshotTypes DEF MasterInv, TypeOK
  <2>3. checked # Absent => checked.last_checked_at \in Nat
    BY CheckTypes DEF MasterInv, TypeOK
  <2>4. answer # Absent => answer.since \in Nat
    BY AnswerTypes DEF MasterInv, TypeOK
  <2> QED
    BY <1>1, <1>2, <1>8, <2>1, <2>2, <2>3, <2>4 DEF MasterInv, StampsArePast
<1> QED
  BY <1>1, <1>8, <1>9, <1>10, ChecksStay, AnswerStays DEF MasterInv

(* An answer ends the call, and is backed by what the call has in hand.    *)
LEMMA AnswerStep ==
  ASSUME MasterInv, NEW s \in Sessions, UNCHANGED <<now, world, orderly>>,
         snapshots' = snapshots, NEW a \in Answer, answer' = a, End(s),
         checked' \in Check \cup {Absent},
         checked' # Absent => checked'.last_checked_at <= now,
         a.since <= now, ChecksAreBacked', AnswersAreBacked'
  PROVE  MasterInv'
<1>1. /\ WorldStep /\ snapshots' = snapshots /\ now' = now
      /\ published' = published /\ withdrawn' = withdrawn /\ orderly' = orderly
  BY DEF world, WorldStep
<1>2. /\ CallsOK' /\ pc'[s] = "idle"
      /\ \A t \in Sessions \ {s} : pc'[t] = pc[t] /\ call'[t] = call[t]
  BY EndType DEF MasterInv
<1>3. now \in Nat
  BY StampsAreNaturals DEF MasterInv, TypeOK
<1>4. HandsOK' /\ \A t \in Sessions : pc'[t] # "idle" => call'[t].now <= now'
  BY <1>1, <1>2, <1>3, OneMoves
<1>5. TypeOK' /\ ALatestExists' /\ StampsArePast'
  BY <1>1, <1>2, <1>4 DEF MasterInv, TypeOK, ALatestExists, StampsArePast
<1> QED
  BY <1>4, <1>5 DEF MasterInv

LEMMA AnswerFreshStep ==
  ASSUME MasterInv, NEW s \in Sessions, AnswerFresh(s)
  PROVE  MasterInv'
<1> DEFINE a == [ snapshot |-> call[s].latest,
                  since |-> checked.last_checked_at,
                  reason |-> "fresh_snapshot" ]
<1>1. /\ pc[s] = "age" /\ pc[s] # "idle" /\ call[s].latest # Absent
      /\ checked # Absent /\ answer' = a /\ End(s)
      /\ UNCHANGED <<now, world, orderly>> /\ UNCHANGED world
      /\ UNCHANGED tables /\ snapshots' = snapshots /\ checked' = checked
  BY DEF AnswerFresh, AnswerWith, Fresh, tables
<1>2. call[s].latest \in snapshots
  BY <1>1, Busy DEF InHand
<1>3. /\ checked \in Check /\ checked.last_checked_at \in Stamps
      /\ checked.last_checked_at <= now
  BY <1>1, CheckTypes DEF MasterInv, TypeOK, StampsArePast
<1>4. a \in Answer /\ a.since <= now
  BY <1>2, <1>3 DEF Answer, MasterInv, TypeOK
<1>5. ChecksAreBacked'
  BY <1>1, ChecksStay DEF WorldStep
<1>6. AnswersAreBacked'
  BY <1>1, <1>2 DEF AnswersAreBacked
<1> QED
  BY <1>1, <1>3, <1>4, <1>5, <1>6, AnswerStep

LEMMA GoOnlineStep ==
  ASSUME MasterInv, NEW s \in Sessions, GoOnline(s)
  PROVE  MasterInv'
<1> DEFINE c == [call[s] EXCEPT !.force = TRUE, !.latest = Absent]
<1>1. pc[s] = "age" /\ pc[s] # "idle"
  BY DEF GoOnline
<1>2. call[s] \in Call /\ call[s].received = << >>
  BY <1>1, Busy DEF InHand
<1>3. /\ c \in Call /\ c.received = << >> /\ c.attempts = call[s].attempts
      /\ c.now = call[s].now
  BY <1>2 DEF Call
<1>4. /\ Goto(s, "download", c)
      /\ UNCHANGED <<answer, now, world, tables, orderly>>
  BY DEF GoOnline
<1> HIDE DEF c
<1>5. /\ InHand("download", c) /\ Len(c.received) <= 2
      /\ c.attempts < MaxAttempts /\ c.now <= now
  BY <1>1, <1>3, Busy DEF InHand
<1>6. "download" \in Stages \ {"idle"}
  BY DEF Stages
<1> QED
  BY <1>3, <1>4, <1>5, <1>6, GotoStep

(* A connection that leaves the master unfinished.                         *)
LEMMA TryAgainStep ==
  ASSUME MasterInv, NEW s \in Sessions, pc[s] = "download",
         NEW received \in Seq(Masters), Len(received) <= 2,
         \A i \in 1..Len(received) : ServedSince(received[i], call[s].now),
         TryAgain(s, received),
         UNCHANGED <<answer, now, world, tables, orderly>>
  PROVE  MasterInv'
<1> DEFINE c == [call[s] EXCEPT !.attempts = @ + 1, !.received = received]
<1>1. /\ call[s] \in Call /\ call[s].now <= now /\ call[s].attempts \in Nat
  BY Busy
<1>2. CASE call[s].attempts + 1 < MaxAttempts
  <2>1. Goto(s, "download", c)
    BY <1>2 DEF TryAgain
  <2>2. /\ c \in Call /\ c.received = received /\ c.now = call[s].now
        /\ c.attempts < MaxAttempts
    <3>1. /\ call[s].attempts + 1 \in Nat
          /\ c.attempts = call[s].attempts + 1
          /\ c.received = received /\ c.now = call[s].now
      BY <1>1 DEF Call
    <3> QED
      BY <1>1, <1>2, <3>1 DEF Call
  <2> HIDE DEF c
  <2>3. InHand("download", c)
    BY <2>2 DEF InHand
  <2>4. "download" \in Stages \ {"idle"}
    BY DEF Stages
  <2> QED
    BY <1>1, <2>1, <2>2, <2>3, <2>4, GotoStep
<1>3. CASE ~(call[s].attempts + 1 < MaxAttempts)
  BY <1>3, EndStep DEF TryAgain
<1> QED
  BY <1>2, <1>3

LEMMA FailToConnectStep ==
  ASSUME MasterInv, NEW s \in Sessions, FailToConnect(s)
  PROVE  MasterInv'
<1>1. /\ pc[s] = "download" /\ pc[s] # "idle" /\ TryAgain(s, call[s].received)
      /\ UNCHANGED <<answer, now, world, tables, orderly>>
  BY DEF FailToConnect
<1>2. /\ call[s].received \in Seq(Masters) /\ Len(call[s].received) <= 2
      /\ \A i \in 1..Len(call[s].received) :
           ServedSince(call[s].received[i], call[s].now)
  BY <1>1, Busy, CallTypes DEF InHand
<1> QED
  BY <1>1, <1>2, TryAgainStep

(* A master that was read to its end.                                      *)
LEMMA DecodeStep ==
  ASSUME MasterInv, NEW s \in Sessions, pc[s] = "download",
         NEW received \in Seq(Masters), Len(received) <= 2,
         \A i \in 1..Len(received) : ServedSince(received[i], call[s].now),
         Decode(s, received),
         UNCHANGED <<answer, now, world, tables, orderly>>
  PROVE  MasterInv'
<1> DEFINE result == [ content |-> <<received[1], received[2]>>,
                       downloaded_at |-> call[s].now ]
           c == [ call[s] EXCEPT !.received = << >>, !.attempts = 0,
                                 !.result = result ]
<1>1. /\ call[s] \in Call /\ call[s].now <= now /\ call[s].now \in Stamps
  BY Busy
<1>2. CASE Len(received) = 2 /\ Goto(s, "find", c)
  <2>1. received[1] \in Masters /\ received[2] \in Masters
    BY <1>2
  <2>2. /\ result \in Snapshot /\ result.downloaded_at = call[s].now
        /\ result.content = <<received[1], received[2]>>
    BY <1>1, <2>1 DEF Snapshot, Content
  <2>3. BothServedSince(result.content, call[s].now)
    <3>1. /\ ServedSince(received[1], call[s].now)
          /\ ServedSince(received[2], call[s].now)
      BY <1>2
    <3>2. result.content[1] = received[1] /\ result.content[2] = received[2]
      BY <2>2
    <3> QED
      BY <3>1, <3>2 DEF BothServedSince
  <2> HIDE DEF result
  <2>4. /\ c \in Call /\ c.received = << >> /\ c.attempts = 0
        /\ c.result = result /\ c.now = call[s].now
    <3>1. /\ c.received = << >> /\ c.attempts = 0
          /\ c.result = result /\ c.now = call[s].now
      BY <1>1 DEF Call
    <3>2. << >> \in Seq(Masters) /\ 0 \in Nat
      OBVIOUS
    <3> QED
      BY <1>1, <2>2, <3>1, <3>2 DEF Call
  <2> HIDE DEF c
  <2>5. InHand("find", c) /\ Len(c.received) <= 2
    BY <2>2, <2>3, <2>4 DEF InHand
  <2>6. "find" \in Stages \ {"idle"} /\ c.attempts < MaxAttempts
    BY <2>4, BoundsAssumption DEF Stages
  <2> QED
    BY <1>1, <1>2, <2>4, <2>5, <2>6, GotoStep
<1>3. CASE End(s)
  BY <1>3, EndStep
<1> QED
  BY <1>2, <1>3 DEF Decode

LEMMA ReceiveStep ==
  ASSUME MasterInv, NEW s \in Sessions, NEW halves \in 0..2,
         NEW finished \in BOOLEAN,
         Receive(s, halves, finished)
  PROVE  MasterInv'
<1> DEFINE more == [i \in 1..halves |-> published]
           received == call[s].received \o more
<1>1. /\ pc[s] = "download" /\ pc[s] # "idle" /\ Len(received) <= 2
      /\ TryAgain(s, received) \/ Decode(s, received)
      /\ UNCHANGED <<answer, now, world, tables, orderly>>
  BY DEF Receive
<1>2. /\ call[s].received \in Seq(Masters)
      /\ \A i \in 1..Len(call[s].received) :
           ServedSince(call[s].received[i], call[s].now)
  BY <1>1, Busy, CallTypes DEF InHand
<1>3. /\ more \in Seq(Masters) /\ Len(more) = halves
      /\ \A i \in 1..Len(more) : more[i] = published
  BY DEF MasterInv, TypeOK
<1> HIDE DEF more
<1>4. /\ received \in Seq(Masters)
      /\ \A i \in 1..Len(received) :
           ServedSince(received[i], call[s].now)
  BY <1>2, <1>3 DEF ServedSince
<1> HIDE DEF received
<1> QED
  BY <1>1, <1>4, TryAgainStep, DecodeStep

LEMMA FindStep ==
  ASSUME MasterInv, NEW s \in Sessions, Find(s)
  PROVE  MasterInv'
<1>1. /\ pc[s] = "find" /\ pc[s] # "idle"
      /\ UNCHANGED <<answer, now, world, tables, orderly>>
  BY DEF Find
<1>2. /\ call[s] \in Call /\ Len(call[s].received) <= 2
      /\ call[s].attempts < MaxAttempts /\ call[s].now <= now
      /\ InHand("find", call[s])
  BY <1>1, Busy
<1>3. ASSUME NEW r \in WithContent(call[s].result.content),
             Goto(s, "confirm", [call[s] EXCEPT !.result = r])
      PROVE  MasterInv'
  <2> DEFINE c == [call[s] EXCEPT !.result = r]
  <2>1. /\ r \in snapshots /\ r \in Snapshot
        /\ r.content = call[s].result.content
    BY DEF WithContent, MasterInv, TypeOK
  <2>2. /\ c \in Call /\ c.result = r /\ c.now = call[s].now
        /\ c.received = call[s].received /\ c.attempts = call[s].attempts
    BY <1>2, <2>1 DEF Call
  <2>3. Goto(s, "confirm", c)
    BY <1>3
  <2> HIDE DEF c
  <2>4. InHand("confirm", c)
    BY <1>2, <2>1, <2>2 DEF InHand
  <2>5. "confirm" \in Stages \ {"idle"}
    BY DEF Stages
  <2> QED
    BY <1>1, <1>2, <2>2, <2>3, <2>4, <2>5, GotoStep
<1>4. CASE Goto(s, "lookup", call[s])
  <2>1. InHand("lookup", call[s])
    BY <1>2 DEF InHand
  <2>2. "lookup" \in Stages \ {"idle"}
    BY DEF Stages
  <2> QED
    BY <1>1, <1>2, <1>4, <2>1, <2>2, GotoStep
<1> QED
  BY <1>3, <1>4 DEF Find

LEMMA LookupStep ==
  ASSUME MasterInv, NEW s \in Sessions, Lookup(s)
  PROVE  MasterInv'
<1>1. /\ pc[s] = "lookup" /\ pc[s] # "idle"
      /\ UNCHANGED <<answer, now, world, tables, orderly>>
  BY DEF Lookup
<1>2. /\ call[s] \in Call /\ Len(call[s].received) <= 2
      /\ call[s].attempts < MaxAttempts /\ call[s].now <= now
      /\ InHand("lookup", call[s])
  BY <1>1, Busy
<1>3. "record" \in Stages \ {"idle"} /\ "insert" \in Stages \ {"idle"}
  BY DEF Stages
<1>4. CASE \E r \in snapshots : IdOf(r) = IdOf(call[s].result)
  <2>1. InHand("record", call[s]) /\ Goto(s, "record", call[s])
    BY <1>2, <1>4 DEF InHand, Lookup
  <2> QED
    BY <1>1, <1>2, <1>3, <2>1, GotoStep
<1>5. CASE ~\E r \in snapshots : IdOf(r) = IdOf(call[s].result)
  <2>1. InHand("insert", call[s]) /\ Goto(s, "insert", call[s])
    BY <1>2, <1>5 DEF InHand, Lookup
  <2> QED
    BY <1>1, <1>2, <1>3, <2>1, GotoStep
<1> QED
  BY <1>4, <1>5

LEMMA InsertStep ==
  ASSUME MasterInv, NEW s \in Sessions, Insert(s)
  PROVE  MasterInv'
<1>1. /\ pc[s] = "insert" /\ pc[s] # "idle"
      /\ UNCHANGED <<answer, now, world, checked, orderly>>
      /\ UNCHANGED world /\ WorldStep /\ answer' = answer /\ now' = now
      /\ checked' = checked /\ orderly' = orderly
      /\ published' = published /\ withdrawn' = withdrawn
  BY DEF Insert, world, WorldStep
<1>2. /\ call[s] \in Call /\ Len(call[s].received) <= 2
      /\ call[s].attempts < MaxAttempts /\ call[s].now <= now
      /\ call[s].now \in Nat /\ InHand("insert", call[s])
  BY <1>1, Busy, CallTypes
<1>3. CASE WithContent(call[s].result.content) = {}
  <2> DEFINE new == call[s].result
  <2>1. /\ new \in Snapshot /\ new.downloaded_at = call[s].now
        /\ BothServedSince(new.content, new.downloaded_at)
    BY <1>2 DEF InHand
  <2>2. snapshots' = snapshots \cup {new} /\ Goto(s, "record", call[s])
    BY <1>3 DEF Insert
  <2>3. "record" \in Stages \ {"idle"}
    BY DEF Stages
  <2>4. /\ CallsOK' /\ pc'[s] = "record" /\ call'[s] = call[s]
        /\ \A t \in Sessions \ {s} : pc'[t] = pc[t] /\ call'[t] = call[t]
    BY <1>2, <2>2, <2>3, GotoType DEF MasterInv
  <2>5. InHand(pc[s], call[s])'
    BY <1>1, <1>2, <2>1, <2>2, <2>4 DEF InHand, ServedSince, BothServedSince
  <2>6. now \in Nat
    BY StampsAreNaturals DEF MasterInv, TypeOK
  <2>7. HandsOK' /\ \A t \in Sessions : pc'[t] # "idle" => call'[t].now <= now'
    BY <1>1, <1>2, <2>2, <2>4, <2>5, <2>6, OneMoves
  <2>8. TypeOK' /\ StampsArePast'
    BY <1>1, <1>2, <2>1, <2>2, <2>4, <2>7 DEF MasterInv, TypeOK, StampsArePast
  <2>9. ALatestExists'
    <3>1. /\ new.downloaded_at \in Nat
          /\ \A q \in snapshots : q.downloaded_at \in Nat
      BY <1>2, <2>1, SnapshotTypes DEF MasterInv, TypeOK
    <3>2. CASE snapshots = {}
      BY <2>2, <3>1, <3>2 DEF ALatestExists
    <3>3. CASE snapshots # {}
      <4>1. PICK r \in snapshots :
              \A q \in snapshots : q.downloaded_at <= r.downloaded_at
        BY <3>3 DEF MasterInv, ALatestExists
      <4>2. CASE new.downloaded_at <= r.downloaded_at
        BY <2>2, <4>1, <4>2 DEF ALatestExists
      <4>3. CASE r.downloaded_at <= new.downloaded_at
        <5>1. \A q \in snapshots : q.downloaded_at <= new.downloaded_at
          BY <3>1, <4>1, <4>3
        <5> QED
          BY <2>2, <3>1, <5>1 DEF ALatestExists
      <4> QED
        BY <3>1, <4>1, <4>2, <4>3
    <3> QED
      BY <3>2, <3>3
  <2>10. ChecksAreBacked'
    <3>1. \A r, q \in snapshots' : r.content = q.content => r = q
      BY <1>3, <2>2 DEF MasterInv, ChecksAreBacked, WithContent
    <3>2. \A r \in snapshots' : BothServedSince(r.content, r.downloaded_at)'
      BY <1>1, <2>1, <2>2
      DEF MasterInv, ChecksAreBacked, BothServedSince, ServedSince
    <3>3. checked' # Absent =>
            /\ \E r \in snapshots' : IdOf(r) = checked'.snapshot_id
            /\ BothServedSince(checked.snapshot_id.content,
                               checked.last_checked_at)'
      BY <1>1, <2>2
      DEF MasterInv, ChecksAreBacked, BothServedSince, ServedSince
    <3> QED
      BY <3>1, <3>2, <3>3 DEF ChecksAreBacked
  <2> QED
    BY <1>1, <2>2, <2>7, <2>8, <2>9, <2>10, AnswerStays DEF MasterInv
<1>4. CASE WithContent(call[s].result.content) # {}
  <2>1. End(s) /\ UNCHANGED <<answer, now, world, tables, orderly>>
    BY <1>1, <1>4 DEF Insert, tables
  <2> QED
    BY <2>1, EndStep
<1> QED
  BY <1>3, <1>4

LEMMA RecordCheckStep ==
  ASSUME MasterInv, NEW s \in Sessions, RecordCheck(s)
  PROVE  MasterInv'
<1> DEFINE a == [ snapshot |-> call[s].result, since |-> call[s].now,
                  reason |-> IF pc[s] = "confirm" THEN "unchanged_content"
                             ELSE "downloaded_new_snapshot" ]
           k == [ snapshot_id |-> IdOf(call[s].result),
                  last_checked_at |-> call[s].now ]
<1>1. /\ pc[s] \in {"confirm", "record"} /\ pc[s] # "idle"
      /\ checked' = k /\ answer' = a /\ End(s)
      /\ UNCHANGED <<now, world, orderly>> /\ snapshots' = snapshots
      /\ published' = published /\ withdrawn' = withdrawn
  BY DEF RecordCheck, AnswerWith, world
<1>2. /\ call[s] \in Call /\ call[s].now <= now /\ call[s].now \in Stamps
      /\ call[s].result \in Snapshot
      /\ BothServedSince(call[s].result.content, call[s].now)
      /\ \E r \in snapshots : IdOf(r) = IdOf(call[s].result)
  BY <1>1, Busy DEF InHand
<1>3. IdOf(call[s].result) \in SnapshotId
  BY <1>2, SnapshotTypes
<1>4. IdOf(call[s].result).content = call[s].result.content
  BY <1>2, SnapshotTypes
<1>5. k \in Check /\ a \in Answer
  BY <1>2, <1>3 DEF Check, Answer
<1>6. ChecksAreBacked'
  BY <1>1, <1>2, <1>4
  DEF MasterInv, ChecksAreBacked, BothServedSince, ServedSince
<1>7. AnswersAreBacked'
  BY <1>1, <1>2 DEF AnswersAreBacked, BothServedSince, ServedSince
<1>8. k.last_checked_at = call[s].now /\ a.since = call[s].now
  OBVIOUS
<1> HIDE DEF k, a
<1> QED
  BY <1>1, <1>2, <1>5, <1>6, <1>7, <1>8, AnswerStep

LEMMA AbandonStep ==
  ASSUME MasterInv, NEW s \in Sessions, Abandon(s)
  PROVE  MasterInv'
  BY EndStep DEF Abandon

LEMMA IgnoreRangeStep ==
  ASSUME MasterInv, NEW s \in Sessions, IgnoreRange(s)
  PROVE  MasterInv'
  BY EndStep DEF IgnoreRange

LEMMA MasterInit ==
  ASSUME Init
  PROVE  MasterInv
<1>1. 0 \in Stamps
  BY BoundsAssumption DEF Stamps
<1>2. TypeOK
  BY <1>1 DEF Init, TypeOK, CallsOK, Stages
<1> QED
  BY <1>2
  DEF Init, MasterInv, ALatestExists, StampsArePast, HandsOK, ChecksAreBacked,
      AnswersAreBacked

LEMMA MasterStep ==
  ASSUME MasterInv, [Next]_master
  PROVE  MasterInv'
<1>1. ASSUME NEW m \in Masters, Publish(m)
      PROVE  MasterInv'
  BY <1>1, PublishStep
<1>2. ASSUME NEW s \in Sessions, Sync(s)
      PROVE  MasterInv'
  <2>1. ASSUME NEW force \in BOOLEAN, Begin(s, force)
        PROVE  MasterInv'
    BY <2>1, BeginStep
  <2>2. CASE AnswerFresh(s)
    BY <2>2, AnswerFreshStep
  <2>3. CASE GoOnline(s)
    BY <2>3, GoOnlineStep
  <2>4. CASE FailToConnect(s)
    BY <2>4, FailToConnectStep
  <2>5. CASE IgnoreRange(s)
    BY <2>5, IgnoreRangeStep
  <2>6. ASSUME NEW halves \in 0..2, NEW finished \in BOOLEAN,
               Receive(s, halves, finished)
        PROVE  MasterInv'
    BY <2>6, ReceiveStep
  <2>7. CASE Find(s)
    BY <2>7, FindStep
  <2>8. CASE Lookup(s)
    BY <2>8, LookupStep
  <2>9. CASE Insert(s)
    BY <2>9, InsertStep
  <2>10. CASE RecordCheck(s)
    BY <2>10, RecordCheckStep
  <2>11. CASE Abandon(s)
    BY <2>11, AbandonStep
  <2> QED
    BY <1>2, <2>1, <2>2, <2>3, <2>4, <2>5, <2>6, <2>7, <2>8, <2>9, <2>10, <2>11
    DEF Sync
<1>3. CASE UNCHANGED master
  BY <1>3
  DEF master, world, tables, MasterInv, TypeOK, CallsOK, ALatestExists,
      StampsArePast, HandsOK, InHand, ChecksAreBacked, AnswersAreBacked,
      ServedSince, BothServedSince
<1> QED
  BY <1>1, <1>2, <1>3 DEF Next

(* The claims of the local tables hold for any number of sessions, masters *)
(* and connections, under every interleaving: what is retained was served  *)
(* at or after its download time, once, and so was what the recorded check *)
(* names.                                                                  *)
THEOREM TablesNeverClaimMore == Spec => []ChecksAreBacked
<1>1. Init => MasterInv
  BY MasterInit
<1>2. MasterInv /\ [Next]_master => MasterInv'
  BY MasterStep
<1>3. MasterInv => ChecksAreBacked
  BY DEF MasterInv
<1> QED
  BY <1>1, <1>2, <1>3, PTL DEF Spec

(* Whoever asked, the answer names a retained snapshot, and one that was   *)
(* downloaded or checked was served since the call began.                  *)
THEOREM AnswersStandOnTables == Spec => []AnswersAreBacked
<1>1. Init => MasterInv
  BY MasterInit
<1>2. MasterInv /\ [Next]_master => MasterInv'
  BY MasterStep
<1>3. MasterInv => AnswersAreBacked
  BY DEF MasterInv
<1> QED
  BY <1>1, <1>2, <1>3, PTL DEF Spec

-----------------------------------------------------------------------------
(* Orderly behaviours: no two syncs overlap and no master comes back. *)

(* No master is published again, and the one published was never withdrawn. *)
NoneReturned == withdrawn[published] = Absent

(* A half of a retained snapshot that differs from what the source served  *)
(* later was withdrawn before.                                             *)
Superseded(r, i, m) == r.content[i] # m => withdrawn[r.content[i]] # Absent

InSuccession ==
  \A r, q \in snapshots :
    r.downloaded_at <= q.downloaded_at =>
      \/ r = q
      \/ /\ r.downloaded_at < q.downloaded_at
         /\ \A i \in 1..2 : r.content[i] # q.content[i] =>
              /\ withdrawn[r.content[i]] # Absent
              /\ withdrawn[r.content[i]] <= q.downloaded_at

(* What the only call has in hand at each stage.                           *)
InTurn(stage, c) ==
  /\ c.now = now
  /\ stage = "age" => c.latest = Latest
  /\ stage # "record" => \A r \in snapshots : r.downloaded_at < now
  /\ \A r \in snapshots, i \in 1..2 :
       /\ stage = "download" /\ i <= Len(c.received) =>
            Superseded(r, i, c.received[i])
       /\ stage \in {"find", "lookup", "insert"} =>
            Superseded(r, i, c.result.content[i])
  /\ stage \in {"lookup", "insert"} => WithContent(c.result.content) = {}
  /\ stage \in {"confirm", "record"} => c.result \in snapshots
  /\ stage = "record" => c.result.downloaded_at = now

OneAtATime ==
  \A s \in Sessions : pc[s] # "idle" =>
    /\ InTurn(pc[s], call[s])
    /\ \A t \in Sessions : pc[t] # "idle" => t = s

(* The latest snapshot was served at or after the last recorded check.     *)
LatestIsServed ==
  checked # Absent => BothServedSince(Latest.content, checked.last_checked_at)

Orderly == NoneReturned /\ InSuccession /\ OneAtATime /\ LatestIsServed

FreshAnswersAreServed ==
  answer # Absent /\ answer.reason = "fresh_snapshot" =>
    BothServedSince(answer.snapshot.content, answer.since)

OrderlyInv == orderly => Orderly /\ FreshAnswersAreServed

LEMMA RetainedHalves ==
  ASSUME MasterInv, NEW r \in snapshots, NEW i \in 1..2
  PROVE  /\ r.content[i] \in Masters
         /\ r.content[i] = published \/ withdrawn[r.content[i]] # Absent
<1>1. /\ r.content[1] \in Masters /\ r.content[2] \in Masters
      /\ BothServedSince(r.content, r.downloaded_at)
  BY SnapshotTypes DEF MasterInv, TypeOK, ChecksAreBacked
<1>2. CASE i = 1
  BY <1>1, <1>2 DEF BothServedSince, ServedSince
<1>3. CASE i = 2
  BY <1>1, <1>3 DEF BothServedSince, ServedSince
<1> QED
  BY <1>2, <1>3

(* A master that was withdrawn at a stamp was not served after it.         *)
LEMMA NotServedAfter ==
  ASSUME TypeOK, NoneReturned, NEW m \in Masters, NEW t \in Nat, NEW u \in Nat,
         withdrawn[m] # Absent, withdrawn[m] <= t, t < u
  PROVE  ~ServedSince(m, u)
<1>1. withdrawn[m] \in Nat
  BY StampsAreNaturals DEF TypeOK
<1> QED
  BY <1>1 DEF NoneReturned, ServedSince

LEMMA LatestOfSame ==
  ASSUME snapshots' = snapshots
  PROVE  Latest' = Latest
  BY DEF Latest

(* A sync that moves on, alone.                                            *)
LEMMA SyncMovesOn ==
  ASSUME MasterInv, OrderlyInv, NEW s \in Sessions, pc[s] # "idle",
         NEW stage \in Stages \ {"idle"}, NEW c \in Call,
         orderly => InTurn(stage, c), Goto(s, stage, c),
         UNCHANGED <<answer, now, world, tables, orderly>>
  PROVE  OrderlyInv'
<1> SUFFICES ASSUME orderly'
             PROVE  Orderly' /\ FreshAnswersAreServed'
  BY DEF OrderlyInv
<1>1. /\ orderly /\ answer' = answer /\ now' = now
      /\ snapshots' = snapshots /\ checked' = checked
      /\ published' = published /\ withdrawn' = withdrawn
  BY DEF tables, world
<1>2. Orderly /\ FreshAnswersAreServed /\ InTurn(stage, c)
  BY <1>1 DEF OrderlyInv
<1>3. /\ pc'[s] = stage /\ call'[s] = c
      /\ \A t \in Sessions : pc'[t] # "idle" => t = s
  BY <1>2 DEF Goto, MasterInv, TypeOK, CallsOK, Orderly, OneAtATime
<1>4. InTurn(pc[s], call[s])'
  BY <1>1, <1>2, <1>3, LatestOfSame DEF InTurn, Superseded, WithContent
<1>5. OneAtATime'
  BY <1>3, <1>4 DEF OneAtATime
<1>6. NoneReturned' /\ InSuccession' /\ LatestIsServed' /\ FreshAnswersAreServed'
  BY <1>1, <1>2, LatestOfSame
  DEF Orderly, NoneReturned, InSuccession, LatestIsServed,
      FreshAnswersAreServed, BothServedSince, ServedSince
<1> QED
  BY <1>5, <1>6 DEF Orderly

(* A sync that ends.                                                       *)
LEMMA SyncEnds ==
  ASSUME MasterInv, OrderlyInv, NEW s \in Sessions, pc[s] # "idle", End(s),
         UNCHANGED <<now, world, snapshots, orderly>>,
         orderly => LatestIsServed' /\ FreshAnswersAreServed'
  PROVE  OrderlyInv'
<1> SUFFICES ASSUME orderly'
             PROVE  Orderly' /\ FreshAnswersAreServed'
  BY DEF OrderlyInv
<1>1. /\ orderly /\ published' = published /\ withdrawn' = withdrawn
  BY DEF world
<1>2. Orderly
  BY <1>1 DEF OrderlyInv
<1>3. \A t \in Sessions : pc'[t] = "idle"
  BY <1>2 DEF End, Goto, MasterInv, TypeOK, CallsOK, Orderly, OneAtATime
<1>4. OneAtATime'
  BY <1>3 DEF OneAtATime
<1>5. NoneReturned' /\ InSuccession'
  BY <1>1, <1>2 DEF Orderly, NoneReturned, InSuccession
<1> QED
  BY <1>1, <1>4, <1>5 DEF Orderly

LEMMA SyncIsLost ==
  ASSUME MasterInv, OrderlyInv, NEW s \in Sessions, pc[s] # "idle", End(s),
         UNCHANGED <<answer, now, world, tables, orderly>>
  PROVE  OrderlyInv'
<1>1. /\ answer' = answer /\ now' = now
      /\ snapshots' = snapshots /\ checked' = checked
      /\ published' = published /\ withdrawn' = withdrawn
  BY DEF tables, world
<1>2. orderly => LatestIsServed' /\ FreshAnswersAreServed'
  BY <1>1, LatestOfSame
  DEF OrderlyInv, Orderly, LatestIsServed, FreshAnswersAreServed,
      BothServedSince, ServedSince
<1> QED
  BY <1>1, <1>2, SyncEnds

LEMMA PublishInOrder ==
  ASSUME MasterInv, OrderlyInv, NEW m \in Masters, Publish(m)
  PROVE  OrderlyInv'
<1> SUFFICES ASSUME orderly'
             PROVE  Orderly' /\ FreshAnswersAreServed'
  BY DEF OrderlyInv
<1>1. /\ orderly /\ withdrawn[m] = Absent /\ m # published
      /\ published' = m /\ withdrawn' = [withdrawn EXCEPT ![published] = now]
      /\ WorldStep /\ answer' = answer /\ now' = now /\ pc' = pc /\ call' = call
      /\ snapshots' = snapshots /\ checked' = checked
  BY DEF Publish, tables, WorldStep
<1>2. Orderly /\ FreshAnswersAreServed
  BY <1>1 DEF OrderlyInv
<1>3. \A n \in Masters : withdrawn[n] # Absent => withdrawn'[n] = withdrawn[n]
  BY <1>1, <1>2 DEF Orderly, NoneReturned, MasterInv, TypeOK
<1>4. \A r \in snapshots, i \in 1..2 : r.content[i] \in Masters
  BY RetainedHalves
<1>5. NoneReturned'
  BY <1>1 DEF NoneReturned, MasterInv, TypeOK
<1>6. InSuccession'
  <2> SUFFICES ASSUME NEW r \in snapshots, NEW q \in snapshots,
                      r.downloaded_at <= q.downloaded_at, r # q
               PROVE  /\ r.downloaded_at < q.downloaded_at
                      /\ \A i \in 1..2 : r.content[i] # q.content[i] =>
                           /\ withdrawn'[r.content[i]] # Absent
                           /\ withdrawn'[r.content[i]] <= q.downloaded_at
    BY <1>1 DEF InSuccession
  <2>1. /\ r.downloaded_at < q.downloaded_at
        /\ \A i \in 1..2 : r.content[i] # q.content[i] =>
             /\ withdrawn[r.content[i]] # Absent
             /\ withdrawn[r.content[i]] <= q.downloaded_at
    BY <1>2 DEF Orderly, InSuccession
  <2> QED
    BY <1>3, <1>4, <2>1
<1>7. OneAtATime'
  <2> SUFFICES ASSUME NEW s \in Sessions, pc[s] # "idle"
               PROVE  InTurn(pc[s], call[s])'
    BY <1>1, <1>2 DEF Orderly, OneAtATime
  <2>1. InTurn(pc[s], call[s])
    BY <1>2 DEF Orderly, OneAtATime
  <2>2. \A r \in snapshots, i \in 1..2 :
          withdrawn[r.content[i]] # Absent => withdrawn'[r.content[i]] # Absent
    BY <1>3, <1>4
  <2> QED
    BY <1>1, <2>1, <2>2, LatestOfSame DEF InTurn, Superseded, WithContent
<1>8. LatestIsServed'
  <2> SUFFICES ASSUME checked # Absent
               PROVE  BothServedSince(Latest.content, checked.last_checked_at)'
    BY <1>1 DEF LatestIsServed
  <2>1. /\ checked \in Check /\ checked.last_checked_at \in Stamps
        /\ checked.last_checked_at <= now /\ snapshots # {}
    BY CheckTypes DEF MasterInv, TypeOK, StampsArePast, ChecksAreBacked
  <2>2. Latest \in snapshots /\ Latest.content \in Content
    BY <2>1, LatestType, SnapshotTypes DEF MasterInv, TypeOK
  <2>3. BothServedSince(Latest.content, checked.last_checked_at)
    BY <1>2 DEF Orderly, LatestIsServed
  <2>4. \A c \in Content, t \in Stamps :
          c = Latest.content /\ t = checked.last_checked_at
            => BothServedSince(c, t)'
    BY <1>1, <2>1, <2>2, <2>3, ContentStays DEF MasterInv
  <2> QED
    BY <1>1, <2>1, <2>2, <2>4, LatestOfSame DEF BothServedSince, ServedSince
<1>9. FreshAnswersAreServed'
  <2> SUFFICES ASSUME answer # Absent, answer.reason = "fresh_snapshot"
               PROVE  BothServedSince(answer.snapshot.content, answer.since)'
    BY <1>1 DEF FreshAnswersAreServed
  <2>1. /\ answer.snapshot.content \in Content /\ answer.since \in Stamps
        /\ answer.since <= now
    BY AnswerTypes, SnapshotTypes DEF MasterInv, TypeOK, StampsArePast
  <2>2. BothServedSince(answer.snapshot.content, answer.since)
    BY <1>2 DEF FreshAnswersAreServed
  <2>3. \A c \in Content, t \in Stamps :
          c = answer.snapshot.content /\ t = answer.since => BothServedSince(c, t)'
    BY <1>1, <2>1, <2>2, ContentStays DEF MasterInv
  <2> QED
    BY <1>1, <2>1, <2>3 DEF BothServedSince, ServedSince
<1> QED
  BY <1>5, <1>6, <1>7, <1>8, <1>9 DEF Orderly


LEMMA BeginInOrder ==
  ASSUME MasterInv, OrderlyInv, NEW s \in Sessions, NEW force \in BOOLEAN,
         Begin(s, force)
  PROVE  OrderlyInv'
<1> DEFINE c == [ now |-> now', force |-> force, latest |-> Latest,
                  received |-> << >>, attempts |-> 0, result |-> Absent ]
<1> SUFFICES ASSUME orderly'
             PROVE  Orderly' /\ FreshAnswersAreServed'
  BY DEF OrderlyInv
<1>1. /\ orderly /\ \A t \in Sessions : pc[t] = "idle"
      /\ now' = now + 1 /\ Goto(s, "age", c) /\ answer' = answer
      /\ snapshots' = snapshots /\ checked' = checked
      /\ published' = published /\ withdrawn' = withdrawn
  BY DEF Begin, TakeStamp, tables, world
<1>2. Orderly /\ FreshAnswersAreServed
  BY <1>1 DEF OrderlyInv
<1>3. c.now = now' /\ c.latest = Latest /\ Len(c.received) = 0
  OBVIOUS
<1> HIDE DEF c
<1>4. /\ pc'[s] = "age" /\ call'[s] = c
      /\ \A t \in Sessions : pc'[t] # "idle" => t = s
  BY <1>1 DEF Goto, MasterInv, TypeOK, CallsOK
<1>5. \A r \in snapshots : r.downloaded_at < now'
  <2>1. now \in Nat /\ \A r \in snapshots : r.downloaded_at \in Nat
    BY StampsAreNaturals, SnapshotTypes DEF MasterInv, TypeOK
  <2> QED
    BY <1>1, <2>1 DEF MasterInv, StampsArePast
<1>6. InTurn(pc[s], call[s])'
  BY <1>1, <1>3, <1>4, <1>5, LatestOfSame DEF InTurn
<1>7. OneAtATime'
  BY <1>4, <1>6 DEF OneAtATime
<1>8. NoneReturned' /\ InSuccession' /\ LatestIsServed' /\ FreshAnswersAreServed'
  BY <1>1, <1>2, LatestOfSame
  DEF Orderly, NoneReturned, InSuccession, LatestIsServed,
      FreshAnswersAreServed, BothServedSince, ServedSince
<1> QED
  BY <1>7, <1>8 DEF Orderly

(* What an orderly call has in hand.                                       *)
LEMMA Alone ==
  ASSUME OrderlyInv, orderly, NEW s \in Sessions, pc[s] # "idle"
  PROVE  Orderly /\ InTurn(pc[s], call[s])
  BY DEF OrderlyInv, Orderly, OneAtATime

LEMMA AnswerFreshInOrder ==
  ASSUME MasterInv, OrderlyInv, NEW s \in Sessions, AnswerFresh(s)
  PROVE  OrderlyInv'
<1>1. /\ pc[s] = "age" /\ pc[s] # "idle" /\ checked # Absent /\ End(s)
      /\ answer' = [ snapshot |-> call[s].latest,
                     since |-> checked.last_checked_at,
                     reason |-> "fresh_snapshot" ]
      /\ UNCHANGED <<now, world, snapshots, orderly>>
      /\ snapshots' = snapshots /\ checked' = checked
      /\ published' = published /\ withdrawn' = withdrawn
  BY DEF AnswerFresh, AnswerWith, Fresh, tables, world
<1>2. ASSUME orderly
      PROVE  LatestIsServed' /\ FreshAnswersAreServed'
  <2>1. LatestIsServed /\ call[s].latest = Latest
    BY <1>1, <1>2, Alone DEF InTurn, Orderly
  <2> QED
    BY <1>1, <2>1, LatestOfSame
    DEF LatestIsServed, FreshAnswersAreServed, BothServedSince, ServedSince
<1> QED
  BY <1>1, <1>2, SyncEnds

LEMMA GoOnlineInOrder ==
  ASSUME MasterInv, OrderlyInv, NEW s \in Sessions, GoOnline(s)
  PROVE  OrderlyInv'
<1> DEFINE c == [call[s] EXCEPT !.force = TRUE, !.latest = Absent]
<1>1. /\ pc[s] = "age" /\ pc[s] # "idle" /\ Goto(s, "download", c)
      /\ UNCHANGED <<answer, now, world, tables, orderly>>
  BY DEF GoOnline
<1>2. call[s] \in Call /\ call[s].received = << >>
  BY <1>1, Busy DEF InHand
<1>3. c \in Call /\ c.received = << >> /\ c.now = call[s].now
  BY <1>2 DEF Call
<1> HIDE DEF c
<1>4. orderly => InTurn("download", c)
  BY <1>1, <1>3, Alone DEF InTurn
<1>5. "download" \in Stages \ {"idle"}
  BY DEF Stages
<1> QED
  BY <1>1, <1>3, <1>4, <1>5, SyncMovesOn

(* The halves received so far supersede those of the retained snapshots.   *)
Supersedes(received) ==
  \A r \in snapshots, i \in 1..2 :
    i <= Len(received) => Superseded(r, i, received[i])

LEMMA TryAgainInOrder ==
  ASSUME MasterInv, OrderlyInv, NEW s \in Sessions, pc[s] = "download",
         NEW received \in Seq(Masters), orderly => Supersedes(received),
         TryAgain(s, received),
         UNCHANGED <<answer, now, world, tables, orderly>>
  PROVE  OrderlyInv'
<1> DEFINE c == [call[s] EXCEPT !.attempts = @ + 1, !.received = received]
<1>1. call[s] \in Call /\ call[s].attempts \in Nat
  BY Busy
<1>2. CASE Goto(s, "download", c)
  <2>1. c \in Call /\ c.received = received /\ c.now = call[s].now
    <3>1. /\ call[s].attempts + 1 \in Nat
          /\ c.attempts = call[s].attempts + 1
          /\ c.received = received /\ c.now = call[s].now
      BY <1>1 DEF Call
    <3> QED
      BY <1>1, <3>1 DEF Call
  <2> HIDE DEF c
  <2>2. orderly => InTurn("download", c)
    BY <2>1, Alone DEF InTurn, Supersedes
  <2>3. "download" \in Stages \ {"idle"}
    BY DEF Stages
  <2> QED
    BY <1>2, <2>1, <2>2, <2>3, SyncMovesOn
<1>3. CASE End(s)
  BY <1>3, SyncIsLost
<1> QED
  BY <1>2, <1>3 DEF TryAgain

LEMMA FailToConnectInOrder ==
  ASSUME MasterInv, OrderlyInv, NEW s \in Sessions, FailToConnect(s)
  PROVE  OrderlyInv'
<1>1. /\ pc[s] = "download" /\ pc[s] # "idle" /\ TryAgain(s, call[s].received)
      /\ UNCHANGED <<answer, now, world, tables, orderly>>
  BY DEF FailToConnect
<1>2. call[s].received \in Seq(Masters)
  BY <1>1, Busy, CallTypes
<1>3. orderly => Supersedes(call[s].received)
  BY <1>1, Alone DEF InTurn, Supersedes
<1> QED
  BY <1>1, <1>2, <1>3, TryAgainInOrder

LEMMA DecodeInOrder ==
  ASSUME MasterInv, OrderlyInv, NEW s \in Sessions, pc[s] = "download",
         NEW received \in Seq(Masters), orderly => Supersedes(received),
         Decode(s, received),
         UNCHANGED <<answer, now, world, tables, orderly>>
  PROVE  OrderlyInv'
<1> DEFINE result == [ content |-> <<received[1], received[2]>>,
                       downloaded_at |-> call[s].now ]
           c == [ call[s] EXCEPT !.received = << >>, !.attempts = 0,
                                 !.result = result ]
<1>1. /\ call[s] \in Call /\ call[s].now \in Stamps
  BY Busy
<1>2. CASE Len(received) = 2 /\ Goto(s, "find", c)
  <2>1. received[1] \in Masters /\ received[2] \in Masters
    BY <1>2
  <2>2. /\ result \in Snapshot
        /\ result.content = <<received[1], received[2]>>
    BY <1>1, <2>1 DEF Snapshot, Content
  <2> HIDE DEF result
  <2>3. /\ c \in Call /\ c.received = << >>
        /\ c.result = result /\ c.now = call[s].now
    <3>1. /\ c.received = << >> /\ c.attempts = 0
          /\ c.result = result /\ c.now = call[s].now
      BY <1>1 DEF Call
    <3>2. << >> \in Seq(Masters) /\ 0 \in Nat
      OBVIOUS
    <3> QED
      BY <1>1, <2>2, <3>1, <3>2 DEF Call
  <2> HIDE DEF c
  <2>4. ASSUME orderly
        PROVE  InTurn("find", c)
    <3>1. \A r \in snapshots :
            /\ Superseded(r, 1, received[1])
            /\ Superseded(r, 2, received[2])
      BY <1>2, <2>4 DEF Supersedes
    <3>2. result.content[1] = received[1] /\ result.content[2] = received[2]
      BY <2>2
    <3>3. \A r \in snapshots, i \in 1..2 : Superseded(r, i, c.result.content[i])
      <4> SUFFICES ASSUME NEW r \in snapshots, NEW i \in 1..2
                   PROVE  Superseded(r, i, c.result.content[i])
        OBVIOUS
      <4>1. CASE i = 1
        BY <2>3, <3>1, <3>2, <4>1
      <4>2. CASE i = 2
        BY <2>3, <3>1, <3>2, <4>2
      <4> QED
        BY <4>1, <4>2
    <3> QED
      BY <2>3, <2>4, <3>3, Alone DEF InTurn
  <2>5. "find" \in Stages \ {"idle"}
    BY DEF Stages
  <2> QED
    BY <1>2, <2>3, <2>4, <2>5, SyncMovesOn
<1>3. CASE End(s)
  BY <1>3, SyncIsLost
<1> QED
  BY <1>2, <1>3 DEF Decode

LEMMA ReceiveInOrder ==
  ASSUME MasterInv, OrderlyInv, NEW s \in Sessions, NEW halves \in 0..2,
         NEW finished \in BOOLEAN, Receive(s, halves, finished)
  PROVE  OrderlyInv'
<1> DEFINE more == [i \in 1..halves |-> published]
           received == call[s].received \o more
<1>1. /\ pc[s] = "download" /\ pc[s] # "idle" /\ Len(received) <= 2
      /\ TryAgain(s, received) \/ Decode(s, received)
      /\ UNCHANGED <<answer, now, world, tables, orderly>>
  BY DEF Receive
<1>2. call[s].received \in Seq(Masters)
  BY <1>1, Busy, CallTypes
<1>3. /\ more \in Seq(Masters) /\ Len(more) = halves
      /\ \A i \in 1..Len(more) : more[i] = published
  BY DEF MasterInv, TypeOK
<1> HIDE DEF more
<1>4. /\ received \in Seq(Masters)
      /\ \A i \in 1..Len(received) :
           IF i <= Len(call[s].received)
           THEN received[i] = call[s].received[i] ELSE received[i] = published
  BY <1>2, <1>3
<1> HIDE DEF received
<1>5. ASSUME orderly
      PROVE  Supersedes(received)
  <2> SUFFICES ASSUME NEW r \in snapshots, NEW i \in 1..2, i <= Len(received)
               PROVE  Superseded(r, i, received[i])
    BY DEF Supersedes
  <2>1. i \in 1..Len(received)
    BY <1>4
  <2>2. CASE i <= Len(call[s].received)
    BY <1>1, <1>4, <1>5, <2>1, <2>2, Alone DEF InTurn
  <2>3. CASE ~(i <= Len(call[s].received))
    BY <1>4, <2>1, <2>3, RetainedHalves DEF Superseded
  <2> QED
    BY <2>2, <2>3
<1> QED
  BY <1>1, <1>4, <1>5, TryAgainInOrder, DecodeInOrder

LEMMA FindInOrder ==
  ASSUME MasterInv, OrderlyInv, NEW s \in Sessions, Find(s)
  PROVE  OrderlyInv'
<1>1. /\ pc[s] = "find" /\ pc[s] # "idle"
      /\ UNCHANGED <<answer, now, world, tables, orderly>>
  BY DEF Find
<1>2. call[s] \in Call
  BY <1>1, Busy
<1>3. ASSUME NEW r \in WithContent(call[s].result.content),
             Goto(s, "confirm", [call[s] EXCEPT !.result = r])
      PROVE  OrderlyInv'
  <2> DEFINE c == [call[s] EXCEPT !.result = r]
  <2>1. r \in snapshots /\ r \in Snapshot
    BY DEF WithContent, MasterInv, TypeOK
  <2>2. /\ c \in Call /\ c.result = r /\ c.now = call[s].now
        /\ c.received = call[s].received
    BY <1>2, <2>1 DEF Call
  <2>3. Goto(s, "confirm", c)
    BY <1>3
  <2> HIDE DEF c
  <2>4. orderly => InTurn("confirm", c)
    BY <1>1, <2>1, <2>2, Alone DEF InTurn
  <2>5. "confirm" \in Stages \ {"idle"}
    BY DEF Stages
  <2> QED
    BY <1>1, <2>2, <2>3, <2>4, <2>5, SyncMovesOn
<1>4. CASE WithContent(call[s].result.content) = {} /\ Goto(s, "lookup", call[s])
  <2>1. orderly => InTurn("lookup", call[s])
    BY <1>1, <1>4, Alone DEF InTurn
  <2>2. "lookup" \in Stages \ {"idle"}
    BY DEF Stages
  <2> QED
    BY <1>1, <1>2, <1>4, <2>1, <2>2, SyncMovesOn
<1> QED
  BY <1>3, <1>4 DEF Find


LEMMA LookupInOrder ==
  ASSUME MasterInv, OrderlyInv, NEW s \in Sessions, Lookup(s)
  PROVE  OrderlyInv'
<1>1. /\ pc[s] = "lookup" /\ pc[s] # "idle"
      /\ UNCHANGED <<answer, now, world, tables, orderly>>
  BY DEF Lookup
<1>2. call[s] \in Call /\ call[s].result \in Snapshot
  BY <1>1, Busy DEF InHand
<1>3. ASSUME NEW r \in snapshots, IdOf(r) = IdOf(call[s].result)
      PROVE  r \in WithContent(call[s].result.content)
  <2>1. r.content = IdOf(r).content
    BY SnapshotTypes DEF MasterInv, TypeOK
  <2>2. IdOf(call[s].result).content = call[s].result.content
    BY <1>2, SnapshotTypes
  <2> QED
    BY <1>3, <2>1, <2>2 DEF WithContent
<1>4. ASSUME orderly
      PROVE  /\ InTurn("insert", call[s])
             /\ ~\E r \in snapshots : IdOf(r) = IdOf(call[s].result)
  BY <1>1, <1>3, <1>4, Alone DEF InTurn
<1>5. "insert" \in Stages \ {"idle"} /\ "record" \in Stages \ {"idle"}
  BY DEF Stages
<1>6. CASE Goto(s, "insert", call[s])
  BY <1>1, <1>2, <1>4, <1>5, <1>6, SyncMovesOn
<1>7. CASE /\ \E r \in snapshots : IdOf(r) = IdOf(call[s].result)
           /\ Goto(s, "record", call[s])
  BY <1>1, <1>2, <1>4, <1>5, <1>7, SyncMovesOn
<1> QED
  BY <1>6, <1>7 DEF Lookup

(* A snapshot that is new is later than the others and the latest.         *)
LEMMA InsertInOrder ==
  ASSUME MasterInv, OrderlyInv, NEW s \in Sessions, Insert(s)
  PROVE  OrderlyInv'
<1> DEFINE new == call[s].result
<1>1. /\ pc[s] = "insert" /\ pc[s] # "idle" /\ answer' = answer /\ now' = now
      /\ orderly' = orderly /\ checked' = checked
      /\ published' = published /\ withdrawn' = withdrawn
      /\ UNCHANGED <<answer, now, world, checked, orderly>>
  BY DEF Insert, world
<1>2. /\ call[s] \in Call /\ call[s].now \in Nat /\ new \in Snapshot
      /\ new.downloaded_at = call[s].now /\ BothServedSince(new.content, call[s].now)
  BY <1>1, Busy, CallTypes DEF InHand
<1>3. CASE WithContent(new.content) = {}
  <2> SUFFICES ASSUME orderly'
               PROVE  Orderly' /\ FreshAnswersAreServed'
    BY DEF OrderlyInv
  <2>1. Orderly /\ FreshAnswersAreServed /\ InTurn("insert", call[s])
    BY <1>1, Alone DEF OrderlyInv
  <2>2. /\ snapshots' = snapshots \cup {new} /\ Goto(s, "record", call[s])
    BY <1>3 DEF Insert
  <2>3. /\ call[s].now = now /\ new.downloaded_at = now /\ now \in Nat
        /\ \A r \in snapshots :
             /\ r.downloaded_at < now /\ r.downloaded_at \in Nat
             /\ r # new /\ ~(now <= r.downloaded_at)
    BY <1>2, <2>1, SnapshotTypes DEF InTurn, MasterInv, TypeOK
  <2>4. \A r \in snapshots, i \in 1..2 : r.content[i] # new.content[i] =>
          withdrawn[r.content[i]] # Absent /\ withdrawn[r.content[i]] <= now
    BY <2>1, RetainedHalves DEF InTurn, Superseded, MasterInv, StampsArePast
  <2>5. InSuccession'
    <3>1. ASSUME NEW r \in snapshots', NEW q \in snapshots',
                 r.downloaded_at <= q.downloaded_at, r # q
          PROVE  /\ r.downloaded_at < q.downloaded_at
                 /\ \A i \in 1..2 : r.content[i] # q.content[i] =>
                      /\ withdrawn[r.content[i]] # Absent
                      /\ withdrawn[r.content[i]] <= q.downloaded_at
      <4>1. CASE r \in snapshots /\ q \in snapshots
        BY <2>1, <3>1, <4>1 DEF Orderly, InSuccession
      <4>2. CASE r \in snapshots /\ q = new
        BY <2>3, <2>4, <4>2
      <4>3. CASE r = new /\ q \in snapshots
        BY <2>3, <3>1, <4>3
      <4> QED
        BY <2>2, <3>1, <4>1, <4>2, <4>3
    <3> QED
      BY <1>1, <3>1 DEF InSuccession
  <2>6. Latest' = new
    <3>1. \A q \in snapshots' : q.downloaded_at <= new.downloaded_at
      BY <2>2, <2>3
    <3>2. \A r \in snapshots' :
            (\A q \in snapshots' : q.downloaded_at <= r.downloaded_at) => r = new
      BY <2>2, <2>3
    <3> QED
      BY <2>2, <3>1, <3>2 DEF Latest
  <2>7. LatestIsServed'
    <3> SUFFICES ASSUME checked # Absent
                 PROVE  BothServedSince(new.content, checked.last_checked_at)
      BY <1>1, <2>6 DEF LatestIsServed, BothServedSince, ServedSince
    <3>1. checked.last_checked_at \in Nat /\ checked.last_checked_at <= now
      BY CheckTypes DEF MasterInv, TypeOK, StampsArePast
    <3>2. \A m \in Masters : withdrawn[m] # Absent => withdrawn[m] \in Nat
      BY StampsAreNaturals DEF MasterInv, TypeOK
    <3>3. new.content[1] \in Masters /\ new.content[2] \in Masters
      BY <1>2, SnapshotTypes
    <3> QED
      BY <1>2, <2>3, <3>1, <3>2, <3>3 DEF BothServedSince, ServedSince
  <2>8. /\ pc'[s] = "record" /\ call'[s] = call[s]
        /\ \A t \in Sessions : pc'[t] # "idle" => t = s
    BY <1>1, <2>1, <2>2
    DEF Goto, MasterInv, TypeOK, CallsOK, Orderly, OneAtATime
  <2>9. InTurn(pc[s], call[s])'
    BY <1>1, <2>2, <2>3, <2>8 DEF InTurn
  <2>10. OneAtATime'
    BY <2>8, <2>9 DEF OneAtATime
  <2>11. NoneReturned' /\ FreshAnswersAreServed'
    BY <1>1, <2>1
    DEF Orderly, NoneReturned, FreshAnswersAreServed, BothServedSince, ServedSince
  <2> QED
    BY <2>5, <2>7, <2>10, <2>11 DEF Orderly
<1>4. CASE End(s) /\ UNCHANGED snapshots
  BY <1>1, <1>4, SyncIsLost DEF tables
<1> QED
  BY <1>3, <1>4 DEF Insert


(* The copy that is confirmed is the latest: in an orderly behaviour an    *)
(* older one, which differs in some half, cannot have been served again.   *)
LEMMA ConfirmedIsLatest ==
  ASSUME MasterInv, Orderly, NEW s \in Sessions, pc[s] = "confirm",
         InTurn("confirm", call[s])
  PROVE  Latest = call[s].result
<1> DEFINE r == call[s].result
           q == Latest
<1>1. /\ r \in snapshots /\ BothServedSince(r.content, call[s].now)
      /\ call[s].now = now /\ now \in Nat
  BY Busy, StampsAreNaturals DEF InHand, InTurn, MasterInv, TypeOK
<1>2. q \in snapshots /\ \A p \in snapshots : p.downloaded_at <= q.downloaded_at
  BY <1>1 DEF Latest, MasterInv, ALatestExists
<1>3. q.downloaded_at \in Nat /\ q.downloaded_at < now
  BY <1>2, SnapshotTypes DEF InTurn, MasterInv, TypeOK
<1>4. /\ r.content[1] \in Masters /\ r.content[2] \in Masters
      /\ r.content \in Content /\ q.content \in Content
      /\ ServedSince(r.content[1], now) /\ ServedSince(r.content[2], now)
  BY <1>1, <1>2, SnapshotTypes DEF MasterInv, TypeOK, BothServedSince
<1> HIDE DEF r, q
<1>5. ASSUME r # q
      PROVE  FALSE
  <2>1. \A i \in 1..2 : r.content[i] # q.content[i] =>
          /\ withdrawn[r.content[i]] # Absent
          /\ withdrawn[r.content[i]] <= q.downloaded_at
    BY <1>1, <1>2, <1>5 DEF Orderly, InSuccession
  <2>2. r.content[1] = q.content[1]
    BY <1>1, <1>3, <1>4, <2>1, NotServedAfter DEF MasterInv, Orderly
  <2>3. r.content[2] = q.content[2]
    BY <1>1, <1>3, <1>4, <2>1, NotServedAfter DEF MasterInv, Orderly
  <2>4. r.content = q.content
    BY <1>4, <2>2, <2>3 DEF Content
  <2> QED
    BY <1>1, <1>2, <1>5, <2>4 DEF MasterInv, ChecksAreBacked
<1> QED
  BY <1>5 DEF r, q

(* So is a copy that was just saved.                                       *)
LEMMA SavedIsLatest ==
  ASSUME MasterInv, Orderly, NEW s \in Sessions, InTurn("record", call[s])
  PROVE  Latest = call[s].result
<1> DEFINE r == call[s].result
           q == Latest
<1>1. r \in snapshots /\ r.downloaded_at = now /\ now \in Nat
  BY StampsAreNaturals DEF InTurn, MasterInv, TypeOK
<1>2. q \in snapshots /\ \A p \in snapshots : p.downloaded_at <= q.downloaded_at
  BY <1>1 DEF Latest, MasterInv, ALatestExists
<1>3. q.downloaded_at \in Nat /\ q.downloaded_at <= now
  BY <1>2, SnapshotTypes DEF MasterInv, TypeOK, StampsArePast
<1> HIDE DEF r, q
<1>4. r = q
  BY <1>1, <1>2, <1>3 DEF Orderly, InSuccession
<1> QED
  BY <1>4 DEF r, q

LEMMA RecordCheckInOrder ==
  ASSUME MasterInv, OrderlyInv, NEW s \in Sessions, RecordCheck(s)
  PROVE  OrderlyInv'
<1>1. /\ pc[s] \in {"confirm", "record"} /\ pc[s] # "idle" /\ End(s)
      /\ checked' = [ snapshot_id |-> IdOf(call[s].result),
                      last_checked_at |-> call[s].now ]
      /\ answer'.reason # "fresh_snapshot"
      /\ snapshots' = snapshots /\ published' = published
      /\ withdrawn' = withdrawn
      /\ UNCHANGED <<now, world, snapshots, orderly>>
  BY DEF RecordCheck, AnswerWith, world
<1>2. BothServedSince(call[s].result.content, call[s].now)
  BY <1>1, Busy DEF InHand
<1>3. ASSUME orderly
      PROVE  LatestIsServed' /\ FreshAnswersAreServed'
  <2>1. Latest = call[s].result
    BY <1>1, <1>3, Alone, ConfirmedIsLatest, SavedIsLatest
  <2> QED
    BY <1>1, <1>2, <2>1, LatestOfSame
    DEF LatestIsServed, FreshAnswersAreServed, BothServedSince, ServedSince
<1> QED
  BY <1>1, <1>3, SyncEnds

LEMMA OrderlyInit ==
  ASSUME Init
  PROVE  OrderlyInv
  BY DEF Init, OrderlyInv, Orderly, NoneReturned, InSuccession, OneAtATime,
         LatestIsServed, FreshAnswersAreServed

LEMMA OrderlyStep ==
  ASSUME MasterInv, OrderlyInv, [Next]_master
  PROVE  OrderlyInv'
<1>1. ASSUME NEW m \in Masters, Publish(m)
      PROVE  OrderlyInv'
  BY <1>1, PublishInOrder
<1>2. ASSUME NEW s \in Sessions, Sync(s)
      PROVE  OrderlyInv'
  <2>1. ASSUME NEW force \in BOOLEAN, Begin(s, force)
        PROVE  OrderlyInv'
    BY <2>1, BeginInOrder
  <2>2. CASE AnswerFresh(s)
    BY <2>2, AnswerFreshInOrder
  <2>3. CASE GoOnline(s)
    BY <2>3, GoOnlineInOrder
  <2>4. CASE FailToConnect(s)
    BY <2>4, FailToConnectInOrder
  <2>5. CASE IgnoreRange(s)
    BY <2>5, SyncIsLost DEF IgnoreRange
  <2>6. ASSUME NEW halves \in 0..2, NEW finished \in BOOLEAN,
               Receive(s, halves, finished)
        PROVE  OrderlyInv'
    BY <2>6, ReceiveInOrder
  <2>7. CASE Find(s)
    BY <2>7, FindInOrder
  <2>8. CASE Lookup(s)
    BY <2>8, LookupInOrder
  <2>9. CASE Insert(s)
    BY <2>9, InsertInOrder
  <2>10. CASE RecordCheck(s)
    BY <2>10, RecordCheckInOrder
  <2>11. CASE Abandon(s)
    BY <2>11, SyncIsLost DEF Abandon
  <2> QED
    BY <1>2, <2>1, <2>2, <2>3, <2>4, <2>5, <2>6, <2>7, <2>8, <2>9, <2>10, <2>11
    DEF Sync
<1>3. CASE UNCHANGED master
  BY <1>3, LatestOfSame
  DEF master, world, tables, OrderlyInv, Orderly, NoneReturned, InSuccession,
      OneAtATime, InTurn, Superseded, WithContent, LatestIsServed,
      FreshAnswersAreServed, ServedSince, BothServedSince
<1> QED
  BY <1>1, <1>2, <1>3 DEF Next

(* What a caller is told was so, whatever the publisher, the transfers and *)
(* the other sessions do: the answer names a retained snapshot; a copy     *)
(* that was downloaded or found unchanged was served since the call began; *)
(* and a fresh one since the last recorded check, as long as no two syncs  *)
(* overlapped and no master came back.                                     *)
THEOREM CallersAreToldTheTruth == Spec => []AnswersAreServed
<1>1. Init => MasterInv /\ OrderlyInv
  BY MasterInit, OrderlyInit
<1>2. MasterInv /\ OrderlyInv /\ [Next]_master => (MasterInv /\ OrderlyInv)'
  BY MasterStep, OrderlyStep
<1>3. MasterInv /\ OrderlyInv => AnswersAreServed
  BY DEF MasterInv, OrderlyInv, FreshAnswersAreServed, AnswersAreBacked,
         AnswersAreServed
<1> QED
  BY <1>1, <1>2, <1>3, PTL DEF Spec

-----------------------------------------------------------------------------
(* The broker session and the candles. *)

(* A step of the composition is a step of the master or leaves it alone.   *)
LEMMA SourcesStepsAreMasterSteps ==
  ASSUME SourcesNext \/ UNCHANGED vars
  PROVE  [Next]_master
<1>1. CASE UNCHANGED master
  BY <1>1
<1>2. ASSUME NEW s \in Sessions, Sync(s)
      PROVE  Next
  BY <1>2 DEF Next
<1>3. ASSUME NEW m \in Masters, Publish(m)
      PROVE  Next
  BY <1>3 DEF Next
<1>4. CASE UNCHANGED vars
  BY <1>4 DEF vars
<1> QED
  BY <1>1, <1>2, <1>3, <1>4
  DEF SourcesNext, StartSession, RefreshSession, ForgetSession, AskBroker,
      BrokerAnswers, BrokerRefuses, ReadToken, HandOn, ClearToken, Reopen,
      RequestCandles, ReceiveCandles, RefuseCandles, KeepCandles

(* Retained snapshots stay.                                                *)
LEMMA SnapshotsStay ==
  ASSUME [Next]_master
  PROVE  snapshots \subseteq snapshots'
<1>1. ASSUME NEW s \in Sessions, Sync(s)
      PROVE  snapshots \subseteq snapshots'
  BY <1>1
  DEF Sync, tables, Begin, AnswerFresh, GoOnline, FailToConnect, IgnoreRange,
      Receive, Find, Lookup, Insert, RecordCheck, Abandon
<1>2. ASSUME NEW m \in Masters, Publish(m)
      PROVE  snapshots \subseteq snapshots'
  BY <1>2 DEF Publish, tables
<1>3. CASE UNCHANGED master
  BY <1>3 DEF master, tables
<1> QED
  BY <1>1, <1>2, <1>3 DEF Next

(* Of the broker sessions: a call that assigned while no other was pending *)
(* is the only one pending, and goes by what is kept; once it has told the *)
(* provider, the two agree.                                                *)
SessionTypes ==
  /\ tokens \in [Browsers -> Tokens \cup {NoToken}]
  /\ handed \in [Browsers -> Tokens \cup {Environment, NoToken}]
  /\ service \in [Scripts -> SessionCall \cup {Absent}]
  /\ torn \in [Browsers -> BOOLEAN]

InStep(b, c) ==
  /\ c.stage = "forgotten" <=> tokens[b] = NoToken
  /\ c.stage = "handing" => c.token = tokens[b]

Settled(b) ==
  ~torn[b] =>
    /\ \A t, u \in Pending(b) : t = u
    /\ \A t \in Pending(b) : InStep(b, service[t])
    /\ Pending(b) = {} => Agree(b)

SessionsOK == SessionTypes /\ \A b \in Browsers : Settled(b)

(* Of the candles, which need of the master only that snapshots stay.      *)
OfASnapshot(i) == \E r \in snapshots : i \in InstrumentsOf(r.content)

CandlesOK ==
  /\ candles \in [Scripts -> CandleRequest \cup {Absent}]
  /\ datasets \subseteq Dataset
  /\ \A t \in Scripts :
       candles[t] # Absent => OfASnapshot(candles[t].instrument)
  /\ \A d \in datasets : OfASnapshot(d.instrument)

SourcesInv == SessionsOK /\ CandlesOK /\ asked \in 0..MaxCalls

(* A step of one browser session is nothing to another one.                *)
LEMMA OthersStaySettled ==
  ASSUME SessionsOK, NEW b \in Browsers, NEW t \in Scripts,
         NEW c \in SessionCall \cup {Absent}, Proceed(t, c),
         service[t] # Absent => service[t].browser = b,
         c # Absent => c.browser = b,
         NEW o \in Browsers \ {b},
         tokens'[o] = tokens[o], handed'[o] = handed[o], torn'[o] = torn[o]
  PROVE  Settled(o)'
<1>1. /\ service'[t] = c
      /\ \A u \in Scripts \ {t} : service'[u] = service[u]
  BY DEF SessionsOK, SessionTypes, Proceed
<1>2. t \notin Pending(o) /\ t \notin Pending(o)'
  BY <1>1 DEF Pending
<1>3. Pending(o)' = Pending(o)
  BY <1>1, <1>2 DEF Pending
<1>4. \A u \in Pending(o) : service'[u] = service[u]
  BY <1>1, <1>2 DEF Pending
<1> QED
  BY <1>3, <1>4 DEF SessionsOK, Settled, InStep, Agree

(* A call that is not pending begins or ends.                              *)
LEMMA UnseenStep ==
  ASSUME SessionsOK, NEW b \in Browsers, NEW t \in Scripts,
         NEW c \in SessionCall \cup {Absent}, Proceed(t, c),
         service[t] # Absent => service[t].browser = b /\ service[t].stage = "asking",
         c # Absent => c.browser = b /\ c.stage = "asking",
         UNCHANGED <<tokens, handed, torn>>
  PROVE  SessionsOK'
<1>1. /\ service'[t] = c
      /\ \A u \in Scripts \ {t} : service'[u] = service[u]
      /\ SessionTypes'
  BY DEF SessionsOK, SessionTypes, Proceed
<1>2. t \notin Pending(b) /\ t \notin Pending(b)'
  BY <1>1 DEF Pending
<1>3. Pending(b)' = Pending(b)
  BY <1>1, <1>2 DEF Pending
<1>4. \A u \in Pending(b) : service'[u] = service[u]
  BY <1>1, <1>2 DEF Pending
<1>5. Settled(b)'
  BY <1>3, <1>4 DEF SessionsOK, Settled, InStep, Agree
<1>6. ASSUME NEW o \in Browsers \ {b}
      PROVE  Settled(o)'
  BY OthersStaySettled
<1> QED
  BY <1>1, <1>5, <1>6 DEF SessionsOK

(* A call assigns the broker session.                                      *)
LEMMA AssignStep ==
  ASSUME SessionsOK, NEW b \in Browsers, NEW t \in Scripts,
         NEW token \in Tokens \cup {NoToken}, Assign(b, token),
         NEW c \in SessionCall, Proceed(t, c), c.browser = b,
         service[t] # Absent => service[t].browser = b /\ service[t].stage = "asking",
         c.stage = IF token = NoToken THEN "forgotten" ELSE "kept",
         UNCHANGED handed
  PROVE  SessionsOK'
<1>1. /\ service'[t] = c /\ tokens'[b] = token
      /\ torn'[b] = (Pending(b) # {})
      /\ \A u \in Scripts \ {t} : service'[u] = service[u]
      /\ \A o \in Browsers \ {b} : tokens'[o] = tokens[o] /\ torn'[o] = torn[o]
      /\ SessionTypes'
  BY DEF SessionsOK, SessionTypes, Proceed, Assign
<1>2. c # Absent
  BY ResponsesAssumption
<1>3. Settled(b)'
  <2> SUFFICES ASSUME Pending(b) = {}
               PROVE  /\ \A v, u \in Pending(b)' : v = u
                      /\ \A u \in Pending(b)' : InStep(b, service[u])'
                      /\ Pending(b)' # {}
    BY <1>1 DEF Settled
  <2>1. t \in Pending(b)'
    BY <1>1, <1>2 DEF Pending
  <2>2. \A u \in Pending(b)' : u = t
    BY <1>1 DEF Pending
  <2>3. InStep(b, service[t])'
    BY <1>1 DEF InStep
  <2> QED
    BY <2>1, <2>2, <2>3
<1>4. ASSUME NEW o \in Browsers \ {b}
      PROVE  Settled(o)'
  BY <1>1, OthersStaySettled
<1> QED
  BY <1>1, <1>3, <1>4 DEF SessionsOK

LEMMA ReadTokenStep ==
  ASSUME SessionsOK, NEW t \in Scripts, ReadToken(t)
  PROVE  SessionsOK'
<1>0. PICK b \in Browsers : b = service[t].browser
  BY DEF ReadToken, SessionsOK, SessionTypes, SessionCall
<1> DEFINE c == IF tokens[b] = NoToken THEN Absent
                ELSE [service[t] EXCEPT !.stage = "handing", !.token = tokens[b]]
<1>1. service[t] \in SessionCall /\ service[t] # Absent
  BY DEF ReadToken, SessionsOK, SessionTypes
<1>2. /\ tokens[b] \in Tokens \cup {NoToken}
      /\ c \in SessionCall \cup {Absent}
      /\ c # Absent => c.browser = b /\ c.stage = "handing"
                        /\ c.token = tokens[b]
      /\ tokens[b] # NoToken => c # Absent
  BY <1>0, <1>1, ResponsesAssumption DEF SessionCall, SessionsOK, SessionTypes
<1>3. /\ Proceed(t, c) /\ UNCHANGED <<tokens, handed, torn>>
      /\ service[t].stage = "kept"
  BY <1>0 DEF ReadToken
<1>4. t \in Pending(b)
  BY <1>0, <1>1, <1>3 DEF Pending
<1> HIDE DEF c
<1>5. /\ service'[t] = c /\ SessionTypes'
      /\ \A u \in Scripts \ {t} : service'[u] = service[u]
  BY <1>2, <1>3 DEF SessionsOK, SessionTypes, Proceed
<1>6. Settled(b)'
  <2> SUFFICES ASSUME ~torn[b]
               PROVE  /\ \A v, u \in Pending(b)' : v = u
                      /\ \A u \in Pending(b)' : InStep(b, service[u])'
                      /\ Pending(b)' # {}
    BY <1>3 DEF Settled
  <2>1. /\ \A u \in Pending(b) : u = t
        /\ tokens[b] # NoToken
    BY <1>2, <1>3, <1>4 DEF SessionsOK, Settled, InStep
  <2>2. t \in Pending(b)' /\ \A u \in Pending(b)' : u = t
    BY <1>2, <1>5, <2>1 DEF Pending
  <2>3. InStep(b, service[t])'
    BY <1>2, <1>3, <1>5, <2>1 DEF InStep
  <2> QED
    BY <2>2, <2>3
<1>7. ASSUME NEW o \in Browsers \ {b}
      PROVE  Settled(o)'
  BY <1>0, <1>2, <1>3, OthersStaySettled
<1> QED
  BY <1>2, <1>5, <1>6, <1>7 DEF SessionsOK

(* A call tells the provider and ends.                                     *)
LEMMA TellStep ==
  ASSUME SessionsOK, NEW t \in Scripts, service[t] # Absent,
         NEW token \in Tokens \cup {NoToken},
         \/ service[t].stage = "handing" /\ token = service[t].token
         \/ service[t].stage = "forgotten" /\ token = NoToken,
         handed' = [handed EXCEPT ![service[t].browser] = token],
         Proceed(t, Absent), UNCHANGED <<tokens, torn>>
  PROVE  SessionsOK'
<1>0. PICK b \in Browsers : b = service[t].browser
  BY DEF SessionsOK, SessionTypes, SessionCall
<1>1. service[t] \in SessionCall
  BY DEF SessionsOK, SessionTypes, SessionCall
<1>2. t \in Pending(b)
  BY <1>0 DEF Pending
<1>3. /\ service'[t] = Absent /\ SessionTypes' /\ handed'[b] = token
      /\ \A u \in Scripts \ {t} : service'[u] = service[u]
      /\ \A o \in Browsers \ {b} : handed'[o] = handed[o]
  BY <1>0 DEF SessionsOK, SessionTypes, Proceed
<1>4. Settled(b)'
  <2> SUFFICES ASSUME ~torn[b]
               PROVE  Pending(b)' = {} /\ Agree(b)'
    BY DEF Settled
  <2>1. (\A u \in Pending(b) : u = t) /\ InStep(b, service[t])
    BY <1>2 DEF SessionsOK, Settled
  <2>2. Pending(b)' = {}
    BY <1>3, <2>1 DEF Pending
  <2>3. Agree(b)'
    BY <1>3, <2>1 DEF Agree, InStep
  <2> QED
    BY <2>2, <2>3
<1>5. ASSUME NEW o \in Browsers \ {b}
      PROVE  Settled(o)'
  BY <1>0, <1>3, OthersStaySettled
<1> QED
  BY <1>1, <1>3, <1>4, <1>5 DEF SessionsOK

LEMMA ReopenStep ==
  ASSUME SessionsOK, NEW b \in Browsers, Reopen(b)
  PROVE  SessionsOK'
<1>1. /\ tokens'[b] = NoToken /\ handed'[b] = Environment /\ SessionTypes'
      /\ \A o \in Browsers \ {b} :
           /\ tokens'[o] = tokens[o] /\ handed'[o] = handed[o]
           /\ torn'[o] = torn[o]
      /\ \A t \in Scripts :
           service'[t] = IF service[t] # Absent /\ service[t].browser = b
                         THEN Absent ELSE service[t]
  BY DEF SessionsOK, SessionTypes, Reopen
<1>2. Pending(b)' = {}
  BY <1>1 DEF Pending
<1>3. Settled(b)'
  BY <1>1, <1>2 DEF Settled, Agree
<1>4. ASSUME NEW o \in Browsers \ {b}
      PROVE  Settled(o)'
  <2>1. /\ Pending(o)' = Pending(o)
        /\ \A t \in Pending(o) : service'[t] = service[t]
    BY <1>1 DEF Pending
  <2> QED
    BY <1>1, <2>1 DEF SessionsOK, Settled, InStep, Agree
<1> QED
  BY <1>1, <1>3, <1>4 DEF SessionsOK

(* What the calls of the session service do to the broker sessions.        *)
LEMMA ServiceStep ==
  ASSUME SessionsOK,
         \/ \E b \in Browsers :
              \/ Reopen(b)
              \/ \E t \in Scripts : \/ StartSession(t, b) \/ RefreshSession(t, b)
                                    \/ ForgetSession(t, b)
         \/ \E t \in Scripts :
              \/ \E token \in Tokens : BrokerAnswers(t, token)
              \/ BrokerRefuses(t) \/ ReadToken(t) \/ HandOn(t) \/ ClearToken(t)
  PROVE  SessionsOK'
<1>1. ASSUME NEW b \in Browsers, NEW t \in Scripts,
             StartSession(t, b) \/ RefreshSession(t, b)
      PROVE  SessionsOK'
  <2> DEFINE c == [browser |-> b, stage |-> "asking", token |-> NoToken]
  <2>1. c \in SessionCall /\ c.browser = b /\ c.stage = "asking"
    BY DEF SessionCall
  <2>2. Proceed(t, c) /\ service[t] = Absent /\ UNCHANGED <<tokens, handed, torn>>
    BY <1>1 DEF StartSession, RefreshSession, AskBroker, Free, Elsewhere
  <2> HIDE DEF c
  <2> QED
    BY <2>1, <2>2, UnseenStep
<1>2. ASSUME NEW b \in Browsers, NEW t \in Scripts, ForgetSession(t, b)
      PROVE  SessionsOK'
  <2> DEFINE c == [browser |-> b, stage |-> "forgotten", token |-> NoToken]
  <2>1. c \in SessionCall /\ c.browser = b /\ c.stage = "forgotten"
    BY DEF SessionCall
  <2>2. /\ Proceed(t, c) /\ service[t] = Absent /\ UNCHANGED handed
        /\ Assign(b, NoToken)
    BY <1>2 DEF ForgetSession, Free, Elsewhere
  <2> HIDE DEF c
  <2> QED
    BY <2>1, <2>2, AssignStep
<1>3. ASSUME NEW b \in Browsers, Reopen(b)
      PROVE  SessionsOK'
  BY <1>3, ReopenStep
<1>4. ASSUME NEW t \in Scripts, NEW token \in Tokens, BrokerAnswers(t, token)
      PROVE  SessionsOK'
  <2> DEFINE b == service[t].browser
             c == [service[t] EXCEPT !.stage = "kept"]
  <2>1. service[t] \in SessionCall /\ b \in Browsers
    BY <1>4 DEF BrokerAnswers, SessionsOK, SessionTypes, SessionCall
  <2>2. c \in SessionCall /\ c.browser = b /\ c.stage = "kept"
    BY <2>1 DEF SessionCall
  <2>3. /\ Proceed(t, c) /\ UNCHANGED handed /\ Assign(b, token)
        /\ service[t].stage = "asking" /\ token # NoToken
    BY <1>4, TokensAssumption DEF BrokerAnswers
  <2> HIDE DEF c
  <2> QED
    BY <2>1, <2>2, <2>3, AssignStep
<1>5. ASSUME NEW t \in Scripts, BrokerRefuses(t)
      PROVE  SessionsOK'
  <2>1. service[t] \in SessionCall /\ service[t].browser \in Browsers
    BY <1>5 DEF BrokerRefuses, SessionsOK, SessionTypes, SessionCall
  <2> QED
    BY <1>5, <2>1, UnseenStep DEF BrokerRefuses
<1>6. ASSUME NEW t \in Scripts, HandOn(t)
      PROVE  SessionsOK'
  <2>1. service[t].token \in Tokens \cup {NoToken}
    BY <1>6 DEF HandOn, SessionsOK, SessionTypes, SessionCall
  <2> QED
    BY <1>6, <2>1, TellStep DEF HandOn
<1>7. ASSUME NEW t \in Scripts, ClearToken(t)
      PROVE  SessionsOK'
  BY <1>7, TellStep DEF ClearToken
<1> QED
  BY <1>1, <1>2, <1>3, <1>4, <1>5, <1>6, <1>7, ReadTokenStep

LEMMA RequestStep ==
  ASSUME MasterInv, CandlesOK, NEW t \in Scripts, NEW b \in Browsers,
         NEW i \in Instruments, RequestCandles(t, b, i)
  PROVE  CandlesOK'
<1> DEFINE c == [ instrument |-> i, response |-> Absent ]
<1>1. c \in CandleRequest /\ c.instrument = i
  BY DEF CandleRequest
<1>2. OfASnapshot(i)
  BY LatestType DEF RequestCandles, OfASnapshot
<1>3. /\ candles' = [candles EXCEPT ![t] = c] /\ snapshots' = snapshots
      /\ datasets' = datasets
  BY DEF RequestCandles, master, tables
<1> HIDE DEF c
<1> QED
  BY <1>1, <1>2, <1>3 DEF CandlesOK, OfASnapshot

LEMMA ReceiveCandlesStep ==
  ASSUME CandlesOK, NEW t \in Scripts, NEW r \in Responses, ReceiveCandles(t, r)
  PROVE  CandlesOK'
<1> DEFINE c == [candles[t] EXCEPT !.response = r]
<1>1. candles[t] \in CandleRequest /\ candles[t] # Absent
  BY DEF CandlesOK, ReceiveCandles
<1>2. c \in CandleRequest /\ c.instrument = candles[t].instrument
  BY <1>1 DEF CandleRequest
<1>3. /\ candles' = [candles EXCEPT ![t] = c] /\ snapshots' = snapshots
      /\ datasets' = datasets
  BY DEF ReceiveCandles, master, tables
<1> HIDE DEF c
<1> QED
  BY <1>1, <1>2, <1>3 DEF CandlesOK, OfASnapshot

LEMMA RefuseStep ==
  ASSUME CandlesOK, NEW t \in Scripts, RefuseCandles(t)
  PROVE  CandlesOK'
<1>1. /\ candles' = [candles EXCEPT ![t] = Absent] /\ snapshots' = snapshots
      /\ datasets' = datasets
  BY DEF RefuseCandles, master, tables
<1> QED
  BY <1>1 DEF CandlesOK, OfASnapshot

LEMMA KeepStep ==
  ASSUME CandlesOK, NEW t \in Scripts, KeepCandles(t)
  PROVE  CandlesOK'
<1> DEFINE d == [ instrument |-> candles[t].instrument,
                  response |-> candles[t].response ]
<1>1. candles[t] \in CandleRequest /\ candles[t] # Absent
  BY DEF CandlesOK, KeepCandles
<1>2. d \in Dataset /\ d.instrument = candles[t].instrument
  BY <1>1 DEF KeepCandles, CandleRequest, Dataset
<1>3. /\ candles' = [candles EXCEPT ![t] = Absent] /\ snapshots' = snapshots
      /\ datasets' = datasets \cup {d}
  BY DEF KeepCandles, master, tables
<1>4. OfASnapshot(d.instrument)
  BY <1>1, <1>2 DEF CandlesOK
<1> HIDE DEF d
<1> QED
  BY <1>2, <1>3, <1>4 DEF CandlesOK, OfASnapshot

LEMMA CandlesStay ==
  ASSUME CandlesOK, UNCHANGED <<candles, datasets>>, snapshots \subseteq snapshots'
  PROVE  CandlesOK'
  BY DEF CandlesOK, OfASnapshot

LEMMA SourcesInitially ==
  ASSUME SourcesInit
  PROVE  MasterInv /\ SourcesInv
<1>1. SessionTypes /\ \A b \in Browsers : Pending(b) = {} /\ Agree(b)
  BY DEF SourcesInit, SessionTypes, Pending, Agree
<1>2. CandlesOK /\ asked \in 0..MaxCalls
  BY CallsAssumption DEF SourcesInit, CandlesOK
<1> QED
  BY <1>1, <1>2, MasterInit DEF SourcesInit, SourcesInv, SessionsOK, Settled

LEMMA SourcesStep ==
  ASSUME MasterInv, SourcesInv, [SourcesNext]_vars
  PROVE  MasterInv' /\ SourcesInv'
<1>1. MasterInv'
  BY SourcesStepsAreMasterSteps, MasterStep
<1>2. snapshots \subseteq snapshots'
  BY SourcesStepsAreMasterSteps, SnapshotsStay
<1>3. SessionsOK /\ CandlesOK /\ asked \in 0..MaxCalls
  BY DEF SourcesInv
<1>4. CASE UNCHANGED sources
  <2>1. SessionsOK'
    BY <1>3, <1>4
    DEF SessionsOK, SessionTypes, Settled, Pending, InStep, Agree, sources
  <2> QED
    BY <1>1, <1>2, <1>3, <1>4, <2>1, CandlesStay DEF SourcesInv, sources
<1>5. ASSUME NEW t \in Scripts, NEW b \in Browsers,
             StartSession(t, b) \/ RefreshSession(t, b)
      PROVE  SourcesInv'
  <2>1. asked' \in 0..MaxCalls
    BY <1>3, <1>5, CallsAssumption, BoundsAssumption
    DEF StartSession, RefreshSession, AskBroker, OneMoreCall, MasterInv, TypeOK,
        Stamps
  <2>2. SessionsOK'
    BY <1>3, <1>5, ServiceStep
  <2>3. UNCHANGED <<candles, datasets>>
    BY <1>5 DEF StartSession, RefreshSession, AskBroker
  <2> QED
    BY <1>2, <1>3, <2>1, <2>2, <2>3, CandlesStay DEF SourcesInv
<1>6. ASSUME \/ \E b \in Browsers :
                  Reopen(b) \/ \E t \in Scripts : ForgetSession(t, b)
             \/ \E t \in Scripts :
                  \/ \E token \in Tokens : BrokerAnswers(t, token)
                  \/ BrokerRefuses(t) \/ ReadToken(t) \/ HandOn(t)
                  \/ ClearToken(t)
      PROVE  SourcesInv'
  <2>1. SessionsOK'
    BY <1>3, <1>6, ServiceStep
  <2>2. UNCHANGED <<candles, datasets, asked>>
    BY <1>6
    DEF Reopen, ForgetSession, BrokerAnswers, BrokerRefuses, ReadToken, HandOn,
        ClearToken
  <2> QED
    BY <1>2, <1>3, <2>1, <2>2, CandlesStay DEF SourcesInv
<1>7. ASSUME NEW t \in Scripts,
             \/ \E b \in Browsers : \E i \in Instruments : RequestCandles(t, b, i)
             \/ \E r \in Responses : ReceiveCandles(t, r)
             \/ RefuseCandles(t) \/ KeepCandles(t)
      PROVE  SourcesInv'
  <2>1. UNCHANGED <<tokens, handed, service, torn>>
    BY <1>7 DEF RequestCandles, ReceiveCandles, RefuseCandles, KeepCandles
  <2>2. SessionsOK'
    BY <1>3, <2>1 DEF SessionsOK, SessionTypes, Settled, Pending, InStep, Agree
  <2>3. asked' \in 0..MaxCalls
    BY <1>3, <1>7, CallsAssumption, BoundsAssumption
    DEF RequestCandles, ReceiveCandles, RefuseCandles, KeepCandles, OneMoreCall,
        MasterInv, TypeOK, Stamps
  <2>4. CandlesOK'
    BY <1>3, <1>7, RequestStep, ReceiveCandlesStep, RefuseStep, KeepStep
  <2> QED
    BY <2>2, <2>3, <2>4 DEF SourcesInv
<1>8. CASE UNCHANGED vars
  BY <1>4, <1>8 DEF vars
<1> QED
  BY <1>1, <1>4, <1>5, <1>6, <1>7, <1>8 DEF SourcesNext

(* The composition implements the master: the broker sessions and the      *)
(* candles, and browser sessions that end and begin anew, never disturb    *)
(* the synchronization.                                                    *)
THEOREM SourcesImplementMaster == SourcesSpec => Spec
<1>1. SourcesInit => Init
  BY DEF SourcesInit
<1>2. [SourcesNext]_vars => [Next]_master
  BY SourcesStepsAreMasterSteps
<1> QED
  BY <1>1, <1>2, PTL DEF SourcesSpec, Spec

(* Every variable keeps its type, for any number of sessions and calls.    *)
THEOREM SourcesTypeCorrect == SourcesSpec => []SourcesTypeOK
<1>1. SourcesInit => MasterInv /\ SourcesInv
  BY SourcesInitially
<1>2. MasterInv /\ SourcesInv /\ [SourcesNext]_vars => (MasterInv /\ SourcesInv)'
  BY SourcesStep
<1>3. MasterInv /\ SourcesInv => SourcesTypeOK
  BY DEF MasterInv, SourcesInv, SessionsOK, SessionTypes, CandlesOK,
         SourcesTypeOK
<1> QED
  BY <1>1, <1>2, <1>3, PTL DEF SourcesSpec

(* Whatever threads of one browser session log in, refresh, forget and ask *)
(* for candles at once, with other threads between any two of their steps: *)
(* the provider follows the broker session again as soon as a call assigns *)
(* that with no other one pending, however far overlapping calls had drawn *)
(* the two apart; and only instruments of a retained snapshot are asked    *)
(* for or retained.                                                        *)
THEOREM CandlesStayGrounded == SourcesSpec => []CandlesAreGrounded
<1>1. SourcesInit => MasterInv /\ SourcesInv
  BY SourcesInitially
<1>2. MasterInv /\ SourcesInv /\ [SourcesNext]_vars => (MasterInv /\ SourcesInv)'
  BY SourcesStep
<1>3. SourcesInv => CandlesAreGrounded
  BY DEF SourcesInv, SessionsOK, Settled, CandlesOK, OfASnapshot,
         CandlesAreGrounded
<1> QED
  BY <1>1, <1>2, <1>3, PTL DEF SourcesSpec

(* So the claims of the tables also hold with all that the page does.      *)
THEOREM TablesNeverClaimMoreInUse == SourcesSpec => []ChecksAreBacked
<1> QED
  BY SourcesImplementMaster, TablesNeverClaimMore, PTL

(* And so do the answers, whatever else the sessions and the page do.      *)
THEOREM CallersAreToldTheTruthInUse == SourcesSpec => []AnswersAreServed
<1> QED
  BY SourcesImplementMaster, CallersAreToldTheTruth, PTL

=============================================================================
