---------------------------- MODULE ResearchProofs ----------------------------
(***************************************************************************)
(* Proofs about the retained research evidence and the records made about  *)
(* it, for any number of sessions, datasets, requests and versions.        *)
(***************************************************************************)
EXTENDS EvidenceGates, FiniteFolds

-----------------------------------------------------------------------------
(* The inductive invariant. *)

(* Without databases one call at a time uses the service.                  *)
OneRunInMemory ==
  ~durable => \A s, t \in Sessions : pc[s] # "idle" /\ pc[t] # "idle" => s = t

(* The outcomes of a manifest are retained in its transaction.             *)
OutcomesOfManifests ==
  durable => \A m \in manifests : \A d \in m.id.inputs.datasets : outcomes[d] # Absent

(* What a run in progress may rely on at its stage: datasets it checked in *)
(* memory, in a process's own dictionaries a manifest that is still not    *)
(* there, then its manifest, whoever retained it, and then its batch.      *)
Grounded(s) ==
  /\ Runnable(call[s].request)
  /\ pc[s] = "outcomes" => durable
  /\ ~durable /\ pc[s] = "insert manifest" => ~HasManifest(ManifestOf(s))
  /\ pc[s] \in {"batch", "insert batch", "publish"} => HasManifest(ManifestOf(s))
  /\ pc[s] = "publish" => HasBatch(BatchId(call[s].request))

RunsAreGrounded == \A s \in Sessions : pc[s] # "idle" => Grounded(s)

(* A process never sees the batches of another version in its own memory.  *)
OneVersionInMemory ==
  ~durable =>
    \A b \in batches : b.manifest = [ inputs |-> b.id, version |-> version ]

ResearchInv ==
  /\ TypeOK
  /\ OneRunInMemory
  /\ OutcomesOfManifests
  /\ RunsAreGrounded
  /\ OneVersionInMemory
  /\ BatchesStandOnManifests
  /\ HandedOutIsRetained

-----------------------------------------------------------------------------
(* Types. *)

(* The identities of a request are identities, and name its datasets.      *)
LEMMA RequestTypes ==
  ASSUME NEW r \in Requests
  PROVE  /\ r.datasets \in Seq(Datasets)
         /\ Range(r.datasets) \subseteq Datasets
         /\ BatchId(r) \in BatchIds
         /\ BatchId(r).datasets = Range(r.datasets)
         /\ \A v \in Versions : /\ ManifestId(r, v) \in ManifestIds
                                /\ ManifestId(r, v).inputs = BatchId(r)
                                /\ ManifestId(r, v).version = v
<1>1. r.datasets \in Seq(Datasets)
  BY RequestsAssumption DEF Request
<1>2. Range(r.datasets) \subseteq Datasets
  BY <1>1 DEF Range
<1> QED
  BY <1>1, <1>2 DEF BatchIds, BatchId, ManifestIds, ManifestId

(* Every batch identity is the one of some request.                        *)
LEMMA IdentityTypes ==
  ASSUME NEW m \in ManifestIds
  PROVE  m.inputs \in BatchIds /\ m.version \in Versions
                               /\ m = [ inputs |-> m.inputs, version |-> m.version ]
  BY DEF ManifestIds, ManifestId, BatchIds

(* What a run in progress has in hand.                                     *)
LEMMA CallTypes ==
  ASSUME TypeOK, NEW s \in Sessions, pc[s] # "idle"
  PROVE  /\ call[s] \in Call
         /\ call[s].request \in Requests
         /\ call[s].moment \in Moments
         /\ call[s].missing \in Datasets \cup {Absent}
         /\ ManifestOf(s) \in ManifestIds
         /\ ManifestOf(s).inputs = BatchId(call[s].request)
         /\ ManifestOf(s).version = version
         /\ BatchId(call[s].request).datasets = Range(call[s].request.datasets)
         /\ Range(call[s].request.datasets) \subseteq Datasets
         /\ ValidatedAt(s) \in Moments \cup {Pinned}
<1>1. call[s] \in Call /\ version \in Versions
  BY DEF TypeOK
<1>2. /\ call[s].request \in Requests /\ call[s].moment \in Moments
      /\ call[s].missing \in Datasets \cup {Absent}
  BY <1>1 DEF Call
<1> QED
  BY <1>1, <1>2, RequestTypes DEF ManifestOf, ValidatedAt

LEMMA NewRowTypes ==
  ASSUME TypeOK, NEW s \in Sessions, pc[s] # "idle"
  PROVE  /\ NewManifest(s) \in Manifest
         /\ NewManifest(s).id = ManifestOf(s)
         /\ NewBatch(s) \in Batch
         /\ NewBatch(s).id = BatchId(call[s].request)
         /\ NewBatch(s).manifest = ManifestOf(s)
<1>1. BatchId(call[s].request) \in BatchIds
  BY CallTypes, RequestTypes
<1> QED
  BY <1>1, CallTypes DEF NewManifest, NewBatch, Manifest, Batch

LEMMA MissingType ==
  ASSUME TypeOK, NEW s \in Sessions, pc[s] # "idle"
  PROVE  Missing(s) \in Datasets \cup {Absent}
<1> DEFINE datasets == call[s].request.datasets
           known == { i \in DOMAIN datasets : outcomes[datasets[i]] = Absent }
<1>1. datasets \in Seq(Datasets)
  BY CallTypes, RequestTypes
<1>2. known # {} => Min(known) \in known
  <2>1. known \in SUBSET Nat
    BY <1>1
  <2> HIDE DEF known
  <2> QED
    BY <2>1, FirstPosition
<1>3. known # {} => datasets[Min(known)] \in Datasets
  <2>1. \A i \in known : datasets[i] \in Datasets
    BY <1>1
  <2> HIDE DEF known, datasets
  <2> QED
    BY <1>2, <2>1
<1>4. Missing(s) = IF known = {} THEN Absent ELSE datasets[Min(known)]
  BY DEF Missing
<1> QED
  BY <1>3, <1>4

-----------------------------------------------------------------------------
(* The runs. *)

(* The run of one session moves on or ends while the others stay where     *)
(* they are: they keep what they rely on when nothing is taken away.       *)
LEMMA RunsMoveOn ==
  ASSUME TypeOK, OneRunInMemory, RunsAreGrounded, NEW s \in Sessions,
         pc' = [ pc EXCEPT ![s] = pc'[s] ], pc'[s] \in Stages,
         call' = [ call EXCEPT ![s] = call'[s] ],
         call'[s] \in Call \cup {Absent},
         pc'[s] = "idle" <=> call'[s] = Absent,
         durable' = durable, version' = version,
         ~durable => \A t \in Sessions : pc[t] # "idle" => t = s,
         \A m \in manifests : \E n \in manifests' : n.id = m.id,
         \A b \in batches : \E c \in batches' : c.id = b.id,
         pc'[s] # "idle" => Grounded(s)'
  PROVE  /\ pc' \in [ Sessions -> Stages ]
         /\ call' \in [ Sessions -> Call \cup {Absent} ]
         /\ \A t \in Sessions : pc'[t] = "idle" <=> call'[t] = Absent
         /\ OneRunInMemory'
         /\ RunsAreGrounded'
<1>1. /\ pc \in [ Sessions -> Stages ]
      /\ call \in [ Sessions -> Call \cup {Absent} ]
      /\ \A t \in Sessions : pc[t] = "idle" <=> call[t] = Absent
  BY DEF TypeOK
<1>2. /\ pc' \in [ Sessions -> Stages ]
      /\ call' \in [ Sessions -> Call \cup {Absent} ]
  BY <1>1
<1>3. \A t \in Sessions : t # s => pc'[t] = pc[t] /\ call'[t] = call[t]
  BY <1>1
<1>4. \A t \in Sessions : pc'[t] = "idle" <=> call'[t] = Absent
  BY <1>1, <1>3
<1>5. OneRunInMemory'
  BY <1>3 DEF OneRunInMemory
<1>6. ASSUME NEW t \in Sessions, pc'[t] # "idle"
      PROVE  Grounded(t)'
  <2>1. CASE t = s
    BY <2>1, <1>6
  <2>2. CASE t # s
    <3>1. pc[t] # "idle" /\ Grounded(t) /\ durable
      BY <1>3, <1>6, <2>2 DEF RunsAreGrounded
    <3>2. ManifestOf(t)' = ManifestOf(t)
      BY <1>3, <2>2 DEF ManifestOf
    <3>3. /\ HasManifest(ManifestOf(t)) => HasManifest(ManifestOf(t))'
          /\ HasBatch(BatchId(call[t].request)) => HasBatch(BatchId(call[t].request))'
      BY <3>2, <1>3, <2>2 DEF HasManifest, HasBatch
    <3> QED
      BY <1>3, <2>2, <3>1, <3>2, <3>3 DEF Grounded
  <2> QED
    BY <2>1, <2>2
<1>7. RunsAreGrounded'
  BY <1>6 DEF RunsAreGrounded
<1> QED
  BY <1>2, <1>4, <1>5, <1>7

(* A step that only moves the run of one session.                          *)
LEMMA QuietStep ==
  ASSUME ResearchInv, NEW s \in Sessions,
         pc' = [ pc EXCEPT ![s] = pc'[s] ], pc'[s] \in Stages,
         call' = [ call EXCEPT ![s] = call'[s] ],
         call'[s] \in Call \cup {Absent},
         pc'[s] = "idle" <=> call'[s] = Absent,
         ~durable => \A t \in Sessions : pc[t] # "idle" => t = s,
         pc'[s] # "idle" => Grounded(s)',
         calls' \in 0..MaxCalls,
         UNCHANGED <<durable, stored, version, events, active>>
  PROVE  ResearchInv'
<1>1. /\ durable' = durable /\ version' = version /\ events' = events
      /\ active' = active /\ outcomes' = outcomes /\ manifests' = manifests
      /\ batches' = batches
  BY DEF stored
<1>2. /\ pc' \in [ Sessions -> Stages ]
      /\ call' \in [ Sessions -> Call \cup {Absent} ]
      /\ \A t \in Sessions : pc'[t] = "idle" <=> call'[t] = Absent
      /\ OneRunInMemory'
      /\ RunsAreGrounded'
  BY <1>1, RunsMoveOn DEF ResearchInv
<1>3. TypeOK'
  BY <1>1, <1>2 DEF ResearchInv, TypeOK
<1>4. OutcomesOfManifests' /\ OneVersionInMemory' /\ BatchesStandOnManifests'
  BY <1>1 DEF ResearchInv, OutcomesOfManifests, OneVersionInMemory,
              BatchesStandOnManifests, HasManifest
<1>5. HandedOutIsRetained'
  BY <1>1 DEF ResearchInv, HandedOutIsRetained, HasManifest, HasBatch
<1> QED
  BY <1>2, <1>3, <1>4, <1>5 DEF ResearchInv

(* A run that stays with its locals moves to a stage, or ends.             *)
LEMMA Moves ==
  ASSUME TypeOK, NEW s \in Sessions, NEW stage \in Stages,
         Goto(s, stage), UNCHANGED call, pc[s] # "idle", stage # "idle"
  PROVE  /\ pc' = [ pc EXCEPT ![s] = pc'[s] ] /\ pc'[s] = stage
         /\ call' = [ call EXCEPT ![s] = call'[s] ] /\ call'[s] = call[s]
         /\ pc'[s] \in Stages /\ call'[s] \in Call \cup {Absent}
         /\ pc'[s] = "idle" <=> call'[s] = Absent
  BY DEF TypeOK, Goto

LEMMA Ends ==
  ASSUME TypeOK, NEW s \in Sessions, End(s)
  PROVE  /\ pc' = [ pc EXCEPT ![s] = pc'[s] ] /\ pc'[s] = "idle"
         /\ call' = [ call EXCEPT ![s] = call'[s] ] /\ call'[s] = Absent
         /\ pc'[s] \in Stages /\ call'[s] \in Call \cup {Absent}
         /\ pc'[s] = "idle" <=> call'[s] = Absent
  BY DEF TypeOK, End, Goto, Stages

(* In memory, whoever runs is the only one.                                *)
LEMMA AloneInMemory ==
  ASSUME OneRunInMemory, NEW s \in Sessions, pc[s] # "idle", ~durable
  PROVE  \A t \in Sessions : pc[t] # "idle" => t = s
  BY DEF OneRunInMemory

LEMMA RunBatchStep ==
  ASSUME ResearchInv, NEW s \in Sessions, NEW request \in Requests,
         RunBatch(s, request)
  PROVE  ResearchInv'
<1> DEFINE c == [ request |-> request, moment |-> Now, missing |-> Absent ]
<1>1. calls \in 0..MaxCalls /\ calls < MaxCalls /\ MaxCalls \in Nat
  BY BoundsAssumption DEF RunBatch, ResearchInv, TypeOK
<1>2. Now \in Moments /\ calls' \in 0..MaxCalls
  BY <1>1 DEF RunBatch, Now, Moments
<1>3. c \in Call /\ c # Absent
  BY <1>2, AbsentAssumption DEF Call
<1>4. /\ pc' = [ pc EXCEPT ![s] = pc'[s] ] /\ pc'[s] = "manifest"
      /\ call' = [ call EXCEPT ![s] = call'[s] ] /\ call'[s] = c
  BY DEF RunBatch, Goto, ResearchInv, TypeOK
<1>5. Grounded(s)'
  BY <1>4 DEF Grounded, RunBatch
<1>6. ~durable => \A t \in Sessions : pc[t] # "idle" => t = s
  BY DEF RunBatch
<1>7. UNCHANGED <<durable, stored, version, events, active>>
  BY DEF RunBatch
<1>8. pc'[s] \in Stages /\ pc'[s] # "idle"
  BY <1>4 DEF Stages
<1> QED
  BY <1>2, <1>3, <1>4, <1>5, <1>6, <1>7, <1>8, QuietStep

LEMMA LookUpManifestStep ==
  ASSUME ResearchInv, NEW s \in Sessions, LookUpManifest(s)
  PROVE  ResearchInv'
<1> DEFINE stage == IF HasManifest(ManifestOf(s)) THEN "batch"
                    ELSE IF durable THEN "outcomes" ELSE "insert manifest"
<1>1. /\ TypeOK /\ OneRunInMemory /\ Grounded(s) /\ pc[s] # "idle"
      /\ Goto(s, stage) /\ UNCHANGED call /\ calls' = calls
      /\ UNCHANGED <<durable, stored, version, events, active>>
  BY DEF ResearchInv, RunsAreGrounded, LookUpManifest
<1>2. stage \in Stages \ {"idle"}
  BY DEF Stages
<1>3. /\ pc' = [ pc EXCEPT ![s] = pc'[s] ] /\ pc'[s] = stage
      /\ call' = [ call EXCEPT ![s] = call'[s] ] /\ call'[s] = call[s]
      /\ pc'[s] \in Stages /\ call'[s] \in Call \cup {Absent}
      /\ pc'[s] = "idle" <=> call'[s] = Absent
  <2> HIDE DEF stage
  <2> QED
    BY <1>1, <1>2, Moves
<1>4. Grounded(s)'
  BY <1>1, <1>3 DEF Grounded, HasManifest, ManifestOf, stored
<1> QED
  BY <1>1, <1>3, <1>4, AloneInMemory, QuietStep DEF TypeOK

LEMMA CheckOutcomesStep ==
  ASSUME ResearchInv, NEW s \in Sessions, CheckOutcomes(s)
  PROVE  ResearchInv'
<1>1. /\ TypeOK /\ OneRunInMemory /\ Grounded(s) /\ pc[s] = "outcomes"
      /\ calls' = calls
      /\ UNCHANGED <<durable, stored, version, events, active>>
  BY DEF ResearchInv, RunsAreGrounded, CheckOutcomes
<1>2. CASE End(s)
  BY <1>1, <1>2, Ends, AloneInMemory, QuietStep DEF TypeOK
<1>3. CASE /\ call' = [ call EXCEPT ![s].missing = Missing(s) ]
           /\ Goto(s, "insert manifest")
  <2> DEFINE c == [ call[s] EXCEPT !.missing = Missing(s) ]
  <2>1. call[s] \in Call /\ Missing(s) \in Datasets \cup {Absent}
    BY <1>1, CallTypes, MissingType
  <2>2. c \in Call /\ c.request = call[s].request
    BY <2>1 DEF Call
  <2>3. c # Absent
    BY <2>2, AbsentAssumption
  <2>4. /\ pc' = [ pc EXCEPT ![s] = pc'[s] ] /\ pc'[s] = "insert manifest"
        /\ call' = [ call EXCEPT ![s] = call'[s] ] /\ call'[s] = c
    BY <1>1, <1>3 DEF Goto, TypeOK
  <2>5. Grounded(s)'
    BY <1>1, <2>2, <2>4 DEF Grounded, HasManifest, ManifestOf, stored
  <2>6. pc'[s] \in Stages /\ pc'[s] # "idle"
    BY <2>4 DEF Stages
  <2>7. /\ call'[s] \in Call \cup {Absent}
        /\ pc'[s] = "idle" <=> call'[s] = Absent
    BY <2>2, <2>3, <2>4, <2>6
  <2>8. ~durable => \A t \in Sessions : pc[t] # "idle" => t = s
    BY <1>1, AloneInMemory
  <2>9. calls' \in 0..MaxCalls
    BY <1>1 DEF TypeOK
  <2> QED
    BY <1>1, <2>4, <2>5, <2>6, <2>7, <2>8, <2>9, QuietStep
<1> QED
  BY <1>2, <1>3 DEF CheckOutcomes

LEMMA LookUpBatchStep ==
  ASSUME ResearchInv, NEW s \in Sessions, LookUpBatch(s)
  PROVE  ResearchInv'
<1> DEFINE stage == IF durable /\ HasBatch(NewBatch(s).id)
                    THEN "publish" ELSE "insert batch"
<1>1. /\ TypeOK /\ OneRunInMemory /\ Grounded(s) /\ pc[s] = "batch"
      /\ calls' = calls
      /\ UNCHANGED <<durable, stored, version, events, active>>
  BY DEF ResearchInv, RunsAreGrounded, LookUpBatch
<1>2. CASE End(s)
  BY <1>1, <1>2, Ends, AloneInMemory, QuietStep DEF TypeOK
<1>3. CASE Goto(s, stage) /\ UNCHANGED call
  <2>1. stage \in Stages \ {"idle"}
    BY DEF Stages
  <2>2. /\ pc' = [ pc EXCEPT ![s] = pc'[s] ] /\ pc'[s] = stage
        /\ call' = [ call EXCEPT ![s] = call'[s] ] /\ call'[s] = call[s]
        /\ pc'[s] \in Stages /\ call'[s] \in Call \cup {Absent}
        /\ pc'[s] = "idle" <=> call'[s] = Absent
    <3> HIDE DEF stage
    <3> QED
      BY <1>1, <1>3, <2>1, Moves
  <2>3. stage = "publish" => HasBatch(BatchId(call[s].request))
    BY <1>1, NewRowTypes
  <2>4. Grounded(s)'
    BY <1>1, <2>2, <2>3 DEF Grounded, HasManifest, HasBatch, ManifestOf, stored
  <2> QED
    BY <1>1, <2>2, <2>4, AloneInMemory, QuietStep DEF TypeOK
<1> QED
  BY <1>2, <1>3 DEF LookUpBatch

(* A manifest is new to the table and its datasets get their outcomes with *)
(* it; or the run clashes and changes nothing.                             *)
LEMMA InsertManifestStep ==
  ASSUME ResearchInv, NEW s \in Sessions, InsertManifest(s)
  PROVE  ResearchInv'
<1>1. /\ TypeOK /\ OneRunInMemory /\ RunsAreGrounded /\ Grounded(s)
      /\ pc[s] = "insert manifest" /\ calls' = calls
      /\ durable' = durable /\ batches' = batches /\ version' = version
      /\ events' = events /\ active' = active
  BY DEF ResearchInv, RunsAreGrounded, InsertManifest
<1>2. CASE End(s) /\ UNCHANGED <<outcomes, manifests>>
  <2>1. UNCHANGED <<durable, stored, version, events, active>>
    BY <1>1, <1>2 DEF stored
  <2> QED
    BY <1>1, <1>2, <2>1, Ends, AloneInMemory, QuietStep DEF TypeOK
<1>3. CASE ~Clashes(s) /\ UNCHANGED call /\ Goto(s, "batch")
           /\ manifests' = manifests \cup {NewManifest(s)}
  <2> DEFINE own == Range(call[s].request.datasets)
  <2>1. outcomes' = [ d \in Datasets |-> IF durable /\ d \in own
                                         THEN ValidatedAt(s) ELSE outcomes[d] ]
    BY <1>1, <1>3 DEF InsertManifest, Clashes
  <2>2. /\ NewManifest(s) \in Manifest /\ NewManifest(s).id = ManifestOf(s)
        /\ ManifestOf(s).inputs.datasets = own
        /\ ValidatedAt(s) \in Moments \cup {Pinned}
    BY <1>1, CallTypes, NewRowTypes
  <2>3. ~HasManifest(ManifestOf(s))
    BY <1>1, <1>3 DEF Clashes, Grounded
  <2>4. /\ manifests' \subseteq Manifest
        /\ \A m, n \in manifests' : m.id = n.id => m = n
    BY <1>1, <1>3, <2>2, <2>3 DEF TypeOK, HasManifest
  <2>5. /\ outcomes' \in [ Datasets -> Moments \cup {Pinned, Absent} ]
        /\ \A d \in Datasets : outcomes[d] # Absent => outcomes'[d] # Absent
        /\ durable => \A d \in own \cap Datasets : outcomes'[d] # Absent
    BY <1>1, <2>1, <2>2, AbsentAssumption DEF TypeOK
  <2>6. /\ pc' = [ pc EXCEPT ![s] = pc'[s] ] /\ pc'[s] = "batch"
        /\ call' = [ call EXCEPT ![s] = call'[s] ] /\ call'[s] = call[s]
        /\ pc'[s] \in Stages /\ call'[s] \in Call \cup {Absent}
        /\ pc'[s] = "idle" <=> call'[s] = Absent
    <3>1. "batch" \in Stages
      BY DEF Stages
    <3> QED
      BY <1>1, <1>3, <3>1, Moves
  <2>7. \A m \in manifests : m \in manifests'
    BY <1>3
  <2>8. Grounded(s)'
    <3>1. ManifestOf(s)' = ManifestOf(s)
      BY <1>1, <2>6 DEF ManifestOf
    <3>2. HasManifest(ManifestOf(s))'
      BY <1>3, <2>2, <3>1 DEF HasManifest
    <3> QED
      BY <1>1, <2>6, <3>2 DEF Grounded
  <2>9. /\ pc' \in [ Sessions -> Stages ]
        /\ call' \in [ Sessions -> Call \cup {Absent} ]
        /\ \A t \in Sessions : pc'[t] = "idle" <=> call'[t] = Absent
        /\ OneRunInMemory'
        /\ RunsAreGrounded'
    BY <1>1, <2>6, <2>7, <2>8, AloneInMemory, RunsMoveOn
  <2>10. TypeOK'
    BY <1>1, <2>4, <2>5, <2>9 DEF TypeOK
  <2>11. OutcomesOfManifests'
    <3> SUFFICES ASSUME durable', NEW m \in manifests', NEW d \in m.id.inputs.datasets
                 PROVE  outcomes'[d] # Absent
      BY DEF OutcomesOfManifests
    <3>1. m \in Manifest /\ m.id \in ManifestIds /\ d \in Datasets
      <4>1. m \in Manifest /\ m.id \in ManifestIds
        BY <2>4 DEF Manifest
      <4>2. PICK r \in Requests : m.id.inputs = BatchId(r)
        BY <4>1, IdentityTypes DEF BatchIds
      <4> QED
        BY <4>1, <4>2, RequestTypes
    <3>2. CASE m \in manifests
      BY <1>1, <2>5, <3>1, <3>2 DEF ResearchInv, OutcomesOfManifests
    <3>3. CASE m = NewManifest(s)
      BY <1>1, <2>2, <2>5, <3>1, <3>3
    <3> QED
      BY <1>3, <3>2, <3>3
  <2>12. OneVersionInMemory'
    BY <1>1 DEF ResearchInv, OneVersionInMemory
  <2>13. BatchesStandOnManifests'
    <3> SUFFICES ASSUME NEW b \in batches \ LegacyBatches
                 PROVE  /\ HasManifest(b.manifest)'
                        /\ b.manifest.inputs = b.id
                        /\ \A d \in b.id.datasets :
                             /\ Validation(d) = "ACCEPTED"
                             /\ durable => outcomes'[d] # Absent
      BY <1>1 DEF BatchesStandOnManifests
    <3>1. /\ HasManifest(b.manifest) /\ b.manifest.inputs = b.id
          /\ \A d \in b.id.datasets :
               /\ Validation(d) = "ACCEPTED"
               /\ durable => outcomes[d] # Absent
      BY DEF ResearchInv, BatchesStandOnManifests
    <3>2. HasManifest(b.manifest)'
      BY <2>7, <3>1 DEF HasManifest
    <3>3. \A d \in b.id.datasets : d \in Datasets
      <4>1. b.manifest \in ManifestIds
        BY <1>1 DEF TypeOK, Kept, Batch
      <4>2. PICK r \in Requests : b.id = BatchId(r)
        BY <3>1, <4>1, IdentityTypes DEF BatchIds
      <4> QED
        BY <4>2, RequestTypes
    <3> QED
      BY <2>5, <3>1, <3>2, <3>3
  <2>14. HandedOutIsRetained'
    BY <1>1, <2>7 DEF ResearchInv, HandedOutIsRetained, HasManifest, HasBatch
  <2> QED
    BY <2>9, <2>10, <2>11, <2>12, <2>13, <2>14 DEF ResearchInv
<1> QED
  BY <1>2, <1>3 DEF InsertManifest

(* A batch is retained with its manifest, and replaces one of its identity *)
(* only in memory.                                                         *)
LEMMA InsertBatchStep ==
  ASSUME ResearchInv, NEW s \in Sessions, InsertBatch(s)
  PROVE  ResearchInv'
<1>1. /\ TypeOK /\ OneRunInMemory /\ RunsAreGrounded /\ Grounded(s)
      /\ pc[s] = "insert batch" /\ calls' = calls
      /\ durable' = durable /\ outcomes' = outcomes /\ manifests' = manifests
      /\ version' = version /\ events' = events /\ active' = active
  BY DEF ResearchInv, RunsAreGrounded, InsertBatch
<1>2. CASE End(s) /\ UNCHANGED batches
  <2>1. UNCHANGED <<durable, stored, version, events, active>>
    BY <1>1, <1>2 DEF stored
  <2> QED
    BY <1>1, <1>2, <2>1, Ends, AloneInMemory, QuietStep DEF TypeOK
<1>3. CASE /\ batches' = { b \in batches : b.id # NewBatch(s).id } \cup {NewBatch(s)}
           /\ Goto(s, "publish") /\ UNCHANGED call
  <2> DEFINE row == NewBatch(s)
  <2>1. /\ row \in Batch /\ row.id = BatchId(call[s].request)
        /\ row.manifest = ManifestOf(s) /\ ManifestOf(s).inputs = row.id
        /\ ManifestOf(s).version = version /\ ManifestOf(s) \in ManifestIds
        /\ row.id.datasets = Range(call[s].request.datasets)
        /\ HasManifest(ManifestOf(s)) /\ Runnable(call[s].request)
    BY <1>1, CallTypes, NewRowTypes DEF Grounded
  <2>2. /\ \A b \in batches' : b = row \/ (b \in batches /\ b.id # row.id)
        /\ \A b \in batches : \E c \in batches' : c.id = b.id
        /\ row \in batches'
    BY <1>3
  <2> HIDE DEF row
  <2>3. /\ batches' \subseteq Kept
        /\ \A b, c \in batches' : b.id = c.id => b = c
    BY <1>1, <2>1, <2>2 DEF TypeOK, Kept
  <2>4. /\ pc' = [ pc EXCEPT ![s] = pc'[s] ] /\ pc'[s] = "publish"
        /\ call' = [ call EXCEPT ![s] = call'[s] ] /\ call'[s] = call[s]
        /\ pc'[s] \in Stages /\ call'[s] \in Call \cup {Absent}
        /\ pc'[s] = "idle" <=> call'[s] = Absent
    <3>1. "publish" \in Stages
      BY DEF Stages
    <3> QED
      BY <1>1, <1>3, <3>1, Moves
  <2>5. Grounded(s)'
    <3>1. ManifestOf(s)' = ManifestOf(s)
      BY <1>1, <2>4 DEF ManifestOf
    <3>2. HasManifest(ManifestOf(s))' /\ HasBatch(BatchId(call[s].request))'
      BY <1>1, <2>1, <2>2, <2>4, <3>1 DEF HasManifest, HasBatch
    <3> QED
      BY <1>1, <2>4, <3>2 DEF Grounded
  <2>6. /\ pc' \in [ Sessions -> Stages ]
        /\ call' \in [ Sessions -> Call \cup {Absent} ]
        /\ \A t \in Sessions : pc'[t] = "idle" <=> call'[t] = Absent
        /\ OneRunInMemory'
        /\ RunsAreGrounded'
    BY <1>1, <2>2, <2>4, <2>5, AloneInMemory, RunsMoveOn
  <2>7. TypeOK'
    BY <1>1, <2>3, <2>6 DEF TypeOK
  <2>8. OutcomesOfManifests'
    BY <1>1 DEF ResearchInv, OutcomesOfManifests
  <2>9. OneVersionInMemory'
    <3>1. row.manifest = [ inputs |-> row.id, version |-> version ]
      BY <2>1, IdentityTypes
    <3> QED
      BY <1>1, <2>2, <3>1 DEF ResearchInv, OneVersionInMemory
  <2>10. BatchesStandOnManifests'
    <3> SUFFICES ASSUME NEW b \in batches' \ LegacyBatches
                 PROVE  /\ HasManifest(b.manifest)
                        /\ b.manifest.inputs = b.id
                        /\ \A d \in b.id.datasets :
                             /\ Validation(d) = "ACCEPTED"
                             /\ durable => outcomes[d] # Absent
      BY <1>1 DEF BatchesStandOnManifests, HasManifest
    <3>1. CASE b \in batches
      BY <3>1 DEF ResearchInv, BatchesStandOnManifests
    <3>2. CASE b = row
      <4>1. \A d \in row.id.datasets : Validation(d) = "ACCEPTED"
        BY <2>1 DEF Runnable
      <4>2. durable => \A d \in row.id.datasets : outcomes[d] # Absent
        BY <2>1 DEF ResearchInv, OutcomesOfManifests, HasManifest
      <4> QED
        BY <2>1, <3>2, <4>1, <4>2
    <3> QED
      BY <2>2, <3>1, <3>2
  <2>11. HandedOutIsRetained'
    <3>1. \A id \in BatchIds : HasBatch(id) => HasBatch(id)'
      BY <2>2 DEF HasBatch
    <3>2. \A t \in Sessions : active[t] # Absent => active[t].id \in BatchIds
      BY <1>1, LegacyAssumption DEF TypeOK, Kept, Batch
    <3>3. \A e \in events : e.batch \in BatchIds
      BY <1>1 DEF TypeOK
    <3> QED
      BY <1>1, <3>1, <3>2, <3>3 DEF ResearchInv, HandedOutIsRetained, HasManifest
  <2> QED
    BY <2>6, <2>7, <2>8, <2>9, <2>10, <2>11 DEF ResearchInv
<1> QED
  BY <1>2, <1>3 DEF InsertBatch

(* What a fixture run announces and puts on its page is retained by then.  *)
LEMMA PublishStep ==
  ASSUME ResearchInv, NEW s \in Sessions, Publish(s)
  PROVE  ResearchInv'
<1>1. /\ TypeOK /\ OneRunInMemory /\ RunsAreGrounded /\ Grounded(s)
      /\ pc[s] = "publish" /\ calls' = calls /\ End(s)
      /\ durable' = durable /\ outcomes' = outcomes /\ manifests' = manifests
      /\ batches' = batches /\ version' = version
  BY DEF ResearchInv, RunsAreGrounded, Publish, stored
<1>2. /\ NewBatch(s) \in Batch /\ NewBatch(s).id = BatchId(call[s].request)
      /\ NewBatch(s).manifest = ManifestOf(s) /\ NewBatch(s).id \in BatchIds
      /\ ManifestOf(s) \in ManifestIds /\ ManifestOf(s).inputs = NewBatch(s).id
      /\ HasManifest(ManifestOf(s)) /\ HasBatch(NewBatch(s).id)
  BY <1>1, CallTypes, NewRowTypes, RequestTypes DEF Grounded
<1>3. /\ \A t \in Sessions : active'[t] = active[t] \/ active'[t] = NewBatch(s)
      /\ active' \in [ Sessions -> Kept \cup {Absent} ]
      /\ \A e \in events' : \/ e \in events
                            \/ e = [ batch |-> NewBatch(s).id, manifest |-> ManifestOf(s) ]
  BY <1>1, <1>2 DEF Publish, TypeOK, Kept
<1>4. events' \subseteq [ batch : BatchIds, manifest : ManifestIds ]
  BY <1>1, <1>2, <1>3 DEF TypeOK
<1>5. /\ pc' \in [ Sessions -> Stages ]
      /\ call' \in [ Sessions -> Call \cup {Absent} ]
      /\ \A t \in Sessions : pc'[t] = "idle" <=> call'[t] = Absent
      /\ OneRunInMemory'
      /\ RunsAreGrounded'
  BY <1>1, Ends, AloneInMemory, RunsMoveOn
<1>6. TypeOK'
  BY <1>1, <1>3, <1>4, <1>5 DEF TypeOK
<1>7. OutcomesOfManifests' /\ OneVersionInMemory' /\ BatchesStandOnManifests'
  BY <1>1 DEF ResearchInv, OutcomesOfManifests, OneVersionInMemory,
              BatchesStandOnManifests, HasManifest
<1>8. HandedOutIsRetained'
  <2>1. ASSUME NEW t \in Sessions, active'[t] # Absent
        PROVE  /\ HasBatch(active'[t].id)
               /\ active'[t] \notin LegacyBatches =>
                    /\ HasManifest(active'[t].manifest)
                    /\ active'[t].manifest.inputs = active'[t].id
    BY <1>2, <1>3, <2>1 DEF ResearchInv, HandedOutIsRetained
  <2>2. ASSUME NEW e \in events'
        PROVE  HasBatch(e.batch) /\ HasManifest(e.manifest) /\ e.manifest.inputs = e.batch
    BY <1>2, <1>3 DEF ResearchInv, HandedOutIsRetained
  <2> QED
    BY <1>1, <2>1, <2>2 DEF HandedOutIsRetained, HasBatch, HasManifest
<1> QED
  BY <1>5, <1>6, <1>7, <1>8 DEF ResearchInv

(* A script run takes its batch from the history it read.                  *)
LEMMA RefreshStep ==
  ASSUME ResearchInv, NEW s \in Sessions, Refresh(s)
  PROVE  ResearchInv'
<1>1. /\ TypeOK /\ OneRunInMemory /\ RunsAreGrounded
      /\ UNCHANGED <<durable, outcomes, manifests, batches, version, events, pc, call, calls>>
  BY DEF ResearchInv, Refresh, stored
<1>2. \E b \in batches \cup {Absent} : active' = [ active EXCEPT ![s] = b ]
  <2>1. PICK history \in SUBSET batches :
          \/ \E b \in history : active' = [ active EXCEPT ![s] = b ]
          \/ active' = [ active EXCEPT ![s] = Absent ]
    BY DEF Refresh
  <2> QED
    BY <2>1
<1>3. PICK b \in batches \cup {Absent} : active' = [ active EXCEPT ![s] = b ]
  BY <1>2
<1>4. /\ active' \in [ Sessions -> Kept \cup {Absent} ]
      /\ \A t \in Sessions : active'[t] = active[t] \/ active'[t] = b
  BY <1>1, <1>3 DEF TypeOK
<1>5. TypeOK'
  BY <1>1, <1>4 DEF TypeOK
<1>6. OneRunInMemory' /\ RunsAreGrounded'
  BY <1>1 DEF OneRunInMemory, RunsAreGrounded, Grounded, HasManifest, HasBatch,
              ManifestOf
<1>7. OutcomesOfManifests' /\ OneVersionInMemory' /\ BatchesStandOnManifests'
  BY <1>1 DEF ResearchInv, OutcomesOfManifests, OneVersionInMemory,
              BatchesStandOnManifests, HasManifest
<1>8. b # Absent =>
        /\ HasBatch(b.id)
        /\ b \notin LegacyBatches => HasManifest(b.manifest) /\ b.manifest.inputs = b.id
  BY DEF ResearchInv, BatchesStandOnManifests, HasBatch
<1>9. HandedOutIsRetained'
  <2>1. ASSUME NEW t \in Sessions, active'[t] # Absent
        PROVE  /\ HasBatch(active'[t].id)
               /\ active'[t] \notin LegacyBatches =>
                    /\ HasManifest(active'[t].manifest)
                    /\ active'[t].manifest.inputs = active'[t].id
    BY <1>4, <1>8, <2>1 DEF ResearchInv, HandedOutIsRetained
  <2> QED
    BY <1>1, <2>1 DEF ResearchInv, HandedOutIsRetained, HasBatch, HasManifest
<1> QED
  BY <1>5, <1>6, <1>7, <1>9 DEF ResearchInv

(* A process that ends takes its runs, its pages and its bus with it, and  *)
(* what it kept in memory.                                                 *)
LEMMA RestartStep ==
  ASSUME ResearchInv, Restart
  PROVE  ResearchInv'
<1>1. /\ TypeOK /\ durable' = durable /\ calls' = calls /\ version' \in Versions
      /\ events' = {} /\ active' = [ s \in Sessions |-> Absent ]
      /\ pc' = [ s \in Sessions |-> "idle" ]
      /\ call' = [ s \in Sessions |-> Absent ]
  BY DEF ResearchInv, Restart
<1>2. \/ /\ durable
         /\ outcomes' = outcomes /\ manifests' = manifests /\ batches' = batches
      \/ /\ ~durable /\ outcomes' = [ d \in Datasets |-> Absent ]
         /\ manifests' = {} /\ batches' = {}
  BY DEF Restart, stored
<1>3. TypeOK'
  BY <1>1, <1>2 DEF TypeOK, Stages
<1>4. OneRunInMemory' /\ RunsAreGrounded' /\ HandedOutIsRetained'
  BY <1>1 DEF OneRunInMemory, RunsAreGrounded, HandedOutIsRetained
<1>5. OutcomesOfManifests' /\ OneVersionInMemory' /\ BatchesStandOnManifests'
  BY <1>1, <1>2 DEF ResearchInv, OutcomesOfManifests, OneVersionInMemory,
                    BatchesStandOnManifests, HasManifest
<1> QED
  BY <1>3, <1>4, <1>5 DEF ResearchInv

LEMMA ResearchInitially == Init => ResearchInv
<1> SUFFICES ASSUME Init
             PROVE  ResearchInv
  OBVIOUS
<1>1. /\ batches \subseteq LegacyBatches
      /\ ~durable => batches = {}
      /\ manifests = {} /\ events = {}
      /\ \A s \in Sessions : pc[s] = "idle" /\ active[s] = Absent
  BY DEF Init
<1>2. TypeOK
  <2>1. /\ batches \subseteq Kept
        /\ \A b, c \in batches : b.id = c.id => b = c
    BY <1>1, LegacyAssumption DEF Kept
  <2> QED
    BY <1>1, <2>1, BoundsAssumption DEF Init, TypeOK, Stages
<1>3. OneRunInMemory /\ RunsAreGrounded /\ HandedOutIsRetained
  BY <1>1 DEF OneRunInMemory, RunsAreGrounded, HandedOutIsRetained
<1>4. OutcomesOfManifests /\ OneVersionInMemory /\ BatchesStandOnManifests
  BY <1>1 DEF OutcomesOfManifests, OneVersionInMemory, BatchesStandOnManifests
<1> QED
  BY <1>2, <1>3, <1>4 DEF ResearchInv

LEMMA ResearchStep == ResearchInv /\ [Next]_vars => ResearchInv'
<1> SUFFICES ASSUME ResearchInv, Next \/ UNCHANGED vars
             PROVE  ResearchInv'
  OBVIOUS
<1>1. ASSUME NEW s \in Sessions, Refresh(s)
      PROVE  ResearchInv'
  BY <1>1, RefreshStep
<1>2. ASSUME NEW s \in Sessions, Run(s)
      PROVE  ResearchInv'
  <2>1. ASSUME NEW request \in Requests, RunBatch(s, request)
        PROVE  ResearchInv'
    BY <2>1, RunBatchStep
  <2> QED
    BY <1>2, <2>1, LookUpManifestStep, CheckOutcomesStep, InsertManifestStep,
       LookUpBatchStep, InsertBatchStep, PublishStep DEF Run
<1>3. CASE Restart
  BY <1>3, RestartStep
<1>4. CASE UNCHANGED vars
  BY <1>4 DEF vars, research, stored, ResearchInv, TypeOK, OneRunInMemory,
      OutcomesOfManifests, RunsAreGrounded, Grounded, OneVersionInMemory,
      BatchesStandOnManifests, HandedOutIsRetained, HasManifest, HasBatch,
      ManifestOf
<1> QED
  BY <1>1, <1>2, <1>3, <1>4 DEF Next

(* No step takes anything from the databases: two runs that insert the     *)
(* same rows clash, and outcomes are only completed.                       *)
LEMMA EvidenceStays ==
  ASSUME Next, durable
  PROVE  /\ manifests \subseteq manifests' /\ batches \subseteq batches'
         /\ \A d \in Datasets :
              outcomes[d] # Absent => outcomes'[d] = outcomes[d]
<1>1. ASSUME NEW s \in Sessions, InsertManifest(s)
      PROVE  /\ manifests \subseteq manifests' /\ batches' = batches
             /\ \A d \in Datasets :
                  outcomes[d] # Absent => outcomes'[d] = outcomes[d]
  BY <1>1 DEF InsertManifest, Clashes, Conflicts
<1>2. ASSUME NEW s \in Sessions, InsertBatch(s)
      PROVE  UNCHANGED <<outcomes, manifests>> /\ batches \subseteq batches'
  <2>1. CASE UNCHANGED batches
    BY <1>2, <2>1 DEF InsertBatch
  <2>2. CASE ~HasBatch(NewBatch(s).id)
             /\ batches' = { b \in batches : b.id # NewBatch(s).id } \cup {NewBatch(s)}
    BY <1>2, <2>2 DEF InsertBatch, HasBatch
  <2> QED
    BY <1>2, <2>1, <2>2 DEF InsertBatch
<1>3. ASSUME NEW s \in Sessions, NEW request \in Requests, RunBatch(s, request)
      PROVE  UNCHANGED stored
  BY <1>3 DEF RunBatch
<1>4. ASSUME NEW s \in Sessions,
             \/ Refresh(s) \/ LookUpManifest(s) \/ CheckOutcomes(s)
             \/ LookUpBatch(s) \/ Publish(s)
      PROVE  UNCHANGED stored
  BY <1>4 DEF Refresh, LookUpManifest, CheckOutcomes, LookUpBatch, Publish
<1>5. Restart => UNCHANGED stored
  BY DEF Restart
<1> QED
  BY <1>1, <1>2, <1>3, <1>4, <1>5 DEF Next, Run, stored

-----------------------------------------------------------------------------
(* The records about the research. *)

(* Robustness evidence depends on the version that computed it only.       *)
EvidenceOf(v) ==
  [ dataset |-> RobustnessDataset, strategy |-> "sma_crossover", version |-> v,
    candidates |-> [ p \in Grid |-> Candidate(RobustnessDataset, p) ],
    at |-> RobustnessAt ]

RobustnessIsDetermined ==
  \A e \in robustness : e.version \in Versions /\ e = EvidenceOf(e.version)

(* What an assessment holds between its reads.                             *)
Resolved == [ batch : BatchIds, manifest : ManifestIds, dataset : Datasets ]
Reading ==
  [ stage : {"promotion", "robustness"}, batch : BatchIds,
    instrument : Instruments, moment : Moments, killed : BOOLEAN,
    view : Kept \cup {Absent}, promotion : Resolved \cup {Absent} ]

(* A resolved promotion stands on what is retained of the batch.           *)
Promoted(p, id, instrument) ==
  /\ p \in Resolved /\ p.batch = id
  /\ HasBatch(id) /\ HasManifest(p.manifest)
  /\ Stored(id).manifest = p.manifest /\ p.manifest.inputs = id
  /\ p.dataset \in id.datasets /\ About[p.dataset].instrument = instrument
  /\ Validation(p.dataset) = "ACCEPTED"

ReadingsAreGrounded ==
  /\ reading \in [ Sessions -> Reading \cup {Absent} ]
  /\ \A s \in Sessions : reading[s] # Absent =>
       /\ pc[s] = "idle"
       /\ reading[s].stage = "robustness" /\ reading[s].promotion # Absent =>
            Promoted(reading[s].promotion, reading[s].batch, reading[s].instrument)

RecordTypes ==
  /\ \A r \in reviews : r.dataset \in Datasets /\ r.at \in Moments
  /\ \A a \in assessments : a.batch \in BatchIds /\ a.at \in Moments

GatesInv ==
  /\ ResearchInv
  /\ RobustnessIsDetermined
  /\ ReadingsAreGrounded
  /\ RecordTypes
  /\ CompleteIsBacked

(* The batch that is stored under an identity is one of the batches.       *)
LEMMA StoredType ==
  ASSUME ResearchInv, NEW id \in BatchIds, HasBatch(id)
  PROVE  /\ Stored(id) \in batches /\ Stored(id).id = id /\ Stored(id) \in Kept
         /\ Stored(id).manifest \in ManifestIds \cup {Absent}
         /\ \A b \in batches : b.id = id => b = Stored(id)
<1>1. Stored(id) \in batches /\ Stored(id).id = id
  BY DEF Stored, HasBatch
<1>2. Stored(id) \in Kept
  BY <1>1 DEF ResearchInv, TypeOK
<1> QED
  BY <1>1, <1>2, LegacyAssumption DEF ResearchInv, TypeOK, Kept, Batch

(* A batch that names a manifest stands on it.                             *)
LEMMA StoredStands ==
  ASSUME ResearchInv, NEW id \in BatchIds, HasBatch(id), Stored(id).manifest # Absent
  PROVE  HasManifest(Stored(id).manifest) /\ Stored(id).manifest.inputs = id
                                          /\ Stored(id).manifest \in ManifestIds
<1>1. Stored(id) \in batches /\ Stored(id).id = id
      /\ Stored(id).manifest \in ManifestIds \cup {Absent}
  BY StoredType
<1>2. Stored(id) \notin LegacyBatches
  BY LegacyAssumption
<1> QED
  BY <1>1, <1>2 DEF ResearchInv, BatchesStandOnManifests

(* What a step that does not empty the memory of a process leaves there.   *)
EvidenceGrows ==
  /\ durable' = durable
  /\ durable \/ version' = version
  /\ \A m \in manifests : m \in manifests'
  /\ \A b \in batches : \E c \in batches' : c.id = b.id
  /\ durable => \A b \in batches : b \in batches'

LEMMA ResearchGrows ==
  ASSUME ResearchInv, NEW s \in Sessions, Refresh(s) \/ Run(s)
  PROVE  EvidenceGrows
<1>1. CASE UNCHANGED <<durable, stored, version>>
  BY <1>1 DEF EvidenceGrows, stored
<1>2. CASE InsertManifest(s)
  BY <1>2 DEF EvidenceGrows, InsertManifest
<1>3. CASE InsertBatch(s)
  <2>1. CASE UNCHANGED batches
    BY <1>3, <2>1 DEF InsertBatch, EvidenceGrows
  <2>2. CASE /\ durable => ~HasBatch(NewBatch(s).id)
             /\ batches' = { b \in batches : b.id # NewBatch(s).id } \cup {NewBatch(s)}
    BY <1>3, <2>2 DEF InsertBatch, EvidenceGrows, HasBatch
  <2> QED
    BY <1>3, <2>1, <2>2 DEF InsertBatch
<1> QED
  BY <1>1, <1>2, <1>3 DEF Refresh, Run, RunBatch, LookUpManifest, CheckOutcomes,
                          LookUpBatch, Publish

(* A stored batch keeps naming the manifest it names: in the databases it  *)
(* is the same row, and in memory one version runs.                        *)
LEMMA StoredStays ==
  ASSUME ResearchInv, ResearchInv', EvidenceGrows, NEW id \in BatchIds, HasBatch(id)
  PROVE  HasBatch(id)' /\ Stored(id)'.manifest = Stored(id).manifest
<1>1. Stored(id) \in batches /\ Stored(id).id = id
  BY StoredType
<1>2. PICK c \in batches' : c.id = id
  BY <1>1 DEF EvidenceGrows
<1>3. Stored(id)' \in batches' /\ Stored(id)'.id = id
  BY <1>2 DEF Stored
<1>4. CASE durable
  <2>1. Stored(id) \in batches'
    BY <1>1, <1>4 DEF EvidenceGrows
  <2>2. \A a, b \in batches' : a.id = b.id => a = b
    BY DEF ResearchInv, TypeOK
  <2>3. Stored(id)' = Stored(id)
    BY <1>1, <1>3, <2>1, <2>2
  <2> QED
    BY <1>2, <2>3 DEF HasBatch
<1>5. CASE ~durable
  <2>1. ~durable' /\ version' = version
    BY <1>5 DEF EvidenceGrows
  <2>2. Stored(id).manifest = [ inputs |-> id, version |-> version ]
    BY <1>1, <1>5 DEF ResearchInv, OneVersionInMemory
  <2>3. OneVersionInMemory'
    BY DEF ResearchInv
  <2>4. Stored(id)'.manifest = [ inputs |-> id, version |-> version' ]
    BY <1>3, <2>1, <2>3 DEF OneVersionInMemory
  <2> QED
    BY <1>2, <2>1, <2>2, <2>4 DEF HasBatch
<1> QED
  BY <1>4, <1>5

LEMMA PromotedStays ==
  ASSUME ResearchInv, ResearchInv', EvidenceGrows
  PROVE  \A p \in Resolved, id \in BatchIds, instrument \in Instruments :
           Promoted(p, id, instrument) => Promoted(p, id, instrument)'
<1> SUFFICES ASSUME NEW p \in Resolved, NEW id \in BatchIds,
                    NEW instrument \in Instruments, Promoted(p, id, instrument)
             PROVE  Promoted(p, id, instrument)'
  OBVIOUS
<1>1. HasBatch(id)' /\ Stored(id)'.manifest = Stored(id).manifest
  BY StoredStays DEF Promoted
<1>2. HasManifest(p.manifest)'
  BY DEF Promoted, HasManifest, EvidenceGrows
<1> QED
  BY <1>1, <1>2 DEF Promoted

LEMMA BackedStays ==
  ASSUME GatesInv, ResearchInv', EvidenceGrows,
         \A e \in robustness : e \in robustness'
  PROVE  \A a \in assessments : Complete(a) => Backed(a)'
<1> SUFFICES ASSUME NEW a \in assessments, Complete(a)
             PROVE  Backed(a)'
  OBVIOUS
<1>1. Backed(a) /\ a.batch \in BatchIds
  BY DEF GatesInv, CompleteIsBacked, RecordTypes
<1>2. HasBatch(a.batch)' /\ Stored(a.batch)'.manifest = Stored(a.batch).manifest
  <2>1. \A id \in BatchIds : HasBatch(id) =>
          HasBatch(id)' /\ Stored(id)'.manifest = Stored(id).manifest
    BY StoredStays DEF GatesInv
  <2> QED
    BY <1>1, <2>1 DEF Backed
<1>3. HasManifest(a.manifest)'
  BY <1>1 DEF Backed, HasManifest, EvidenceGrows
<1> QED
  BY <1>1, <1>2, <1>3 DEF Backed

(* Promotions resolve to what is retained. *)
LEMMA ResolvedIsPromoted ==
  ASSUME ResearchInv, NEW id \in BatchIds, NEW instrument \in Instruments,
         Promotion(id, instrument) # Absent
  PROVE  Promoted(Promotion(id, instrument), id, instrument)
<1> DEFINE view == View(id)
           d == ResultOf(id, instrument)
           found == { e \in id.datasets : About[e].instrument = instrument }
<1>1. /\ view # Absent /\ d # Absent /\ Validation(d) = "ACCEPTED"
      /\ Promotion(id, instrument)
           = [ batch |-> id, manifest |-> view.manifest, dataset |-> d ]
  BY DEF Promotion
<1>2. HasBatch(id) /\ view = Stored(id) /\ Stored(id).manifest # Absent
  BY <1>1 DEF View
<1>3. /\ HasManifest(view.manifest) /\ view.manifest.inputs = id
      /\ view.manifest \in ManifestIds
  BY <1>2, StoredStands
<1>4. d \in found
  <2>1. d = IF found = {} THEN Absent ELSE CHOOSE e \in found : TRUE
    BY DEF ResultOf
  <2> HIDE DEF found, d
  <2> QED
    BY <1>1, <2>1
<1>5. d \in id.datasets /\ About[d].instrument = instrument
  BY <1>4
<1>6. d \in Datasets
  <2>1. PICK r \in Requests : id = BatchId(r)
    BY DEF BatchIds
  <2> QED
    BY <1>5, <2>1, RequestTypes
<1> HIDE DEF view, d
<1> QED
  BY <1>1, <1>2, <1>3, <1>5, <1>6 DEF Promoted, Resolved

(* The evidence that matches a promotion is on record and has a candidate  *)
(* of its revision; all are of one time, so that a newest one exists.      *)
LEMMA MatchingEvidence ==
  ASSUME GatesInv, NEW p \in Resolved, MatchingRobustness(p) # Absent
  PROVE  LET e == MatchingRobustness(p)
         IN /\ e \in robustness /\ e.dataset = p.dataset
            /\ e.version = p.manifest.version
            /\ p.manifest.inputs.parameters \in DOMAIN e.candidates
<1> DEFINE S == { e \in Matching(p) : p.manifest.inputs.parameters \in DOMAIN e.candidates }
<1>1. \A e \in S : /\ e \in robustness /\ e.dataset = p.dataset
                   /\ e.version = p.manifest.version
                   /\ p.manifest.inputs.parameters \in DOMAIN e.candidates
  BY DEF Matching, Recent
<1>2. \A e \in S : e.at = RobustnessAt
  <2>1. \A e \in robustness : e.at = RobustnessAt
    BY DEF GatesInv, RobustnessIsDetermined, EvidenceOf
  <2> QED
    BY <1>1, <2>1
<1>3. MatchingRobustness(p) = Newest(S)
  BY DEF MatchingRobustness
<1>4. Newest(S) # Absent => Newest(S) \in S
  <2> HIDE DEF S
  <2>1. S # {} => \E r \in S : \A q \in S : q.at <= r.at
    BY <1>2, GatesAssumption
  <2> QED
    BY <2>1 DEF Newest
<1> HIDE DEF S
<1> QED
  BY <1>1, <1>3, <1>4

(* An assessment that retains no reason stands on all it names.            *)
LEMMA AssessmentIsBacked ==
  ASSUME GatesInv, NEW r \in Reading, Complete(Assessment(r)),
         r.promotion # Absent => Promoted(r.promotion, r.batch, r.instrument)
  PROVE  Backed(Assessment(r))
<1> DEFINE a == Assessment(r)
           p == r.promotion
           found == r.view # Absent /\ r.promotion # Absent
           e == IF found THEN MatchingRobustness(p) ELSE Absent
<1>1. /\ a.batch = r.batch /\ a.instrument = r.instrument /\ a.at = r.moment
      /\ a.killed = r.killed /\ a.robustness = e
      /\ found => a.manifest = p.manifest /\ a.dataset = p.dataset
  BY DEF Assessment
<1>2. a.reasons =
        Flag(r.killed, "KILL_SWITCH_ACTIVE") \cup
        IF ~found THEN {"RESEARCH_PROMOTION_EVIDENCE_MISSING"}
        ELSE RobustnessReasons(p, e, r.moment) \cup
             Flag(OlderThan(r.moment, Cutoff(p.manifest)), "RESEARCH_EVIDENCE_STALE")
  BY DEF Assessment
<1>3. a.reasons = {}
  BY DEF Complete
<1>4. /\ found /\ ~r.killed /\ ~OlderThan(r.moment, Cutoff(p.manifest))
      /\ RobustnessReasons(p, e, r.moment) = {}
  BY <1>2, <1>3 DEF Flag
<1>5. Promoted(p, r.batch, r.instrument) /\ p \in Resolved
  BY <1>4 DEF Promoted
<1>6. e # Absent /\ e.candidates[p.manifest.inputs.parameters] # "INSUFFICIENT_HISTORY"
  BY <1>4 DEF RobustnessReasons
<1>7. /\ e \in robustness /\ e.dataset = p.dataset
      /\ e.version = p.manifest.version
      /\ p.manifest.inputs.parameters \in DOMAIN e.candidates
  BY <1>4, <1>5, <1>6, MatchingEvidence
<1>8. /\ e.dataset = RobustnessDataset
      /\ e.candidates = [ q \in Grid |-> Candidate(RobustnessDataset, q) ]
  BY <1>7 DEF GatesInv, RobustnessIsDetermined, EvidenceOf
<1>9. /\ p.manifest.inputs = r.batch /\ r.batch.parameters \in Grid
      /\ Candidate(p.dataset, r.batch.parameters) # "INSUFFICIENT_HISTORY"
  BY <1>5, <1>6, <1>7, <1>8 DEF Promoted
<1>10. /\ InSample(p.dataset) > RequiredHistory[r.batch.parameters]
       /\ HoldOut(p.dataset) > RequiredHistory[r.batch.parameters]
  BY <1>9 DEF Candidate
<1>11. Min({InSample(p.dataset), HoldOut(p.dataset)}) > RequiredHistory[r.batch.parameters]
  <2>1. About[p.dataset].bars \in Nat
    BY <1>5, DatasetsAssumption DEF Resolved, Dataset
  <2>2. InSample(p.dataset) \in Int /\ HoldOut(p.dataset) \in Int
    BY <2>1 DEF InSample, HoldOut
  <2>3. Min({InSample(p.dataset), HoldOut(p.dataset)})
          \in {InSample(p.dataset), HoldOut(p.dataset)}
    BY <2>2 DEF Min
  <2> QED
    BY <1>10, <2>3
<1> HIDE DEF a, e
<1>12. Backed(a)
  BY <1>1, <1>4, <1>5, <1>7, <1>9, <1>11 DEF Promoted, Backed
<1> QED
  BY <1>12 DEF a

(* The gates leave the research alone, but for the count of the calls.     *)
LEMMA ResearchStaysPut ==
  ASSUME ResearchInv, UNCHANGED research, calls' \in 0..MaxCalls
  PROVE  ResearchInv' /\ EvidenceGrows
  BY DEF research, stored, ResearchInv, TypeOK, OneRunInMemory,
      OutcomesOfManifests, RunsAreGrounded, Grounded, OneVersionInMemory,
      BatchesStandOnManifests, HandedOutIsRetained, HasManifest, HasBatch,
      ManifestOf, EvidenceGrows

(* Readings that stay, or were promoted before, stay grounded.             *)
LEMMA ReadingsStay ==
  ASSUME GatesInv, ResearchInv', EvidenceGrows, NEW s \in Sessions,
         reading[s] # Absent, UNCHANGED reading
  PROVE  reading[s].stage = "robustness" /\ reading[s].promotion # Absent =>
           Promoted(reading[s].promotion, reading[s].batch, reading[s].instrument)'
<1>1. reading[s] \in Reading
  BY DEF GatesInv, ReadingsAreGrounded
<1>2. /\ reading[s].batch \in BatchIds /\ reading[s].instrument \in Instruments
      /\ reading[s].promotion \in Resolved \cup {Absent}
  BY <1>1 DEF Reading
<1> QED
  BY <1>2, PromotedStays DEF GatesInv, ReadingsAreGrounded, Promoted

(* A step of the research by a session that is not assessing.              *)
LEMMA ResearchUnderGates ==
  ASSUME GatesInv, NEW s \in Sessions, reading[s] = Absent,
         Refresh(s) \/ Run(s), UNCHANGED gates
  PROVE  GatesInv'
<1>1. ResearchInv' /\ EvidenceGrows
  BY ResearchStep, ResearchGrows DEF GatesInv, Next
<1>2. /\ robustness' = robustness /\ reviews' = reviews
      /\ assessments' = assessments /\ reading' = reading
  BY DEF gates
<1>3. \A t \in Sessions : t # s => pc'[t] = pc[t]
  BY DEF GatesInv, ResearchInv, TypeOK, Refresh, Run, RunBatch, LookUpManifest,
         CheckOutcomes, InsertManifest, LookUpBatch, InsertBatch, Publish, End, Goto
<1>4. ReadingsAreGrounded'
  <2>1. ASSUME NEW t \in Sessions, reading[t] # Absent
        PROVE  /\ pc'[t] = "idle"
               /\ reading[t].stage = "robustness" /\ reading[t].promotion # Absent =>
                    Promoted(reading[t].promotion, reading[t].batch,
                             reading[t].instrument)'
    <3>1. pc'[t] = "idle"
      BY <1>3, <2>1 DEF GatesInv, ReadingsAreGrounded
    <3> QED
      BY <1>1, <1>2, <2>1, <3>1, ReadingsStay
  <2> QED
    BY <1>2, <2>1 DEF ReadingsAreGrounded, GatesInv, Promoted
<1>5. RobustnessIsDetermined' /\ RecordTypes'
  BY <1>2 DEF GatesInv, RobustnessIsDetermined, RecordTypes
<1>6. CompleteIsBacked'
  BY <1>1, <1>2, BackedStays DEF CompleteIsBacked
<1> QED
  BY <1>1, <1>4, <1>5, <1>6 DEF GatesInv

(* A gate that adds records and leaves the readings alone.                 *)
LEMMA ReadingsStayPut ==
  ASSUME GatesInv, UNCHANGED research, UNCHANGED reading, calls' \in 0..MaxCalls
  PROVE  ReadingsAreGrounded'
<1>1. ResearchInv' /\ EvidenceGrows
  BY ResearchStaysPut DEF GatesInv
<1>2. pc' = pc
  BY DEF research
<1>3. ASSUME NEW t \in Sessions, reading[t] # Absent
      PROVE  /\ pc'[t] = "idle"
             /\ reading[t].stage = "robustness" /\ reading[t].promotion # Absent =>
                  Promoted(reading[t].promotion, reading[t].batch,
                           reading[t].instrument)'
  BY <1>1, <1>2, <1>3, ReadingsStay DEF GatesInv, ReadingsAreGrounded
<1> QED
  BY <1>3 DEF GatesInv, ReadingsAreGrounded, Promoted

LEMMA EvaluateRobustnessStep ==
  ASSUME GatesInv, NEW s \in Sessions, EvaluateRobustness(s)
  PROVE  GatesInv'
<1>1. /\ UNCHANGED research /\ calls' = calls /\ reviews' = reviews
      /\ assessments' = assessments /\ reading' = reading
      /\ robustness' = robustness \cup {EvidenceOf(version)}
  BY DEF EvaluateRobustness, vars, KeepRobustness, RobustnessEvidence, EvidenceOf
<1>2. calls' \in 0..MaxCalls /\ version \in Versions
  BY <1>1 DEF GatesInv, ResearchInv, TypeOK
<1>3. ResearchInv' /\ EvidenceGrows
  BY <1>1, <1>2, ResearchStaysPut DEF GatesInv
<1>4. ReadingsAreGrounded'
  BY <1>1, <1>2, ReadingsStayPut
<1>5. RobustnessIsDetermined'
  <2>1. EvidenceOf(version).version = version
    BY DEF EvidenceOf
  <2>2. \A e \in robustness' :
          e.version \in Versions /\ e = EvidenceOf(e.version)
    BY <1>1, <1>2, <2>1 DEF GatesInv, RobustnessIsDetermined
  <2> QED
    BY <2>2 DEF RobustnessIsDetermined, EvidenceOf
<1>6. RecordTypes'
  BY <1>1 DEF GatesInv, RecordTypes
<1>7. CompleteIsBacked'
  BY <1>1, <1>3, BackedStays DEF CompleteIsBacked
<1> QED
  BY <1>3, <1>4, <1>5, <1>6, <1>7 DEF GatesInv

(* A call that is counted has a moment of its own.                         *)
LEMMA Counted ==
  ASSUME ResearchInv, Count
  PROVE  calls' \in 0..MaxCalls /\ Now \in Moments
<1>1. calls \in 0..MaxCalls /\ calls < MaxCalls /\ calls' = calls + 1 /\ MaxCalls \in Nat
  BY BoundsAssumption DEF Count, Now, ResearchInv, TypeOK
<1> QED
  BY <1>1 DEF Now, Moments

LEMMA RecordReviewStep ==
  ASSUME GatesInv, NEW s \in Sessions, NEW d \in Datasets,
         NEW declared \in SUBSET Categories, RecordReview(s, d, declared)
  PROVE  GatesInv'
<1>1. /\ UNCHANGED research /\ Count /\ robustness' = robustness
      /\ assessments' = assessments /\ reading' = reading
      /\ reviews' = reviews \cup {Review(d, declared, Now)}
  BY DEF RecordReview, gates, KeepReview
<1>2. calls' \in 0..MaxCalls /\ Now \in Moments
  BY <1>1, Counted DEF GatesInv
<1>3. ResearchInv' /\ EvidenceGrows
  BY <1>1, <1>2, ResearchStaysPut DEF GatesInv
<1>4. ReadingsAreGrounded'
  BY <1>1, <1>2, ReadingsStayPut
<1>5. RobustnessIsDetermined'
  BY <1>1 DEF GatesInv, RobustnessIsDetermined
<1>6. RecordTypes'
  <2>1. Review(d, declared, Now).dataset = d /\ Review(d, declared, Now).at = Now
    BY DEF Review
  <2> QED
    BY <1>1, <1>2, <2>1 DEF GatesInv, RecordTypes
<1>7. CompleteIsBacked'
  BY <1>1, <1>3, BackedStays DEF CompleteIsBacked
<1> QED
  BY <1>3, <1>4, <1>5, <1>6, <1>7 DEF GatesInv

(* The readings of the others stay grounded when one session reads on.     *)
LEMMA OneReads ==
  ASSUME GatesInv, NEW s \in Sessions, UNCHANGED research,
         calls' \in 0..MaxCalls, UNCHANGED <<robustness, reviews>>,
         reading' = [ reading EXCEPT ![s] = reading'[s] ],
         reading'[s] \in Reading \cup {Absent}, pc[s] = "idle",
         reading'[s] # Absent /\ reading'[s].stage = "robustness"
           /\ reading'[s].promotion # Absent =>
             Promoted(reading[s].promotion, reading[s].batch, reading[s].instrument)'
  PROVE  /\ ResearchInv' /\ EvidenceGrows /\ RobustnessIsDetermined'
         /\ ReadingsAreGrounded'
<1>1. ResearchInv' /\ EvidenceGrows /\ pc' = pc
  BY ResearchStaysPut DEF GatesInv, research
<1>2. /\ reading' \in [ Sessions -> Reading \cup {Absent} ]
      /\ \A t \in Sessions : t # s => reading'[t] = reading[t]
  BY DEF GatesInv, ReadingsAreGrounded
<1>3. ASSUME NEW t \in Sessions, reading'[t] # Absent
      PROVE  /\ pc'[t] = "idle"
             /\ reading'[t].stage = "robustness" /\ reading'[t].promotion # Absent =>
                  Promoted(reading[t].promotion, reading[t].batch,
                           reading[t].instrument)'
  <2>1. CASE t = s
    BY <1>1, <1>3, <2>1
  <2>2. CASE t # s
    <3>1. reading[t] \in Reading /\ reading'[t] = reading[t] /\ reading[t] # Absent
      BY <1>2, <1>3, <2>2 DEF GatesInv, ReadingsAreGrounded
    <3>2. /\ reading[t].batch \in BatchIds /\ reading[t].instrument \in Instruments
          /\ reading[t].promotion \in Resolved \cup {Absent}
      BY <3>1 DEF Reading
    <3>3. reading[t].promotion # Absent /\ reading[t].stage = "robustness" =>
            Promoted(reading[t].promotion, reading[t].batch, reading[t].instrument)
      BY <3>1 DEF GatesInv, ReadingsAreGrounded
    <3>4. \A p \in Resolved, id \in BatchIds, instrument \in Instruments :
            Promoted(p, id, instrument) => Promoted(p, id, instrument)'
      BY <1>1, PromotedStays DEF GatesInv
    <3> QED
      BY <1>1, <3>1, <3>2, <3>3, <3>4 DEF GatesInv, ReadingsAreGrounded, Promoted
  <2> QED
    BY <2>1, <2>2
<1>4. RobustnessIsDetermined'
  BY DEF GatesInv, RobustnessIsDetermined
<1> QED
  BY <1>1, <1>2, <1>3, <1>4 DEF ReadingsAreGrounded

LEMMA AssessStep ==
  ASSUME GatesInv, NEW s \in Sessions, NEW d \in Datasets, NEW killed \in BOOLEAN,
         Assess(s, About[d].instrument, killed)
  PROVE  GatesInv'
<1> DEFINE r == [ stage |-> "promotion", batch |-> active[s].id,
                  instrument |-> About[d].instrument, moment |-> Now,
                  killed |-> killed, view |-> View(active[s].id),
                  promotion |-> Absent ]
<1>1. /\ UNCHANGED research /\ Count /\ UNCHANGED <<robustness, reviews>>
      /\ assessments' = assessments /\ active[s] # Absent /\ pc[s] = "idle"
      /\ reading' = [ reading EXCEPT ![s] = r ]
  BY DEF Assess, Idle
<1>2. calls' \in 0..MaxCalls /\ Now \in Moments
  BY <1>1, Counted DEF GatesInv
<1>3. active[s].id \in BatchIds
  BY <1>1, LegacyAssumption DEF GatesInv, ResearchInv, TypeOK, Kept, Batch
<1>4. View(active[s].id) \in Kept \cup {Absent}
  BY <1>3, StoredType DEF View, GatesInv
<1>5. About[d].instrument \in Instruments
  BY DatasetsAssumption DEF Dataset
<1>6. r \in Reading /\ r.stage = "promotion"
  BY <1>2, <1>3, <1>4, <1>5 DEF Reading
<1>7. reading' = [ reading EXCEPT ![s] = reading'[s] ] /\ reading'[s] = r
  BY <1>1 DEF GatesInv, ReadingsAreGrounded
<1> HIDE DEF r
<1>8. /\ ResearchInv' /\ EvidenceGrows /\ RobustnessIsDetermined'
      /\ ReadingsAreGrounded'
  BY <1>1, <1>2, <1>6, <1>7, OneReads
<1>9. RecordTypes' /\ CompleteIsBacked'
  BY <1>1, <1>8, BackedStays DEF GatesInv, RecordTypes, CompleteIsBacked
<1> QED
  BY <1>8, <1>9 DEF GatesInv

LEMMA ResolvePromotionStep ==
  ASSUME GatesInv, NEW s \in Sessions, ResolvePromotion(s)
  PROVE  GatesInv'
<1> DEFINE p == Promotion(reading[s].batch, reading[s].instrument)
           r == [ reading[s] EXCEPT !.stage = "robustness", !.promotion = p ]
<1>1. /\ UNCHANGED research /\ calls' = calls /\ UNCHANGED <<robustness, reviews>>
      /\ assessments' = assessments /\ reading[s] # Absent
      /\ reading' = [ reading EXCEPT ![s] = r ]
  BY DEF ResolvePromotion, vars, GatesInv, ReadingsAreGrounded
<1>2. calls' \in 0..MaxCalls
  BY <1>1 DEF GatesInv, ResearchInv, TypeOK
<1>3. /\ reading[s] \in Reading /\ pc[s] = "idle"
      /\ reading[s].batch \in BatchIds /\ reading[s].instrument \in Instruments
  BY <1>1 DEF GatesInv, ReadingsAreGrounded, Reading
<1>4. p # Absent => /\ Promoted(p, reading[s].batch, reading[s].instrument)
                    /\ p \in Resolved
  BY <1>3, ResolvedIsPromoted DEF GatesInv, Promoted
<1>5. /\ r.stage = "robustness" /\ r.promotion = p
      /\ r.batch = reading[s].batch /\ r.instrument = reading[s].instrument
  BY <1>3 DEF Reading
<1>6. r \in Reading
  <2> HIDE DEF p
  <2> QED
    BY <1>3, <1>4 DEF Reading
<1>7. reading' = [ reading EXCEPT ![s] = reading'[s] ] /\ reading'[s] = r
  BY <1>1 DEF GatesInv, ReadingsAreGrounded
<1>8. ResearchInv' /\ EvidenceGrows
  BY <1>1, <1>2, ResearchStaysPut DEF GatesInv
<1>9. p # Absent =>
        Promoted(reading[s].promotion, reading[s].batch, reading[s].instrument)'
  <2>1. \A q \in Resolved, id \in BatchIds, instrument \in Instruments :
          Promoted(q, id, instrument) => Promoted(q, id, instrument)'
    BY <1>8, PromotedStays DEF GatesInv
  <2> HIDE DEF p, r
  <2>2. ASSUME p # Absent
        PROVE  \E q \in Resolved :
                 /\ q = reading'[s].promotion
                 /\ Promoted(q, reading[s].batch, reading[s].instrument)
    BY <1>4, <1>5, <1>7, <2>2
  <2> QED
    BY <1>3, <1>5, <1>7, <2>1, <2>2 DEF Promoted
<1> HIDE DEF p, r
<1>10. /\ RobustnessIsDetermined' /\ ReadingsAreGrounded'
  BY <1>1, <1>2, <1>3, <1>5, <1>6, <1>7, <1>9, OneReads
<1>11. RecordTypes' /\ CompleteIsBacked'
  BY <1>1, <1>8, BackedStays DEF GatesInv, RecordTypes, CompleteIsBacked
<1> QED
  BY <1>8, <1>10, <1>11 DEF GatesInv

LEMMA RetainAssessmentStep ==
  ASSUME GatesInv, NEW s \in Sessions, RetainAssessment(s)
  PROVE  GatesInv'
<1> DEFINE a == Assessment(reading[s])
<1>1. /\ UNCHANGED research /\ calls' = calls /\ UNCHANGED <<robustness, reviews>>
      /\ assessments' = assessments \cup {a}
      /\ reading[s] # Absent /\ reading[s].stage = "robustness"
      /\ reading' = [ reading EXCEPT ![s] = Absent ]
  BY DEF RetainAssessment, KeepAssessment, vars
<1>2. calls' \in 0..MaxCalls
  BY <1>1 DEF GatesInv, ResearchInv, TypeOK
<1>3. /\ reading[s] \in Reading /\ pc[s] = "idle"
      /\ reading[s].batch \in BatchIds /\ reading[s].moment \in Moments
      /\ reading[s].promotion # Absent =>
           Promoted(reading[s].promotion, reading[s].batch, reading[s].instrument)
  BY <1>1 DEF GatesInv, ReadingsAreGrounded, Reading
<1>4. reading' = [ reading EXCEPT ![s] = reading'[s] ] /\ reading'[s] = Absent
  BY <1>1 DEF GatesInv, ReadingsAreGrounded
<1>5. /\ ResearchInv' /\ EvidenceGrows /\ RobustnessIsDetermined'
      /\ ReadingsAreGrounded'
  BY <1>1, <1>2, <1>3, <1>4, OneReads
<1>6. a.batch \in BatchIds /\ a.at \in Moments
  BY <1>3 DEF Assessment
<1>7. RecordTypes'
  BY <1>1, <1>6 DEF GatesInv, RecordTypes
<1>8. Complete(a) => Backed(a)
  BY <1>3, AssessmentIsBacked
<1> HIDE DEF a
<1>9. ASSUME NEW b \in assessments', Complete(b)
      PROVE  Backed(b)'
  <2>1. CASE b \in assessments
    BY <1>1, <1>5, <1>9, <2>1, BackedStays
  <2>2. CASE b = a
    <3>1. UNCHANGED <<batches, manifests, robustness>>
      BY <1>1 DEF research, stored
    <3>2. Backed(b)
      BY <1>8, <1>9, <2>2
    <3> QED
      BY <3>1, <3>2 DEF Backed, HasBatch, HasManifest, Stored
  <2> QED
    BY <1>1, <2>1, <2>2
<1>10. CompleteIsBacked'
  BY <1>9 DEF CompleteIsBacked
<1> QED
  BY <1>5, <1>7, <1>10 DEF GatesInv

LEMMA GRestartStep ==
  ASSUME GatesInv, GRestart
  PROVE  GatesInv'
<1>1. Restart /\ reading' = [ s \in Sessions |-> Absent ]
  BY DEF GRestart
<1>2. ResearchInv'
  BY <1>1, ResearchStep DEF GatesInv, Next
<1>3. ReadingsAreGrounded'
  BY <1>1 DEF ReadingsAreGrounded
<1>4. CASE durable
  <2>1. /\ robustness' = robustness /\ reviews' = reviews
        /\ assessments' = assessments
    BY <1>4 DEF GRestart
  <2>2. EvidenceGrows
    BY <1>1, <1>4 DEF Restart, EvidenceGrows, stored
  <2>3. RobustnessIsDetermined' /\ RecordTypes'
    BY <2>1 DEF GatesInv, RobustnessIsDetermined, RecordTypes
  <2>4. CompleteIsBacked'
    BY <1>2, <2>1, <2>2, BackedStays DEF CompleteIsBacked
  <2> QED
    BY <1>2, <1>3, <2>3, <2>4 DEF GatesInv
<1>5. CASE ~durable
  <2>1. robustness' = {} /\ reviews' = {} /\ assessments' = {}
    BY <1>5 DEF GRestart
  <2>2. RobustnessIsDetermined' /\ RecordTypes' /\ CompleteIsBacked'
    BY <2>1 DEF RobustnessIsDetermined, RecordTypes, CompleteIsBacked
  <2> QED
    BY <1>2, <1>3, <2>2 DEF GatesInv
<1> QED
  BY <1>4, <1>5

LEMMA GatesInitially == GInit => GatesInv
<1> SUFFICES ASSUME GInit
             PROVE  GatesInv
  OBVIOUS
<1>1. ResearchInv
  BY ResearchInitially DEF GInit
<1>2. /\ robustness = {} /\ reviews = {} /\ assessments = {}
      /\ reading = [ s \in Sessions |-> Absent ]
  BY DEF GInit
<1> QED
  BY <1>1, <1>2 DEF GatesInv, RobustnessIsDetermined, ReadingsAreGrounded,
                    RecordTypes, CompleteIsBacked

LEMMA GatesStep == GatesInv /\ [GNext]_<<vars, gates>> => GatesInv'
<1> SUFFICES ASSUME GatesInv, GNext \/ UNCHANGED <<vars, gates>>
             PROVE  GatesInv'
  OBVIOUS
<1>1. CASE UNCHANGED <<vars, gates>>
  <2>1. UNCHANGED research /\ calls' \in 0..MaxCalls
    BY <1>1 DEF vars, GatesInv, ResearchInv, TypeOK
  <2>2. ResearchInv' /\ EvidenceGrows
    BY <2>1, ResearchStaysPut DEF GatesInv
  <2>3. ReadingsAreGrounded'
    BY <1>1, <2>1, ReadingsStayPut DEF gates
  <2>4. RobustnessIsDetermined' /\ RecordTypes'
    BY <1>1 DEF gates, GatesInv, RobustnessIsDetermined, RecordTypes
  <2>5. CompleteIsBacked'
    BY <1>1, <2>2, BackedStays DEF gates, CompleteIsBacked
  <2> QED
    BY <2>2, <2>3, <2>4, <2>5 DEF GatesInv
<1>2. ASSUME NEW s \in Sessions, reading[s] = Absent, Refresh(s) \/ Run(s),
             UNCHANGED gates
      PROVE  GatesInv'
  BY <1>2, ResearchUnderGates
<1>3. ASSUME NEW s \in Sessions, NEW d \in Datasets, NEW killed \in BOOLEAN,
             Assess(s, About[d].instrument, killed)
      PROVE  GatesInv'
  BY <1>3, AssessStep
<1>4. ASSUME NEW s \in Sessions, NEW d \in Datasets,
             NEW declared \in SUBSET Categories, RecordReview(s, d, declared)
      PROVE  GatesInv'
  BY <1>4, RecordReviewStep
<1>5. ASSUME NEW s \in Sessions,
             EvaluateRobustness(s) \/ ResolvePromotion(s) \/ RetainAssessment(s)
      PROVE  GatesInv'
  BY <1>5, EvaluateRobustnessStep, ResolvePromotionStep, RetainAssessmentStep
<1>6. CASE GRestart
  BY <1>6, GRestartStep
<1> QED
  BY <1>1, <1>2, <1>3, <1>4, <1>5, <1>6 DEF GNext

LEMMA GatesStay == GSpec => []GatesInv
  BY GatesInitially, GatesStep, PTL DEF GSpec

-----------------------------------------------------------------------------
(* The joined evidence. *)

(* An assessment names what it was made of: the manifest its batch is      *)
(* stored with, the result of its instrument in that batch, and robustness *)
(* evidence of that dataset and version.                                   *)
Named(a) ==
  /\ a.manifest # Absent =>
       /\ HasBatch(a.batch)
       /\ Stored(a.batch).manifest = a.manifest
  /\ a.dataset # Absent => a.dataset = ResultOf(a.batch, a.instrument)
  /\ a.robustness # Absent =>
       /\ Absent \notin {a.manifest, a.dataset}
       /\ a.robustness.dataset = a.dataset
       /\ a.robustness.version = a.manifest.version

RecordsAreFew == IsFiniteSet(batches) /\ IsFiniteSet(assessments)
AssessmentsAreNamed == \A a \in assessments : Named(a)

JoinInv == RecordsAreFew /\ AssessmentsAreNamed

(* A batch has one result for an instrument.                               *)
LEMMA ResultIsUnique ==
  ASSUME NEW id \in BatchIds, NEW d \in id.datasets
  PROVE  d \in Datasets /\ ResultOf(id, About[d].instrument) = d
<1> DEFINE found == { e \in id.datasets : About[e].instrument = About[d].instrument }
<1>1. PICK r \in Requests : id = BatchId(r)
  BY DEF BatchIds
<1>2. /\ r.datasets \in Seq(Datasets)
      /\ id.datasets = { r.datasets[i] : i \in DOMAIN r.datasets }
  BY <1>1, RequestTypes DEF Range
<1>3. \A i, j \in DOMAIN r.datasets :
        About[r.datasets[i]].instrument = About[r.datasets[j]].instrument => i = j
  BY RequestsAssumption
<1>4. d \in found /\ \A e \in found : e = d
  BY <1>2, <1>3
<1>5. ResultOf(id, About[d].instrument)
        = IF found = {} THEN Absent ELSE CHOOSE e \in found : TRUE
  BY DEF ResultOf
<1>6. d \in Datasets
  BY <1>1, RequestTypes
<1> HIDE DEF found
<1> QED
  BY <1>4, <1>5, <1>6

(* Of records with times there is a newest: the one whose distance from    *)
(* the last moment is the least.                                           *)
LEMMA NewestExists ==
  ASSUME NEW records, \A r \in records : r.at \in Moments, records # {}
  PROVE  Newest(records) \in records
<1> DEFINE S == { MaxCalls - r.at : r \in records }
<1>1. MaxCalls \in Nat /\ \A r \in records : r.at \in Nat /\ r.at <= MaxCalls
  BY BoundsAssumption DEF Moments
<1>2. S \in SUBSET Nat /\ S # {}
  BY <1>1
<1>3. Min(S) \in S /\ \A n \in S : Min(S) <= n
  <2> HIDE DEF S
  <2> QED
    BY <1>2, FirstPosition
<1>4. PICK r \in records : Min(S) = MaxCalls - r.at
  BY <1>3
<1>5. \A q \in records : MaxCalls - r.at <= MaxCalls - q.at
  BY <1>3, <1>4
<1>6. \A q \in records : q.at <= r.at
  BY <1>1, <1>5
<1> QED
  BY <1>6 DEF Newest

LEMMA AssessmentIsNamed ==
  ASSUME GatesInv, NEW r \in Reading,
         r.promotion # Absent => Promoted(r.promotion, r.batch, r.instrument)
  PROVE  Named(Assessment(r))
<1> DEFINE a == Assessment(r)
           p == r.promotion
           found == r.view # Absent /\ r.promotion # Absent
           e == IF found THEN MatchingRobustness(p) ELSE Absent
<1>1. /\ a.batch = r.batch /\ a.instrument = r.instrument /\ a.robustness = e
      /\ a.manifest = IF found THEN p.manifest ELSE Absent
      /\ a.dataset = IF found THEN p.dataset ELSE Absent
  BY DEF Assessment
<1>2. CASE ~found
  BY <1>1, <1>2 DEF Named
<1>3. CASE found
  <2>1. Promoted(p, r.batch, r.instrument) /\ p \in Resolved
    BY <1>3 DEF Promoted
  <2>2. r.batch \in BatchIds /\ p.dataset \in r.batch.datasets
        /\ About[p.dataset].instrument = r.instrument
    BY <2>1 DEF Promoted, Reading
  <2>3. p.dataset = ResultOf(r.batch, r.instrument)
    BY <2>2, ResultIsUnique
  <2>4. p.dataset # Absent /\ p.manifest # Absent
    BY <2>1, AbsentAssumption DEF Resolved
  <2>5. e # Absent => e.dataset = p.dataset /\ e.version = p.manifest.version
    BY <1>3, <2>1, MatchingEvidence
  <2> HIDE DEF a, e
  <2>6. Named(a)
    BY <1>1, <1>3, <2>1, <2>3, <2>4, <2>5 DEF Named, Promoted
  <2> QED
    BY <2>6 DEF a
<1> QED
  BY <1>2, <1>3

(* What an assessment names stays where it is.                             *)
LEMMA NamedStays ==
  ASSUME GatesInv, ResearchInv', EvidenceGrows, AssessmentsAreNamed
  PROVE  \A a \in assessments : Named(a)'
<1> SUFFICES ASSUME NEW a \in assessments
             PROVE  Named(a)'
  OBVIOUS
<1>1. Named(a) /\ a.batch \in BatchIds
  BY DEF AssessmentsAreNamed, GatesInv, RecordTypes
<1>2. \A id \in BatchIds : HasBatch(id) =>
        HasBatch(id)' /\ Stored(id)'.manifest = Stored(id).manifest
  BY StoredStays DEF GatesInv
<1> QED
  BY <1>1, <1>2 DEF Named

(* No step adds more than one batch.                                       *)
LEMMA BatchesStayFew ==
  ASSUME IsFiniteSet(batches), Next
  PROVE  IsFiniteSet(batches')
<1>1. \A b : IsFiniteSet({ c \in batches : c.id # b.id } \cup {b})
  <2>1. \A b : IsFiniteSet({ c \in batches : c.id # b.id })
    BY FS_Subset
  <2> QED
    BY <2>1, FS_AddElement
<1>2. ASSUME NEW s \in Sessions, InsertBatch(s)
      PROVE  IsFiniteSet(batches')
  BY <1>1, <1>2 DEF InsertBatch
<1>3. CASE UNCHANGED batches
  BY <1>3
<1>4. CASE Restart
  BY <1>4, FS_EmptySet DEF Restart, stored
<1> QED
  BY <1>2, <1>3, <1>4 DEF Next, Run, Refresh, RunBatch, LookUpManifest,
     CheckOutcomes, InsertManifest, LookUpBatch, Publish, stored

LEMMA JoinInitially == GInit => JoinInv
<1> SUFFICES ASSUME GInit
             PROVE  JoinInv
  OBVIOUS
<1>1. assessments = {} /\ (batches = LegacyBatches \/ batches = {})
  BY DEF GInit, Init
<1> QED
  BY <1>1, LegacyAssumption, FS_EmptySet DEF JoinInv, RecordsAreFew, AssessmentsAreNamed

LEMMA JoinStep ==
  ASSUME GatesInv, GatesInv', JoinInv, [GNext]_<<vars, gates>>
  PROVE  JoinInv'
<1>0. /\ RecordsAreFew /\ AssessmentsAreNamed /\ ResearchInv /\ ResearchInv'
      /\ IsFiniteSet(batches) /\ IsFiniteSet(assessments)
  BY DEF JoinInv, RecordsAreFew, GatesInv
<1>1. ASSUME EvidenceGrows, assessments' = assessments, IsFiniteSet(batches')
      PROVE  JoinInv'
  BY <1>0, <1>1, NamedStays DEF JoinInv, RecordsAreFew, AssessmentsAreNamed
<1>2. UNCHANGED research => EvidenceGrows /\ batches' = batches
  BY DEF research, stored, EvidenceGrows
<1>3. CASE UNCHANGED <<vars, gates>>
  BY <1>0, <1>1, <1>2, <1>3 DEF vars, gates
<1>4. ASSUME NEW s \in Sessions, Refresh(s) \/ Run(s), UNCHANGED gates
      PROVE  JoinInv'
  BY <1>0, <1>1, <1>4, ResearchGrows, BatchesStayFew DEF Next, gates
<1>5. ASSUME NEW s \in Sessions, EvaluateRobustness(s) \/ ResolvePromotion(s)
      PROVE  JoinInv'
  BY <1>0, <1>1, <1>2, <1>5 DEF EvaluateRobustness, ResolvePromotion, vars
<1>6. ASSUME NEW s \in Sessions, NEW d \in Datasets, NEW killed \in BOOLEAN,
             Assess(s, About[d].instrument, killed)
      PROVE  JoinInv'
  BY <1>0, <1>1, <1>2, <1>6 DEF Assess
<1>7. ASSUME NEW s \in Sessions, NEW d \in Datasets,
             NEW declared \in SUBSET Categories, RecordReview(s, d, declared)
      PROVE  JoinInv'
  BY <1>0, <1>1, <1>2, <1>7 DEF RecordReview
<1>8. ASSUME NEW s \in Sessions, RetainAssessment(s)
      PROVE  JoinInv'
  <2> DEFINE a == Assessment(reading[s])
  <2>1. /\ UNCHANGED research /\ UNCHANGED <<robustness, reviews>>
        /\ assessments' = assessments \cup {a}
        /\ reading[s] # Absent /\ reading[s].stage = "robustness"
    BY <1>8 DEF RetainAssessment, KeepAssessment, vars
  <2>2. /\ reading[s] \in Reading
        /\ reading[s].promotion # Absent =>
             Promoted(reading[s].promotion, reading[s].batch, reading[s].instrument)
    BY <2>1 DEF GatesInv, ReadingsAreGrounded
  <2>3. Named(a)
    BY <2>2, AssessmentIsNamed
  <2> HIDE DEF a
  <2>4. batches' = batches
    BY <2>1 DEF research, stored
  <2>5. \A b : Named(b) => Named(b)'
    BY <2>4 DEF Named, HasBatch, Stored
  <2>6. AssessmentsAreNamed'
    BY <1>0, <2>1, <2>3, <2>5 DEF AssessmentsAreNamed
  <2>7. IsFiniteSet(assessments')
    BY <1>0, <2>1, FS_AddElement
  <2> QED
    BY <1>0, <2>4, <2>6, <2>7 DEF JoinInv, RecordsAreFew
<1>9. CASE GRestart
  <2>1. IsFiniteSet(batches')
    BY <1>0, <1>9, BatchesStayFew DEF GRestart, Next
  <2>2. CASE durable
    <3>1. assessments' = assessments
      BY <1>9, <2>2 DEF GRestart
    <3>2. EvidenceGrows
      BY <1>9, <2>2 DEF GRestart, Restart, EvidenceGrows, stored
    <3> QED
      BY <1>1, <2>1, <3>1, <3>2
  <2>3. CASE ~durable
    <3>1. assessments' = {}
      BY <1>9, <2>3 DEF GRestart
    <3> QED
      BY <2>1, <3>1, FS_EmptySet DEF JoinInv, RecordsAreFew, AssessmentsAreNamed
  <2> QED
    BY <2>2, <2>3
<1> QED
  BY <1>3, <1>4, <1>5, <1>6, <1>7, <1>8, <1>9 DEF GNext

(* What is joined for a result is about that result.                       *)
LEMMA JoinedIsCoherent ==
  ASSUME GatesInv, JoinInv, NEW b \in batches, NEW d \in b.id.datasets,
         NEW requested \in assessments \cup {Absent}
  PROVE  Coherent(BuildManifest(b.id, About[d].instrument, requested), b.id)
<1> DEFINE id == b.id
           instrument == About[d].instrument
           view == View(id)
           paper == IF view = Absent THEN Absent
                    ELSE PaperEvidence(id, instrument, requested)
           review == IF paper = Absent THEN Absent ELSE Link(paper).review
           evidence == IF paper = Absent THEN Absent ELSE paper.robustness
           m == BuildManifest(id, instrument, requested)
<1>1. id \in BatchIds /\ HasBatch(id)
  BY LegacyAssumption DEF HasBatch, GatesInv, ResearchInv, TypeOK, Kept, Batch
<1>2. /\ m.manifest = IF view = Absent THEN Absent ELSE view.manifest
      /\ m.result = d /\ m.paper = paper
      /\ m.robustness = evidence /\ m.review = review
  BY <1>1, ResultIsUnique DEF BuildManifest
<1>3. m.conditions = {} =>
        /\ Absent \notin {view, paper, evidence, review}
        /\ Complete(paper) /\ Complete(review)
  <2>1. m.conditions =
          Flag(view = Absent, "RESEARCH_MANIFEST_EVIDENCE_MISSING")
          \cup Flag(paper = Absent, "PAPER_RUN_EVIDENCE_MISSING")
          \cup Flag(evidence = Absent, "ROBUSTNESS_EVIDENCE_MISSING")
          \cup Flag(review = Absent, "DATASET_REVIEW_EVIDENCE_MISSING")
          \cup (IF paper = Absent THEN {} ELSE paper.reasons)
          \cup (IF review = Absent THEN {} ELSE review.reasons)
    BY DEF BuildManifest
  <2> HIDE DEF view, paper, evidence, review
  <2> QED
    BY <2>1 DEF Flag, Complete
<1>4. view # Absent => view = Stored(id) /\ view.manifest # Absent
  BY <1>1 DEF View
<1>5. paper # Absent =>
        /\ view # Absent /\ paper \in assessments
        /\ paper.batch = id /\ paper.instrument = instrument
  <2> SUFFICES ASSUME paper # Absent
               PROVE  /\ view # Absent /\ paper \in assessments
                      /\ paper.batch = id /\ paper.instrument = instrument
    OBVIOUS
  <2> DEFINE matching == { a \in Rows : a.batch = id /\ a.instrument = instrument }
  <2>1. view # Absent /\ paper = PaperEvidence(id, instrument, requested)
    OBVIOUS
  <2>2. \A a \in matching :
          a \in assessments /\ a.batch = id /\ a.instrument = instrument
    BY DEF Rows, Recent
  <2>3. PaperEvidence(id, instrument, requested) =
          IF requested # Absent
          THEN IF requested \in matching THEN requested ELSE Absent
          ELSE IF Cardinality(matching) = 1
               THEN CHOOSE a \in matching : TRUE ELSE Absent
    BY DEF PaperEvidence
  <2> HIDE DEF matching, view, paper
  <2>4. paper \in matching
    <3>1. Cardinality(matching) = 1 => matching # {}
      BY FS_EmptySet
    <3> QED
      BY <2>1, <2>3, <3>1
  <2> QED
    BY <2>1, <2>2, <2>4
<1>6. paper # Absent => Named(paper)
  BY <1>5 DEF JoinInv, AssessmentsAreNamed
<1>7. review # Absent => paper.dataset # Absent /\ review.dataset = paper.dataset
  <2> SUFFICES ASSUME review # Absent
               PROVE  paper.dataset # Absent /\ review.dataset = paper.dataset
    OBVIOUS
  <2> HIDE DEF paper
  <2>1. paper.dataset # Absent /\ review = Newest(LinkedReviews(paper))
    BY DEF Link
  <2>2. \A r \in LinkedReviews(paper) : r.dataset = paper.dataset /\ r.at \in Moments
    BY DEF LinkedReviews, Recent, GatesInv, RecordTypes
  <2>3. LinkedReviews(paper) # {}
    BY <2>1 DEF Newest
  <2>4. Newest(LinkedReviews(paper)) \in LinkedReviews(paper)
    BY <2>2, <2>3, NewestExists
  <2> HIDE DEF review
  <2> QED
    BY <2>1, <2>2, <2>4
<1>8. ResultOf(id, instrument) = d
  BY <1>1, ResultIsUnique
<1> HIDE DEF m, view, paper, review, evidence
<1>9. paper # Absent =>
        /\ paper.manifest \in {Absent, m.manifest}
        /\ paper.dataset \in {Absent, m.result}
  BY <1>2, <1>4, <1>5, <1>6, <1>8 DEF Named
<1>10. evidence # Absent =>
        paper # Absent /\ evidence.dataset = m.result
                       /\ evidence.version = m.manifest.version
  <2> SUFFICES ASSUME evidence # Absent
               PROVE  paper # Absent /\ evidence.dataset = m.result
                                     /\ evidence.version = m.manifest.version
    OBVIOUS
  <2>1. paper # Absent /\ evidence = paper.robustness
    BY DEF evidence
  <2>2. /\ paper.dataset # Absent /\ paper.manifest # Absent
        /\ evidence.dataset = paper.dataset
        /\ evidence.version = paper.manifest.version
    BY <1>6, <2>1 DEF Named
  <2> QED
    BY <1>9, <2>1, <2>2
<1>11. review # Absent => review.dataset = m.result
  <2>1. review # Absent => paper # Absent
    BY DEF review
  <2> QED
    BY <1>7, <1>9, <2>1
<1>12. Coherent(m, id)
  BY <1>2, <1>3, <1>4, <1>5, <1>9, <1>10, <1>11 DEF Coherent
<1> QED
  BY <1>12 DEF m

(* Batches compared without a difference stand on the same datasets.       *)
LEMMA ComparedIsLikeForLike ==
  ASSUME ResearchInv, NEW l \in batches \ LegacyBatches,
         NEW r \in batches \ LegacyBatches, Differences(l, r) = {}
  PROVE  LikeForLike(l, r)
<1>1. l.id.datasets = r.id.datasets
  BY DEF Differences, Flag
<1>2. l.manifest.inputs = l.id /\ r.manifest.inputs = r.id
  BY DEF ResearchInv, BatchesStandOnManifests
<1> QED
  BY <1>1, <1>2 DEF LikeForLike, DetailedExportAllowed, ArtifactStatus

(* Every recent assessment is counted in one link state.                   *)
LEMMA RowsAreCounted ==
  ASSUME JoinInv
  PROVE  Cardinality(Rows) = MapThenSumSet(Linked, LinkStates)
<1> DEFINE Is(g) ==
             g = [ s \in SUBSET LinkStates |->
                     IF s = {} THEN 0
                     ELSE Linked(Choice(s)) + g[s \ {Choice(s)}] ]
           iter == CHOOSE g : Is(g)
           v == [ x \in LinkStates |-> Linked(x) ]
           f == [ a \in Rows |-> Link(a).state ]
<1>1. MapThenSumSet(Linked, LinkStates) = iter[LinkStates]
  BY DEF MapThenSumSet, MapThenFoldSet, Choice
<1>2. IsFiniteSet(LinkStates)
  <2>1. LinkStates = {"REVIEW_EVIDENCE_MISSING"} \cup {"LINKED_REVIEW_COMPLETE"}
          \cup {"LINKED_REVIEW_BLOCKED"} \cup {"LINEAGE_MISMATCH"}
    BY DEF LinkStates
  <2> QED
    BY <2>1, FS_Singleton, FS_Union
<1>3. \A s \in SUBSET LinkStates : s # {} => v[Choice(s)] = Linked(Choice(s))
  BY ChoiceIsPart
<1>4. ASSUME NEW g
      PROVE  Is(g) <=> Sums(v, SUBSET LinkStates, g)
  <2> DEFINE A(s) == IF s = {} THEN 0
                     ELSE Linked(Choice(s)) + g[s \ {Choice(s)}]
             B(s) == IF s = {} THEN 0 ELSE v[Choice(s)] + g[s \ {Choice(s)}]
  <2>1. \A s \in SUBSET LinkStates : A(s) = B(s)
    BY <1>3
  <2>2. [ s \in SUBSET LinkStates |-> A(s) ] = [ s \in SUBSET LinkStates |-> B(s) ]
    <3> HIDE DEF A, B
    <3> QED
      BY <2>1
  <2> QED
    BY <2>2, SumsRead
<1>5. \E g : Is(g)
  BY <1>2, <1>4, SumsExist
<1>6. Is(iter)
  <2> HIDE DEF Is
  <2> QED
    BY <1>5
<1>7. IsFiniteSet(Rows)
  BY FS_Subset DEF JoinInv, RecordsAreFew, Rows, Recent
<1>8. \A a \in Rows : f[a] \in LinkStates
  <2>1. \A a : Link(a).state \in LinkStates
    BY DEF Link, LinkStates
  <2> QED
    BY <2>1
<1>9. \A x \in LinkStates : v[x] = Cardinality(OfKind(Rows, f, x))
  <2>1. \A x : { a \in Rows : Link(a).state = x } = OfKind(Rows, f, x)
    BY DEF OfKind
  <2> QED
    BY <2>1 DEF Linked
<1> HIDE DEF Is, iter, v, f
<1>10. Sums(v, SUBSET LinkStates, iter)
  BY <1>4, <1>6
<1>11. iter[LinkStates] = Cardinality(Rows)
  <2>1. Counts(Rows, f, LinkStates, v)
    BY <1>2, <1>7, <1>8, <1>9 DEF Counts
  <2> QED
    BY <1>10, <2>1, CountsAddUp
<1> QED
  BY <1>1, <1>11

(* The detailed rows of a status, and all of them.                         *)
RowsOf(status) ==
  { row \in batches \X Datasets :
      row[2] \in row[1].id.datasets /\ ArtifactStatus(row[1], row[2]) = status }
AllRows == { row \in batches \X Datasets : row[2] \in row[1].id.datasets }

LEMMA ResultsAreFew ==
  ASSUME NEW id \in BatchIds
  PROVE  IsFiniteSet(id.datasets) /\ id.datasets \subseteq Datasets
<1>1. PICK r \in Requests : id = BatchId(r)
  BY DEF BatchIds
<1>2. /\ r.datasets \in Seq(Datasets) /\ id.datasets = Range(r.datasets)
      /\ id.datasets \subseteq Datasets
  BY <1>1, RequestTypes
<1>3. r.datasets \in Surjection(1..Len(r.datasets), id.datasets)
  BY <1>2 DEF Range, Surjection
<1>4. IsFiniteSet(1..Len(r.datasets))
  BY <1>2, FS_Interval
<1> QED
  BY <1>2, <1>3, <1>4, FS_Surjection

(* Every result of every batch is counted under one status.                *)
LEMMA HealthIsCounted ==
  ASSUME ResearchInv, JoinInv
  PROVE  Health("COMPLETE") + Health("UNAVAILABLE")
           = MapThenSumSet(LAMBDA b : Cardinality(b.id.datasets), batches)
<1> DEFINE Is(g) ==
             g = [ s \in SUBSET batches |->
                     IF s = {} THEN 0
                     ELSE Cardinality(Choice(s).id.datasets) + g[s \ {Choice(s)}] ]
           iter == CHOOSE g : Is(g)
           v == [ b \in batches |-> Cardinality(b.id.datasets) ]
           f == [ row \in AllRows |-> row[1] ]
<1>1. MapThenSumSet(LAMBDA b : Cardinality(b.id.datasets), batches) = iter[batches]
  BY DEF MapThenSumSet, MapThenFoldSet, Choice
<1>2. IsFiniteSet(batches)
  BY DEF JoinInv, RecordsAreFew
<1>3. \A s \in SUBSET batches :
        s # {} => v[Choice(s)] = Cardinality(Choice(s).id.datasets)
  BY ChoiceIsPart
<1>4. ASSUME NEW g
      PROVE  Is(g) <=> Sums(v, SUBSET batches, g)
  <2> DEFINE A(s) == IF s = {} THEN 0
                     ELSE Cardinality(Choice(s).id.datasets) + g[s \ {Choice(s)}]
             B(s) == IF s = {} THEN 0 ELSE v[Choice(s)] + g[s \ {Choice(s)}]
  <2>1. \A s \in SUBSET batches : A(s) = B(s)
    BY <1>3
  <2>2. [ s \in SUBSET batches |-> A(s) ] = [ s \in SUBSET batches |-> B(s) ]
    <3> HIDE DEF A, B
    <3> QED
      BY <2>1
  <2> QED
    BY <2>2, SumsRead
<1>5. \E g : Is(g)
  BY <1>2, <1>4, SumsExist
<1>6. Is(iter)
  <2> HIDE DEF Is
  <2> QED
    BY <1>5
<1>7. \A b \in batches : IsFiniteSet(b.id.datasets) /\ b.id.datasets \subseteq Datasets
  <2>1. \A b \in batches : b.id \in BatchIds
    BY LegacyAssumption DEF ResearchInv, TypeOK, Kept, Batch
  <2> QED
    BY <2>1, ResultsAreFew
<1>8. IsFiniteSet(AllRows)
  <2> DEFINE Of == [ b \in batches |-> b.id.datasets ]
             Sets == { b.id.datasets : b \in batches }
  <2>1. Of \in Surjection(batches, Sets)
    BY DEF Surjection
  <2>2. IsFiniteSet(Sets)
    <3> HIDE DEF Of, Sets
    <3> QED
      BY <1>2, <2>1, FS_Surjection
  <2>3. IsFiniteSet(UNION Sets)
    <3>1. \A S \in Sets : IsFiniteSet(S)
      BY <1>7
    <3> HIDE DEF Sets
    <3> QED
      BY <2>2, <3>1, FS_UNION
  <2>4. AllRows \in SUBSET (batches \X UNION Sets)
    BY DEF AllRows
  <2> HIDE DEF Sets
  <2> QED
    BY <1>2, <2>3, <2>4, FS_Product, FS_Subset
<1>9. \A row \in AllRows : f[row] \in batches
  BY DEF AllRows
<1>10. ASSUME NEW b \in batches
       PROVE  v[b] = Cardinality(OfKind(AllRows, f, b))
  <2>1. OfKind(AllRows, f, b) = {b} \X b.id.datasets
    BY <1>7 DEF OfKind, AllRows
  <2>2. /\ IsFiniteSet({b}) /\ Cardinality({b}) = 1
        /\ Cardinality(b.id.datasets) \in Nat
    BY <1>7, FS_Singleton, FS_CardinalityType
  <2>3. Cardinality({b} \X b.id.datasets) = 1 * Cardinality(b.id.datasets)
    BY <1>7, <2>2, FS_Product
  <2>4. Cardinality({b} \X b.id.datasets) = Cardinality(b.id.datasets)
    <3>1. PICK n \in Nat : n = Cardinality(b.id.datasets)
      BY <2>2
    <3>2. 1 * n = n
      OBVIOUS
    <3> QED
      BY <2>3, <3>1, <3>2
  <2>5. v[b] = Cardinality(b.id.datasets)
    OBVIOUS
  <2> HIDE DEF v, f
  <2> QED
    BY <2>1, <2>4, <2>5
<1> HIDE DEF Is, iter, v, f
<1>11. Sums(v, SUBSET batches, iter)
  BY <1>4, <1>6
<1>12. iter[batches] = Cardinality(AllRows)
  <2>1. Counts(AllRows, f, batches, v)
    BY <1>2, <1>8, <1>9, <1>10 DEF Counts
  <2> QED
    BY <1>11, <2>1, CountsAddUp
<1>13. Health("COMPLETE") + Health("UNAVAILABLE") = Cardinality(AllRows)
  <2>1. /\ AllRows = RowsOf("COMPLETE") \cup RowsOf("UNAVAILABLE")
        /\ RowsOf("COMPLETE") \cap RowsOf("UNAVAILABLE") = {}
    BY DEF AllRows, RowsOf, ArtifactStatus
  <2>2. \A status : IsFiniteSet(RowsOf(status))
    <3>1. \A status : RowsOf(status) \in SUBSET AllRows
      BY DEF RowsOf, AllRows
    <3> QED
      BY <1>8, <3>1, FS_Subset
  <2>3. Cardinality(AllRows) = Cardinality(RowsOf("COMPLETE"))
          + Cardinality(RowsOf("UNAVAILABLE")) - Cardinality({})
    BY <2>1, <2>2, FS_Union
  <2>4. \A status : Health(status) = Cardinality(RowsOf(status))
                    /\ Health(status) \in Nat
    BY <2>2, FS_CardinalityType DEF Health, RowsOf
  <2>5. Cardinality({}) = 0
    BY FS_EmptySet
  <2> QED
    BY <2>3, <2>4, <2>5
<1> QED
  BY <1>1, <1>12, <1>13

LEMMA CoherenceFollows == GatesInv /\ JoinInv => ManifestIsCoherent
<1> SUFFICES ASSUME GatesInv, JoinInv
             PROVE  ManifestIsCoherent
  OBVIOUS
<1>1. ResearchInv
  BY DEF GatesInv
<1>2. Health("COMPLETE") + Health("UNAVAILABLE")
        = MapThenSumSet(LAMBDA b : Cardinality(b.id.datasets), batches)
  BY <1>1, HealthIsCounted
<1>3. \A l, r \in batches \ LegacyBatches : Differences(l, r) = {} => LikeForLike(l, r)
  BY <1>1, ComparedIsLikeForLike
<1>4. \A b \in batches, requested \in assessments \cup {Absent} :
        \A d \in b.id.datasets :
          Coherent(BuildManifest(b.id, About[d].instrument, requested), b.id)
  BY JoinedIsCoherent
<1>5. Cardinality(Rows) = MapThenSumSet(Linked, LinkStates)
  BY RowsAreCounted
<1> QED
  BY <1>2, <1>3, <1>4, <1>5 DEF ManifestIsCoherent

-----------------------------------------------------------------------------
(* The results. *)

LEMMA GatesInvImplies ==
  GatesInv => /\ GTypeOK /\ CompleteIsBacked
              /\ BatchesStandOnManifests /\ HandedOutIsRetained
<1> SUFFICES ASSUME GatesInv
             PROVE  GTypeOK
  BY DEF GatesInv, ResearchInv
<1>1. \A e \in robustness :
        /\ e.dataset = RobustnessDataset /\ e.version \in Versions
        /\ e.candidates \in [ Grid -> {"CALCULATED", "INSUFFICIENT_HISTORY"} ]
  <2>1. \A v \in Versions :
          /\ EvidenceOf(v).dataset = RobustnessDataset
          /\ EvidenceOf(v).candidates \in [ Grid -> {"CALCULATED", "INSUFFICIENT_HISTORY"} ]
    BY DEF EvidenceOf, Candidate
  <2> QED
    BY <2>1 DEF GatesInv, RobustnessIsDetermined
<1>2. \A e, f \in robustness : e.version = f.version => e = f
  <2> SUFFICES ASSUME NEW e \in robustness, NEW f \in robustness,
                      e.version = f.version
               PROVE  e = f
    OBVIOUS
  <2>1. e = EvidenceOf(e.version) /\ f = EvidenceOf(f.version)
    BY DEF GatesInv, RobustnessIsDetermined
  <2> QED
    BY <2>1
<1>3. \A s \in Sessions : reading[s] # Absent =>
        pc[s] = "idle" /\ reading[s].stage \in {"promotion", "robustness"}
  BY DEF GatesInv, ReadingsAreGrounded, Reading
<1> QED
  BY <1>1, <1>2, <1>3 DEF GTypeOK, GatesInv, ResearchInv, RecordTypes

(* Every variable keeps its type and no record is kept twice.              *)
THEOREM GatesTypeCorrect == GSpec => []GTypeOK
  BY GatesInvImplies, GatesStay, PTL

(* An assessment that retains no blocker is backed by the batch, manifest, *)
(* dataset and robustness candidate it names, although the four stores are *)
(* read one after the other while other sessions write to them.            *)
THEOREM CompleteAssessmentsAreBacked == GSpec => []CompleteIsBacked
  BY GatesInvImplies, GatesStay, PTL

(* Whatever stops between the two databases and whoever runs the same      *)
(* experiment meanwhile, a retained batch stands on a retained manifest    *)
(* of its own inputs, whose datasets were accepted and have an outcome.    *)
THEOREM BatchesStand == GSpec => []BatchesStandOnManifests
  BY GatesInvImplies, GatesStay, PTL

(* What a page works with and what the bus announced is retained.          *)
THEOREM WhatIsHandedOutIsThere == GSpec => []HandedOutIsRetained
  BY GatesInvImplies, GatesStay, PTL

(* Evidence in the databases is never replaced and never taken away, by no *)
(* run, no race of two runs, no record made about it and no restart.       *)
THEOREM EvidenceStaysAsItIs == GSpec => EvidenceIsImmutable
<1> DEFINE Stay ==
      durable =>
        /\ manifests \subseteq manifests' /\ batches \subseteq batches'
        /\ \A d \in Datasets :
             outcomes[d] # Absent => outcomes'[d] = outcomes[d]
<1>1. [GNext]_<<vars, gates>> => [Stay]_vars
  <2> SUFFICES ASSUME GNext \/ UNCHANGED <<vars, gates>>, durable
               PROVE  UNCHANGED vars \/ Stay
    OBVIOUS
  <2>1. CASE UNCHANGED <<vars, gates>>
    BY <2>1
  <2>2. CASE Next
    BY <2>2, EvidenceStays
  <2>3. UNCHANGED research => Stay
    BY DEF research, stored
  <2>4. ASSUME NEW s \in Sessions,
               EvaluateRobustness(s) \/ ResolvePromotion(s) \/ RetainAssessment(s)
        PROVE  UNCHANGED research
    BY <2>4 DEF EvaluateRobustness, ResolvePromotion, RetainAssessment, vars
  <2>5. ASSUME NEW s \in Sessions, NEW d \in Datasets, NEW killed \in BOOLEAN,
               Assess(s, About[d].instrument, killed)
        PROVE  UNCHANGED research
    BY <2>5 DEF Assess
  <2>6. ASSUME NEW s \in Sessions, NEW d \in Datasets,
               NEW declared \in SUBSET Categories, RecordReview(s, d, declared)
        PROVE  UNCHANGED research
    BY <2>6 DEF RecordReview
  <2> HIDE DEF Stay
  <2> QED
    BY <2>1, <2>2, <2>3, <2>4, <2>5, <2>6 DEF GNext, GRestart, Next
<1> QED
  BY <1>1, PTL DEF GSpec, EvidenceIsImmutable

(* What the views join for a result is about that result, whichever        *)
(* records are added meanwhile and by whom: the paper-run assessment, its  *)
(* robustness evidence and the dataset review; a manifest without          *)
(* conditions has them all, and the counts miss nothing.                   *)
THEOREM JoinedEvidenceIsCoherent == GSpec => []ManifestIsCoherent
<1>1. GatesInv /\ GatesInv' /\ JoinInv /\ [GNext]_<<vars, gates>> => JoinInv'
  BY JoinStep
<1> QED
  BY <1>1, GatesStay, JoinInitially, CoherenceFollows, PTL DEF GSpec

=============================================================================
