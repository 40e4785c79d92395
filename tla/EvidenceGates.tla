--------------------------- MODULE EvidenceGates ----------------------------
(***************************************************************************)
(* The evidence that is recorded about retained research and the views     *)
(* that join it: robustness evaluations of a dataset under a parameter     *)
(* grid, manual dataset reviews, and the assessment of one result for a    *)
(* paper run, which reads four stores one after the other and retains what *)
(* it concluded.  None of them changes the research itself.                *)
(***************************************************************************)
EXTENDS ResearchEvidence

CONSTANTS
  RobustnessDataset,  \* the declared fixture series
  Categories,         \* of what a dataset review declares
  Grid,               \* parameters of the bounded grid
  RequiredHistory,    \* bars the strategy needs before its first signal
  RobustnessAt,       \* the recorded time of every robustness evaluation
  ReadLimit,          \* evidence records a view reads
  MaxAge              \* of evidence, for the assessments and the views

ASSUME GatesAssumption ==
  /\ RobustnessDataset \in Datasets /\ About[RobustnessDataset].use_case = "RESEARCH"
  /\ RequiredHistory \in [ Grid -> Nat ]
  /\ RobustnessAt \in Nat /\ ReadLimit \in Nat \ {0}
  /\ MaxAge \in Nat

VARIABLES
  robustness,   \* retained robustness evidence
  reviews,      \* retained dataset reviews
  assessments,  \* retained paper-run assessments
  reading       \* the assessment each session is making, or Absent

gates == <<robustness, reviews, assessments, reading>>

GInit ==
  /\ Init
  /\ robustness = {} /\ reviews = {} /\ assessments = {}
  /\ reading = [ s \in Sessions |-> Absent ]

(* A page does one thing at a time.                                        *)
Idle(s) == pc[s] = "idle" /\ reading[s] = Absent

Count == calls < MaxCalls /\ calls' = Now

(* The newest records of a store, as the views read them; no two records   *)
(* that are compared carry one time.                                       *)
Recent(records) ==
  { r \in records : Cardinality({ q \in records : q.at > r.at }) < ReadLimit }
Newest(records) ==
  IF records = {} THEN Absent
  ELSE CHOOSE r \in records : \A q \in records : q.at <= r.at

-----------------------------------------------------------------------------
(* Robustness: the series is split in two halves with one bar between.     *)
InSample(d) == About[d].bars \div 2
HoldOut(d) == About[d].bars - InSample(d) - 1

Candidate(d, parameters) ==
  IF /\ InSample(d) > RequiredHistory[parameters]
     /\ HoldOut(d) > RequiredHistory[parameters]
  THEN "CALCULATED" ELSE "INSUFFICIENT_HISTORY"

RobustnessEvidence(d) ==
  [ dataset |-> d, strategy |-> "sma_crossover", version |-> version,
    candidates |-> [ p \in Grid |-> Candidate(d, p) ],
    at |-> RobustnessAt ]

(* Every store keeps the first record of an identity; these identities     *)
(* are of all that is recorded but, for robustness, the time.              *)
KeepRobustness(e) == robustness' = robustness \cup {e}
KeepReview(r) == reviews' = reviews \cup {r}
KeepAssessment(a) == assessments' = assessments \cup {a}

EvaluateRobustness(s) ==
  /\ Idle(s)
  /\ InSample(RobustnessDataset) > 0 /\ HoldOut(RobustnessDataset) > 0
  /\ KeepRobustness(RobustnessEvidence(RobustnessDataset))
  /\ UNCHANGED <<vars, reviews, assessments, reading>>

-----------------------------------------------------------------------------
(* Reviews: for every category a declaration, or none when its reference   *)
(* was left blank; the page declares the whole dataset as of now.          *)
Declaration(moment) ==
  [ disposition |-> "REVIEWED", complete |-> TRUE, reviewed_at |-> moment ]

ReviewReasons(declaration, moment) ==
  IF declaration = Absent THEN {"REVIEW_MISSING"}
  ELSE Flag(declaration.disposition = "UNRESOLVED", "REVIEW_UNRESOLVED")
       \cup Flag(~declaration.complete, "REVIEW_SCOPE_INCOMPLETE")
       \cup Flag(declaration.reviewed_at > moment, "REVIEW_TIME_AFTER_ASSESSMENT")
       \cup Flag(moment - declaration.reviewed_at > MaxAge, "REVIEW_STALE")

Review(d, declared, moment) ==
  [ dataset |-> d, at |-> moment, declared |-> declared,
    reasons |-> UNION { ReviewReasons(
      IF c \in declared THEN Declaration(moment) ELSE Absent, moment) :
      c \in Categories } ]

RecordReview(s, d, declared) ==
  /\ Idle(s) /\ Count
  /\ About[d].kind = "FIXTURE"
  /\ KeepReview(Review(d, declared, Now))
  /\ UNCHANGED <<research, robustness, assessments, reading>>

-----------------------------------------------------------------------------
(* The joined view of a batch and the manifest it names.                   *)
Stored(id) == CHOOSE b \in batches : b.id = id
View(id) ==
  IF HasBatch(id) /\ Stored(id).manifest # Absent THEN Stored(id) ELSE Absent

ResultOf(id, instrument) ==
  LET found == { d \in id.datasets : About[d].instrument = instrument }
  IN IF found = {} THEN Absent ELSE CHOOSE d \in found : TRUE

(* What allows a result into paper proposals: an accepted validation of    *)
(* its dataset in the manifest of its batch.                               *)
Promotion(id, instrument) ==
  LET view == View(id) d == ResultOf(id, instrument) IN
  IF \/ view = Absent \/ d = Absent
     \/ view.manifest.inputs.parameters # view.id.parameters
     \/ d \notin view.manifest.inputs.datasets
     \/ Validation(d) # "ACCEPTED"
  THEN Absent
  ELSE [ batch |-> id, manifest |-> view.manifest, dataset |-> d ]

OlderThan(moment, then) == moment > then /\ moment - then > MaxAge

(* The newest robustness evidence of the dataset, strategy and version     *)
(* that has a candidate of the revision; failing that, whether there is    *)
(* evidence of other revisions only.                                       *)
Matching(promotion) ==
  { e \in Recent(robustness) :
      /\ e.dataset = promotion.dataset
      /\ e.strategy = promotion.manifest.inputs.strategy
      /\ e.version = promotion.manifest.version }

MatchingRobustness(promotion) ==
  Newest({ e \in Matching(promotion) :
             promotion.manifest.inputs.parameters \in DOMAIN e.candidates })

(* Mutant: the state of the whole grid stands for the candidate's.         *)
GridReasons(promotion, evidence, moment) ==
  IF evidence = Absent
  THEN IF Matching(promotion) # {}
       THEN {"ROBUSTNESS_PARAMETER_REVISION_MISMATCH"}
       ELSE {"ROBUSTNESS_EVIDENCE_MISSING"}
  ELSE IF \A p \in DOMAIN evidence.candidates :
            evidence.candidates[p] = "INSUFFICIENT_HISTORY"
  THEN {"ROBUSTNESS_HISTORY_INSUFFICIENT"}
  ELSE Flag(OlderThan(moment, evidence.at), "ROBUSTNESS_EVIDENCE_STALE")

RobustnessReasons(promotion, evidence, moment) ==
  IF evidence = Absent
  THEN IF Matching(promotion) # {}
       THEN {"ROBUSTNESS_PARAMETER_REVISION_MISMATCH"}
       ELSE {"ROBUSTNESS_EVIDENCE_MISSING"}
  ELSE IF \/ evidence.candidates[promotion.manifest.inputs.parameters]
               = "INSUFFICIENT_HISTORY"
          \/ \A p \in DOMAIN evidence.candidates :
               evidence.candidates[p] = "INSUFFICIENT_HISTORY"
  THEN {"ROBUSTNESS_HISTORY_INSUFFICIENT"}
  ELSE Flag(OlderThan(moment, evidence.at), "ROBUSTNESS_EVIDENCE_STALE")

(* The information cutoff of a manifest.                                   *)
Cutoff(manifest) == Max({ About[d].cutoff : d \in manifest.inputs.datasets })

(* An assessment: the page hands over the snapshot of the risk controls it *)
(* was drawn with; the view is read, then read again by the resolver.      *)
Assess(s, instrument, killed) ==
  /\ Idle(s) /\ Count /\ active[s] # Absent
  /\ ResultOf(active[s].id, instrument) # Absent
  /\ reading' = [ reading EXCEPT ![s] =
       [ stage |-> "promotion", batch |-> active[s].id,
         instrument |-> instrument, moment |-> Now, killed |-> killed,
         view |-> View(active[s].id), promotion |-> Absent ] ]
  /\ UNCHANGED <<research, robustness, reviews, assessments>>

ResolvePromotion(s) ==
  /\ reading[s] # Absent /\ reading[s].stage = "promotion"
  /\ reading' = [ reading EXCEPT ![s].stage = "robustness",
       ![s].promotion = Promotion(reading[s].batch, reading[s].instrument) ]
  /\ UNCHANGED <<vars, robustness, reviews, assessments>>

Assessment(r) ==
  LET found == r.view # Absent /\ r.promotion # Absent
      evidence == IF found THEN MatchingRobustness(r.promotion) ELSE Absent
  IN [ batch |-> r.batch, instrument |-> r.instrument,
       manifest |-> IF found THEN r.promotion.manifest ELSE Absent,
       dataset |-> IF found THEN r.promotion.dataset ELSE Absent,
       robustness |-> evidence, killed |-> r.killed,
       at |-> r.moment,
       reasons |->
         Flag(r.killed, "KILL_SWITCH_ACTIVE") \cup
         IF ~found THEN {"RESEARCH_PROMOTION_EVIDENCE_MISSING"}
         ELSE RobustnessReasons(r.promotion, evidence, r.moment) \cup
              Flag(OlderThan(r.moment, Cutoff(r.promotion.manifest)),
                   "RESEARCH_EVIDENCE_STALE") ]

RetainAssessment(s) ==
  /\ reading[s] # Absent /\ reading[s].stage = "robustness"
  /\ KeepAssessment(Assessment(reading[s]))
  /\ reading' = [ reading EXCEPT ![s] = Absent ]
  /\ UNCHANGED <<vars, robustness, reviews>>

GRestart ==
  /\ Restart
  /\ reading' = [ s \in Sessions |-> Absent ]
  /\ IF durable THEN UNCHANGED <<robustness, reviews, assessments>>
     ELSE robustness' = {} /\ reviews' = {} /\ assessments' = {}

GNext ==
  \/ \E s \in Sessions :
       \/ reading[s] = Absent /\ (Refresh(s) \/ Run(s)) /\ UNCHANGED gates
       \/ EvaluateRobustness(s)
       \/ \E d \in Datasets, declared \in SUBSET Categories :
            RecordReview(s, d, declared)
       \/ \E d \in Datasets, killed \in BOOLEAN :
            Assess(s, About[d].instrument, killed)
       \/ ResolvePromotion(s) \/ RetainAssessment(s)
  \/ GRestart

GSpec == GInit /\ [][GNext]_<<vars, gates>>

-----------------------------------------------------------------------------
(* The views that join evidence by the identities it names.                *)
Complete(record) == record.reasons = {}

LinkedReviews(a) ==
  { r \in Recent(reviews) : r.dataset = a.dataset }

Link(a) ==
  LET review == Newest(LinkedReviews(a)) IN
  [ review |-> IF a.dataset = Absent THEN Absent ELSE review,
    state |->
      IF a.dataset # Absent /\ review # Absent
      THEN IF Complete(review) THEN "LINKED_REVIEW_COMPLETE"
           ELSE "LINKED_REVIEW_BLOCKED"
      ELSE IF /\ a.dataset # Absent
              /\ \E r \in Recent(reviews) :
                   About[r.dataset].instrument = a.instrument
           THEN "LINEAGE_MISMATCH" ELSE "REVIEW_EVIDENCE_MISSING" ]

(* The dashboard's count of the rows in a link state.                      *)
LinkStates == {"REVIEW_EVIDENCE_MISSING", "LINKED_REVIEW_COMPLETE",
               "LINKED_REVIEW_BLOCKED", "LINEAGE_MISMATCH"}
Rows == Recent(assessments)
Linked(state) == Cardinality({ a \in Rows : Link(a).state = state })

(* The assessment a retained-evidence manifest is built on: the requested  *)
(* one when it is about the result, else the only one there is.            *)
(* Mutant: an assessment of another batch will do.                         *)
PaperOfInstrument(id, instrument, requested) ==
  LET matching == { a \in Rows : a.instrument = instrument } IN
  IF requested # Absent
  THEN IF requested \in matching THEN requested ELSE Absent
  ELSE IF Cardinality(matching) = 1 THEN CHOOSE a \in matching : TRUE ELSE Absent

PaperEvidence(id, instrument, requested) ==
  LET matching == { a \in Rows : a.batch = id /\ a.instrument = instrument } IN
  IF requested # Absent
  THEN IF requested \in matching THEN requested ELSE Absent
  ELSE IF Cardinality(matching) = 1 THEN CHOOSE a \in matching : TRUE ELSE Absent

BuildManifest(id, instrument, requested) ==
  LET view == View(id)
      paper == IF view = Absent THEN Absent
               ELSE PaperEvidence(id, instrument, requested)
      review == IF paper = Absent THEN Absent ELSE Link(paper).review
      evidence == IF paper = Absent THEN Absent ELSE paper.robustness
  IN [ manifest |-> IF view = Absent THEN Absent ELSE view.manifest,
       result |-> ResultOf(id, instrument), paper |-> paper,
       robustness |-> evidence, review |-> review,
       conditions |->
         Flag(view = Absent, "RESEARCH_MANIFEST_EVIDENCE_MISSING")
         \cup Flag(paper = Absent, "PAPER_RUN_EVIDENCE_MISSING")
         \cup Flag(evidence = Absent, "ROBUSTNESS_EVIDENCE_MISSING")
         \cup Flag(review = Absent, "DATASET_REVIEW_EVIDENCE_MISSING")
         \cup (IF paper = Absent THEN {} ELSE paper.reasons)
         \cup (IF review = Absent THEN {} ELSE review.reasons) ]

(* Detailed rows were not retained for the oldest batches; the rest are    *)
(* written in the transaction of their batch.                              *)
ArtifactStatus(batch, d) ==
  IF batch \in LegacyBatches THEN "UNAVAILABLE" ELSE "COMPLETE"

DetailedExportAllowed(batch) ==
  \A d \in batch.id.datasets : ArtifactStatus(batch, d) = "COMPLETE"

Health(status) ==
  Cardinality({ row \in batches \X Datasets :
    row[2] \in row[1].id.datasets /\ ArtifactStatus(row[1], row[2]) = status })

(* The comparison of two batches, of one strategy or of two.               *)
Differences(l, r) ==
  Flag(l.id.universe # r.id.universe, "universe_id") \cup
  IF { About[d].instrument : d \in l.id.datasets }
       # { About[d].instrument : d \in r.id.datasets }
  THEN {"instrument_set"}
  ELSE Flag(l.id.datasets # r.id.datasets, "dataset_id")
       \cup Flag(l.id.assumptions # r.id.assumptions, "assumptions")

-----------------------------------------------------------------------------
(* Properties.                                                             *)

(* Every variable keeps its type, and no record is kept under two          *)
(* identities.                                                             *)
GTypeOK ==
  /\ TypeOK
  /\ \A e \in robustness :
       /\ e.dataset = RobustnessDataset /\ e.version \in Versions
       /\ e.candidates \in [ Grid -> {"CALCULATED", "INSUFFICIENT_HISTORY"} ]
  /\ \A e, f \in robustness : e.version = f.version => e = f
  /\ \A r \in reviews : r.dataset \in Datasets /\ r.at \in Moments
  /\ \A a \in assessments : a.batch \in BatchIds /\ a.at \in Moments
  /\ \A s \in Sessions : reading[s] # Absent =>
       pc[s] = "idle" /\ reading[s].stage \in {"promotion", "robustness"}

(* An assessment without blockers is backed by what it names: the batch,   *)
(* its manifest, an accepted dataset and a robustness candidate calculated *)
(* on both halves of that dataset by the same version for the same         *)
(* parameters, none too old, and an inactive kill switch.                  *)
Backed(a) ==
  /\ HasBatch(a.batch) /\ HasManifest(a.manifest)
  /\ Stored(a.batch).manifest = a.manifest
  /\ a.dataset \in a.batch.datasets /\ About[a.dataset].instrument = a.instrument
  /\ Validation(a.dataset) = "ACCEPTED"
  /\ a.robustness \in robustness
  /\ a.robustness.dataset = a.dataset
  /\ a.robustness.version = a.manifest.version
  /\ a.batch.parameters \in Grid
  /\ Min({InSample(a.dataset), HoldOut(a.dataset)}) > RequiredHistory[a.batch.parameters]
  /\ ~OlderThan(a.at, Cutoff(a.manifest))
  /\ ~a.killed

CompleteIsBacked == \A a \in assessments : Complete(a) => Backed(a)

(* The pieces joined for a result are about that result, whichever records *)
(* were added since, and a manifest without conditions has all of them,    *)
(* complete; the dashboard counts every row in one link state, and batches *)
(* compared without a difference stand on manifests of the same datasets.  *)
Coherent(m, id) ==
  /\ m.paper # Absent =>
       /\ m.paper.batch = id
       /\ m.paper.manifest \in {Absent, m.manifest}
       /\ m.paper.dataset \in {Absent, m.result}
  /\ m.robustness # Absent =>
       m.robustness.dataset = m.result /\ m.robustness.version = m.manifest.version
  /\ m.review # Absent => m.review.dataset = m.result
  /\ m.conditions = {} =>
       /\ Absent \notin {m.manifest, m.paper, m.robustness, m.review}
       /\ Complete(m.paper) /\ Complete(m.review)

LikeForLike(l, r) ==
  /\ l.manifest.inputs.datasets = r.manifest.inputs.datasets
  /\ DetailedExportAllowed(l) /\ DetailedExportAllowed(r)

ManifestIsCoherent ==
  /\ Health("COMPLETE") + Health("UNAVAILABLE")
       = MapThenSumSet(LAMBDA b : Cardinality(b.id.datasets), batches)
  /\ \A l, r \in batches \ LegacyBatches : Differences(l, r) = {} => LikeForLike(l, r)
  /\ \A b \in batches, requested \in assessments \cup {Absent} :
       \A d \in b.id.datasets :
         Coherent(BuildManifest(b.id, About[d].instrument, requested), b.id)
  /\ Cardinality(Rows) =
       MapThenSumSet(Linked, LinkStates)

=============================================================================
