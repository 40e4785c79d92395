-------------------------- MODULE ResearchEvidence --------------------------
(***************************************************************************)
(* Research runs and the evidence they retain.  A run backtests every      *)
(* selected dataset, validates it, retains a manifest of its inputs with   *)
(* the validation outcomes, retains the batch of results that names the    *)
(* manifest, and announces both on the event bus.                          *)
(*                                                                         *)
(* Manifests with their outcomes and batches live in two SQLite databases  *)
(* that browser sessions share, written in separate transactions, or in    *)
(* the dictionaries of a service that lives as long as its process.        *)
(*                                                                         *)
(* A content hash is the content it is computed from; a backtest is a      *)
(* function of dataset and parameters (module Backtest), of which only the *)
(* number of retained points matters here.                                 *)
(***************************************************************************)
EXTENDS Integers, Sequences, FiniteSets, SequencesExt

CONSTANTS
  Sessions,      \* browser sessions
  Datasets,      \* the candle datasets a run can select
  Instruments,   \* what datasets are about
  About,         \* what each of them is
  Requests,      \* what users ask for
  Versions,      \* of the strategies, installed with the program
  Pinned,        \* the validation time of every fixture run
  MaxPoints,     \* equity points the durable repository accepts per result
  RecentLimit,   \* batches a page reads when it is drawn
  LegacyBatches, \* rows the databases kept before manifests were retained
  MaxCalls,      \* bound on the calls of a behaviour
  Absent

Kinds == {"BROKER", "FIXTURE", "PUBLIC_FALLBACK"}

Dataset ==
  [ instrument : Instruments, source : STRING, kind : Kinds,
    use_case : {"RESEARCH", "LIVE"}, interval : STRING, basis : STRING,
    bars : Nat \ {0}, gap : {"within", "exceeds", "unknown"},
    cutoff : Nat, retrieved_at : Nat ]

Request ==
  [ universe : {"fixture", "retained"}, datasets : Seq(Datasets),
    strategy : STRING, parameters : STRING, assumptions : STRING ]

ASSUME DatasetsAssumption == About \in [ Datasets -> Dataset ]
(* A request maps instruments to datasets; a retained one has a single     *)
(* dataset.                                                                *)
ASSUME RequestsAssumption ==
  /\ Requests \subseteq Request
  /\ \A r \in Requests :
       /\ r.datasets # <<>>
       /\ r.universe = "retained" => Len(r.datasets) = 1
       /\ \A i, j \in DOMAIN r.datasets :
            About[r.datasets[i]].instrument = About[r.datasets[j]].instrument => i = j
ASSUME BoundsAssumption ==
  /\ Pinned \in Nat
  /\ RecentLimit \in Nat \ {0} /\ MaxPoints \in Nat /\ MaxCalls \in Nat

-----------------------------------------------------------------------------
(* The identities: a batch is named by the inputs of its results, a        *)
(* manifest also by the version of the strategy that computed them.        *)
BatchId(request) ==
  [ universe |-> request.universe, datasets |-> Range(request.datasets),
    strategy |-> request.strategy, parameters |-> request.parameters,
    assumptions |-> request.assumptions ]

ManifestId(request, version) ==
  [ inputs |-> BatchId(request), version |-> version ]

BatchIds == { BatchId(r) : r \in Requests }
ManifestIds == { ManifestId(r, v) : r \in Requests, v \in Versions }

(* The local policy about one dataset.                                     *)
Flag(condition, code) == IF condition THEN {code} ELSE {}

Errors(d) ==
  Flag(About[d].use_case # "RESEARCH", "USE_CASE_NOT_RESEARCH")
    \cup Flag(About[d].kind \notin Kinds, "SOURCE_KIND_NOT_PERMITTED")
    \cup Flag(About[d].bars < 3, "INSUFFICIENT_HISTORY")

Warnings(d) ==
  Flag(About[d].gap = "unknown", "UNSUPPORTED_INTERVAL_POLICY")
    \cup Flag(About[d].gap = "exceeds", "GAP_EXCEEDS_POLICY")
    \cup Flag(About[d].kind = "PUBLIC_FALLBACK", "PUBLIC_FALLBACK_REQUIRES_REVIEW")

Validation(d) ==
  IF Errors(d) # {} THEN "REJECTED"
  ELSE IF Warnings(d) # {} THEN "QUARANTINED" ELSE "ACCEPTED"

Comparable(datasets) ==
  /\ \A d, e \in datasets : About[d].interval = About[e].interval /\ About[d].basis = About[e].basis
  /\ \A d \in datasets : About[d].use_case = "RESEARCH"

(* What the retained-dataset service asks of the dataset it is given.      *)
Approved(d) ==
  /\ About[d].source = "angel_one" /\ About[d].kind = "BROKER" /\ About[d].use_case = "RESEARCH"
  /\ About[d].retrieved_at >= About[d].cutoff

(* The checks in memory before anything is retained.                       *)
Runnable(request) ==
  LET datasets == Range(request.datasets) IN
  /\ Comparable(datasets)
  /\ \A d \in datasets : Validation(d) = "ACCEPTED"
  /\ request.universe = "retained" => \A d \in datasets : Approved(d)

-----------------------------------------------------------------------------
VARIABLES
  durable,    \* whether evidence is kept in databases
  outcomes,   \* validation time retained for a dataset, the rest follows
  manifests,  \* retained manifests
  batches,    \* retained batches
  version,    \* of the running program
  events,     \* what the bus has announced
  active,     \* the batch each session's pages are about
  pc,         \* where each session's run has got to
  call,       \* the run each session is making
  calls       \* runs begun, and other calls of the composed module

stored == <<outcomes, manifests, batches>>
research == <<durable, stored, version, events, active, pc, call>>
vars == <<research, calls>>

(* The wall clock: every call that is counted reads a later moment.        *)
Moments == 1..MaxCalls
Now == calls + 1

Manifest == [ id : ManifestIds, created_at : Moments ]
Batch == [ id : BatchIds, manifest : ManifestIds, created_at : Moments ]
Kept == Batch \cup LegacyBatches
Stages == {"idle", "manifest", "outcomes", "insert manifest", "batch",
           "insert batch", "publish"}
Call == [ request : Requests, moment : Moments,
          missing : Datasets \cup {Absent} ]

(* The key of the table keeps the identities of the old rows unique, and   *)
(* their column for the manifest was added empty.                          *)
ASSUME LegacyAssumption ==
  /\ IsFiniteSet(LegacyBatches)
  /\ LegacyBatches \subseteq [ id : BatchIds, manifest : {Absent}, created_at : Moments ]
  /\ \A b, c \in LegacyBatches : b.id = c.id => b = c
ASSUME AbsentAssumption ==
  /\ Absent \notin Datasets /\ Absent \notin Moments /\ Absent # Pinned
  /\ Absent \notin Call /\ Absent \notin Kept /\ Absent \notin ManifestIds

Init ==
  /\ durable \in BOOLEAN
  /\ outcomes = [ d \in Datasets |-> Absent ]
  /\ manifests = {}
  /\ batches = IF durable THEN LegacyBatches ELSE {}
  /\ version \in Versions
  /\ events = {}
  /\ active = [ s \in Sessions |-> Absent ]
  /\ pc = [ s \in Sessions |-> "idle" ]
  /\ call = [ s \in Sessions |-> Absent ]
  /\ calls = 0

Goto(s, stage) == pc' = [ pc EXCEPT ![s] = stage ]

(* The run of s returns or raises.                                         *)
End(s) ==
  /\ Goto(s, "idle")
  /\ call' = [ call EXCEPT ![s] = Absent ]

ManifestOf(s) == ManifestId(call[s].request, version)
HasManifest(id) == \E m \in manifests : m.id = id
HasBatch(id) == \E b \in batches : b.id = id

NewManifest(s) == [ id |-> ManifestOf(s), created_at |-> call[s].moment ]
NewBatch(s) ==
  [ id |-> BatchId(call[s].request), manifest |-> ManifestOf(s),
    created_at |-> call[s].moment ]

ValidatedAt(s) ==
  IF call[s].request.universe = "retained" THEN call[s].moment ELSE Pinned

(* A batch and its artifact rows: one equity point for every bar.          *)
TooLarge(request) ==
  durable /\ \E d \in Range(request.datasets) : About[d].bars > MaxPoints

(* The newest batches, ties broken by their identities.                    *)
IsNewest(history) ==
  /\ history \subseteq batches
  /\ Cardinality(history) = Min({RecentLimit, Cardinality(batches)})
  /\ \A b \in history, c \in batches \ history : b.created_at >= c.created_at

(* A script run starts by reading the history: the session stays with its  *)
(* batch while that is among the newest, and goes to the newest otherwise. *)
Refresh(s) ==
  /\ pc[s] = "idle"
  /\ \E history \in SUBSET batches :
       /\ IsNewest(history)
       /\ \/ \E b \in history :
               /\ active[s] # Absent /\ b.id = active[s].id
               /\ active' = [ active EXCEPT ![s] = b ]
          \/ /\ history # {}
             /\ active[s] # Absent => \A b \in history : b.id # active[s].id
             /\ \E b \in history :
                  /\ \A c \in history : b.created_at >= c.created_at
                  /\ active' = [ active EXCEPT ![s] = b ]
          \/ /\ history = {}
             /\ active' = [ active EXCEPT ![s] = Absent ]
  /\ UNCHANGED <<durable, stored, version, events, pc, call, calls>>

(* The service of a process without databases is used by one call at a     *)
(* time; retained datasets and their service exist only with databases.    *)
RunBatch(s, request) ==
  /\ pc[s] = "idle" /\ calls < MaxCalls
  /\ ~durable => \A t \in Sessions : pc[t] = "idle"
  /\ request.universe = "retained" => durable
  /\ Runnable(request)
  /\ call' = [ call EXCEPT ![s] =
       [ request |-> request, moment |-> Now, missing |-> Absent ] ]
  /\ calls' = Now
  /\ Goto(s, "manifest")
  /\ UNCHANGED <<durable, stored, version, events, active>>

(* Mutant: a retained manifest means that the run was completed.           *)
TrustManifest(s) ==
  /\ pc[s] = "manifest"
  /\ Goto(s, IF HasManifest(ManifestOf(s)) THEN "publish"
             ELSE IF durable THEN "outcomes" ELSE "insert manifest")
  /\ UNCHANGED <<durable, stored, version, events, active, call, calls>>

LookUpManifest(s) ==
  /\ pc[s] = "manifest"
  /\ Goto(s, IF HasManifest(ManifestOf(s)) THEN "batch"
             ELSE IF durable THEN "outcomes" ELSE "insert manifest")
  /\ UNCHANGED <<durable, stored, version, events, active, call, calls>>

(* The outcomes are compared in the order of the datasets until one is     *)
(* missing; inserting that one begins the transaction.                     *)
Conflicts(s, d) == outcomes[d] \notin {Absent, ValidatedAt(s)}
Missing(s) ==
  LET datasets == call[s].request.datasets
      known == { i \in DOMAIN datasets : outcomes[datasets[i]] = Absent }
  IN IF known = {} THEN Absent ELSE datasets[Min(known)]
ConflictsBefore(s, d) ==
  \E i \in DOMAIN call[s].request.datasets :
    /\ Conflicts(s, call[s].request.datasets[i])
    /\ \A j \in 1..i : call[s].request.datasets[j] # d

CheckOutcomes(s) ==
  /\ pc[s] = "outcomes"
  /\ \/ /\ ConflictsBefore(s, Missing(s))
        /\ End(s)
     \/ /\ ~ConflictsBefore(s, Missing(s))
        /\ call' = [ call EXCEPT ![s].missing = Missing(s) ]
        /\ Goto(s, "insert manifest")
  /\ UNCHANGED <<durable, stored, version, events, active, calls>>

(* Another session may have inserted the same rows in the meantime.        *)
Clashes(s) ==
  /\ durable
  /\ \/ HasManifest(ManifestOf(s))
     \/ call[s].missing # Absent /\ outcomes[call[s].missing] # Absent
     \/ \E d \in Range(call[s].request.datasets) : Conflicts(s, d)

(* Mutant: the outcomes are left out of the transaction.                   *)
InsertManifestOnly(s) ==
  /\ pc[s] = "insert manifest"
  /\ ~Clashes(s)
  /\ manifests' = manifests \cup {NewManifest(s)}
  /\ Goto(s, "batch")
  /\ UNCHANGED <<durable, outcomes, batches, version, events, active, call, calls>>

InsertManifest(s) ==
  /\ pc[s] = "insert manifest"
  /\ \/ /\ Clashes(s)
        /\ End(s)
        /\ UNCHANGED <<outcomes, manifests>>
     \/ /\ ~Clashes(s)
        /\ manifests' = manifests \cup {NewManifest(s)}
        /\ outcomes' = [ d \in Datasets |->
             IF durable /\ d \in Range(call[s].request.datasets)
             THEN ValidatedAt(s) ELSE outcomes[d] ]
        /\ Goto(s, "batch")
        /\ UNCHANGED call
  /\ UNCHANGED <<durable, batches, version, events, active, calls>>

(* The bounds are checked first, with the manifest already retained.  A    *)
(* batch that is there stays; without databases the latest one is kept.    *)
LookUpBatch(s) ==
  /\ pc[s] = "batch"
  /\ \/ /\ TooLarge(call[s].request)
        /\ End(s)
     \/ /\ ~TooLarge(call[s].request)
        /\ Goto(s, IF durable /\ HasBatch(NewBatch(s).id)
                   THEN "publish" ELSE "insert batch")
        /\ UNCHANGED call
  /\ UNCHANGED <<durable, stored, version, events, active, calls>>

(* Mutant: the databases keep the latest as well.                          *)
ReplaceBatch(s) ==
  /\ pc[s] = "insert batch"
  /\ batches' = { b \in batches : b.id # NewBatch(s).id } \cup {NewBatch(s)}
  /\ Goto(s, "publish")
  /\ UNCHANGED <<durable, outcomes, manifests, version, events, active, call, calls>>

(* Mutant: no key keeps two batches of one identity apart.                 *)
AddBatch(s) ==
  /\ pc[s] = "insert batch"
  /\ batches' = batches \cup {NewBatch(s)}
  /\ Goto(s, "publish")
  /\ UNCHANGED <<durable, outcomes, manifests, version, events, active, call, calls>>

InsertBatch(s) ==
  /\ pc[s] = "insert batch"
  /\ \/ /\ durable /\ HasBatch(NewBatch(s).id)
        /\ End(s)
        /\ UNCHANGED batches
     \/ /\ durable => ~HasBatch(NewBatch(s).id)
        /\ batches' = { b \in batches : b.id # NewBatch(s).id }
                        \cup {NewBatch(s)}
        /\ Goto(s, "publish")
        /\ UNCHANGED call
  /\ UNCHANGED <<durable, outcomes, manifests, version, events, active, calls>>

(* Fixture runs are announced and become the page's batch; the panel of    *)
(* retained datasets shows its result and leaves both alone.               *)
Publish(s) ==
  /\ pc[s] = "publish"
  /\ IF call[s].request.universe = "fixture"
     THEN /\ events' = events \cup
               {[ batch |-> NewBatch(s).id, manifest |-> ManifestOf(s) ]}
          /\ active' = [ active EXCEPT ![s] = NewBatch(s) ]
     ELSE UNCHANGED <<events, active>>
  /\ End(s)
  /\ UNCHANGED <<durable, stored, version, calls>>

(* The process ends at any moment, and may come back as a later version.   *)
Restart ==
  /\ version' \in Versions
  /\ events' = {}
  /\ active' = [ s \in Sessions |-> Absent ]
  /\ pc' = [ s \in Sessions |-> "idle" ]
  /\ call' = [ s \in Sessions |-> Absent ]
  /\ IF durable THEN UNCHANGED stored
     ELSE /\ outcomes' = [ d \in Datasets |-> Absent ]
          /\ manifests' = {} /\ batches' = {}
  /\ UNCHANGED <<durable, calls>>

Run(s) ==
  \/ \E request \in Requests : RunBatch(s, request)
  \/ LookUpManifest(s) \/ CheckOutcomes(s) \/ InsertManifest(s)
  \/ LookUpBatch(s) \/ InsertBatch(s) \/ Publish(s)

Next == (\E s \in Sessions : Refresh(s) \/ Run(s)) \/ Restart

Spec == Init /\ [][Next]_vars

-----------------------------------------------------------------------------
(* Properties.                                                             *)

(* Every variable keeps its type, and identities stay unique.              *)
TypeOK ==
  /\ durable \in BOOLEAN
  /\ outcomes \in [ Datasets -> Moments \cup {Pinned, Absent} ]
  /\ manifests \subseteq Manifest
  /\ \A m, n \in manifests : m.id = n.id => m = n
  /\ batches \subseteq Kept
  /\ \A b, c \in batches : b.id = c.id => b = c
  /\ version \in Versions
  /\ events \subseteq [ batch : BatchIds, manifest : ManifestIds ]
  /\ active \in [ Sessions -> Kept \cup {Absent} ]
  /\ pc \in [ Sessions -> Stages ]
  /\ call \in [ Sessions -> Call \cup {Absent} ]
  /\ \A s \in Sessions : pc[s] = "idle" <=> call[s] = Absent
  /\ calls \in 0..MaxCalls

(* Whatever stops between the two databases, and whoever runs the same     *)
(* experiment meanwhile, a retained batch stands on a retained manifest of *)
(* its own inputs, whose datasets have an accepted, retained outcome.      *)
BatchesStandOnManifests ==
  \A b \in batches \ LegacyBatches :
    /\ HasManifest(b.manifest)
    /\ b.manifest.inputs = b.id
    /\ \A d \in b.id.datasets :
         /\ Validation(d) = "ACCEPTED"
         /\ durable => outcomes[d] # Absent

(* Evidence in the databases is never replaced and never taken away.       *)
EvidenceIsImmutable ==
  [][ durable =>
        /\ manifests \subseteq manifests' /\ batches \subseteq batches'
        /\ \A d \in Datasets :
             outcomes[d] # Absent => outcomes'[d] = outcomes[d] ]_vars

(* What a page works with and what the bus has announced is retained and   *)
(* is about the same inputs, also for a run that found its batch there.    *)
HandedOutIsRetained ==
  /\ \A s \in Sessions : active[s] # Absent =>
       /\ HasBatch(active[s].id)
       /\ active[s] \notin LegacyBatches =>
            HasManifest(active[s].manifest) /\ active[s].manifest.inputs = active[s].id
  /\ \A e \in events :
       HasBatch(e.batch) /\ HasManifest(e.manifest) /\ e.manifest.inputs = e.batch

(* docs/DATASET_VALIDATION.md: an accepted dataset may be included in a    *)
(* manifest and a backtest; so its retained outcome stops no later run.    *)
AcceptedRunsAreNotRefused ==
  \A s \in Sessions : pc[s] = "outcomes" =>
    \A d \in Range(call[s].request.datasets) : ~Conflicts(s, d)

=============================================================================
