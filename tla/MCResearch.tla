--------------------------- MODULE MCResearch ----------------------------
(***************************************************************************)
(* Instances of ResearchEvidence and EvidenceGates small enough for TLC.   *)
(***************************************************************************)
EXTENDS EvidenceGates

CONSTANTS s1, s2, v1, v2, ALPHA, BROKER, LONG, SPARSE

(* The fixture series have 15 bars; the limit on points is 20 here.        *)
Series(name, source, kind, bars, gap) ==
  name :> [ instrument |-> name, source |-> source, kind |-> kind,
            use_case |-> "RESEARCH", interval |-> "1d", basis |-> "unadjusted",
            bars |-> bars, gap |-> gap, cutoff |-> 1, retrieved_at |-> 1 ]

Declared ==
  Series(ALPHA, "fixture", "FIXTURE", 15, "within")
    @@ Series(BROKER, "angel_one", "BROKER", 15, "within")
    @@ Series(LONG, "angel_one", "BROKER", 30, "within")
    @@ Series(SPARSE, "angel_one", "BROKER", 15, "exceeds")

Ask(universe, datasets, parameters) ==
  [ universe |-> universe, datasets |-> datasets,
    strategy |-> "sma_crossover", parameters |-> parameters,
    assumptions |-> "declared" ]

Fixture(datasets, parameters) == Ask("fixture", datasets, parameters)
Retained(dataset, parameters) == Ask("retained", <<dataset>>, parameters)

(* In the grid: a revision calculated on both halves of the series and one *)
(* that needs more bars than a half has.                                   *)
FixtureRequests ==
  { Fixture(<<ALPHA>>, "2/5"), Fixture(<<ALPHA>>, "2/6") }
RetainedRequests ==
  { Retained(LONG, "2/5"), Retained(SPARSE, "2/5") }
AllRequests == FixtureRequests \cup RetainedRequests

(* The same retained dataset under two parameter revisions.                *)
RerunRequests == { Retained(BROKER, "2/5"), Retained(BROKER, "2/6") }

GridOfTwo == {"2/5", "2/6"}
History == [ p \in GridOfTwo |-> IF p = "2/5" THEN 6 ELSE 7 ]

(* A batch kept before manifests were.                                     *)
OldBatch ==
  { [ id |-> BatchId(Fixture(<<ALPHA>>, "2/6")), manifest |-> Absent,
      created_at |-> 1 ] }

(* Sessions and versions are only compared.                                *)
Alike == Permutations(Sessions) \cup Permutations(Versions)

=============================================================================
