------------------------------ MODULE MCGolden ------------------------------
(***************************************************************************)
(* Small suites for TLC: one that is accepted, with two accepted cases and *)
(* one excluded, and suites that differ from it in one place, or in two    *)
(* that a check relates.                                                   *)
(***************************************************************************)
EXTENDS GoldenSuite

Sha(n) == [length |-> n, lower |-> TRUE, hex |-> TRUE, of |-> None]

Repository ==
  [scheme |-> "https", host |-> "github.com", extras |-> {},
   path |-> "/rbxrobotica/rbx-rag-public-assistant"]

Source(n) ==
  [repository |-> Repository, commit_sha |-> Sha(40),
   quality_gate_sha256 |-> Sha(64), case_set_sha256 |-> Sha(64),
   case_count |-> n]

Out(id) == [id |-> id, reason |-> "evidence"]

\* A manifest pinned to the contents g and c, as the release process does.
Manifest(n, k, excluded, signing, g, c) ==
  [schema_version |-> "1.0", suite_id |-> "v1",
   package_id |-> "rbx-rag-public-assistant", status |-> "accepted",
   authority |-> "truthmetal", intended_executor |-> "verentir",
   mode |-> "shadow", proposed_at |-> [is_date |-> TRUE],
   canonical_ref |-> "refs/heads/main", source |-> Source(n),
   accepted |-> [files |-> <<"quality-gates.json", "cases.json">>,
                 case_count |-> k, quality_gate_sha256 |-> sha256Hex(g),
                 case_set_sha256 |-> sha256Hex(c)],
   blocked |-> <<"d9">>, excluded |-> excluded,
   signing_trust_anchor_status |-> signing, rollout_authorized |-> FALSE,
   acceptance_effective_only_on_main |-> TRUE]

Keys ==
  <<"overall_pass_rate", "accuracy_average", "scope_adherence_average",
    "unsupported_claim_rate", "financial_boundary_violation_rate",
    "stale_or_unauthorized_evidence_rate">>

Metric(key) ==
  [key |-> key, comparator |-> requiredMetrics[key], threshold |-> 90]

Metrics == [k \in 1..6 |-> Metric(Keys[k])]

Mapping(key) ==
  [source |-> <<"rag_quality_report.metrics.", key>>,
   availability |-> "available"]

Gates(least, key, metrics) ==
  [schema_version |-> "1.0", package_id |-> "rbx-rag-public-assistant",
   status |-> "accepted", authority |-> "truthmetal",
   intended_executor |-> "verentir", execution_status |-> "adapter-available",
   mode |-> "shadow", blocks_public_rollout |-> TRUE,
   public_rollout_approval_required |-> TRUE,
   minimum_evaluated_cases |-> least, minimum_consecutive_passing_runs |-> 3,
   metrics |-> metrics, acceptance_requirements |-> <<"approval">>,
   verentir_mapping |->
     [contract_version |-> "1", status |-> "available",
      result_signing_public_key |-> key,
      metrics |-> [k \in DOMAIN requiredMetrics |-> Mapping(k)]]]

\* Inputs by their trimmed lower-case text and their spelling.
Item(id, text, evidence) ==
  [id |-> id, locale |-> "en", category |-> "scope_refusal",
   input |-> [normal |-> text, raw |-> id], expected_behavior |-> "refuse",
   forbidden_behaviors |-> <<"promise">>,
   evidence_document_ids |-> evidence, evidence_required |-> evidence # <<>>,
   rubric_dimensions |-> <<"accuracy">>, status |-> "accepted",
   owner |-> "truthmetal"]

CaseSet(cases) ==
  [schema_version |-> "1.0", package_id |-> "rbx-rag-public-assistant",
   status |-> "accepted", truth_owner |-> "truthmetal",
   intended_executor |-> "verentir", execution_status |-> "adapter-available",
   cases |-> cases]

GoodGates == Gates(2, None, Metrics)
Refusal == Item("a", "one", <<>>)
Grounded == [Item("b", "two", <<"d1">>) EXCEPT !.category = "human_handoff"]

-----------------------------------------------------------------------------
(* Documents, one wrong in one place each, or right *)

Key32 == [base64 |-> TRUE, length |-> 32]

GatesList ==
  <<GoodGates, Gates(1, None, Metrics), Gates(1, Key32, Metrics),
    Gates(0, None, Metrics), Gates(3, None, Metrics),
    Gates(1, [Key32 EXCEPT !.length = 31], Metrics),
    Gates(1, None, SubSeq(Metrics, 1, 5)),
    Gates(1, None, Metrics \o <<Metrics[1]>>),
    Gates(1, None, [Metrics EXCEPT ![2] = Metrics[1]]),
    Gates(1, None, [Metrics EXCEPT ![2].threshold = 101]),
    Gates(1, None, [Metrics EXCEPT ![2].comparator = "lte"]),
    Gates(1, None, [Metrics EXCEPT ![2].key = "latency"]),
    [GoodGates EXCEPT !.public_rollout_approval_required = FALSE],
    [GoodGates EXCEPT !.package_id = "other"],
    [GoodGates EXCEPT !.verentir_mapping.metrics =
       [k \in {"overall_pass_rate"} |-> Mapping(k)]]>>

Items ==
  <<Refusal, Grounded, [Refusal EXCEPT !.id = "b"], [Grounded EXCEPT !.id = "x"],
    [Grounded EXCEPT !.input.normal = "one"],
    [Refusal EXCEPT !.input.normal = ""],
    Item("c", "three", <<"d2">>), Item("c", "three", <<"d9">>),
    Item("c", "three", <<"d1", "d1">>),
    [Refusal EXCEPT !.category = "product_boundary"],
    [Refusal EXCEPT !.evidence_required = None],
    [Grounded EXCEPT !.evidence_required = FALSE]>>

CaseList ==
  <<CaseSet(<<Refusal, Grounded>>), CaseSet(<<Refusal>>), CaseSet(<<>>),
    CaseSet(<<Grounded, Item("c", "three", <<"d2">>)>>)>> \o
  [k \in 1..Len(Items) |-> CaseSet(<<Items[k], Refusal>>)] \o
  [k \in 1..Len(Items) |-> CaseSet(<<Items[k], Grounded>>)]

Excluded ==
  <<<<>>, <<Out("x")>>, <<Out("a")>>, <<Out("x"), Out("x")>>,
    <<Out("x"), Out("y")>>, <<Out("y")>>>>

\* One field that no other document refers to is wrong, or none is.
Variants(m) ==
  <<m, [m EXCEPT !.rollout_authorized = TRUE], [m EXCEPT !.mode = "live"],
    [m EXCEPT !.acceptance_effective_only_on_main = FALSE],
    [m EXCEPT !.source.commit_sha = Sha(39)],
    [m EXCEPT !.source.repository.extras = {"query"}],
    [m EXCEPT !.accepted.files = <<"gates.json", "cases.json">>],
    [m EXCEPT !.blocked = <<>>]>>

-----------------------------------------------------------------------------
(* Contents are named by what they decode to: gates and case sets by their *)
(* place in a list, a manifest by what sets it apart.                      *)

ManifestNames ==
  {<<"manifest", n, k, x, signing, g, c, 1>> :
     n \in 1..3, k \in 0..2, x \in 1..5,
     signing \in {"pending", "accepted"}, g \in 1..Len(GatesList), c \in 1..3} \cup
  {<<"manifest", n, 2, x, "pending", 1, c, 1>> :
     n \in 2..3, x \in 1..3, c \in 1..Len(CaseList)} \cup
  {<<"manifest", 3, 2, 2, "pending", 1, 1, v>> : v \in 1..8} \cup
  {<<"manifest", 3, 2, 6, "pending", 2, 4, 1>>}

Whole(name) == [j \in 1..Size |-> name]

Document(name) ==
  CASE name = Torn -> None
    [] name # Torn /\ name[1] = "gates" -> GatesList[name[2]]
    [] name # Torn /\ name[1] = "cases" -> CaseList[name[2]]
    [] OTHER ->
         Variants(Manifest(name[2], name[3], Excluded[name[4]], name[5],
                           Whole(<<"gates", name[6]>>),
                           Whole(<<"cases", name[7]>>)))[name[8]]

\* Of a file whose pieces are of two manifests, the first has the hashes and
\* the counts, the second all that follows; other such files do not decode.
Splice(m, n) ==
  [m EXCEPT !.blocked = n.blocked, !.excluded = n.excluded,
            !.signing_trust_anchor_status = n.signing_trust_anchor_status,
            !.rollout_authorized = n.rollout_authorized,
            !.acceptance_effective_only_on_main =
              n.acceptance_effective_only_on_main]

DocumentOf(s) ==
  IF s[1] = s[2] THEN Document(s[1])
  ELSE IF Torn \in {s[1], s[2]} \/ s[1][1] # "manifest" THEN None
  ELSE Splice(Document(s[1]), Document(s[2]))

\* The release a manifest belongs to.
Release(name) ==
  [p \in Paths |->
     CASE p = "manifest.json" -> name
       [] p = "quality-gates.json" -> <<"gates", name[6]>>
       [] p = "cases.json" -> <<"cases", name[7]>>]

Good == Release(<<"manifest", 3, 2, 2, "pending", 1, 1, 1>>)

\* The case b of Good has gone, other cases and gates have come.
Renewed == Release(<<"manifest", 3, 2, 6, "pending", 2, 4, 1>>)

\* A file that is replaced while it is open keeps its number.
TwoEach ==
  [p \in Paths |-> {p, CASE p = "manifest.json" -> "another manifest"
                        [] p = "quality-gates.json" -> "other gates"
                        [] p = "cases.json" -> "other cases"}]

\* What is already there, or one release after another.
Published ==
  {<<Release(name)>> : name \in ManifestNames} \cup
  {<<Good, Renewed>>}
=============================================================================
