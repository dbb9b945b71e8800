--------------------------- MODULE GoldenContract ---------------------------
(***************************************************************************)
(* The pure checks of internal/goldensuite/contract.go on the three        *)
(* decoded documents of a suite.  A check that fails ends the validation   *)
(* with an error, so a check is a predicate and their order is of no       *)
(* consequence.  The loops of the source that collect seen, excluded and   *)
(* blocked values in maps are quantifiers over positions here.             *)
(*                                                                         *)
(* Abstractions of data: a threshold is a percentage; a date, a URL, a     *)
(* key and a hash are records of what is asked of them; a source path      *)
(* "rag_quality_report.metrics." + key is a pair; the input of a case is   *)
(* the pair of its trimmed, lower-case text and its spelling.              *)
(***************************************************************************)
EXTENDS Integers, Sequences

CONSTANT None   \* nil

requiredMetrics ==
  [key \in {"overall_pass_rate", "accuracy_average", "scope_adherence_average",
            "unsupported_claim_rate", "financial_boundary_violation_rate",
            "stale_or_unauthorized_evidence_rate"} |->
     IF key \in {"overall_pass_rate", "accuracy_average",
                 "scope_adherence_average"} THEN "gte" ELSE "lte"]

allowedCategories ==
  {"scope_refusal", "grounded_product_fact", "financial_boundary",
   "product_boundary", "unsupported_claim_refusal", "human_handoff"}

evidenceOptionalCategories == {"scope_refusal", "human_handoff"}

allowedRubricDimensions == {"accuracy", "cta", "scope_adherence", "tone"}

expected ==
  [schema |-> "1.0", package |-> "rbx-rag-public-assistant",
   authority |-> "truthmetal", executor |-> "verentir", mode |-> "shadow"]

At(s) == {s[k] : k \in 1..Len(s)}

\* The k-th element of s is empty or has occurred before.
Repeats(s, k) == s[k] = "" \/ \E j \in 1..k - 1 : s[j] = s[k]

hasDuplicates(s) == \E k \in 1..Len(s) : Repeats(s, k)

\* Equal hashes are taken to mean equal bytes.
sha256Hex(content) == [length |-> 64, lower |-> TRUE, hex |-> TRUE, of |-> content]

isLowerHex(v, length) == v.length = length /\ v.lower /\ v.hex

validateSource(s) ==
  /\ s.repository =
       [scheme |-> "https", host |-> "github.com", extras |-> {},
        path |-> "/rbxrobotica/rbx-rag-public-assistant"]
  /\ isLowerHex(s.commit_sha, 40)
  /\ isLowerHex(s.quality_gate_sha256, 64) /\ isLowerHex(s.case_set_sha256, 64)
  /\ s.case_count > 0

\* Mutant: the hash of the case set is not compared.
pinsGates(m, gateBytes, caseBytes) ==
  m.accepted.quality_gate_sha256 = sha256Hex(gateBytes)

\* The manifest names its two companions by their hashes.
pins(m, gateBytes, caseBytes) ==
  /\ m.accepted.quality_gate_sha256 = sha256Hex(gateBytes)
  /\ m.accepted.case_set_sha256 = sha256Hex(caseBytes)

validateManifest(m, gateBytes, caseBytes) ==
  /\ m.schema_version = expected.schema /\ m.suite_id # ""
  /\ m.package_id = expected.package
  /\ m.status = "accepted" /\ m.authority = expected.authority
  /\ m.intended_executor = expected.executor /\ m.mode = expected.mode
  /\ m.acceptance_effective_only_on_main /\ ~m.rollout_authorized
  /\ m.proposed_at.is_date /\ m.canonical_ref = "refs/heads/main"
  /\ validateSource(m.source)
  /\ pins(m, gateBytes, caseBytes)
  /\ m.accepted.case_count > 0
  /\ m.blocked # <<>> /\ ~hasDuplicates(m.blocked)
  /\ m.source.case_count = m.accepted.case_count + Len(m.excluded)
  /\ ~hasDuplicates([k \in 1..Len(m.excluded) |-> m.excluded[k].id])
  /\ \A x \in At(m.excluded) : x.reason # ""
  /\ m.signing_trust_anchor_status \in {"pending", "accepted"}

metricValid(g, k) ==
  LET gate == g.metrics[k] IN
  /\ gate.key \in DOMAIN requiredMetrics
  /\ \A j \in 1..k - 1 : g.metrics[j].key # gate.key
  /\ gate.comparator = requiredMetrics[gate.key]
  /\ gate.threshold \in 0..100

mappingValid(mapping) ==
  /\ mapping.contract_version = "1" /\ mapping.status = "available"
  /\ DOMAIN mapping.metrics = DOMAIN requiredMetrics
  /\ \A key \in DOMAIN requiredMetrics :
       mapping.metrics[key] =
         [source |-> <<"rag_quality_report.metrics.", key>>,
          availability |-> "available"]

\* Base64 of 32 bytes, or none while the trust anchor is pending.
signingKeyValid(m, key) ==
  IF m.signing_trust_anchor_status = "pending"
  THEN key = None
  ELSE key # None /\ key.base64 /\ key.length = 32

validateQualityGates(m, g) ==
  /\ g.schema_version = expected.schema /\ g.package_id = m.package_id
  /\ g.status = "accepted" /\ g.authority = expected.authority
  /\ g.intended_executor = expected.executor
  /\ g.execution_status = "adapter-available"
  /\ g.mode = expected.mode
  /\ g.blocks_public_rollout /\ g.public_rollout_approval_required
  /\ g.minimum_evaluated_cases \in 1..m.accepted.case_count
  /\ g.minimum_consecutive_passing_runs > 0
  /\ g.acceptance_requirements # <<>>
  /\ \A k \in 1..Len(g.metrics) : metricValid(g, k)
  /\ {metric.key : metric \in At(g.metrics)} = DOMAIN requiredMetrics
  /\ mappingValid(g.verentir_mapping)
  /\ signingKeyValid(m, g.verentir_mapping.result_signing_public_key)

evidenceValid(m, item) ==
  /\ item.evidence_required # None
  /\ item.evidence_required <=> item.evidence_document_ids # <<>>
  /\ ~item.evidence_required => item.category \in evidenceOptionalCategories
  /\ ~hasDuplicates(item.evidence_document_ids)
  /\ At(item.evidence_document_ids) \cap At(m.blocked) = {}

caseValid(m, item) ==
  /\ item.locale # "" /\ item.expected_behavior # ""
  /\ item.forbidden_behaviors # <<>> /\ ~hasDuplicates(item.forbidden_behaviors)
  /\ item.category \in allowedCategories
  /\ item.status = "accepted" /\ item.owner = expected.authority
  /\ evidenceValid(m, item)
  /\ item.rubric_dimensions # <<>> /\ ~hasDuplicates(item.rubric_dimensions)
  /\ At(item.rubric_dimensions) \subseteq allowedRubricDimensions

\* Mutant: the ids are not looked up among the excluded ones.
idsUnique(m, c) == ~hasDuplicates([k \in 1..Len(c.cases) |-> c.cases[k].id])

idsValid(m, c) ==
  /\ ~hasDuplicates([k \in 1..Len(c.cases) |-> c.cases[k].id])
  /\ \A item \in At(c.cases) : item.id \notin {x.id : x \in At(m.excluded)}

validateCaseSet(m, g, c) ==
  /\ c.schema_version = expected.schema /\ c.package_id = m.package_id
  /\ c.status = "accepted" /\ c.truth_owner = expected.authority
  /\ c.intended_executor = expected.executor
  /\ c.execution_status = "adapter-available"
  /\ Len(c.cases) = m.accepted.case_count
  /\ Len(c.cases) >= g.minimum_evaluated_cases
  /\ idsValid(m, c)
  /\ ~hasDuplicates([k \in 1..Len(c.cases) |-> c.cases[k].input.normal])
  /\ \A item \in At(c.cases) : caseValid(m, item)
=============================================================================
