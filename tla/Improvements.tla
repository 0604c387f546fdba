----------------------------- MODULE Improvements -----------------------------
(***************************************************************************)
(* What is proposed for a trace that did not pass                           *)
(* (easyobs/eval/services/improvements.py and improvement_catalog.py).      *)
(*                                                                         *)
(* A remedy (a "detail" of the catalogue) rolls up to one of eight           *)
(* categories, by which the packs filter.  Labels, summaries, actions and     *)
(* locales are left out, and custom categories, which no caller passes.      *)
(***************************************************************************)
EXTENDS Integers, Sequences, SequencesExt

CONSTANT None    \* no cause, no category

Rows(group, effort, category, names) == [n \in names |-> [group |-> group, effort |-> effort, category |-> category]]
To(target, names) == [n \in names |-> target]
-------------------------------------------------------------------------------
(* The remedies, with their effort and category.                            *)

PromptDetails == Rows("prompt", "low", "prompt_clarity", {"prompt.rewrite", "prompt.system_split",
        "prompt.few_shot", "prompt.ko_localize", "prompt.checklist", "prompt.tone_guide"})
    @@ Rows("prompt", "low", "context_grounding", {"prompt.grounding"})
    @@ Rows("prompt", "low", "answer_format", {"prompt.length_constraint"})
    @@ Rows("prompt", "low", "safety_guardrails", {"prompt.refusal_policy"})
QueryDetails == Rows("query", "medium", "prompt_clarity", {"query.intent_taxonomy", "query.clarify_turn",
        "query.router"})
RetrievalDetails == Rows("retrieval", "low", "retrieval_quality", {"retrieval.tune", "retrieval.dedup"})
    @@ Rows("retrieval", "medium", "retrieval_quality", {"retrieval.reranker", "retrieval.query_expand",
        "retrieval.metadata_filter"})
    @@ Rows("retrieval", "high", "retrieval_quality", {"retrieval.chunking", "retrieval.embedding"})
    @@ Rows("retrieval", "medium", "performance_budget", {"retrieval.compress"})
ContextDetails == Rows("context", "low", "context_grounding", {"context.attribution", "context.ordering"})
ToolDetails == Rows("tool", "low", "tool_orchestration", {"tool.spec", "tool.remove", "tool.policy"})
    @@ Rows("tool", "high", "tool_orchestration", {"tool.add"})
    @@ Rows("tool", "medium", "tool_orchestration", {"tool.cache"})
AgentDetails == Rows("agent", "medium", "tool_orchestration", {"agent.planner_template",
        "agent.synthesis_template"})
    @@ Rows("agent", "low", "tool_orchestration", {"agent.path_limit"})
FormatDetails == Rows("format", "low", "answer_format", {"format.guard", "format.citation"})
    @@ Rows("format", "medium", "answer_format", {"format.schema"})
SafetyDetails == Rows("safety", "low", "safety_guardrails", {"safety.policy", "safety.refusal",
        "safety.injection_guard", "safety.exfil_filter", "safety.secret_rotate"})
    @@ Rows("safety", "medium", "safety_guardrails", {"safety.pii_mask", "safety.jailcanary",
        "safety.secret_egress", "safety.judge_sanitize", "safety.audit_log", "safety.ingest_redact"})
SupplyDetails == Rows("supply", "high", "safety_guardrails", {"supply.vendor_review"})
    @@ Rows("supply", "medium", "safety_guardrails", {"supply.sbom"})
    @@ Rows("supply", "low", "safety_guardrails", {"supply.sourcemap_strip", "supply.cache_acl"})
ModelDetails == Rows("model", "medium", "model_choice", {"model.swap", "model.judge_swap"})
    @@ Rows("model", "low", "model_choice", {"model.params"})
DatasetDetails == Rows("dataset", "medium", "prompt_clarity", {"dataset.expand", "dataset.relabel",
        "dataset.curate"})
InfraDetails == Rows("infra", "medium", "performance_budget", {"infra.cache", "infra.parallel"})
    @@ Rows("infra", "low", "performance_budget", {"infra.timeout", "infra.retry"})

Details == PromptDetails @@ QueryDetails @@ RetrievalDetails @@ ContextDetails @@ ToolDetails @@ AgentDetails @@
    FormatDetails @@ SafetyDetails @@ SupplyDetails @@ ModelDetails @@ DatasetDetails @@ InfraDetails
-------------------------------------------------------------------------------
(* Causes, each with its first remedy and the others to try.                *)

QueryCauses ==
    "query.intent_mismatch" :> <<"query.intent_taxonomy", "prompt.few_shot", "query.router", "dataset.expand">> @@
    "query.rewrite_drift" :> <<"prompt.rewrite", "prompt.few_shot", "model.params">> @@
    "query.ambiguous" :> <<"query.clarify_turn", "prompt.refusal_policy", "query.intent_taxonomy">> @@
    "query.slot_missing" :> <<"tool.spec", "query.clarify_turn", "format.schema">> @@
    "query.lang_mismatch" :> <<"query.router", "prompt.ko_localize", "safety.policy">> @@
    "query.complexity_high" :> <<"query.router", "agent.planner_template", "model.swap">>
RetrievalCauses ==
    "retrieval.recall_low" :> <<"retrieval.tune", "retrieval.query_expand", "retrieval.embedding",
        "dataset.curate">> @@
    "retrieval.noise_high" :> <<"retrieval.reranker", "retrieval.metadata_filter", "retrieval.tune">> @@
    "retrieval.first_hit_late" :> <<"retrieval.reranker", "retrieval.tune", "context.ordering">> @@
    "retrieval.miss" :> <<"retrieval.tune", "retrieval.query_expand", "dataset.expand">> @@
    "retrieval.rank_quality" :> <<"retrieval.reranker", "retrieval.embedding", "context.ordering">> @@
    "retrieval.precision_low" :> <<"retrieval.reranker", "retrieval.tune", "retrieval.metadata_filter">> @@
    "retrieval.chunk_irrelevant" :> <<"retrieval.embedding", "retrieval.chunking", "retrieval.reranker">> @@
    "retrieval.coverage_low" :> <<"retrieval.tune", "retrieval.query_expand", "dataset.curate">> @@
    "retrieval.filter_wrong" :> <<"retrieval.metadata_filter", "format.schema">> @@
    "retrieval.rerank_no_gain" :> <<"retrieval.reranker", "retrieval.embedding">> @@
    "retrieval.dup_high" :> <<"retrieval.dedup", "retrieval.tune">> @@
    "retrieval.latency_over" :> <<"infra.cache", "infra.parallel", "retrieval.tune", "infra.timeout">>
ContextCauses == "context.noise" :> <<"retrieval.metadata_filter", "retrieval.reranker">> @@
    "context.dup" :> <<"retrieval.dedup", "retrieval.tune">> @@
    "context.token_waste" :> <<"retrieval.compress", "prompt.length_constraint", "retrieval.tune">> @@
    "context.insufficient" :> <<"retrieval.tune", "retrieval.query_expand", "dataset.curate">> @@
    "context.order_bad" :> <<"context.ordering", "retrieval.reranker">> @@
    "context.attribution_missing" :> <<"context.attribution", "prompt.grounding">> @@
    "context.sim_low" :> <<"retrieval.embedding", "retrieval.chunking">>
AnswerCauses == "gen.relevance_low" :> <<"prompt.rewrite", "retrieval.tune", "model.params">> @@
    "gen.incorrect" :> <<"dataset.expand", "prompt.few_shot", "model.swap", "dataset.relabel">> @@
    "gen.unfaithful" :> <<"prompt.grounding", "format.citation", "safety.refusal">> @@
    "gen.hallucination" :> <<"prompt.grounding", "prompt.refusal_policy", "safety.policy">> @@
    "gen.incomplete" :> <<"prompt.checklist", "prompt.few_shot", "dataset.curate">> @@
    "gen.verbose" :> <<"prompt.length_constraint", "model.params">> @@
    "gen.tone_off" :> <<"prompt.tone_guide", "prompt.few_shot">> @@
    "gen.policy_violation" :> <<"safety.policy", "prompt.refusal_policy", "prompt.rewrite">> @@
    "gen.citation_wrong" :> <<"format.citation", "prompt.grounding">> @@
    "gen.format_invalid" :> <<"format.guard", "format.schema", "prompt.rewrite">> @@
    "gen.grammar" :> <<"prompt.ko_localize", "model.swap">> @@
    "gen.refusal_bad" :> <<"prompt.refusal_policy", "safety.refusal", "dataset.curate">>
ToolCauses == "tool.wrong" :> <<"tool.spec", "prompt.few_shot", "agent.planner_template", "tool.remove">> @@
    "tool.arg_invalid" :> <<"tool.spec", "format.schema", "prompt.checklist">> @@
    "tool.fail" :> <<"tool.policy", "infra.retry", "infra.timeout">> @@
    "tool.retry_high" :> <<"tool.policy", "infra.retry">> @@
    "tool.over_call" :> <<"tool.policy", "tool.cache">> @@
    "agent.plan_wrong" :> <<"agent.planner_template", "prompt.few_shot", "tool.spec">> @@
    "agent.path_long" :> <<"agent.path_limit", "agent.planner_template">> @@
    "agent.synthesis_low" :> <<"agent.synthesis_template", "prompt.checklist">>
OperationCauses == "ops.latency_over" :> <<"infra.cache", "infra.parallel", "model.swap">> @@
    "ops.gen_slow" :> <<"model.swap", "model.params", "prompt.length_constraint">> @@
    "ops.cost_over" :> <<"model.swap", "infra.cache", "retrieval.compress", "prompt.length_constraint">> @@
    "ops.token_over" :> <<"prompt.length_constraint", "retrieval.compress", "retrieval.tune">> @@
    "ops.failure" :> <<"infra.retry", "infra.timeout", "tool.policy">>
HumanCauses == "human.dislike" :> <<"dataset.expand", "prompt.rewrite", "query.intent_taxonomy">> @@
    "human.complaint" :> <<"dataset.expand", "prompt.tone_guide", "prompt.rewrite">> @@
    "human.incorrect" :> <<"dataset.relabel", "dataset.curate", "prompt.few_shot">> @@
    "human.taxonomy" :> <<"dataset.curate">> @@
    "human.csat_low" :> <<"prompt.rewrite", "prompt.tone_guide", "dataset.expand">>
SecurityCauses ==
    "safety.injection_attempt" :> <<"safety.injection_guard", "prompt.system_split", "prompt.refusal_policy",
        "safety.policy">> @@
    "safety.jailbreak_drift" :> <<"safety.jailcanary", "prompt.refusal_policy", "model.judge_swap",
        "safety.audit_log">> @@
    "safety.exfil_url" :> <<"safety.exfil_filter", "safety.policy", "format.guard">> @@
    "safety.secret_egress" :> <<"safety.secret_egress", "safety.pii_mask", "tool.spec", "safety.ingest_redact">> @@
    "safety.self_redact" :> <<"safety.audit_log", "safety.jailcanary", "model.judge_swap">> @@
    "supply.third_party_breach" :> <<"supply.vendor_review", "safety.secret_rotate", "safety.audit_log",
        "supply.cache_acl">> @@
    "supply.sourcemap_leak" :> <<"supply.sourcemap_strip", "supply.sbom", "supply.cache_acl">> @@
    "supply.public_cache" :> <<"supply.cache_acl", "supply.vendor_review", "safety.audit_log">>

Causes == QueryCauses @@ RetrievalCauses @@ ContextCauses @@ AnswerCauses @@ ToolCauses @@ OperationCauses @@
    HumanCauses @@ SecurityCauses

(* Evaluators, with their cause, their remedy and their category.             *)

EvaluatorToCause == To("gen.verbose", {"rule.response.length"}) @@
    To("gen.format_invalid", {"rule.response.json"}) @@ To("query.lang_mismatch", {"rule.response.language"}) @@
    To("gen.incomplete", {"rule.response.present"}) @@
    To("gen.citation_wrong", {"rule.response.citation_accuracy"}) @@
    To("gen.policy_violation", {"rule.safety.no_pii", "rule.safety.no_secret", "rule.safety.no_profanity"}) @@
    To("retrieval.recall_low", {"rule.retrieval.recall_at_k"}) @@
    To("retrieval.precision_low", {"rule.retrieval.precision_at_k"}) @@
    To("retrieval.first_hit_late", {"rule.retrieval.mrr"}) @@
    To("retrieval.miss", {"rule.retrieval.hit_rate_at_k"}) @@
    To("retrieval.rank_quality", {"rule.retrieval.ndcg_at_k_binary", "rule.retrieval.map_binary"}) @@
    To("retrieval.rerank_no_gain", {"rule.retrieval.reranker_gain"}) @@
    To("retrieval.dup_high", {"rule.retrieval.dup_ratio"}) @@
    To("retrieval.latency_over", {"rule.retrieval.step_latency"}) @@
    To("context.dup", {"rule.context.dup_chunks"}) @@ To("context.token_waste", {"rule.context.token_waste"}) @@
    To("context.sim_low", {"rule.context.chunk_semantic_similarity"}) @@
    To("tool.wrong", {"rule.tool.selection_accuracy"}) @@
    To("tool.arg_invalid", {"rule.tool.argument_validity"}) @@ To("tool.fail", {"rule.tool.success_rate"}) @@
    To("tool.retry_high", {"rule.tool.retry_count"}) @@ To("agent.path_long", {"rule.agent.no_tool_loop"}) @@
    To("ops.failure", {"rule.status.ok"}) @@ To("query.intent_mismatch", {"rule.query.intent_match"}) @@
    To("query.complexity_high", {"rule.query.complexity"}) @@ To("ops.latency_over", {"rule.perf.latency"}) @@
    To("ops.token_over", {"rule.perf.token_budget"}) @@ To("ops.cost_over", {"rule.perf.cost_budget"}) @@
    To("ops.gen_slow", {"rule.perf.model_infer_latency"}) @@
    To("gen.relevance_low", {"rule.custom.dsl", "judge.consensus"}) @@
    To("safety.injection_attempt", {"rule.safety.injection_pattern"}) @@
    To("safety.jailbreak_drift", {"rule.safety.jailbreak_canary"}) @@
    To("safety.exfil_url", {"rule.safety.exfil_url"}) @@
    To("safety.secret_egress", {"rule.tool.secret_egress"}) @@
    To("safety.self_redact", {"rule.safety.self_redact"})

FindingToDetail == To("prompt.length_constraint", {"rule.response.length", "rule.perf.token_budget"}) @@
    To("format.guard", {"rule.response.json"}) @@
    To("query.router", {"rule.response.language", "rule.query.complexity"}) @@
    To("prompt.rewrite", {"rule.response.present", "rule.custom.dsl", "judge.consensus"}) @@
    To("format.citation", {"rule.response.citation_accuracy"}) @@
    To("safety.pii_mask", {"rule.safety.no_pii"}) @@
    To("safety.policy", {"rule.safety.no_secret", "rule.safety.no_profanity"}) @@
    To("retrieval.tune", {"rule.retrieval.recall_at_k", "rule.retrieval.hit_rate_at_k"}) @@
    To("retrieval.reranker", {"rule.retrieval.precision_at_k", "rule.retrieval.mrr",
        "rule.retrieval.ndcg_at_k_binary", "rule.retrieval.map_binary", "rule.retrieval.reranker_gain"}) @@
    To("retrieval.dedup", {"rule.retrieval.dup_ratio", "rule.context.dup_chunks"}) @@
    To("infra.cache", {"rule.retrieval.step_latency", "rule.perf.latency"}) @@
    To("retrieval.compress", {"rule.context.token_waste"}) @@
    To("retrieval.embedding", {"rule.context.chunk_semantic_similarity"}) @@
    To("tool.spec", {"rule.tool.selection_accuracy", "rule.tool.argument_validity"}) @@
    To("tool.policy", {"rule.tool.success_rate", "rule.tool.retry_count", "rule.status.ok"}) @@
    To("query.intent_taxonomy", {"rule.query.intent_match"}) @@
    To("model.swap", {"rule.perf.cost_budget", "rule.perf.model_infer_latency"}) @@
    To("agent.path_limit", {"rule.agent.no_tool_loop"}) @@
    To("safety.injection_guard", {"rule.safety.injection_pattern"}) @@
    To("safety.jailcanary", {"rule.safety.jailbreak_canary"}) @@
    To("safety.exfil_filter", {"rule.safety.exfil_url"}) @@
    To("safety.secret_egress", {"rule.tool.secret_egress"}) @@
    To("safety.audit_log", {"rule.safety.self_redact"})

FindingToCategory == To("answer_format", {"rule.response.length", "rule.response.json"}) @@
    To("prompt_clarity", {"rule.response.language", "rule.response.present", "rule.custom.dsl",
        "judge.consensus"}) @@
    To("safety_guardrails", {"rule.safety.no_pii", "rule.safety.no_secret", "rule.safety.no_profanity",
        "rule.safety.injection_pattern", "rule.safety.jailbreak_canary", "rule.safety.exfil_url",
        "rule.tool.secret_egress", "rule.safety.self_redact"}) @@
    To("retrieval_quality", {"rule.retrieval.recall_at_k", "rule.retrieval.precision_at_k",
        "rule.retrieval.mrr"}) @@
    To("performance_budget", {"rule.perf.latency", "rule.perf.token_budget", "rule.perf.cost_budget"}) @@
    To("tool_orchestration", {"rule.status.ok", "rule.agent.no_tool_loop"})

\* A metric is known by its group's letter.
LetterOf == [m \in {"metric.a", "metric.b", "metric.c", "metric.d", "metric.e", "metric.f", "metric.g", "metric.z"} |->
    CASE m = "metric.a" -> "a" [] m = "metric.b" -> "b" [] m = "metric.c" -> "c" [] m = "metric.d" -> "d"
      [] m = "metric.e" -> "e" [] m = "metric.f" -> "f" [] m = "metric.g" -> "g" [] OTHER -> "z"]
LetterToDetail == [a |-> "query.router", b |-> "retrieval.tune", c |-> "retrieval.dedup", d |-> "prompt.rewrite",
                   e |-> "tool.spec", f |-> "infra.cache", g |-> "dataset.expand"]
LetterToCategory == [b |-> "retrieval_quality", c |-> "context_grounding", d |-> "answer_format",
                     e |-> "tool_orchestration", f |-> "performance_budget"]

\* The first remedy of each category, in the order of the catalogue.
FirstDetail == [prompt_clarity |-> "prompt.rewrite", context_grounding |-> "prompt.grounding",
                answer_format |-> "prompt.length_constraint", safety_guardrails |-> "prompt.refusal_policy",
                retrieval_quality |-> "retrieval.tune", performance_budget |-> "retrieval.compress",
                tool_orchestration |-> "tool.spec", model_choice |-> "model.swap"]
Categories == DOMAIN FirstDetail

Packs == [easyobs_standard |-> Categories,
          easyobs_security |-> {"safety_guardrails", "prompt_clarity", "answer_format", "context_grounding"},
          easyobs_rag |-> {"retrieval_quality", "context_grounding", "prompt_clarity"},
          easyobs_efficiency |-> {"performance_budget", "model_choice", "tool_orchestration"}]
-------------------------------------------------------------------------------
(* A finding has an evaluator, a cause or None, a score and a verdict.       *)

Allowed(pack) == IF pack \in DOMAIN Packs THEN Packs[pack] ELSE Categories

Category(evaluator) ==
    IF evaluator \in DOMAIN FindingToCategory THEN FindingToCategory[evaluator]
    ELSE IF evaluator \in DOMAIN LetterOf /\ LetterOf[evaluator] \in DOMAIN LetterToCategory
    THEN LetterToCategory[LetterOf[evaluator]]
    ELSE "prompt_clarity"

PrimaryDetail(evaluator) ==
    IF evaluator \in DOMAIN FindingToDetail THEN FindingToDetail[evaluator]
    ELSE IF evaluator \in DOMAIN LetterOf /\ LetterOf[evaluator] \in DOMAIN LetterToDetail
    THEN LetterToDetail[LetterOf[evaluator]]
    ELSE None

\* The remedies to try, the first one first.
ResolveDetail(cause, evaluator, category) ==
    IF cause \in DOMAIN Causes THEN Causes[cause]
    ELSE IF evaluator \in DOMAIN EvaluatorToCause THEN Causes[EvaluatorToCause[evaluator]]
    ELSE IF PrimaryDetail(evaluator) # None THEN <<PrimaryDetail(evaluator)>>
    ELSE <<FirstDetail[category]>>

Proposal(category, evaluator, score, details) ==
    [category |-> category, evaluator |-> evaluator, score |-> score, detail |-> details[1],
     effort |-> IF details[1] \in DOMAIN Details THEN Details[details[1]].effort ELSE "medium",
     others |-> SelectSeq(Tail(details), LAMBDA d : d \in DOMAIN Details)]

\* Findings by ascending score, equal ones as they came.
Ranked(findings) ==
    LET Before(i, j) == findings[i].score < findings[j].score \/ (findings[i].score = findings[j].score /\ i < j)
        places == SetToSortSeq(DOMAIN findings, Before)
    IN [k \in DOMAIN places |-> findings[places[k]]]

DeriveProposals(findings, pack) ==
    LET bad == SelectSeq(Ranked(findings), LAMBDA f : f.verdict \in {"warn", "fail"})
        Repeats(k) == \E l \in 1..(k - 1) : bad[l].evaluator = bad[k].evaluator
        kept == SetToSortSeq({k \in DOMAIN bad : ~Repeats(k)}, <)
        Propose(f) == Proposal(Category(f.evaluator), f.evaluator, f.score, ResolveDetail(f.cause, f.evaluator, Category(f.evaluator)))
    IN SelectSeq([k \in DOMAIN kept |-> Propose(bad[kept[k]])], LAMBDA p : p.category \in Allowed(pack))

\* Of a pack without model choice, the first category by the alphabet.
FallbackProposals(score, pack) ==
    LET category == IF "model_choice" \in Allowed(pack) THEN "model_choice"
                    ELSE IF "answer_format" \in Allowed(pack) THEN "answer_format" ELSE "context_grounding"
    IN <<Proposal(category, None, score, <<FirstDetail[category]>>)>>

\* What a run stores for a result that neither passed nor failed to be judged.
Proposals(findings, score, pack) ==
    LET derived == DeriveProposals(findings, pack)
    IN IF derived # <<>> THEN derived ELSE FallbackProposals(score, pack)
-------------------------------------------------------------------------------
(* What must hold of them.                                                 *)

\* Something is proposed, within the pack; a finding that passed proposes nothing,
\* and of a failing evaluator the worst finding speaks, once, worst first.  The
\* tables close: every remedy they name is in the catalogue, where its effort is.
ProposalsFit(findings, pack) ==
    LET Bad(e) == {i \in DOMAIN findings : findings[i].evaluator = e /\ findings[i].verdict \in {"warn", "fail"}}
    IN \A ps \in {Proposals(findings, 50, pack)} :
       /\ ps # <<>>
       /\ \A k \in DOMAIN ps :
            /\ ps[k].category \in Allowed(pack)
            /\ ps[k].detail \in DOMAIN Details
            /\ \A l \in DOMAIN ps : k < l => ps[k].score <= ps[l].score /\ ps[k].evaluator # ps[l].evaluator
            /\ ps[k].evaluator = None \/
                 LET e == ps[k].evaluator
                     cause == findings[CHOOSE i \in Bad(e) : findings[i].score = ps[k].score].cause
                 IN /\ \A i \in Bad(e) : findings[i].score >= ps[k].score
                    /\ cause \in DOMAIN Causes => Range(ps[k].others) = Range(Tail(Causes[cause])) \ {ps[k].detail}
       /\ Allowed(pack) = Categories => \A i \in DOMAIN findings : findings[i].verdict \in {"warn", "fail"} =>
            \E k \in DOMAIN ps : ps[k].evaluator = findings[i].evaluator
===============================================================================
