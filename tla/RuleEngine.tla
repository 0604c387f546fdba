------------------------------ MODULE RuleEngine -------------------------------
(***************************************************************************)
(* The built-in rules that score one trace without a model                  *)
(* (eval/rules/builtin.py, dsl.py).                                         *)
(*                                                                         *)
(* A context c is what a rule sees of a trace: texts are records of what     *)
(* the rules look for in them, documents have an id, a snippet and a score   *)
(* of the retriever.  A score is a whole number of units; thresholds and     *)
(* slacks are percentages; divisions round down.                             *)
(***************************************************************************)
EXTENDS Integers, Sequences, FiniteSets, SequencesExt, FiniteSetsExt

CONSTANTS Metrics,  \* metric catalog: id -> [kind, target]
          None      \* what a context lacks

Full == 2520         \* units of the score 1.0: a multiple of 1..10

Outcome(score, verdict) == [score |-> score, verdict |-> verdict]
Pass  == Outcome(Full, "pass")
Half  == Outcome(Full \div 2, "warn")
Fail  == Outcome(0, "fail")
Unset == Outcome(0, "unset")

\* _verdict
Verdict(score, threshold) ==
    IF 100 * score >= threshold * Full THEN "pass"
    ELSE IF 100 * score >= Max({threshold - 20, 0}) * Full THEN "warn" ELSE "fail"

Scored(score, threshold) == Outcome(score, Verdict(score, threshold))
PassIf(b) == IF b THEN Pass ELSE Fail

\* At most the budget, at most slack percent of it, or more.
Within(v, budget, slack) == IF v <= budget THEN Pass ELSE IF 100 * v <= slack * budget THEN Half ELSE Fail

\* _trace_response: without a response the question stands in for it.
Text(c) == IF c.response # None THEN c.response ELSE c.query

Sum(S, f(_)) == MapThenSumSet(f, S)
-------------------------------------------------------------------------------
(* The response.                                                           *)

ResponsePresent(c, p) == PassIf(Text(c) # None)

ResponseLength(c, p) ==
    LET n == Text(c).chars
    IN IF Text(c) = None THEN Fail
       ELSE IF n < p.min_chars THEN Outcome(3 * (Full \div 10), "warn")
       ELSE IF n > p.max_chars THEN Half ELSE Pass

\* cjk: more CJK characters than ASCII letters.
ResponseLanguage(c, p) ==
    IF Text(c) = None THEN Fail
    ELSE IF Text(c).cjk = (c.query # None /\ c.query.cjk) THEN Pass ELSE Outcome(4 * (Full \div 10), "warn")

ResponseJson(c, p)        == PassIf(Text(c) # None /\ Text(c).json)
ResponseNoPii(c, p)       == PassIf(Text(c) = None \/ Text(c).pii = 0)
ResponseNoSecret(c, p)    == PassIf(Text(c) = None \/ ~Text(c).secret)
\* A deny list of the profile replaces the default one.
ResponseNoProfanity(c, p) ==
    PassIf(Text(c) = None \/ Text(c).words \cap (IF p.deny = {} THEN {"damn", "shit", "fuck", "bastard"} ELSE p.deny) = {})

CitationAccuracy(c, p) ==
    LET cited == IF Text(c) = None THEN {} ELSE Text(c).cited
        known == {d.id : d \in ToSet(c.docs)} \ {None}
    IN IF cited = {} \/ known = {} THEN Unset
       ELSE Scored((Full * Cardinality(cited \cap known)) \div Cardinality(cited), p.threshold)
-------------------------------------------------------------------------------
(* Retrieval against the documents a golden item expects.                  *)

Top(c, k) == SubSeq(c.docs, 1, Min({k, Len(c.docs)}))
Expected(c) == ToSet(c.expected)
Hits(c, docs) == {i \in DOMAIN docs : docs[i].id \in Expected(c)}

\* Each expected document counts, one that is listed twice counts twice.
Recall(c, p) ==
    LET top == {d.id : d \in ToSet(Top(c, p.k))}
        hit == Cardinality({i \in DOMAIN c.expected : c.expected[i] \in top})
    IN IF c.expected = <<>> THEN Unset ELSE Scored((Full * hit) \div Len(c.expected), p.threshold)

Precision(c, p) ==
    LET top == Top(c, p.k)
    IN IF c.expected = <<>> THEN Unset
       ELSE IF top = <<>> THEN Fail
       ELSE Scored((Full * Cardinality(Hits(c, top))) \div Len(top), p.threshold)

\* The reciprocal rank looks at all documents, not only at the first k.
Mrr(c, p) ==
    IF c.expected = <<>> THEN Unset
    ELSE Scored(IF Hits(c, c.docs) = {} THEN 0 ELSE Full \div Min(Hits(c, c.docs)), p.threshold)

HitRate(c, p) ==
    IF c.expected = <<>> THEN Unset ELSE Scored(IF Hits(c, Top(c, p.k)) # {} THEN Full ELSE 0, p.threshold)

\* 1/log2(i + 1) in units; the ideal is over the documents retrieved.
Gain == <<2520, 1590, 1260, 1085, 975>>
Ndcg(c, p) ==
    LET top == Top(c, p.k)
        dcg == Sum(Hits(c, top), LAMBDA i : Gain[i])
        ideal == Sum(1..Cardinality(Hits(c, top)), LAMBDA i : Gain[i])
    IN IF c.expected = <<>> THEN Unset
       ELSE IF top = <<>> THEN Fail
       ELSE Scored(IF ideal = 0 THEN 0 ELSE (Full * dcg) \div ideal, p.threshold)

\* Mutant: the mean is over the documents found.
Map_OverFound(c, p) ==
    LET top == Top(c, p.k)
        At(i) == (Full * Cardinality({j \in Hits(c, top) : j <= i})) \div i
    IN IF c.expected = <<>> THEN Unset
       ELSE IF top = <<>> THEN Fail
       ELSE Scored(Sum(Hits(c, top), At) \div Max({1, Cardinality(Hits(c, top))}), p.threshold)

\* The mean over the expected documents of the precision at each hit.
Map(c, p) ==
    LET top == Top(c, p.k)
        At(i) == (Full * Cardinality({j \in Hits(c, top) : j <= i})) \div i
    IN IF c.expected = <<>> THEN Unset
       ELSE IF top = <<>> THEN Fail
       ELSE Scored(Sum(Hits(c, top), At) \div Cardinality(Expected(c)), p.threshold)

DupRatio(c, p) ==
    LET texts == SelectSeq([i \in DOMAIN Top(c, p.k) |-> c.docs[i].snippet], LAMBDA s : s # None)
        pairs == {x \in (DOMAIN texts) \X (DOMAIN texts) : x[1] < x[2]}
        dup == Cardinality({x \in pairs : texts[x[1]] = texts[x[2]]})
    IN IF Len(Top(c, p.k)) < 2 \/ Len(texts) < 2 THEN Pass
       ELSE Scored(Max({0, Full - (100 * Full * dup) \div (p.dup_threshold * Cardinality(pairs))}), p.threshold)

\* Documents without an id are told apart by their snippets.
DupChunks(c, p) ==
    LET keys == SelectSeq([i \in DOMAIN c.docs |-> IF c.docs[i].id # None THEN c.docs[i].id ELSE c.docs[i].snippet],
                          LAMBDA x : x # None)
    IN IF Len(c.docs) < 2 \/ keys = <<>> THEN Pass
       ELSE Scored(Max({0, Full - (2 * Full * (Len(keys) - Cardinality(ToSet(keys)))) \div Len(keys)}), p.threshold)

\* The mean of the retriever's own scores, whatever their scale.
ChunkSimilarity(c, p) ==
    LET vals == SelectSeq([i \in DOMAIN Top(c, p.k) |-> c.docs[i].score], LAMBDA s : s # None)
    IN IF vals = <<>> THEN Unset ELSE Scored(FoldLeft(LAMBDA a, b : a + b, 0, vals) \div Len(vals), p.threshold)

RerankerGain(c, p) ==
    LET gain == c.ndcgAfter - c.ndcgBefore
    IN IF None \in {c.ndcgBefore, c.ndcgAfter} THEN Unset
       ELSE Scored(IF 100 * gain >= p.min_gain * Full THEN Full ELSE Max({0, Full + (100 * gain) \div p.min_gain}), p.threshold)
-------------------------------------------------------------------------------
(* The question, the tools, the budgets.                                   *)

QueryComplexity(c, p) ==
    LET Times(b, x, s) == IF b THEN (s * x) \div 100 ELSE s
        q == c.query
    IN IF q = None THEN Unset
       ELSE Scored(Times(q.chars < p.min_chars, 50, Times(q.hops, 85, Times(q.chars > p.warn_chars, 70, Full))), p.threshold)

\* The intent a golden item, a label or the profile expects, in that order.
FirstOf(s) == LET known == SelectSeq(s, LAMBDA x : x # None) IN IF known = <<>> THEN None ELSE known[1]

IntentMatch(c, p) ==
    LET expected == FirstOf(<<c.golden.intent, c.label.intent, p.expected_intent>>)
        got == IF c.intent # None THEN c.intent ELSE IF c.query # None /\ c.query.asks THEN "lookup" ELSE "chat"
    IN IF expected = None THEN Unset ELSE PassIf(expected = got)

Tools(c) == SelectSeq(c.spans, LAMBDA s : s.kind = "tool")

ToolSelection(c, p) ==
    LET expected == FirstOf(<<c.golden.tool, c.label.tool, p.expected_tool>>)
    IN IF expected = None THEN Unset ELSE PassIf(\E s \in ToSet(Tools(c)) : s.tool = expected)

\* Only the first call is looked at.
ToolArguments(c, p) ==
    IF p.required_args = {} \/ Tools(c) = <<>> THEN Unset
    ELSE Scored((Full * Cardinality(p.required_args \cap Tools(c)[1].args)) \div Cardinality(p.required_args), p.threshold)

ToolSuccess(c, p) ==
    IF Tools(c) = <<>> THEN Unset
    ELSE Scored((Full * Len(SelectSeq(Tools(c), LAMBDA s : s.ok))) \div Len(Tools(c)), p.threshold)

\* A retry is any further call of the same tool.
ToolRetries(c, p) ==
    IF Tools(c) = <<>> THEN Pass
    ELSE Within(Len(Tools(c)) - Cardinality({s.tool : s \in ToSet(Tools(c))}), p.max_retries, 200)

StepLatency(c, p) == IF c.retrieveMs = None THEN Unset ELSE Within(c.retrieveMs, p.budget_ms, 150)

InferenceLatency(c, p) ==
    LET ms == SelectSeq([i \in DOMAIN c.spans |-> IF c.spans[i].kind = "llm" THEN c.spans[i].ms ELSE None], LAMBDA x : x # None)
    IN IF ms = <<>> THEN Unset
       ELSE Within(FoldLeft(LAMBDA a, b : a + b, 0, ms), p.budget_ms * Len(ms), 150)

Latency(c, p)     == IF c.ms = None THEN Unset ELSE Within(c.ms, p.budget_ms, 150)
TokenBudget(c, p) == IF c.tokens = 0 THEN Unset ELSE Within(c.tokens, p.budget_tokens, 125)
CostBudget(c, p)  == Within(c.price, p.max_usd, 200)
ToolLoop(c, p)    == Within(c.toolCalls, p.max_tool_calls, 200)

\* Tokens per character of the answer, the question standing in for it.
TokenWaste(c, p) ==
    IF c.tokens = 0 THEN Unset
    ELSE Within(c.tokens, p.warn_ratio * (IF Text(c) = None THEN 1 ELSE Text(c).chars), 150)

StatusOk(c, p) ==
    CASE c.status = "ERROR" -> Fail [] c.status = "OK" -> Pass [] OTHER -> Outcome(6 * (Full \div 10), "warn")

\* coerce_score: a number above 1 is a percentage up to 100, a list its mean.
CoerceNumber(x) == IF x < 0 THEN 0 ELSE IF x > Full /\ x <= 100 * Full THEN x \div 100 ELSE Min({x, Full})
Coerce(v) ==
    CASE v.type = "bool"   -> IF v.value THEN Full ELSE 0
      [] v.type = "number" -> CoerceNumber(v.value)
      [] v.type = "list"   -> IF v.value = <<>> THEN 0
                              ELSE FoldLeft(LAMBDA a, b : a + CoerceNumber(b), 0, v.value) \div Len(v.value)
      [] OTHER             -> 0

\* evaluate_dsl: what an expression makes of the trace is chosen, None if it is
\* refused or raises.
CustomDsl(c, p) == IF c.dsl = None THEN Fail ELSE Scored(Coerce(c.dsl), p.threshold)
-------------------------------------------------------------------------------
(* The catalogue.                                                          *)

K(t) == [k |-> 5, threshold |-> t]
T(t) == [threshold |-> t]
Core == [ResponsePresent |-> <<>>, ResponseLength |-> [min_chars |-> 20, max_chars |-> 4000], ResponseJson |-> <<>>,
    ResponseLanguage |-> <<>>, ResponseNoPii |-> <<>>, ResponseNoSecret |-> <<>>, ResponseNoProfanity |-> [deny |-> {}],
    Recall |-> K(60), Precision |-> K(60), Mrr |-> T(50), HitRate |-> K(50), Ndcg |-> K(50), Map |-> K(50),
    DupRatio |-> K(55) @@ [dup_threshold |-> 35], StepLatency |-> [budget_ms |-> 3000],
    IntentMatch |-> [expected_intent |-> None], QueryComplexity |-> T(45) @@ [warn_chars |-> 800, min_chars |-> 4],
    RerankerGain |-> T(55) @@ [min_gain |-> 2], ChunkSimilarity |-> K(50), CitationAccuracy |-> T(70),
    ToolSelection |-> [expected_tool |-> None], ToolArguments |-> T(70) @@ [required_args |-> {}], ToolSuccess |-> T(80),
    ToolRetries |-> [max_retries |-> 2], DupChunks |-> T(50), TokenWaste |-> [warn_ratio |-> 8],
    InferenceLatency |-> [budget_ms |-> 6000], Latency |-> [budget_ms |-> 5000], TokenBudget |-> [budget_tokens |-> 8000],
    CostBudget |-> [max_usd |-> 5], StatusOk |-> <<>>, ToolLoop |-> [max_tool_calls |-> 8], CustomDsl |-> T(50)]

Core_Run(id, c, p) ==
    CASE id = "ResponsePresent"  -> ResponsePresent(c, p)  [] id = "ResponseLength"      -> ResponseLength(c, p)
      [] id = "ResponseJson"     -> ResponseJson(c, p)     [] id = "ResponseLanguage"    -> ResponseLanguage(c, p)
      [] id = "ResponseNoPii"    -> ResponseNoPii(c, p)    [] id = "ResponseNoSecret"    -> ResponseNoSecret(c, p)
      [] id = "Recall"           -> Recall(c, p)           [] id = "ResponseNoProfanity" -> ResponseNoProfanity(c, p)
      [] id = "Precision"        -> Precision(c, p)        [] id = "Mrr"                 -> Mrr(c, p)
      [] id = "HitRate"          -> HitRate(c, p)          [] id = "Ndcg"                -> Ndcg(c, p)
      [] id = "Map"              -> Map(c, p)              [] id = "DupRatio"            -> DupRatio(c, p)
      [] id = "StepLatency"      -> StepLatency(c, p)      [] id = "IntentMatch"         -> IntentMatch(c, p)
      [] id = "QueryComplexity"  -> QueryComplexity(c, p)  [] id = "RerankerGain"        -> RerankerGain(c, p)
      [] id = "ChunkSimilarity"  -> ChunkSimilarity(c, p)  [] id = "CitationAccuracy"    -> CitationAccuracy(c, p)
      [] id = "ToolSelection"    -> ToolSelection(c, p)    [] id = "ToolArguments"       -> ToolArguments(c, p)
      [] id = "ToolSuccess"      -> ToolSuccess(c, p)      [] id = "ToolRetries"         -> ToolRetries(c, p)
      [] id = "DupChunks"        -> DupChunks(c, p)        [] id = "TokenWaste"          -> TokenWaste(c, p)
      [] id = "InferenceLatency" -> InferenceLatency(c, p) [] id = "Latency"             -> Latency(c, p)
      [] id = "TokenBudget"      -> TokenBudget(c, p)      [] id = "CostBudget"          -> CostBudget(c, p)
      [] id = "StatusOk"         -> StatusOk(c, p)         [] id = "ToolLoop"            -> ToolLoop(c, p)
      [] id = "CustomDsl"        -> CustomDsl(c, p)

Stub == Unset @@ [stub |-> TRUE]

\* _eval_wired_alias: a metric of the catalog runs the rule it names.
Wired(target, c, params) ==
    IF target \in DOMAIN Core THEN Core_Run(target, c, params @@ Core[target]) @@ [stub |-> FALSE] ELSE Stub

\* run_evaluator: what nobody knows is unset; the profile's parameters override
\* those of the catalogue.
RunEvaluator(id, c, params) ==
    IF id \in DOMAIN Core THEN Core_Run(id, c, params @@ Core[id]) @@ [stub |-> FALSE]
    ELSE IF id \notin DOMAIN Metrics THEN Unset @@ [stub |-> FALSE]
    ELSE IF Metrics[id].kind = "wired" THEN Wired(Metrics[id].target, c, params) ELSE Stub
-------------------------------------------------------------------------------
(* What the rules must be.                                                 *)

Rank == [fail |-> 0, warn |-> 1, pass |-> 2]
NotBetter(x, y) ==
    x.score <= y.score /\ (x.verdict \in DOMAIN Rank /\ y.verdict \in DOMAIN Rank => Rank[x.verdict] <= Rank[y.verdict])

\* A relevant document changes places with the irrelevant one before it.
Promotions(c) ==
    {[c EXCEPT !.docs[i] = c.docs[i - 1], !.docs[i - 1] = c.docs[i]] :
        i \in {j \in 2..Len(c.docs) : j \in Hits(c, c.docs) /\ j - 1 \notin Hits(c, c.docs)}}

\* For a ranking without repetitions the measures agree on whether anything was
\* found, average precision never exceeds recall, and a relevant document that
\* moves up never lowers one of them; with nDCG only within the first k, as its
\* ideal counts what was retrieved and not what was expected.
RankingsAgree(c, k) ==
    LET R(x, id) == RunEvaluator(id, x, [k |-> k])
        Found(id) == R(c, id).score > 0
    IN /\ \A id \in {"Recall", "Precision", "Ndcg", "Map"} : Found(id) = Found("HitRate")
       /\ Found("HitRate") => Found("Mrr")
       /\ R(c, "Map").score <= R(c, "Recall").score
       /\ (Found("Ndcg") /\ R(c, "Ndcg").score = Full) => R(c, "Mrr").score = Full
       /\ \A x \in Promotions(c) :
            /\ \A id \in {"Recall", "Precision", "HitRate", "Mrr", "Map"} : NotBetter(R(c, id), R(x, id))
            /\ Hits(x, Top(x, k)) = Hits(c, Top(c, k)) \/ Len(c.docs) <= k => NotBetter(R(c, "Ndcg"), R(x, "Ndcg"))

\* The same trace, slower, dearer, with more calls, or with a failed or repeated one.
Worse(c) ==
    UNION {{[c EXCEPT !.tokens = c.tokens + d], [c EXCEPT !.price = c.price + d], [c EXCEPT !.toolCalls = c.toolCalls + d],
            [c EXCEPT !.ms = c.ms + d], [c EXCEPT !.retrieveMs = c.retrieveMs + d]} : d \in 1..3}
      \cup {[c EXCEPT !.spans[i].ms = c.spans[i].ms + 1] : i \in DOMAIN c.spans}
      \cup {[c EXCEPT !.spans[i].ok = FALSE] : i \in DOMAIN c.spans}
      \cup {[c EXCEPT !.spans = Append(c.spans, c.spans[i])] : i \in {j \in DOMAIN c.spans : ~c.spans[j].ok}}

Budgets == {"StepLatency", "InferenceLatency", "Latency", "TokenBudget", "TokenWaste", "CostBudget", "ToolLoop", "ToolRetries", "ToolSuccess"}

\* What is measured in the trace and gets worse never improves a rule's outcome,
\* unless there was nothing to go on before.
WorseNeverBetter(c, params) ==
    \A x \in Worse(c), id \in Budgets :
        RunEvaluator(id, c, params).verdict # "unset" => NotBetter(RunEvaluator(id, x, params), RunEvaluator(id, c, params))

\* Scores stay within 0 and 1 and without a verdict are 0, but for the mean of
\* the retriever's own scores.
ScoresBounded(c, params) ==
    \A id \in (DOMAIN Core \cup DOMAIN Metrics) \ {"ChunkSimilarity"} :
        LET o == RunEvaluator(id, c, params) IN o.score \in 0..Full /\ (o.verdict = "unset" => o.score = 0)
===============================================================================
