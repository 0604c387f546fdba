------------------------------ MODULE JudgePanel -------------------------------
(***************************************************************************)
(* What becomes of one trace in a run: the replies of the judge models,     *)
(* each read by its provider (judge/providers.py) and retried               *)
(* (judge/runner.py), the consensus over those that answered               *)
(* (judge/consensus.py), and its combination with the scores of the rules   *)
(* (services/runs.py).                                                      *)
(*                                                                         *)
(* A score is a whole number of units, One of them for 1.0; One is such     *)
(* that the means of the runs are whole. A reply has a kind, a score and a  *)
(* verdict, either of which may be missing; prompts, tokens and prices are  *)
(* left out.  A panel and its answers, the rules and their scores are       *)
(* functions of their places in the list they come from, so that those left *)
(* out leave the others where they were.                                    *)
(***************************************************************************)
EXTENDS Integers, FiniteSets, Functions, FiniteSetsExt

CONSTANTS One,      \* the units of the score 1.0
          Retries,  \* how often a judge is asked again
          None      \* what a reply lacks

Total(f) == SumFunction(f)
Mean(f) == Total(f) \div Cardinality(DOMAIN f)

\* _verdict_from_score
FromScore(score) == IF 10 * score >= 7 * One THEN "pass" ELSE IF 10 * score >= 4 * One THEN "warn" ELSE "fail"
-------------------------------------------------------------------------------
(* One call of one provider.                                               *)

Answer(score, verdict) == [ok |-> TRUE, score |-> score, verdict |-> verdict]
Excluded(error) == [ok |-> FALSE, error |-> error]

\* A judge that is not set up answers from a hash of the request.
Mock(m) == Answer(m.hash, FromScore(m.hash))

\* A reply that is a JSON object.
Object(score, verdict) == [kind |-> "object", score |-> score, verdict |-> verdict]

\* The end of _parse_json_content: no score is 0, and a score is clipped.
Parsed(score, verdict) ==
    Answer(IF score = None THEN 0 ELSE Max({0, Min({One, score})}), IF verdict = None THEN "warn" ELSE verdict)

\* _try_salvage_truncated_json: only with the score is a cut reply of use.
Salvaged(r) == IF r.score = None THEN Excluded("parse_error") ELSE Parsed(r.score, r.verdict)

\* The rest of _parse_json_content; an array raises where no handler expects it.
Content(r) ==
    CASE r.kind = "object" -> Parsed(r.score, r.verdict)
      [] r.kind = "cut"    -> Salvaged(r)
      [] r.kind = "list"   -> Excluded("unknown")
      [] r.kind = "text"   -> Excluded("parse_error")

Known == {"timeout", "rate_limit", "auth_error"}
ClassifyOpenAI(cause)    == IF cause \in Known \cup {"server_error"} THEN cause ELSE "unknown"
ClassifyAnthropic(cause) == IF cause \in Known THEN cause ELSE IF cause = "overloaded" THEN "server_error" ELSE "unknown"
ClassifyGoogle(cause)    == IF cause \in Known \cup {"server_error"} THEN cause ELSE "unknown"
ClassifyBedrock(cause)   == IF cause \in Known \cup {"server_error"} THEN cause ELSE "unknown"

\* A provider needs some settings, names the causes of a failed call, and makes
\* something of a reply without text.
Call(m, r, needs, cause, empty) ==
    IF ~(needs \subseteq m.has) THEN Mock(m)
    ELSE CASE r.kind = "raises" -> Excluded(cause)
           [] r.kind = "empty"  -> empty
           [] OTHER             -> Content(r)

\* "{}": an empty reply counts as the score 0 with the verdict warn.
EmptyObject == Parsed(None, None)

OpenAI(m, r)    == Call(m, r, {"key", "sdk"}, ClassifyOpenAI(r.cause), EmptyObject)
OnPrem(m, r)    == IF "base_url" \in m.has THEN OpenAI(m, r) ELSE Mock(m)
Azure(m, r)     == Call(m, r, {"key", "sdk", "endpoint"}, ClassifyOpenAI(r.cause), EmptyObject)
Anthropic(m, r) == Call(m, r, {"key", "sdk"}, ClassifyAnthropic(r.cause), Excluded("parse_error"))
Gemini(m, r)    == Call(m, r, {"key", "sdk"}, ClassifyGoogle(r.cause), EmptyObject)
Vertex(m, r)    == Call(m, r, {"key", "sdk", "project_id"}, ClassifyGoogle(r.cause), Excluded("unknown"))
Bedrock(m, r)   == Call(m, r, {"key", "sdk"}, ClassifyBedrock(r.cause), Excluded("parse_error"))

\* The provider of a judge; one nobody registered is the mock.
Evaluate(m, r) ==
    CASE m.provider = "openai"                   -> OpenAI(m, r)
      [] m.provider = "onprem_openai_compatible" -> OnPrem(m, r)
      [] m.provider = "azure_openai"             -> Azure(m, r)
      [] m.provider = "anthropic"                -> Anthropic(m, r)
      [] m.provider = "google_gemini"            -> Gemini(m, r)
      [] m.provider = "google_vertex"            -> Vertex(m, r)
      [] m.provider = "aws_bedrock"              -> Bedrock(m, r)
      [] OTHER                                   -> Mock(m)

\* _call_one: the first answer of the attempts, or else the last error.
CallOne(judge) ==
    LET Try(i) == Evaluate(judge.model, judge.replies[i])
        good == {i \in 1..(Retries + 1) : Try(i).ok}
    IN IF good = {} THEN Try(Retries + 1) ELSE Try(Min(good))
-------------------------------------------------------------------------------
(* The consensus.                                                          *)

\* _normalise_verdict
Normal(v) ==
    CASE v \in {"pass", "warn", "fail", "unset", "error"} -> v
      [] v \in {"good", "ok"} -> "pass"
      [] v = "bad"            -> "fail"
      [] OTHER                -> "warn"

Outcome(score, verdict) == [score |-> score, verdict |-> verdict]

\* No weight at all is the same weight for everybody.
Weights(answers) ==
    LET w == [i \in DOMAIN answers |-> Max({0, answers[i].weight})]
    IN IF Range(w) = {0} THEN [i \in DOMAIN w |-> 1] ELSE w

\* The verdict of more than half of the judges, or else warn.
Majority(verdict) ==
    LET Of(v) == {i \in DOMAIN verdict : verdict[i] = v}
        wins == {v \in Range(verdict) : 2 * Cardinality(Of(v)) > Cardinality(DOMAIN verdict)}
    IN IF wins = {} THEN "warn" ELSE CHOOSE v \in wins : TRUE

\* The verdict they all have, or else warn.
Unanimous(verdict) == IF \E v \in Range(verdict) : Range(verdict) = {v} THEN verdict[Min(DOMAIN verdict)] ELSE "warn"

\* aggregate_consensus
Aggregate(answers, policy) ==
    LET score == [i \in DOMAIN answers |-> answers[i].said.score]
        verdict == [i \in DOMAIN answers |-> Normal(answers[i].said.verdict)]
        first == Min(DOMAIN answers)
        w == Weights(answers)
        weighted == Total([i \in DOMAIN w |-> w[i] * score[i]]) \div Total(w)
    IN IF policy = "single" \/ Cardinality(DOMAIN answers) = 1 THEN Outcome(score[first], verdict[first])
       ELSE CASE policy = "unanimous" -> Outcome(Min(Range(score)), Unanimous(verdict))
              [] policy = "weighted"  -> Outcome(weighted, FromScore(weighted))
              [] policy = "majority"  -> Outcome(Mean(score), Majority(verdict))
              [] OTHER                -> Outcome(Mean(score), FromScore(Mean(score)))

\* What _call_one made of the judge, with its weight.
Weighed(judge) == [said |-> CallOne(judge), weight |-> judge.model.weight]

\* Mutant: a judge that failed counts as a score of 0.
Survivors_AsZero(panel) ==
    [i \in DOMAIN panel |-> IF CallOne(panel[i]).ok THEN Weighed(panel[i])
                            ELSE [said |-> Answer(0, "error"), weight |-> panel[i].model.weight]]

Answered(panel) == {i \in DOMAIN panel : CallOne(panel[i]).ok}

\* Those of the panel that answered.
Survivors(panel) == [i \in Answered(panel) |-> Weighed(panel[i])]

\* run_judges; a panel of which nobody answers is an error, not a fail.
RunJudges(panel, policy) ==
    LET answers == Survivors(panel)
        Consensus(o, calls, failed) == [score |-> o.score, verdict |-> o.verdict, calls |-> calls, failed |-> failed]
    IN IF DOMAIN panel = {} THEN Consensus(Outcome(0, "unset"), 0, FALSE)
       ELSE IF DOMAIN answers = {} THEN Consensus(Outcome(0, "error"), Cardinality(DOMAIN panel), TRUE)
       ELSE Consensus(Aggregate(answers, policy), Cardinality(DOMAIN answers), FALSE)
-------------------------------------------------------------------------------
(* The rules and the trace.                                                *)

\* _run_rule_layer: the findings of the profile's rules; metrics of judges and
\* people, and rules without an evaluator, leave none.
RuleFindings(rules) == {i \in DOMAIN rules : rules[i].kind = "rule" /\ ~rules[i].stub}

\* A finding without a verdict does not weigh.
RuleScore(rules) ==
    LET scored == {i \in RuleFindings(rules) : rules[i].verdict # "unset"}
        weight == Total([i \in scored |-> rules[i].weight])
    IN IF weight = 0 THEN 0 ELSE Total([i \in scored |-> rules[i].weight * rules[i].score]) \div weight

\* _golden_gt_finding; alike is how alike two texts are, in units.
GoldenFinding(expected, response, alike) ==
    IF expected = None THEN Outcome(One \div 2, "warn")
    ELSE IF response = None THEN Outcome(0, "fail")
    ELSE Outcome(alike, IF 100 * alike >= 88 * One THEN "pass" ELSE IF 100 * alike >= 55 * One THEN "warn" ELSE "fail")

\* With a golden item the score is the plain mean of the findings, those without
\* a verdict included.
GoldenScore(rules, golden) ==
    (Total([i \in RuleFindings(rules) |-> rules[i].score]) + golden.score) \div (Cardinality(RuleFindings(rules)) + 1)

\* _pick_golden_blob: by the trace, or else by its question.
PickGolden(trace, query, byTrace, byQuery) ==
    IF trace \in DOMAIN byTrace THEN byTrace[trace]
    ELSE IF query # None /\ query \in DOMAIN byQuery THEN byQuery[query] ELSE None

\* _combine
Combine(rule, judge) == LET s == IF judge = None THEN rule ELSE (rule + judge) \div 2 IN Outcome(s, FromScore(s))

RuleLayer(sub) ==
    LET golden == PickGolden(sub.trace, sub.query, sub.byTrace, sub.byQuery)
    IN IF golden = None THEN RuleScore(sub.rules)
       ELSE GoldenScore(sub.rules, GoldenFinding(golden.expected, sub.response, golden.alike))

\* The part of the loop of execute that scores a subject.
TraceOutcome(sub) ==
    LET j == RunJudges(sub.panel, sub.policy)
    IN IF DOMAIN sub.panel = {} THEN Combine(RuleLayer(sub), None)
       ELSE IF j.failed THEN Outcome(0, "error")
       ELSE Combine(RuleLayer(sub), j.score)
-------------------------------------------------------------------------------
(* What the scoring of a trace must be.                                    *)

Ranks == [fail |-> 0, warn |-> 1, pass |-> 2]
Ranked(o) == o.verdict \in DOMAIN Ranks
AtLeast(better, x) ==
    better.score >= x.score /\ (Ranked(better) /\ Ranked(x) => Ranks[better.verdict] >= Ranks[x.verdict])

Opinion(score, verdict) == Outcome(Parsed(score, verdict).score, Normal(Parsed(score, verdict).verdict))

\* The subject with one judge, or one rule, that gave a higher score or a better
\* verdict.
BetterJudge(sub, Scores) ==
    LET Reply(x) == sub.panel[x[1]].replies[x[2]]
        Was(x) == Opinion(Reply(x).score, Reply(x).verdict)
        raised == {x \in (DOMAIN sub.panel) \X (1..(Retries + 1)) \X Scores \X {"fail", "warn", "pass"} :
                      Reply(x).kind = "object" /\ Ranked(Was(x)) /\ AtLeast(Opinion(x[3], x[4]), Was(x))}
    IN {[sub EXCEPT !.panel[x[1]].replies[x[2]] = Object(x[3], x[4])] : x \in raised}

BetterRule(sub, Scores) ==
    LET raised == {x \in (DOMAIN sub.rules) \X Scores : x[2] >= sub.rules[x[1]].score}
    IN {[sub EXCEPT !.rules[x[1]].score = x[2]] : x \in raised}

\* A judge or a rule that thinks better of a trace never lowers what the panel or
\* the run says of it.
RaisingNeverLowers(sub, Scores) ==
    LET said == RunJudges(sub.panel, sub.policy)
        was == TraceOutcome(sub)
    IN \A b \in BetterJudge(sub, Scores) \cup BetterRule(sub, Scores) :
         AtLeast(RunJudges(b.panel, b.policy), said) /\ AtLeast(TraceOutcome(b), was)

\* A judge that failed counts for nothing, and the trace is an error just when
\* all have failed, whatever the rules say.
FailuresDoNotCount(sub) ==
    LET t == TraceOutcome(sub)
    IN /\ Answered(sub.panel) # {} => t = TraceOutcome([sub EXCEPT !.panel = Restrict(sub.panel, Answered(sub.panel))])
       /\ (DOMAIN sub.panel # {} /\ Answered(sub.panel) = {}) <=> t.verdict = "error"
       /\ t.score \in 0..One
===============================================================================
