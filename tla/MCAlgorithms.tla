----------------------------- MODULE MCAlgorithms -----------------------------
(***************************************************************************)
(* A golden set, and the pure parts of the system on bounded inputs.  A     *)
(* behaviour is one of the golden set, or takes one input of a pure part;   *)
(* the invariants compare what the code computes from that input with what  *)
(* it must be.                                                              *)
(***************************************************************************)
EXTENDS MCGoldenSets

CONSTANTS None,     \* what an attribute, a reply or a label lacks
          Default,  \* the ticks a list goes back when it is not told
          Day,      \* those an overview goes back
          Cap,      \* the rows the catalog is asked for
          TopLines, TopServices,  \* the lines of a top list
          One,      \* the units of a judge's score 1.0
          Retries   \* how often a judge is asked again

\* What the inputs below take for granted: scores up to 90 of the units, two
\* attempts of every judge, whole ticks and rows, and that what lacks is no number.
ASSUME InputsAssumption == One \in Nat /\ One >= 90 /\ Retries = 1 /\ {Day, Cap} \subseteq Nat /\ None \notin Int

VARIABLE input

Start == [topic |-> "start"]
-------------------------------------------------------------------------------
(* A trace of two spans and up to two of one; ticks 1..3 of which 4 is now. *)

Q == INSTANCE Queries

Span(i, t, x, st, who, m) ==
    [id |-> i, trace |-> t, service |-> "a", root |-> i # 2, name |-> "n", start |-> x,
     finish |-> x + i, status |-> st, session |-> who[1], user |-> who[2], model |-> m,
     kind |-> IF m = None THEN "tool" ELSE "llm", tokens |-> i]

\* A window and the ends of a range.
Ranges == {<<None, None, None>>, <<2, None, None>>, <<None, 2, None>>, <<None, 3, None>>, <<None, None, 2>>, <<1, None, 3>>, <<1, 2, 2>>}
Archives == {<<FALSE, {}>>, <<TRUE, {}>>, <<TRUE, {"t1"}>>}    \* in use or not, and what is lost

\* The third trace.
Extras == {{}, {Span(4, "t3", 1, "ERROR", <<"r", "u">>, "l")}, {Span(4, "t3", 3, "ERROR", <<"r", "u">>, "l")}}

TakeQueries ==
    \E x, y \in 1..3, extra \in Extras, sx \in {"UNSET", "ERROR"}, w1, w2 \in {<<"s", "u">>, <<None, "u">>} :
        \E range \in Ranges, arch \in Archives, show \in {<<None, 1>>, <<None, 4>>, <<"s", 1>>} :
          input' = [topic |-> "queries",
             spans |-> {Span(1, "t1", x, sx, w1, None), Span(2, "t1", y, "OK", w1, "m"),
                        Span(3, "t2", 2, "OK", w2, "m")} \cup extra,
             archived |-> {"t1", "t2", "t3"} \ arch[2],
             q |-> [window |-> range[1], from |-> range[2], to |-> range[3], now |-> 4, cutoff |-> 3,
                    archive |-> arch[1], session |-> show[1], limit |-> show[2]]]

\* The two query engines answer alike where they should.
EnginesAgree == input.topic = "queries" => Q!Agree(input.spans, input.archived, input.q)
-------------------------------------------------------------------------------
(* Up to three judges of different vendors, of which the first and the last *)
(* may fail, misread or be missing; one rule, one golden item.              *)

P == INSTANCE JudgePanel

Scores == {0, 50, 150}
Object(s, v) == P!Object(s, v)
Raises(c) == [kind |-> "raises", cause |-> c]
Everything == {"key", "sdk", "base_url", "endpoint", "project_id"}
Judge(p, has, w, first, second) ==
    [model |-> [provider |-> p, has |-> has, hash |-> 60, weight |-> w], replies |-> <<first, second>>]

Opinions == {Object(0, "bad"), Object(70, "bad"), Object(70, "good"), Object(150, "good"), Object(None, None), Object(50, "error")}
Providers == {"openai", "onprem_openai_compatible", "azure_openai", "anthropic", "google_gemini", "google_vertex", "aws_bedrock", "mock"}
Replies == {Raises(c) : c \in {"timeout", "server_error", "overloaded"}} \cup {[kind |-> k] : k \in {"empty", "text", "list"}}
             \cup {[kind |-> "cut", score |-> s, verdict |-> "fail"] : s \in {None, 60}}

FirstJudges == {Judge("openai", Everything, 3, r, r) : r \in Opinions}
LastJudges ==
    {Judge(p, Everything, 1, r, Raises("timeout")) : p \in Providers, r \in Replies}
      \cup {Judge(p, Everything, 1, Raises("timeout"), Object(70, "good")) : p \in Providers}
      \cup {Judge(p, Everything \ {miss}, 0, Object(0, "fail"), Object(0, "fail")) : p \in Providers, miss \in Everything}

Panels == {<<>>} \cup {<<b>> : b \in LastJudges} \cup {<<a, b>> : a \in FirstJudges, b \in {j \in LastJudges : j.model.provider \in {"openai", "anthropic", "google_vertex"}}}
            \cup {<<a, b, Judge("openai", Everything, 1, Raises("timeout"), Object(50, "warn"))>> : a, b \in FirstJudges}

Rules == <<[kind |-> "rule", stub |-> FALSE, score |-> 80, verdict |-> "pass", weight |-> 2],
                  [kind |-> "rule", stub |-> FALSE, score |-> 0, verdict |-> "unset", weight |-> 1],
                  [kind |-> "judge", stub |-> FALSE, score |-> 0, verdict |-> "fail", weight |-> 1]>>

Item(e, a) == [expected |-> e, alike |-> a]

TakePanel ==
    \E panel \in Panels, policy \in {"single", "majority", "unanimous", "weighted", "other"},
       known \in {"t", "other"}, query \in {None, "q"} :
        /\ known = "t" => query = "q"
        /\ input' = [topic |-> "panel", trace |-> "t", query |-> query, response |-> "r", panel |-> panel,
                     policy |-> policy, rules |-> Rules, byTrace |-> [x \in {known} |-> Item("e", 90)],
                     byQuery |-> [x \in {"q"} |-> Item(None, 40)]]

\* A better opinion never lowers a trace, and a judge that failed never counts.
JudgesAreFair == input.topic = "panel" => P!RaisingNeverLowers(input, Scores) /\ P!FailuresDoNotCount(input)
-------------------------------------------------------------------------------
(* Two or three judges of up to three items, one of them labelled by a      *)
(* person; a judge or a whole result may be in error.                       *)

T == INSTANCE TrustMetrics WITH Alphabet <- <<"fail", "pass", "warn">>

Opinion(m, v) == [model |-> m, verdict |-> v]
Result(i, v, verdicts) ==
    [trace |-> i, verdict |-> v, panel |-> [m \in DOMAIN verdicts |-> Opinion(m, verdicts[m])]]
Judged(S, judges) == [1..judges -> S]
Labelled(n) == {[id |-> i, label |-> IF i = 1 THEN "pass" ELSE None, disputed |-> i = 2] : i \in 1..n}

TakeTrust ==
    \E outcome \in {"fail", "error"} :
        \/ \E x, y, z \in Judged({"pass", "fail", "error"}, 2) :
             input' = [topic |-> "trust", marked |-> Labelled(3), itemOf |-> [t \in 1..3 |-> t],
                       results |-> <<Result(2, "fail", x), Result(1, "pass", y), Result(3, outcome, z)>>]
        \/ \E x \in Judged({"pass", "fail", "error"}, 3), y \in Judged({"pass", "fail", "warn"}, 3) :
             input' = [topic |-> "trust", marked |-> Labelled(2), itemOf |-> [t \in 1..2 |-> t],
                       results |-> <<Result(2, "fail", x), Result(1, outcome, y)>>]

-------------------------------------------------------------------------------
(* Rankings of up to three documents, and measurements around budgets of 2. *)

R == INSTANCE RuleEngine WITH
        Metrics <- [b1 |-> [kind |-> "wired", target |-> "Recall"], d2 |-> [kind |-> "judge", target |-> None],
                    x |-> [kind |-> "wired", target |-> "gone"]]

Words(n, extra) == [chars |-> n, cjk |-> FALSE, json |-> FALSE, pii |-> 0, secret |-> FALSE, words |-> {"damn"} \cap extra,
                    cited |-> {"a", "z"} \cap extra, hops |-> n > 2, asks |-> n > 1]

Trace0 == [response |-> Words(2, {"a", "damn"}), query |-> Words(4, {}), docs |-> <<>>, expected |-> <<>>,
           golden |-> [intent |-> "lookup", tool |-> "f"], label |-> [intent |-> None, tool |-> None], intent |-> None,
           spans |-> <<>>, tokens |-> 2, price |-> 2, toolCalls |-> 2, ms |-> 2, retrieveMs |-> 2, status |-> "OK",
           ndcgBefore |-> 1300, ndcgAfter |-> 1200, dsl |-> [type |-> "number", value |-> 3 * 2520]]

Small == [budget_ms |-> 2, budget_tokens |-> 3, warn_ratio |-> 1, max_usd |-> 2, max_tool_calls |-> 2, max_retries |-> 1,
          required_args |-> {"x"}]

Distinct(S, n) == {s \in UNION {[1..k -> S] : k \in 0..n} : \A i, j \in DOMAIN s : s[i] = s[j] => i = j}
Call(kind, tool, ok, ms) == [kind |-> kind, tool |-> tool, args |-> {"x"}, ok |-> ok, ms |-> ms]
Calls == {Call("tool", t, ok, 1) : t \in {"f", "g"}, ok \in BOOLEAN} \cup {Call("llm", None, TRUE, m) : m \in 1..3}

TakeRanking ==
    \E ids \in Distinct({"a", "b", "c", "d"}, 4), expected \in Distinct({"a", "b", "e"}, 3), k \in 1..3 :
        input' = [topic |-> "ranking", k |-> k,
                  context |-> [Trace0 EXCEPT !.expected = expected,
                                 !.docs = [i \in DOMAIN ids |-> [id |-> ids[i], snippet |-> "s", score |-> 2600]]]]

TakeMeasures ==
    \E n \in 0..5, response, query \in {None, Words(2, {"a"})}, outcome \in {"OK", "ERROR"} :
        \E calls \in {<<>>} \cup {<<x>> : x \in Calls} \cup {<<x, y>> : x, y \in Calls} :
        input' = [topic |-> "measures",
                  context |-> [Trace0 EXCEPT !.tokens = n, !.price = n, !.toolCalls = n, !.ms = n, !.retrieveMs = n,
                                 !.response = response, !.query = query, !.spans = calls, !.status = outcome]]

-------------------------------------------------------------------------------
(* One finding of any evaluator or cause, or two of a few.                  *)

I == INSTANCE Improvements

Found(e, c, n, v) == [evaluator |-> e, cause |-> c, score |-> n, verdict |-> v]
PackNames == DOMAIN I!Packs \cup {"unknown"}
Several == {Found(e, None, n, v) : e \in {"rule.perf.latency", "rule.status.ok", "judge.consensus", "metric.c"},
              n \in {10, 50}, v \in {"pass", "warn", "fail", "error"}}

TakeFindings ==
    \E pack \in PackNames :
        \/ \E e \in DOMAIN I!EvaluatorToCause \cup DOMAIN I!LetterOf \cup {"unknown"} :
             input' = [topic |-> "findings", pack |-> pack, found |-> <<Found(e, None, 10, "fail")>>]
        \/ \E c \in DOMAIN I!Causes :
             input' = [topic |-> "findings", pack |-> pack, found |-> <<Found("unknown", c, 10, "warn")>>]
        \/ \E f, g \in Several : input' = [topic |-> "findings", pack |-> pack, found |-> <<f, g>>]

\* The measures of what results, labels and rankings tell agree with each other, a
\* worse measurement never improves a rule, and proposals fit what failed.
FindingsAgree ==
    /\ input.topic = "trust" => T!Agreement(input.marked, input.results, input.itemOf)
    /\ input.topic = "findings" => I!ProposalsFit(input.found, input.pack)
    /\ input.topic = "ranking" => R!RankingsAgree(input.context, input.k)
    /\ input.topic = "measures" => R!WorseNeverBetter(input.context, Small)
    /\ input.topic \in {"ranking", "measures"} => R!ScoresBounded(input.context, Small)
-------------------------------------------------------------------------------
Take == input = Start /\ (TakeQueries \/ TakePanel \/ TakeTrust \/ TakeRanking \/ TakeMeasures \/ TakeFindings)

MCInit == Init /\ input = Start
MCNext == \/ Init /\ Take /\ UNCHANGED vars
          \/ input = Start /\ Next /\ UNCHANGED input
MCSpec == MCInit /\ [][MCNext]_<<vars, input>>
===============================================================================
