----------------------------- MODULE TrustMetrics -----------------------------
(***************************************************************************)
(* How far judges and people agree on the items of a golden set             *)
(* (easyobs/eval/services/trust.py).                                       *)
(*                                                                         *)
(* Values are exact fractions where the code rounds to four digits.  A label *)
(* is a verdict; labels are sorted as the code sorts them, by their          *)
(* spelling.                                                               *)
(***************************************************************************)
EXTENDS Integers, Sequences, SequencesExt, FiniteSetsExt

CONSTANTS None,     \* no label, no value
          Alphabet  \* all labels, sorted

Ratio(n, d) == [num |-> n, den |-> d]
SameValue(x, y) == IF None \in {x, y} THEN x = y ELSE x.num * y.den = y.num * x.den

Sum(S, f(_)) == MapThenSumSet(f, S)
Times(x, s) == Cardinality({i \in DOMAIN s : s[i] = x})
Labels == Range(Alphabet)
-------------------------------------------------------------------------------
(* The three coefficients.                                                 *)

CohenKappa(a, b) ==
    LET n == Len(a)
        agree  == Cardinality({i \in 1..n : a[i] = b[i]})
        chance == Sum(Range(a) \cup Range(b), LAMBDA c : Times(c, a) * Times(c, b))
    IN IF n = 0 \/ chance = n * n THEN None
       ELSE Ratio(n * agree - chance, n * n - chance)

\* rows[i] is the sequence of labels item i got, as many for each.
FleissKappa(rows) ==
    LET n == Len(rows)
        raters  == Len(rows[1])
        total   == n * raters
        squares == Sum(DOMAIN rows, LAMBDA i : Sum(Labels, LAMBDA c : Times(c, rows[i]) * Times(c, rows[i])))
        column(c) == Sum(DOMAIN rows, LAMBDA i : Times(c, rows[i]))
        chance  == Sum(Labels, LAMBDA c : column(c) * column(c)) * (raters - 1)
        whole   == total * total * (raters - 1)
    IN IF n = 0 THEN None
       ELSE IF raters < 3 \/ chance = whole THEN None
       ELSE Ratio((squares - total) * total - chance, whole - chance)

\* The rows of an alpha may have holes; those with one label or none are dropped.
Pairable(rows) ==
    LET Kept(row) == SelectSeq(row, LAMBDA x : x # None)
    IN SelectSeq([i \in DOMAIN rows |-> Kept(rows[i])], LAMBDA row : Len(row) >= 2)

\* Labels in the order in which they are met, the order of the marginals.
Met(rows) == FoldLeft(LAMBDA seen, x : IF Contains(seen, x) THEN seen ELSE Append(seen, x), <<>>, FlattenSeq(rows))

\* Scaled, so that the division is exact: pairs of an item weigh 1 / (m - 1).
Coincidence(rows, scale, a, b) ==
    Sum(DOMAIN rows, LAMBDA i : LET m == Len(rows[i])
        IN (scale * Times(a, rows[i]) * (Times(b, rows[i]) - (IF a = b THEN 1 ELSE 0))) \div (m - 1))

\* Four times the ordinal distance.  It takes ranks, which follow the alphabet,
\* for positions among the marginals, which follow Met.
Ordinal(marginal, met, a, b) ==
    LET sorted == SelectSeq(Alphabet, LAMBDA x : Contains(met, x))
        Rank(x) == CHOOSE i \in DOMAIN sorted : sorted[i] = x
        lo == Min({Rank(a), Rank(b)})
        hi == Max({Rank(a), Rank(b)})
        v  == 2 * Sum((lo + 1)..(hi - 1), LAMBDA k : marginal[met[k]]) + marginal[met[lo]] + marginal[met[hi]]
    IN IF a = b THEN 0 ELSE v * v

Nominal(a, b) == IF a = b THEN 0 ELSE 1

Alpha(rows, met, marginal, ordinal) ==
    LET scale == 60 \* divided by m - 1 for up to seven raters
        total == Sum(Range(met), LAMBDA c : marginal[c])
        dist  == [p \in Range(met) \X Range(met) |->
                    IF ordinal THEN Ordinal(marginal, met, p[1], p[2]) ELSE Nominal(p[1], p[2])]
        seen  == Sum(DOMAIN dist, LAMBDA p : Coincidence(rows, scale, p[1], p[2]) * dist[p])
        chance == Sum(DOMAIN dist, LAMBDA p : marginal[p[1]] * marginal[p[2]] * dist[p]) * scale
    IN IF rows = <<>> \/ chance = 0 THEN None ELSE Ratio(chance - seen * (total - 1), chance)

KrippendorffAlpha(ratings, ordinal) ==
    LET Marginal(rows, c) == Sum(DOMAIN rows, LAMBDA i : Times(c, rows[i]))
        Paired(rows, met) == Alpha(rows, met, [c \in Range(met) |-> Marginal(rows, c)], ordinal)
        Rows(rows) == Paired(rows, Met(rows))
    IN Rows(Pairable(ratings))
-------------------------------------------------------------------------------
(* The summary of a revision.                                              *)

\* Results come in the order of a query that asks for none; a later one replaces
\* what a judge said of the item before.  Errors, of the result or of one judge,
\* do not count.
Rated(results, itemOf) == SelectSeq(results, LAMBDA r : r.verdict # "error" /\ r.trace \in DOMAIN itemOf)
Said(result) == {e \in Range(result.panel) : e.verdict \in Labels}
Judges(results) == UNION {{e.model : e \in Said(r)} : r \in results}
Ratings(results, itemOf, item, model) ==
    LET by == SelectSeq(results, LAMBDA r : itemOf[r.trace] = item /\ \E e \in Said(r) : e.model = model)
    IN IF by = <<>> THEN None
       ELSE (CHOOSE e \in Said(by[Len(by)]) : e.model = model).verdict

\* How many of the pairs of judges of an item agree.
RawAgreement(rows, judges) ==
    LET pairs == {p \in (DOMAIN rows) \X (1..judges) \X (1..judges) : p[2] < p[3] /\ None \notin {rows[p[1]][p[2]], rows[p[1]][p[3]]}}
    IN IF pairs = {} THEN None
       ELSE Ratio(Cardinality({p \in pairs : rows[p[1]][p[2]] = rows[p[1]][p[3]]}), Cardinality(pairs))

\* A row for each item that has a rating, a column for each judge; human[k] is what
\* the person said of row k.
Coefficients(rows, human, judges) ==
    LET both == IF judges = 0 THEN <<>>
                ELSE SelectSeq([k \in DOMAIN rows |-> <<human[k], rows[k][1]>>], LAMBDA p : None \notin Range(p))
        full == SelectSeq(rows, LAMBDA row : None \notin Range(row))
        some == SelectSeq(rows, LAMBDA row : Range(row) \ {None} # {})
        Column(s, j) == [k \in DOMAIN s |-> s[k][j]]
    IN [human  |-> CohenKappa(Column(both, 1), Column(both, 2)),
        cohen  |-> IF judges = 2 THEN CohenKappa(Column(full, 1), Column(full, 2)) ELSE None,
        fleiss |-> IF judges >= 3 /\ full # <<>> THEN FleissKappa(full) ELSE None,
        alpha  |-> IF judges >= 2 THEN KrippendorffAlpha(some, FALSE) ELSE None,
        ordinal |-> IF judges >= 2 THEN KrippendorffAlpha(some, TRUE) ELSE None,
        agree  |-> IF judges >= 2 THEN RawAgreement(rows, judges) ELSE None]

\* compute_for_revision, of a set that has run.  The items of the revision give the
\* human labels and the disputes; results are those of every regression run of the set.
Summary(items, results, itemOf) ==
    LET rated == Rated(results, itemOf)
        human == [i \in {x.id : x \in {y \in items : y.label # None}} |-> (CHOOSE x \in items : x.id = i).label]
        tells == SelectSeq(rated, LAMBDA r : Said(r) # {} \/ itemOf[r.trace] \in DOMAIN human)
        Of(order, judges) ==
            Coefficients([k \in DOMAIN order |-> [j \in DOMAIN judges |-> Ratings(rated, itemOf, order[k], judges[j])]],
                         [k \in DOMAIN order |-> IF order[k] \in DOMAIN human THEN human[order[k]] ELSE None], Len(judges))
    IN Of(Met([k \in DOMAIN tells |-> <<itemOf[tells[k].trace]>>]), SetToSortSeq(Judges(Range(rated)), <))
         @@ [raters   |-> Cardinality(Judges(Range(rated))) + (IF DOMAIN human = {} THEN 0 ELSE 1),
             disputed |-> Cardinality({x \in items : x.disputed})]
-------------------------------------------------------------------------------
(* What must hold of them.                                                 *)

Figures == {"human", "cohen", "fleiss", "alpha", "agree"}

\* Nothing exceeds 1, and the nominal alpha is 1 only if all judges agree on every
\* item; where they rated every item, it and Fleiss's kappa measure the same
\* disagreement, up to the correction for small samples.
Coherent(s, rated, itemOf) ==
    LET all   == \A r \in rated : Judges(rated) = {e.model : e \in Said(r)}
        total == Cardinality(Judges(rated)) * Cardinality({itemOf[r.trace] : r \in rated})
    IN /\ \A f \in Figures : s[f] # None => s[f].num <= s[f].den
       /\ s.alpha # None /\ s.alpha.num = s.alpha.den => s.agree.num = s.agree.den
       /\ all /\ s.fleiss # None /\ s.alpha # None =>
            SameValue(Ratio((s.alpha.den - s.alpha.num) * total, s.alpha.den),
                      Ratio((s.fleiss.den - s.fleiss.num) * (total - 1), s.fleiss.den))

\* The order in which the database returns the results does not matter as long as
\* no item has two.  (The ordinal alpha is left out: it does depend on it.)
OrderFree(s, t) == \A f \in Figures : SameValue(s[f], t[f])

Agreement(items, results, itemOf) ==
    \A of \in {[r \in {results, Reverse(results)} |-> Summary(items, r, itemOf)]} :
        /\ Coherent(of[results], Range(Rated(results, itemOf)), itemOf)
        /\ OrderFree(of[results], of[Reverse(results)])
===============================================================================
