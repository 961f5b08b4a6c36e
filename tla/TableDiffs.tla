------------------------------ MODULE TableDiffs -------------------------------
(***************************************************************************)
(* The other two comparisons of two tables: the tool diff_calculator of    *)
(* the query graph and the tool diff_compare of the agents; and the growth *)
(* from one period to another.  They differ from _diff_parallel_results in *)
(* what they take a missing value for, and agree where none is missing.    *)
(***************************************************************************)
EXTENDS Reconciliation

(* Both keep the last row of a key; a row without one has the key NULL.    *)
RowKeys(rows) == {rows[i].key : i \in DOMAIN rows}

(* What is only on the left or right, and what differs.                    *)
Difference(left, right, differ(_, _)) ==
    LET both == RowKeys(left) \cap RowKeys(right)
        last(rows, k) == LastRow(Read(rows), k).values
    IN  [onlyLeft |-> RowKeys(left) \ both, onlyRight |-> RowKeys(right) \ both,
         different |-> {k \in both : differ(last(left, k), last(right, k))}]

(* _values_match: no value is a value of its own, words are compared as    *)
(* they are, numbers up to the tolerance.                                  *)
ValuesMatch(x, y, tolerance) ==
    IF x \in {NoValue, Words} \/ y \in {NoValue, Words} THEN x = y
    ELSE ~Apart(x, y, tolerance)

(* DiffCalculatorTool._run, which compares columns of one name.            *)
DiffCalculator(left, right, columns, tolerance) ==
    Difference(left, right,
               LAMBDA v, w : \E c \in columns : ~ValuesMatch(v[c], w[c], tolerance))

(* DiffTool._compare, which compares columns by position, whichever it was *)
(* asked to compare; a column the other table lacks is a difference.       *)
DiffCompare(left, right) ==
    IF left = <<>> \/ right = <<>> THEN [onlyLeft |-> {}, onlyRight |-> {}, different |-> {}]
    ELSE Difference(left, right,
                    LAMBDA v, w : \/ Len(v) # Len(w)
                                  \/ \E c \in DOMAIN v : AsNumber(v[c]) # AsNumber(w[c]))

(* GrowthRateCalculatorTool._run: the rate is a fraction of |previous|.    *)
Growth(current, previous) ==
    IF previous = 0 THEN [known |-> FALSE, over |-> current - previous, under |-> 1]
    ELSE [known |-> TRUE, over |-> current - previous,
          under |-> IF previous < 0 THEN -previous ELSE previous]

------------------------------------------------------------------------------
DiffRows == [key : {"k1", "k2"}, values : {<<v>> : v \in {0, 1, 2}}]
DiffTables == UNION {[1..n -> DiffRows] : n \in 1..2}

(* Where every value is a number and no tolerance is given, the three      *)
(* comparisons say the same.                                               *)
ASSUME ThreeDiffsAgree ==
    \A left \in DiffTables, right \in DiffTables :
       LET d == DiffCompare(left, right)
           two == TwoWayDiff(<<Read(left), Read(right)>>, TRUE)
       IN  /\ DiffCalculator(left, right, {1}, 0) = d
           /\ two.missing = d.onlyLeft \cup d.onlyRight /\ two.amounts = d.different

(* A missing amount against 0 is a difference to diff_calculator only, and *)
(* an amount against words to both of them but not to the answer.          *)
ASSUME DiffsPartOnMissing ==
    LET t(v) == <<[key |-> "k1", values |-> <<v>>]>>
        answer(v, w) == TwoWayDiff(<<Read(t(v)), Read(t(w))>>, TRUE).amounts
    IN  /\ DiffCalculator(t(NoValue), t(0), {1}, 0).different = {"k1"}
        /\ DiffCompare(t(NoValue), t(0)).different = {} /\ answer(NoValue, 0) = {}
        /\ DiffCalculator(t(Words), t(1), {1}, 0).different = {"k1"}
        /\ DiffCompare(t(Words), t(1)).different = {"k1"} /\ answer(Words, 1) = {}

(* Growth and shrinkage are told apart whatever the sign of the periods.   *)
ASSUME GrowthHasItsSign ==
    \A c \in -2..2, p \in -2..2 :
       Growth(c, p).known => (Growth(c, p).over > 0 <=> c > p) /\ Growth(c, p).under > 0
==============================================================================
