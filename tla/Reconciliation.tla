----------------------------- MODULE Reconciliation ----------------------------
(***************************************************************************)
(* How tables are compared: the plan the model proposes and the database   *)
(* corrects (plan_node), one SELECT per table (parallel_act), and the      *)
(* comparison of what came back (observe_node).  All of it is a function   *)
(* of the answers of the model and of the database.                        *)
(***************************************************************************)
EXTENDS Integers, Sequences, FiniteSets, SequencesExt

VARIABLES
    tables,   (* parallel_results: a result for every table                  *)
    plan,     (* what observe knows of the plan                              *)
    report    (* what observe makes of them                                  *)

reconVars == <<tables, plan, report>>

Null == "NULL"

(* A value as a row has it; NoValue is NULL, Words is not a number.        *)
NoValue == -1
Words == -2

(* A row: its key under the key column of its table, and the values of the *)
(* value columns.  A result: what parallel_act has for a table.            *)
Failed == [success |-> FALSE, rows |-> <<>>]
Read(rows) == [success |-> TRUE, rows |-> rows]

------------------------------------------------------------------------------
(* A column: its name, and what _key_priority sees in the name: "..._no",  *)
(* "..._id", another key word, just "id", or nothing of these.             *)
Column(name, class) == [name |-> name, class |-> class]

Priority(c) ==
    CASE c.class = "no" -> 0 [] c.class = "ref" -> 1 [] c.class = "id" -> 3 [] OTHER -> 2

Preferred(c) == c.class \in {"no", "ref", "key"}

(* The pairs of columns _auto_discover_join_keys tries for two tables.     *)
(* alike are the pairs of names SequenceMatcher finds similar.             *)
CandidateKeys(a, b, alike) ==
    LET common == a \cap b
        good == {c \in common : Preferred(c)}
        same == IF good # {} THEN good ELSE {c \in common : c.class # "id"}
    IN  IF same # {} THEN {<<c, c>> : c \in same}
        ELSE {p \in a \X b : p \in alike /\ p[1] # p[2]}

(* Which of those may be the first with most matches: key words are tried  *)
(* by priority, all else in the order of a Python set, which is any.       *)
(* matches is the JOIN COUNT of a pair, -1 when the query fails.           *)
BestKeys(candidates, matches) ==
    LET most == {p \in candidates : matches[p] >= 0 /\
                   \A q \in candidates : matches[q] <= matches[p]}
    IN  {p \in most : \A q \in most : Preferred(p[1]) => Priority(p[1]) <= Priority(q[1])}

(* What the database says of a pair of tables; nothing if one has no       *)
(* columns, as a table that does not exist.                                *)
Unjoined == [known |-> FALSE, cols |-> <<>>, count |-> 0]
NoKey == [known |-> TRUE, cols |-> <<>>, count |-> 0]

Discovered(a, b, alike, matches) ==
    LET best == BestKeys(CandidateKeys(a, b, alike), matches)
    IN  IF a = {} \/ b = {} THEN {Unjoined}
        ELSE IF best = {} THEN {NoKey}
        ELSE {[known |-> TRUE, cols |-> p, count |-> matches[p]] : p \in best}

(* Pairs of tables in the order of the two loops.                          *)
Pairs(n) == SetToSortSeq({p \in (1..n) \X (1..n) : p[1] < p[2]},
                         LAMBDA p, q : p[1] < q[1] \/ (p[1] = q[1] /\ p[2] < q[2]))

(* The key column of table i after _validate_recon_plan_with_db, which is  *)
(* also the one _nway_diff_engine takes: the last pair that has a match    *)
(* decides; without one the model's own column stands.                     *)
KeyColumn(i, n, found, proposed) ==
    FoldLeft(LAMBDA key, p : IF found[p].count > 0 /\ i \in {p[1], p[2]}
                             THEN found[p].cols[IF i = p[1] THEN 1 ELSE 2] ELSE key,
             proposed, Pairs(n))

PlanValid(n, found) == \A p \in ToSet(Pairs(n)) : found[p].known => found[p].count > 0

------------------------------------------------------------------------------
(* What the model answers to the planner: no JSON, or entries each with or *)
(* without a table, key columns and value columns.                         *)
Usable(entries) == SelectSeq(entries, LAMBDA e : e.table /\ e.keys /\ e.values)

(* _build_recon_plan_with_llm: the tables of the plan, or none.            *)
PlannedTables(answer) ==
    IF ~answer.json \/ Len(Usable(answer.entries)) < 2 THEN <<>> ELSE Usable(answer.entries)

(* _build_parallel_steps_with_llm: statements with a name that are SELECTs.*)
PlannedSelects(answer) ==
    LET kept == SelectSeq(answer.entries, LAMBDA e : e.alias /\ e.select)
    IN  IF ~answer.json \/ Len(kept) < 2 THEN <<>> ELSE kept

------------------------------------------------------------------------------
(* The rows of a result by key; a later row replaces an earlier one, a row *)
(* without a key is left out.                                              *)
KeysOf(result) == {result.rows[i].key : i \in DOMAIN result.rows} \ {Null}

LastRow(result, key) ==
    result.rows[CHOOSE i \in DOMAIN result.rows :
                   /\ result.rows[i].key = key
                   /\ \A j \in DOMAIN result.rows : result.rows[j].key = key => j <= i]

(* float(value or 0); what is no number is left out.                       *)
AsNumber(value) == IF value = NoValue THEN 0 ELSE value

Numbers(values) == {AsNumber(values[c]) : c \in {d \in DOMAIN values : values[d] # Words}}

Apart(x, y, tolerance) == x - y > tolerance \/ y - x > tolerance

(* Any two of the values differ, those of one table among them.  Mutant:   *)
(* each is compared with those of the first table only.                    *)
AmountsDiffer_First(results, read, key, tolerance) ==
    LET first == CHOOSE i \in read : \A j \in read : i <= j IN
    \E i \in read : \E x \in Numbers(LastRow(results[first], key).values),
                       y \in Numbers(LastRow(results[i], key).values) : Apart(x, y, tolerance)

AmountsDiffer(results, read, key, tolerance) ==
    \E i \in read, j \in read :
       \E x \in Numbers(LastRow(results[i], key).values),
          y \in Numbers(LastRow(results[j], key).values) : Apart(x, y, tolerance)

(* A report of a comparison.                                               *)
Report(kind, missing, amounts, read) ==
    [kind |-> kind, missing |-> missing, amounts |-> amounts, read |-> read]

Compared(missing, amounts, read) ==
    Report(IF missing = {} /\ amounts = {} THEN "consistent" ELSE "different",
           missing, amounts, read)

(* _nway_diff_engine for two tables or more.                               *)
NwayDiff(results, valid, tolerance) ==
    LET read == {i \in DOMAIN results : results[i].success}
        keys == UNION {KeysOf(results[i]) : i \in read}
        missing == {k \in keys : \E i \in read : k \notin KeysOf(results[i])}
    IN  IF ~valid THEN Report("unrelated", {}, {}, {})
        ELSE IF keys = {} THEN Report("empty", {}, {}, read)
        ELSE IF Cardinality(read) < 2 THEN Report("alone", {}, {}, read)
        ELSE Compared(missing,
                      {k \in keys \ missing : AmountsDiffer(results, read, k, tolerance)}, read)

(* _diff_parallel_results: the two first results, without a plan.  A row   *)
(* without a key counts as one; only the first value column is compared,   *)
(* to a thousandth; shared says whether they have a column in common.      *)
TwoWayDiff(results, shared) ==
    LET keys(i) == {results[i].rows[j].key : j \in DOMAIN results[i].rows}
        value(i, k) == LastRow(results[i], k).values[1]
        both == keys(1) \cap keys(2)
    IN  IF ~results[1].success \/ ~results[2].success THEN Report("failed", {}, {}, {})
        ELSE IF results[1].rows = <<>> \/ results[2].rows = <<>> THEN Report("empty", {}, {}, {})
        ELSE IF ~shared THEN Report("unrelated", {}, {}, {})
        ELSE Compared((keys(1) \cup keys(2)) \ both,
                      {k \in both : /\ value(1, k) # Words /\ value(2, k) # Words
                                    /\ Apart(AsNumber(value(1, k)), AsNumber(value(2, k)), 0)},
                      {1, 2})

(* _summarize_observations: which comparison answers the query, if any.    *)
Summary(results, p, parallel) ==
    IF ~parallel \/ Len(results) < 2 THEN Report("last observation", {}, {}, {})
    ELSE IF p.tables >= 2 THEN NwayDiff(results, p.valid, p.tolerance)
    ELSE TwoWayDiff(results, p.shared)

------------------------------------------------------------------------------
(* Rows, results and plans that are enough for every case above.           *)
SampleRows == [key : {"k1", Null}, values : {<<v>> : v \in {NoValue, Words, 1, 2}}]
                \cup {[key |-> "k2", values |-> <<1>>]}
UpTo(n) == {Read(rows) : rows \in UNION {[1..k -> SampleRows] : k \in 0..n}} \cup {Failed}

Plans == [tables : {3}, valid : BOOLEAN, tolerance : {1}, shared : {TRUE}]
           \cup [tables : {0}, valid : {TRUE}, tolerance : {1}, shared : BOOLEAN]

Pending == Report("pending", {}, {}, {})

ReconInit ==
    /\ plan \in Plans /\ report = Pending
    /\ \E one \in UpTo(2), two \in UpTo(2) :
          \/ plan.tables = 3 /\ \E three \in UpTo(1) : tables = <<one, two, three>>
          \/ plan.tables = 0 /\ tables = <<one, two>>

ObserveTables ==
    /\ report = Pending
    /\ report' = Summary(tables, plan, TRUE)
    /\ UNCHANGED <<tables, plan>>

ReconNext == ObserveTables

------------------------------------------------------------------------------
(* A row that a comparison has to account for: it has a key, or is of a    *)
(* comparison without a plan, and no later row of its table has the same.  *)
Counts(row, i) ==
    /\ row.key # Null \/ plan.tables = 0
    /\ \E j \in DOMAIN tables[i].rows :
          /\ tables[i].rows[j] = row
          /\ \A l \in DOMAIN tables[i].rows : l > j => tables[i].rows[l].key # row.key

Tolerance == IF plan.tables = 0 THEN 0 ELSE plan.tolerance

(* Two rows agree if their amounts do, or one of them is not a number.     *)
Agree(r, s) ==
    \/ r.values[1] = Words \/ s.values[1] = Words
    \/ AsNumber(r.values[1]) - AsNumber(s.values[1]) \in -Tolerance..Tolerance

(* The report that all tables agree is given exactly when every row that   *)
(* counts, of a table that was read, has a row of its key in every other   *)
(* table that was read, and agrees with it (_nway_diff_engine,             *)
(* _diff_parallel_results); whatever was not read is not reported on.      *)
VerdictIsTrue ==
    report.kind \in {"consistent", "different"} =>
       (report.kind = "consistent" <=>
          \A i \in report.read : \A j \in report.read \ {i} :
             \A r \in ToSet(tables[i].rows) : Counts(r, i) =>
                \E s \in ToSet(tables[j].rows) :
                   s.key = r.key /\ Counts(s, j) /\ Agree(r, s))

------------------------------------------------------------------------------
No == Column("order_no", "no")
Ref == Column("order_id", "ref")
Sku == Column("sku", "other")
TableColumns == {{No, Sku}, {Ref, Sku}, {No, Ref}, {Sku}, {}}

(* Two tables of a valid plan are compared by columns that were joined and *)
(* had matches, unless one of the tables is unknown to the database.       *)
ASSUME TwoTablesByJoinedKeys ==
    \A a \in TableColumns, b \in TableColumns, proposed \in {No, Sku} :
       \A matches \in [CandidateKeys(a, b, {<<No, Ref>>, <<Ref, No>>}) -> -1..2] :
          \A f \in Discovered(a, b, {<<No, Ref>>, <<Ref, No>>}, matches) :
             LET found == [p \in {<<1, 2>>} |-> f]
                 used == [i \in 1..2 |-> KeyColumn(i, 2, found, proposed)]
             IN  PlanValid(2, found) /\ f.known => matches[<<used[1], used[2]>>] > 0

(* Of three tables this cannot be said: every pair has a column of its own *)
(* with most matches, and each table keeps the one of its last pair.       *)
ASSUME ThreeTablesMayMix ==
    LET found == [p \in ToSet(Pairs(3)) |->
                    [known |-> TRUE, count |-> 1,
                     cols |-> IF p = <<1, 2>> THEN <<No, No>> ELSE IF p = <<1, 3>>
                              THEN <<Ref, Ref>> ELSE <<No, No>>]]
    IN  /\ PlanValid(3, found)
        /\ KeyColumn(1, 3, found, Sku) = Ref
        /\ KeyColumn(2, 3, found, Sku) = No /\ KeyColumn(3, 3, found, Sku) = No
==============================================================================
