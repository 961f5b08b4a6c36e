------------------------------- MODULE Diagnosis -------------------------------
(***************************************************************************)
(* What observe and clarify tell a user about a failure, an empty result   *)
(* or a refused question (error_diagnosis), and the relations between      *)
(* tables that the knowledge base is told of (relationship_builder).       *)
(* Messages and statements are known by the patterns they match.           *)
(***************************************************************************)
EXTENDS Integers, Sequences, SequencesExt, FiniteSetsExt

(* classify_error: the first kind, in this order, with a pattern that      *)
(* matches the message.                                                    *)
ErrorTypes == <<"table_not_found", "column_not_found", "ambiguous_column", "date_error",
                "syntax_error", "type_error", "db_locked">>

classify_error(matches) ==
    LET matching == {i \in DOMAIN ErrorTypes : ErrorTypes[i] \in matches}
    IN  IF matching = {} THEN "unknown" ELSE ErrorTypes[Min(matching)]

(* edit_dist: the table of distances row by row, one row for every letter  *)
(* of the longer word.                                                     *)
EditDistance(x, y) ==
    LET a == IF Len(x) > Len(y) THEN y ELSE x
        b == IF Len(x) > Len(y) THEN x ELSE y
        next(row, c) ==
          FoldLeft(LAMBDA new, j :
                     Append(new, Min({row[j + 1] + 1, Last(new) + 1,
                                      row[j] + (IF c = a[j] THEN 0 ELSE 1)})),
                   <<row[1] + 1>>, [j \in DOMAIN a |-> j])
    IN  IF a = b THEN 0 ELSE Last(FoldLeft(next, [j \in 1..(Len(a) + 1) |-> j - 1], b))

(* _similar_names: the three nearest of the candidates, which are given in *)
(* the order of the alphabet, at a distance of three or less.              *)
SimilarNames(target, candidates) ==
    LET distance(i) == EditDistance(target, candidates[i])
        near == SetToSortSeq({i \in DOMAIN candidates : distance(i) <= 3},
                  LAMBDA i, j : distance(i) < distance(j) \/ (distance(i) = distance(j) /\ i < j))
    IN  [i \in 1..Min({3, Len(near)}) |-> candidates[near[i]]]

(* diagnose_error: what is said besides the kind of failure; the statement *)
(* is shown unless there is none or the database was locked.               *)
diagnose_error(matches, statement, similar) ==
    LET type == classify_error(matches) IN
    [type |-> type,
     names |-> IF type = "table_not_found" THEN similar ELSE <<>>,
     shows |-> statement /\ type # "db_locked"]

(* diagnose_empty_result: a reason for every kind of filter, before them   *)
(* what the table holds without, if that is known (-1 is not known).       *)
diagnose_empty_result(filters, unfiltered) ==
    LET reasons == SelectSeq(<<"date", "status", "amount">>, LAMBDA f : f \in filters)
        counted == CASE unfiltered = -1 -> <<>> [] unfiltered > 0 -> <<"filtered">>
                     [] OTHER -> <<"no data">>
    IN  IF counted \o reasons = <<>> THEN <<"widen", "count first">> ELSE counted \o reasons

(* build_retry_exhausted_message: the last three statements, numbered from *)
(* one, under the number of all.                                           *)
ShownAttempts(sqls) ==
    LET shown == SubSeq(sqls, Max({1, Len(sqls) - 2}), Len(sqls))
    IN  [i \in DOMAIN shown |-> [number |-> i, sql |-> shown[i]]]

Advice(matches, similar) ==
    CASE classify_error(matches) = "table_not_found" ->
           (IF similar = <<>> THEN <<>> ELSE <<Head(similar)>>) \o <<"ask for tables">>
      [] classify_error(matches) = "column_not_found" -> <<"describe", "ask for columns">>
      [] classify_error(matches) = "syntax_error" -> <<"simplify", "do not nest">>
      [] OTHER -> <<"say it again", "split">>

build_retry_exhausted_message(sqls, matches, similar) ==
    [attempts |-> Len(sqls), shown |-> ShownAttempts(sqls),
     advice |-> Append(Advice(matches, similar), "ask the administrator")]

(* build_rejected_message                                                  *)
build_rejected_message(injects, writes) ==
    CASE injects -> "unsafe" [] ~injects /\ writes -> "read only" [] OTHER -> "not supported"

------------------------------------------------------------------------------
(* The relations that _detect_naming_relations infers: a column "x_id" is  *)
(* taken to point at the table x or, if there is none, at the table of     *)
(* which x is the singular; one relation for every two tables, the first.  *)
(* A column is known by its x, "" in a column that is no such.  tables is  *)
(* a sequence of records [name, columns, key], key if it has an id.        *)
NamingRelations(tables, singular, existing) ==
    LET names == {t.name : t \in ToSet(tables)}
        targets(x) == IF x \in names THEN {x} ELSE {n \in names : singular[n] = x}
        columns == FlattenSeq([i \in DOMAIN tables |->
                     [j \in DOMAIN tables[i].columns |->
                        [from |-> tables[i].name, of |-> tables[i].columns[j]]]])
        hasRef(n, x) == \E t \in ToSet(tables) :
                           t.name = n /\ (t.key \/ x \in ToSet(t.columns))
        add(s, c) ==
          LET to == IF c.of = "" THEN {} ELSE targets(c.of) \ {c.from} IN
          IF \E n \in to : <<c.from, n>> \notin s.pairs /\ hasRef(n, c.of)
          THEN LET n == CHOOSE m \in to : TRUE
               IN  [pairs |-> s.pairs \cup {<<c.from, n>>},
                    found |-> Append(s.found, [from |-> c.from, of |-> c.of, to |-> n])]
          ELSE s
    IN  FoldLeft(add, [pairs |-> existing, found |-> <<>>], columns).found

(* RelationshipChunkBuilder.build: the foreign keys, what is inferred      *)
(* besides, and what the caller adds; a chunk for every relation, named by *)
(* its two tables, and one for all.                                        *)
RelationsOf(tables, singular, foreign, extra) ==
    foreign \o NamingRelations(tables, singular, {<<r.from, r.to>> : r \in ToSet(foreign)})
      \o extra

RelationChunks(relations) ==
    [i \in DOMAIN relations |-> <<relations[i].from, relations[i].to>>] \o <<<<"overview">>>>

(* build_default_kb: the tables, the rules without the snapshot of the     *)
(* relations, the relations if a database is found and can be read, and    *)
(* three built-in texts if there is no file of rules.                      *)
Snapshot == "auto_relationships"

build_default_kb(tableDocs, rules, ruleFiles, database, reads, chunks) ==
    tableDocs \o SelectSeq(rules, LAMBDA r : r # Snapshot)
      \o (IF database /\ reads THEN chunks ELSE <<>>)
      \o (IF ~ruleFiles THEN <<"reconciliation_rules", "sqlite_dialect", "business_terms">>
          ELSE <<>>)

------------------------------------------------------------------------------
Words == UNION {[1..n -> {"x", "y"}] : n \in 0..3}

(* The distance by definition: letters put in, left out or replaced.       *)
Levenshtein(a, b) ==
    LET d[i \in 0..Len(a), j \in 0..Len(b)] ==
          IF i = 0 \/ j = 0 THEN i + j
          ELSE Min({d[i - 1, j] + 1, d[i, j - 1] + 1,
                    d[i - 1, j - 1] + (IF a[i] = b[j] THEN 0 ELSE 1)})
    IN  d[Len(a), Len(b)]

(* The rows of edit_dist end in the edit distance, whichever word is first.*)
ASSUME DistanceIsLevenshtein == \A a, b \in Words : EditDistance(a, b) = Levenshtein(a, b)

(* A table with the very name is suggested first; a short name is near to  *)
(* every short name, related or not (_similar_names).                      *)
ASSUME NearestFirst ==
    \A a, b, c \in Words \ {<<>>} :
       /\ a \in {b, c} => Head(SimilarNames(a, <<b, c>>)) = a
       /\ Len(SimilarNames(a, <<b, c>>)) = 2

(* Whatever statement fails, its text is shown unless the database was     *)
(* locked, and a failure with two readings is told by the earlier kind.    *)
ASSUME ToldByEarlierKind ==
    \A m \in SUBSET ToSet(ErrorTypes) : LET d == diagnose_error(m, TRUE, <<"t">>) IN
       /\ d.shows <=> m # {"db_locked"}
       /\ d.names # <<>> <=> "table_not_found" \in m
       /\ d.type = "unknown" <=> m = {}

(* Of four attempts the last three are shown, and the fourth has number 3. *)
ASSUME FourthIsThird ==
    ShownAttempts(<<"p", "q", "r", "s">>)[3] = [number |-> 3, sql |-> "s"]

(* An empty result is always explained, and what is counted comes first.   *)
ASSUME EmptyExplained ==
    \A f \in SUBSET {"date", "status", "amount"}, n \in {-1, 0, 5} :
       LET s == diagnose_empty_result(f, n) IN
       s # <<>> /\ (n # -1 => Head(s) = IF n = 0 THEN "no data" ELSE "filtered")

(* Of the columns of a table that point at one other, the first is told of *)
(* and none if a foreign key is declared; two declared ones make two       *)
(* chunks of one name.                                                     *)
ASSUME OneRelationOfTwo ==
    LET tables == <<[name |-> "orders", columns |-> <<"">>, key |-> TRUE],
                    [name |-> "moves", columns |-> <<"order", "orders">>, key |-> TRUE]>>
        singular == [n \in {"orders", "moves"} |-> IF n = "orders" THEN "order" ELSE "move"]
        key(c) == [from |-> "moves", of |-> c, to |-> "orders"]
    IN  /\ RelationsOf(tables, singular, <<>>, <<>>) = <<key("order")>>
        /\ RelationsOf(tables, singular, <<key("b")>>, <<>>) = <<key("b")>>
        /\ LET c == RelationChunks(RelationsOf(tables, singular, <<key("b"), key("c")>>, <<>>))
           IN  c[1] = c[2]

(* Without a database no relation is in the knowledge base, although the   *)
(* snapshot of them is there.                                              *)
ASSUME NoSnapshotInstead ==
    ToSet(build_default_kb(<<"orders">>, <<"rule", Snapshot>>, TRUE, FALSE, TRUE, <<"chunk">>))
      = {"orders", "rule"}
==============================================================================
