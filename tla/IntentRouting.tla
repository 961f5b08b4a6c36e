---------------------------- MODULE IntentRouting -----------------------------
(***************************************************************************)
(* How the agents of recon_core choose what a question is about and what   *)
(* of the past they are shown: intents matched by keywords (intent,        *)
(* intent_registry), skills and cases found by words (skill_reviewer,      *)
(* case_store, rag_retriever), skill files read in layers (loader).  A     *)
(* text is known by how many keywords or words it shares with another.     *)
(***************************************************************************)
EXTENDS Integers, Sequences, FiniteSets, SequencesExt, FiniteSetsExt

Schema == "sql_schema"
AllTools == {Schema, "sql_execute", "sql_validate", "sql_schema_search",
             "diff_compare", "report_generate"}

(* ALL_INTENTS: how many keywords, which tools, how many steps.            *)
AllIntents ==
    [reconciliation |-> [keywords |-> 9, steps |-> 8, tools |-> AllTools \ {"sql_schema_search"}],
     adhoc_query    |-> [keywords |-> 15, steps |-> 4,
                         tools |-> {Schema, "sql_execute", "sql_validate"}],
     schema_lookup  |-> [keywords |-> 11, steps |-> 2, tools |-> {Schema}],
     complex_query  |-> [keywords |-> 12, steps |-> 8,
                         tools |-> AllTools \ {"diff_compare", "report_generate"}]]
Default == [keywords |-> 0, steps |-> 1, tools |-> {}]

(* IntentRegistry.get, or DEFAULT_INTENT.                                  *)
IntentOf(name) == IF name \in DOMAIN AllIntents THEN AllIntents[name] ELSE Default

(* _keyword_match: the share of the keywords found and their letters, in   *)
(* percent times the number of keywords.  Equal scores are compared by     *)
(* their intents, which have no order.                                     *)
Score(i, found) == 100 * found[i].words + AllIntents[i].keywords * found[i].letters
Higher(i, j, found) ==
    Score(i, found) * AllIntents[j].keywords > Score(j, found) * AllIntents[i].keywords
Matched(found) == {i \in DOMAIN AllIntents : found[i].words > 0}
Tied(found) ==
    \E i, j \in Matched(found) : i # j /\ ~Higher(i, j, found) /\ ~Higher(j, i, found)
KeywordMatch(found) ==
    LET best == {i \in Matched(found) :
                   \A j \in Matched(found) \ {i} : Higher(i, j, found)}
    IN  {i \in best : Score(i, found) > 10 * AllIntents[i].keywords}

(* IntentRegistry.classify: a name, "clarify", or an exception.  What the  *)
(* model says may be no intent at all.                                     *)
Classify(found, model) ==
    CASE Tied(found) -> "TypeError"
      [] ~Tied(found) /\ KeywordMatch(found) # {} -> CHOOSE i \in KeywordMatch(found) : TRUE
      [] ~Tied(found) /\ KeywordMatch(found) = {} /\ model.confidence >= 60 -> model.intent
      [] OTHER -> "clarify"

------------------------------------------------------------------------------
(* Places ordered by falling score, equal ones as they were, and of these  *)
(* the first that have a score at all.                                     *)
Found(scores, k) ==
    LET order == SetToSortSeq({i \in DOMAIN scores : scores[i] > 0},
                              LAMBDA i, j : scores[i] > scores[j] \/ (scores[i] = scores[j] /\ i < j))
    IN  SubSeq(order, 1, Min({k, Len(order)}))

(* SkillReviewer.find_skills, in halves of a point.                        *)
FindSkills(skills, k) ==
    Found([i \in DOMAIN skills |->
             4 * skills[i].described + 2 * skills[i].contained + skills[i].uses], k)

(* CaseStore.save: the id of a case is the second; the index only grows.   *)
SaveCase(store, query, second) ==
    [index |-> Append(store.index, second),
     file |-> [store.file EXCEPT ![second] = query]]

(* Ties for the later place, where places are sorted with their names.     *)
LaterFirst(scores) ==
    [i \in DOMAIN scores |-> IF scores[i] > 0 THEN scores[i] * (Len(scores) + 1) + i ELSE 0]

(* CaseStore.find_similar: cases by the words they share, new ones first.  *)
FindCases(store, likeness, k) ==
    LET places == Found(LaterFirst([i \in DOMAIN store.index |-> likeness[i]]), k)
    IN  [n \in DOMAIN places |-> store.file[store.index[places[n]]]]

(* TableDocRetriever._keyword_search: words shared of words altogether.    *)
KeywordSearch(question, docs, k) ==
    Found(LaterFirst([i \in DOMAIN docs |->
             (1000 * Cardinality(question \cap docs[i])) \div Cardinality(question \cup docs[i])]), k)

------------------------------------------------------------------------------
(* SkillLoader: what is known of the skill files, and of which the text    *)
(* has been read.  A file is its name and a text, or Broken.               *)
Broken == [name |-> "", text |-> ""]
Scan(files) ==
    [listed |-> {d \in DOMAIN files : files[d] # Broken}, names |-> files,
     read |-> [n \in {} |-> ""]]

(* get_skill reads the file of the first reading of the directory, once.   *)
GetSkill(loader, files, name) ==
    LET dirs == {d \in loader.listed : loader.names[d].name = name}
    IN  IF name \in DOMAIN loader.read THEN [loader |-> loader, text |-> loader.read[name]]
        ELSE IF dirs = {} \/ files[Max(dirs)] = Broken THEN [loader |-> loader, text |-> ""]
        ELSE LET text == files[Max(dirs)].text
             IN  [text |-> text,
                  loader |-> [loader EXCEPT !.read =
                     [n \in DOMAIN loader.read \cup {name} |->
                        IF n = name THEN text ELSE loader.read[n]]]]

------------------------------------------------------------------------------
Nothing == [words |-> 0, letters |-> 0]
FoundWords == {Nothing} \cup [words : 1..4, letters : {4, 7}]

(* Keywords decide for the intent with the best score, or nobody is asked  *)
(* but the model, or the user.                                             *)
ASSUME ClassifiedByBest ==
    \A found \in [DOMAIN AllIntents -> FoundWords] :
       LET c == Classify(found, [intent |-> "x", confidence |-> 50]) IN
       c \in DOMAIN AllIntents => \A j \in Matched(found) : ~Higher(j, c, found)

(* A question with one of the short keywords of adhoc_query (two letters   *)
(* of Chinese) is not classified by it, as with every other intent.        *)
ASSUME OneShortWord ==
    \A i \in DOMAIN AllIntents :
       LET found == [j \in DOMAIN AllIntents |-> IF i = j THEN [words |-> 1, letters |-> 2]
                                                 ELSE Nothing]
       IN  KeywordMatch(found) = {} <=> i = "adhoc_query"

(* Three keywords of reconciliation and four of complex_query with as many *)
(* letters are a third of each; the comparison of the intents fails.       *)
ASSUME EqualScoresRaise ==
    Classify([j \in DOMAIN AllIntents |->
                CASE j = "reconciliation" -> [words |-> 3, letters |-> 7]
                  [] j = "complex_query" -> [words |-> 4, letters |-> 7]
                  [] OTHER -> Nothing],
             [intent |-> "x", confidence |-> 0]) = "TypeError"

(* A skill that was learned again is found by any question, and before one *)
(* that matches it, once it was learned often enough.                      *)
ASSUME UsedSkillsAlwaysFound ==
    \A uses \in 1..5 :
       LET often == [described |-> 0, contained |-> 0, uses |-> uses]
           fits == [described |-> 1, contained |-> 0, uses |-> 0]
       IN  /\ FindSkills(<<often>>, 3) = <<1>>
           /\ FindSkills(<<fits, often>>, 1) = IF uses > 4 THEN <<2>> ELSE <<1>>

(* Of two cases saved in one second the first is lost, and the second is   *)
(* found twice.                                                            *)
ASSUME CasesOfOneSecond ==
    LET store == SaveCase(SaveCase([index |-> <<>>, file |-> [s \in 0..1 |-> "none"]], "a", 0), "b", 0)
    IN  FindCases(store, <<1, 2>>, 2) = <<"b", "b">>

(* A document that shares more of the question comes first, unless it is   *)
(* the longer one; none is found that shares nothing.                      *)
ASSUME DocsByWords ==
    \A question \in SUBSET {1, 2}, docs \in [1..2 -> SUBSET (1..4) \ {{}}] :
       LET hits == KeywordSearch(question, docs, 2) IN
       /\ \A i \in DOMAIN docs : i \in ToSet(hits) <=> question \cap docs[i] # {}
       /\ Len(hits) = 2 /\ Cardinality(docs[1]) = Cardinality(docs[2]) =>
             Cardinality(question \cap docs[hits[1]]) >= Cardinality(question \cap docs[hits[2]])

(* A skill's text is the one of its first reading until the loader scans   *)
(* again, and a skill whose file was not there at the scan is not found.   *)
ASSUME SkillAsFirstRead ==
    \A old, new \in [1..2 -> {Broken} \cup [name : {"s", "t"}, text : {"x", "y"}]] :
       LET first == GetSkill(Scan(old), old, "s")
           again == GetSkill(first.loader, new, "s")
       IN  /\ first.text # "" => again.text = first.text
           /\ (\A d \in 1..2 : old[d].name # "s") => again.text = ""
==============================================================================
