------------------------------- MODULE Condense -------------------------------
(***************************************************************************)
(* Texts cut to a budget before a model reads them: packets chosen for a   *)
(* context (ContextBuilder), sentences of a document (ContextCompressor),  *)
(* lines of the output of a tool (ObservationTruncator).  A text is known  *)
(* by its sizes and by how relevant it is, in tenths.                      *)
(***************************************************************************)
EXTENDS Integers, Sequences, SequencesExt, FiniteSetsExt

Places(s) == [i \in DOMAIN s |-> i]
Size(s) == FoldLeft(LAMBDA n, x : n + x, 0, s)
FirstN(s, n) == SubSeq(s, 1, Min({n, Len(s)}))
LastN(s, n) == IF n = 0 THEN s ELSE SubSeq(s, Max({1, Len(s) - n + 1}), Len(s))

(* Places ordered by falling score, equal ones as they were.               *)
ByScore(places, score(_)) ==
    SetToSortSeq(places, LAMBDA i, j : score(i) > score(j) \/ (score(i) = score(j) /\ i < j))

------------------------------------------------------------------------------
(* ContextBuilder._gather: instructions, then the last ten messages as one *)
(* new packet, then what the caller adds.  How much of the question the    *)
(* words of a packet repeat (overlap, relevance) is for _select to see.    *)
Gather(instructions, history, overlap, added) ==
    instructions
      \o (IF history = <<>> THEN <<>>
          ELSE <<[type |-> "history", tokens |-> Size(LastN(history, 10)),
                  relevance |-> overlap, recency |-> 10]>>)
      \o added

(* ContextBuilder._select: instructions first, then the relevant packets   *)
(* by score; one that does not fit is passed over.                         *)
Select(packets, budget, least) ==
    LET policy(i) == packets[i].type = "instructions"
        score(i) == 7 * packets[i].relevance + 3 * packets[i].recency
        relevant == {i \in DOMAIN packets : ~policy(i) /\ packets[i].relevance >= least}
        take(s, i) == IF s.used + packets[i].tokens > budget THEN s
                      ELSE [taken |-> Append(s.taken, i), used |-> s.used + packets[i].tokens]
    IN  FoldLeft(take, [taken |-> <<>>, used |-> 0],
                 SelectSeq(Places(packets), policy) \o ByScore(relevant, score))

(* ContextBuilder._structure: the sections, each with its packets; the     *)
(* question and the form of the answer are always there.                   *)
Evidence == {"related_memory", "knowledge_base", "retrieval", "tool_result"}

Structure(packets, taken) ==
    LET of(types) == SelectSeq(taken, LAMBDA i : packets[i].type \in types)
        section(name, shown) == [name |-> name, packets |-> shown]
        sections == <<section("role", of({"instructions"})), section("task", <<>>),
                      section("state", of({"task_state"})), section("evidence", of(Evidence)),
                      section("context", of({"history"})), section("output", <<>>)>>
    IN  SelectSeq(sections, LAMBDA s : s.packets # <<>> \/ s.name \in {"task", "output"})

(* ContextBuilder._compress: the lines that fit, up to the first that does *)
(* not, if they are too many tokens together.                              *)
Compress(lines, budget) ==
    LET fit(n) == Size(SubSeq(lines, 1, n)) <= budget
    IN  SubSeq(lines, 1, Max({n \in 0..Len(lines) : fit(n)}))

------------------------------------------------------------------------------
(* _extract_top_sentences: the best sentences, up to the first that does   *)
(* not fit, or the beginning of the text; then put in the order of the     *)
(* list sorted by score.                                                   *)
TopSentences(sizes, scores, max) ==
    LET order == ByScore(DOMAIN sizes, LAMBDA i : scores[i])
        fit(n) == Size([i \in 1..n |-> sizes[order[i]]]) <= max
        n == Max({m \in 0..Len(order) : fit(m)})
    IN  IF n = 0 THEN <<"beginning">> ELSE SubSeq(order, 1, n)

(* compress_one                                                            *)
CompressOne(sizes, scores, max, summarises, threshold) ==
    CASE Size(sizes) <= max -> Places(sizes)
      [] Size(sizes) > max /\ summarises /\ Size(sizes) > threshold -> <<"summary">>
      [] OTHER -> TopSentences(sizes, scores, max)

------------------------------------------------------------------------------
(* ObservationTruncator: an output with too many lines or bytes is cut by  *)
(* lines, and the whole of it saved to a file.                             *)
Ellipsis == 0

TruncateLines(lines, max, direction) ==
    CASE direction = "tail" -> LastN(lines, max)
      [] direction = "head_tail" ->
           FirstN(lines, max \div 2) \o <<Ellipsis>> \o LastN(lines, max \div 2)
      [] OTHER -> FirstN(lines, max)

Truncate(lines, maxLines, maxBytes, direction) ==
    IF Len(lines) <= maxLines /\ Size(lines) + Len(lines) - 1 <= maxBytes
    THEN [truncated |-> FALSE, preview |-> lines, saved |-> <<>>]
    ELSE [truncated |-> TRUE, preview |-> TruncateLines(lines, maxLines, direction),
          saved |-> lines]

------------------------------------------------------------------------------
Packets == [type : {"instructions", "history", "retrieval", "note"}, tokens : {1, 3},
            relevance : {2, 9}, recency : {0, 10}]
Used(packets, taken) == Size([i \in DOMAIN taken |-> packets[taken[i]].tokens])

(* What is selected keeps to the budget, and a relevant packet was left    *)
(* out only for want of room (ContextBuilder._select).                     *)
ASSUME SelectedFits ==
    \A p \in [1..3 -> Packets], budget \in {2, 5} : LET s == Select(p, budget, 3) IN
       /\ Used(p, s.taken) = s.used /\ s.used <= budget
       /\ \A i \in DOMAIN p : i \notin ToSet(s.taken) /\ p[i].type # "instructions"
                                /\ p[i].relevance >= 3 => s.used + p[i].tokens > budget

(* A packet of a type without a section takes room and is not shown: so    *)
(* does one that an application adds under a name of its own.              *)
ASSUME PacketsShown ==
    \A p \in [1..2 -> Packets] : LET s == Select(p, 6, 3) IN
       \A i \in ToSet(s.taken) :
          (\E section \in ToSet(Structure(p, s.taken)) : i \in ToSet(section.packets))
             <=> p[i].type # "note"

(* A conversation is judged as one packet by the words it shares with the  *)
(* question, however recent it is: one that shares too few, or does not    *)
(* fit as a whole, is left out as a whole.                                 *)
ASSUME HistoryAsOne ==
    \A history \in UNION {[1..n -> {1, 2}] : n \in 1..3}, overlap \in {0, 2, 3, 9},
       rule, note \in Packets :
       rule.type = "instructions" /\ note.type = "note" =>
       LET p == Gather(<<rule>>, history, overlap, <<note>>)
           s == Select(p, 6, 3)
       IN  2 \in ToSet(s.taken) => overlap >= 3 /\ rule.tokens + Size(history) <= 6

(* A context within the budget stays whole, and of another a beginning is  *)
(* kept, so that the form of the answer goes first.                        *)
ASSUME CompressKeepsBeginning ==
    \A lines \in UNION {[1..n -> 1..3] : n \in 0..3}, budget \in 0..5 :
       LET c == Compress(lines, budget) IN
       /\ IsPrefix(c, lines) /\ Size(c) <= budget
       /\ (c = lines) <=> Size(lines) <= budget

(* The sentences come in the order of their scores, though the comment     *)
(* says in that of the text; and if the best does not fit, none is chosen. *)
ASSUME SentencesByScore ==
    /\ TopSentences(<<1, 1>>, <<1, 2>>, 2) = <<2, 1>>
    /\ TopSentences(<<1, 4>>, <<1, 2>>, 2) = <<"beginning">>

(* An output is cut to its lines only: one of few, long lines is shown     *)
(* whole although it is said to be cut.                                    *)
ASSUME LongLinesStay ==
    \A lines \in UNION {[1..n -> {1, 9}] : n \in 1..3}, d \in {"head", "tail", "head_tail"} :
       LET t == Truncate(lines, 2, 8, d) IN
       /\ d # "head_tail" => Len(t.preview) <= 2
       /\ t.truncated => t.saved = lines
       /\ Len(lines) <= 2 /\ t.truncated /\ d # "head_tail" => t.preview = lines

(* A preview of one line from both ends is the whole output and a mark.    *)
ASSUME OneLineOfBothEnds == TruncateLines(<<1, 2, 3>>, 1, "head_tail") = <<Ellipsis, 1, 2, 3>>
==============================================================================
