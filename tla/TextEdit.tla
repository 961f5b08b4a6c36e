------------------------------- MODULE TextEdit --------------------------------
(***************************************************************************)
(* What EditTool and MultiEditTool do to a text, with the str.count and    *)
(* str.replace of Python they are built from: occurrences are found from   *)
(* the left and do not overlap.  A text is a sequence of letters.          *)
(***************************************************************************)
EXTENDS Integers, Sequences, SequencesExt, FiniteSets

OccursAt(text, old, i) ==
    i + Len(old) - 1 <= Len(text) /\ SubSeq(text, i, i + Len(old) - 1) = old

(* The places of the occurrences, from the left.                           *)
Occurrences(text, old) ==
    LET next[i \in 1..(Len(text) + 1)] ==
          IF i > Len(text) THEN {}
          ELSE IF OccursAt(text, old, i)
               THEN {i} \cup next[IF i + Len(old) > Len(text) THEN Len(text) + 1
                                                             ELSE i + Len(old)]
               ELSE next[i + 1]
    IN  next[1]

Count(text, old) == Cardinality(Occurrences(text, old))

(* str.replace: every occurrence.                                          *)
ReplaceText(text, old, new) ==
    LET places == Occurrences(text, old)
        piece(i) == IF i \in places THEN new
                    ELSE IF \E p \in places : p < i /\ i < p + Len(old) THEN <<>>
                    ELSE <<text[i]>>
    IN  FlattenSeq([i \in DOMAIN text |-> piece(i)])

Refused == [done |-> FALSE, text |-> <<>>]
Done(text) == [done |-> TRUE, text |-> text]

(* EditTool.run                                                            *)
EditText(text, old, new) ==
    IF Count(text, old) # 1 THEN Refused ELSE Done(ReplaceText(text, old, new))

(* MultiEditTool.run: every old text must occur once in the text as it is  *)
(* before any of them is replaced; then they are replaced one after the    *)
(* other.                                                                  *)
MultiEditText(text, edits) ==
    IF \E i \in DOMAIN edits : Count(text, edits[i].old) # 1 THEN Refused
    ELSE Done(FoldLeft(LAMBDA t, e : ReplaceText(t, e.old, e.new), text, edits))

------------------------------------------------------------------------------
(* The reference: the text with its only occurrence of old replaced.       *)
Once(text, old, new) ==
    LET p == CHOOSE i \in DOMAIN text : OccursAt(text, old, i)
    IN  SubSeq(text, 1, p - 1) \o new \o SubSeq(text, p + Len(old), Len(text))

Letters == {"x", "y"}
Texts == UNION {[1..n -> Letters] : n \in 0..4}
Olds == UNION {[1..n -> Letters] : n \in 1..2}
News == UNION {[1..n -> Letters] : n \in 0..1}

(* An edit changes one place and nothing else, or nothing at all.          *)
ASSUME EditIsExact ==
    \A text \in Texts, old \in Olds, new \in News :
       LET r == EditText(text, old, new)
       IN  r.done => r.text = Once(text, old, new)

(* The texts two edits look for occur apart, and what the first writes     *)
(* does not make or unmake an occurrence of what the second looks for.     *)
Independent(text, a, b) ==
    Count(Once(text, a.old, a.new), b.old) = 1

(* A list of edits that passes the test does what its edits do one by one, *)
(* each at one place, as long as they are independent: the test looks at   *)
(* the text before the first edit only.                                    *)
ASSUME MultiEditIsExact ==
    \A text \in Texts, a \in [old : Olds, new : News], b \in [old : Olds, new : News] :
       LET r == MultiEditText(text, <<a, b>>)
       IN  r.done /\ Independent(text, a, b) =>
              r.text = Once(Once(text, a.old, a.new), b.old, b.new)

(* It may do less or more when they are not: of two overlapping edits the  *)
(* second is dropped without a word, and what the first has written is     *)
(* replaced with the rest.                                                 *)
ASSUME MultiEditMayDropOrRepeat ==
    /\ MultiEditText(<<"x", "y", "y">>, <<[old |-> <<"x", "y">>, new |-> <<"y">>],
                                          [old |-> <<"x">>, new |-> <<>>]>>)
         = Done(<<"y", "y">>)
    /\ MultiEditText(<<"x", "y">>, <<[old |-> <<"x">>, new |-> <<"y">>],
                                     [old |-> <<"y">>, new |-> <<>>]>>)
         = Done(<<>>)
==============================================================================
