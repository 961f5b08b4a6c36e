------------------------------- MODULE Retrieval -------------------------------
(***************************************************************************)
(* How documents get to a prompt: cut into chunks, embedded in batches and *)
(* stored (kb_vector_store, milvus_store), found by two searches whose     *)
(* ranks are merged (HybridRetriever), put into another order by a model   *)
(* (LLMReranker); and how cases and patterns are ranked in the memory.     *)
(***************************************************************************)
EXTENDS Integers, Sequences, FiniteSets, SequencesExt, FiniteSetsExt, Functions

------------------------------------------------------------------------------
(* chunk_text_doc: sentences, given by their lengths, are put together     *)
(* until the next would make a chunk too long.                             *)
Chunk(sentences, max) ==
    LET len(chunk) == FoldLeft(LAMBDA n, i : n + sentences[i], 0, chunk)
        add(chunks, i) ==
          IF chunks # <<>> /\ len(Last(chunks)) + sentences[i] <= max
          THEN Append(Front(chunks), Append(Last(chunks), i))
          ELSE Append(chunks, <<i>>)
    IN  FoldLeft(add, <<>>, [i \in DOMAIN sentences |-> i])

(* _load_dir keeps a text that is short enough whole, drops one that is    *)
(* too short, and of a long one the chunks that are.                       *)
LoadChunks(sentences, max, min) ==
    LET len(chunk) == FoldLeft(LAMBDA n, i : n + sentences[i], 0, chunk)
        all == [i \in DOMAIN sentences |-> i]
    IN  IF len(all) < min THEN <<>>
        ELSE IF len(all) <= max THEN <<all>>
        ELSE SelectSeq(Chunk(sentences, max), LAMBDA c : len(c) >= min)

------------------------------------------------------------------------------
(* _embed_batch: texts of one prefix share an entry of the cache, which    *)
(* holds the vector of one of them; of a batch, only what the cache lacks  *)
(* is asked for, and all of it fails or none.  A vector is named by the    *)
(* text it is of, "none" is no vector.                                     *)
EmbedBatches(batches, prefix, answered) ==
    LET embed(s, b) ==
          LET texts == batches[b]
              lacks == {j \in DOMAIN texts : prefix[texts[j]] \notin DOMAIN s.cache}
              got == IF b \in answered THEN lacks ELSE {}
          IN  [cache |-> [p \in DOMAIN s.cache \cup {prefix[texts[j]] : j \in got} |->
                            IF p \in DOMAIN s.cache THEN s.cache[p]
                            ELSE texts[Max({j \in got : prefix[texts[j]] = p})]],
               vectors |-> s.vectors \o
                  [j \in DOMAIN texts |-> IF j \in got THEN texts[j]
                                          ELSE IF j \in lacks THEN "none"
                                          ELSE s.cache[prefix[texts[j]]]]]
    IN  FoldLeft(embed, [cache |-> [p \in {} |-> "none"], vectors |-> <<>>],
                 [b \in DOMAIN batches |-> b])

(* KBVectorStore.index: a collection that has documents is left as it is.  *)
(* counts says whether the store answers when it is asked how many.        *)
IndexDocuments(stored, chunks, vectors, force, counts) ==
    LET places == SelectSeq([i \in DOMAIN chunks |-> i], LAMBDA i : vectors[i] # "none")
        new == [i \in DOMAIN places |-> chunks[places[i]]]
    IN  IF force THEN new
        ELSE IF counts /\ stored # <<>> THEN stored
        ELSE stored \o new

(* MilvusVectorStore.upsert_batch: the rows of the tables' names are       *)
(* deleted, unless that fails, and the entries of the right dimension      *)
(* inserted; a row does not say of which source it is.                     *)
UpsertTables(rows, entries, deletes) ==
    (IF deletes THEN SelectSeq(rows, LAMBDA r : \A e \in ToSet(entries) : e.name # r.name)
     ELSE rows) \o SelectSeq(entries, LAMBDA e : e.fits)

------------------------------------------------------------------------------
(* _tokenize, on characters that are "han", "word" or "other": a token is  *)
(* a place and a length.                                                   *)
Tokenize(chars) ==
    LET read(s, i) ==
          LET flushed == IF s.buf = 0 THEN s.tokens ELSE Append(s.tokens, <<i - s.buf, s.buf>>)
          IN  CASE i > Len(chars) -> [tokens |-> flushed, buf |-> 0]
                [] i <= Len(chars) /\ chars[i] = "word" -> [s EXCEPT !.buf = @ + 1]
                [] i <= Len(chars) /\ chars[i] = "han" -> [tokens |-> Append(flushed, <<i, 1>>), buf |-> 0]
                [] OTHER -> [tokens |-> flushed, buf |-> 0]
    IN  FoldLeft(read, [tokens |-> <<>>, buf |-> 0],
                 [i \in 1..(Len(chars) + 1) |-> i]).tokens

(* _BM25Index.search: the k best of all documents, also of those that have *)
(* none of the words, unless the query has no word at all.                 *)
LexicalSearch(scores, k, words) ==
    LET order == SetToSortSeq(DOMAIN scores, LAMBDA i, j :
                    scores[i] > scores[j] \/ (scores[i] = scores[j] /\ i < j))
    IN  IF words = 0 THEN <<>> ELSE SubSeq(order, 1, Min({k, Len(order)}))

(* _rrf_merge: a document scores 1 / (60 + rank) for every place it has in *)
(* the two lists, ranks counted from 0; here times the product of all the  *)
(* denominators.  Equal scores keep the order of the lists.                *)
RankBase == 60

RRFScore(d, lists, n) ==
    LET all == FoldSet(LAMBDA r, p : (RankBase + r) * p, 1, 0..(n - 1))
        places == {p \in (DOMAIN lists) \X (1..n) : p[2] \in DOMAIN lists[p[1]] /\ lists[p[1]][p[2]] = d}
    IN  FoldSet(LAMBDA p, sum : sum + all \div (RankBase + p[2] - 1), 0, places)

MergeRanks(lexical, dense, known) ==
    LET kept == SelectSeq(lexical \o dense, LAMBDA d : d \in known)
        n == Max({Len(lexical), Len(dense)})
        (* a dense hit keeps its rank even if another is not known *)
        score(d) == RRFScore(d, <<lexical, dense>>, n)
        place(d) == Min({i \in DOMAIN kept : kept[i] = d})
    IN  SetToSortSeq(ToSet(kept),
                     LAMBDA d, e : score(d) > score(e) \/ (score(d) = score(e) /\ place(d) < place(e)))

(* LLMReranker.rerank: by the scores of the model, if there is one for     *)
(* every document, else as they were.                                      *)
Rerank(docs, scores, k) ==
    LET better(i, j) == scores[i] > scores[j] \/ (scores[i] = scores[j] /\ i < j)
        order == SetToSortSeq(DOMAIN docs, better)
        ranked == IF Len(scores) # Len(docs) THEN docs
                  ELSE [i \in DOMAIN order |-> docs[order[i]]]
    IN  SubSeq(ranked, 1, Min({k, Len(ranked)}))

(* HybridRetriever.retrieve                                                *)
Retrieve(lexical, dense, known, scores, reranks, k) ==
    LET recall == Max({3 * k, 10})
        cut(s, n) == SubSeq(s, 1, Min({n, Len(s)}))
        found == cut(MergeRanks(cut(lexical, recall), cut(dense, recall), known), recall)
    IN  IF reranks /\ Len(found) > k THEN Rerank(found, scores, k) ELSE cut(found, k)

------------------------------------------------------------------------------
(* query_episodic: similarity in percent, 10 more for a promoted case, 15  *)
(* less for one of another schema; not similar cases are not left out.     *)
CaseScore(c, schema) ==
    c.similarity + (IF c.promoted THEN 10 ELSE 0)
      - (IF schema # "" /\ c.schema \notin {"", schema} THEN 15 ELSE 0)

(* log_discrepancy_pattern: the first pattern similar enough is counted,   *)
(* or a new one is added.  alike is the similarity in percent.             *)
LogPattern(patterns, text, alike) ==
    LET near == {i \in DOMAIN patterns : alike[<<text, patterns[i].text>>] >= 85}
    IN  IF near = {} THEN Append(patterns, [text |-> text, frequency |-> 1])
        ELSE [patterns EXCEPT ![Min(near)].frequency = @ + 1]

------------------------------------------------------------------------------
Lengths == UNION {[1..n -> {1, 2, 5}] : n \in 1..4}

(* Chunks hold all sentences in order, and only one that is a sentence by  *)
(* itself is longer than it should be; of a file, what is left over in a   *)
(* chunk too short is lost.                                                *)
ASSUME ChunksHoldAll ==
    \A s \in Lengths : LET c == Chunk(s, 4) IN
       /\ FlattenSeq(c) = [i \in DOMAIN s |-> i]
       /\ \A i \in DOMAIN c : Len(c[i]) > 1 =>
             FoldLeft(LAMBDA n, j : n + s[j], 0, c[i]) <= 4
ASSUME ChunksMayBeLost == LoadChunks(<<2, 2, 1>>, 4, 2) = <<<<1, 2>>>>

(* A text gets no vector, its own, or that of a text with its prefix.      *)
ASSUME VectorsOfPrefix ==
    LET prefix == [t \in {"a", "b", "c"} |-> IF t = "c" THEN "q" ELSE "p"] IN
    \A x, y, z \in {"a", "b", "c"}, answered \in SUBSET {1, 2} :
       LET v == EmbedBatches(<<<<x, y>>, <<z>>>>, prefix, answered).vectors
           t == <<x, y, z>>
       IN  \A i \in 1..3 : v[i] = "none" \/ prefix[v[i]] = prefix[t[i]]

(* An index with holes is never filled, and one that cannot be counted is  *)
(* filled twice, unless it is built anew.                                  *)
ASSUME IndexOnlyOnce ==
    LET first == IndexDocuments(<<>>, <<"a", "b">>, <<"a", "none">>, FALSE, TRUE) IN
    /\ \A vectors \in [1..2 -> {"a", "none"}] :
          IndexDocuments(first, <<"a", "b">>, vectors, FALSE, TRUE) = first
    /\ IndexDocuments(first, <<"a", "b">>, <<"a", "b">>, FALSE, FALSE) = <<"a", "a", "b">>
    /\ IndexDocuments(first, <<"a", "b">>, <<"a", "b">>, TRUE, TRUE) = <<"a", "b">>

(* To write a table again changes nothing; to write a table of the same    *)
(* name for another source takes the first one's place.                    *)
ASSUME UpsertReplaces ==
    LET e(s) == <<[name |-> "t", source |-> s, fits |-> TRUE]>>
        one == UpsertTables(<<>>, e("x"), TRUE)
    IN  /\ UpsertTables(one, e("x"), TRUE) = one
        /\ UpsertTables(one, e("y"), TRUE) = e("y")

(* The tokens of a text are its han characters and its whole words.        *)
ASSUME TokensAreWords ==
    \A chars \in UNION {[1..n -> {"han", "word", "other"}] : n \in 0..5} :
       LET word(i) == i \in DOMAIN chars /\ chars[i] = "word" IN
       ToSet(Tokenize(chars)) =
          {<<i, 1>> : i \in {j \in DOMAIN chars : chars[j] = "han"}}
            \cup {t \in (1..5) \X (1..5) : /\ \A i \in t[1]..(t[1] + t[2] - 1) : word(i)
                                         /\ ~word(t[1] - 1) /\ ~word(t[1] + t[2])}

(* A query that matches nothing finds documents all the same.              *)
ASSUME NoMatchIsFound == LexicalSearch(<<0, 0>>, 1, 3) = <<1>>

Documents == {"a", "b", "c"}
Rankings == {s \in [1..3 -> Documents] : IsInjective(s)}
Before(s, d, e) == \E i, j \in DOMAIN s : i < j /\ s[i] = d /\ s[j] = e

(* What both searches put first, the merged list puts first.               *)
ASSUME MergeRespectsBoth ==
    \A s, t \in Rankings : LET m == MergeRanks(s, t, Documents) IN
       /\ ToSet(m) = Documents /\ Len(m) = 3
       /\ \A d, e \in Documents : Before(s, d, e) /\ Before(t, d, e) => Before(m, d, e)

(* A document stored twice outranks one that both searches rank above it.  *)
ASSUME CopiesCountTwice ==
    MergeRanks(<<"a", "b">>, <<"a", "b", "b">>, {"a", "b"}) = <<"b", "a">>

(* The model reorders what was found, or leaves it, but adds nothing.      *)
ASSUME RerankKeeps ==
    \A s \in Rankings, scores \in UNION {[1..n -> 0..2] : n \in 2..3}, k \in 1..4 :
       LET r == Rerank(s, scores, k) IN
       /\ ToSet(r) \subseteq ToSet(s) /\ IsInjective(r) /\ Len(r) = Min({k, 3})
       /\ Len(scores) = 2 => r = SubSeq(s, 1, Min({k, 3}))

(* What is retrieved was found, at most k of it, and all of it if both     *)
(* searches together found no more.                                        *)
ASSUME RetrieveAtMost ==
    \A s, t \in Rankings, reranks \in BOOLEAN, k \in 1..4 :
       LET r == Retrieve(s, t, Documents \ {"c"}, <<1, 2>>, reranks, k) IN
       /\ ToSet(r) \subseteq {"a", "b"} /\ IsInjective(r) /\ Len(r) = Min({k, 2})

(* A case of the old schema must be 25 points closer than a promoted one   *)
(* of this schema.                                                         *)
ASSUME OldSchemaLoses ==
    \A x, y \in 0..100 :
       CaseScore([similarity |-> x, promoted |-> FALSE, schema |-> "v1"], "v2")
         > CaseScore([similarity |-> y, promoted |-> TRUE, schema |-> "v2"], "v2") <=> x > y + 25

(* Patterns are counted once each, however alike they are.                 *)
ASSUME EachPatternCounted ==
    \A near \in [{"p", "q"} \X {"p", "q"} -> {80, 90}], log \in UNION {[1..n -> {"p", "q"}] : n \in 0..4} :
       LET rows == FoldLeft(LAMBDA ps, t : LogPattern(ps, t, near), <<>>, log)
       IN  FoldLeft(LAMBDA n, r : n + r.frequency, 0, rows) = Len(log)
==============================================================================
