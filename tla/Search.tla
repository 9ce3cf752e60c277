------------------------------- MODULE Search -------------------------------
(***************************************************************************)
(* What a search of the memory index returns (clawshake-memory/src/lib.rs  *)
(* and db/search.rs): the rows that match the query's words, or, once any  *)
(* row has a vector, their ranks and those of the rows nearest to it fused *)
(* into one (Reciprocal Rank Fusion).                                      *)
(*                                                                         *)
(* SQLite ranks the rows: `matches` are the ids that the words match and   *)
(* `near` the ids with a vector, best first and without a limit.  `rows`   *)
(* are the rows there are when the winners are fetched, which another      *)
(* process may have deleted since.  A score is a fraction <<a, b>>.        *)
(***************************************************************************)
EXTENDS Integers, SequencesExt

\* RRF_K
RrfK == 60

\* ORDER BY ... LIMIT
Top(list, limit) == SubSeq(list, 1, Min({limit, Len(list)}))

\* recall: the words alone.
Recall(matches, limit) == Top(matches, limit)

\* The rows of each list that are considered.
CandidateN(limit) == Max({3 * limit, 30})

Bm25RankedIds(matches, limit) == Top(matches, CandidateN(limit))
KnnSearch(near, limit) == Top(near, CandidateN(limit))

\* What a list gives to an id: the reciprocal of its rank, or nothing.
Share(list, id) ==
  IF id \in ToSet(list) THEN <<1, RrfK + (CHOOSE i \in DOMAIN list : list[i] = id)>> ELSE <<0, 1>>

Score(bm25, knn, id) ==
  LET x == Share(bm25, id)
      y == Share(knn, id)
  IN <<x[1] * y[2] + y[1] * x[2], x[2] * y[2]>>

Beats(s, t) == s[1] * t[2] > t[1] * s[2]

\* The ids that sorting and truncating may leave: the scores come out of a hash
\* map, so that any of those that tie for the last places may.
Winners(bm25, knn, limit) ==
  LET ids == ToSet(bm25) \cup ToSet(knn)
  IN {won \in kSubset(Min({limit, Cardinality(ids)}), ids) :
        \A i \in won, j \in ids \ won : ~Beats(Score(bm25, knn, j), Score(bm25, knn, i))}

\* Those that are still rows, in the order of their ids.
GetChunksByIds(ids, rows) == SetToSortSeq(ids \cap rows, <)

\* recall_hybrid: the answers it may give.  The second sort is stable.
RecallHybrid(matches, near, limit, rows) ==
  LET bm25 == Bm25RankedIds(matches, limit)
      knn == KnnSearch(near, limit)
      Before(i, j) == LET s == Score(bm25, knn, i)
                          t == Score(bm25, knn, j)
                      IN Beats(s, t) \/ (~Beats(t, s) /\ i < j)
  IN {SortSeq(GetChunksByIds(won, rows), Before) : won \in Winners(bm25, knn, limit)}

\* The library's recall: has_embeddings decides.
Found(matches, near, limit, rows) ==
  IF near = <<>> THEN {Recall(matches, limit)} ELSE RecallHybrid(matches, near, limit, rows)
-----------------------------------------------------------------------------
(* What the answers are meant to be *)

\* id is no further down than j in either list, and higher up in one.
NoWorse(list, id, j) ==
  j \in ToSet(list) => id \in ToSet(list) /\ Share(list, id)[2] <= Share(list, j)[2]

Dominates(matches, near, id, j) ==
  /\ id # j
  /\ NoWorse(matches, id, j)
  /\ NoWorse(near, id, j)

(* A row that is ranked no worse than another in both lists comes before it,   *)
(* and is not cut off when the other is returned.                              *)
KeepsDominance(matches, near, limit, rows) ==
  \A answer \in Found(matches, near, limit, rows) : \A n \in DOMAIN answer : \A id \in rows :
    Dominates(matches, near, id, answer[n]) => \E m \in 1 .. n - 1 : answer[m] = id

(* No vector is near: the order of the words alone ("falls back gracefully to  *)
(* BM25-only", db/search.rs:94).                                               *)
FallsBack(matches, limit, rows) ==
  RecallHybrid(matches, <<>>, limit, rows)
    = {SelectSeq(Recall(matches, limit), LAMBDA id : id \in rows)}

(* A row that both lists hold beats every row that one of them holds, wherever *)
(* they are: so with the default limit of 10, and up to this limit.            *)
AgreementWins(limit) ==
  \A a, b, c \in 1 .. CandidateN(limit) :
    Beats(<<RrfK + a + RrfK + b, (RrfK + a) * (RrfK + b)>>, <<1, RrfK + c>>)
=============================================================================
