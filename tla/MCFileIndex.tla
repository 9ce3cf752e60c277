---------------------------- MODULE MCFileIndex -----------------------------
(***************************************************************************)
(* FileIndex on a small instance: a file, two contents, the watcher and    *)
(* one caller beside it; Chunking on short texts; Search on short lists.   *)
(***************************************************************************)
EXTENDS FileIndex, Chunking, Search

CONSTANTS a, b, a1, a2, b1

MCCut == [v \in {a, b} |-> IF v = a THEN {a1, a2} ELSE {b1}]

\* The texts of `len` bytes.
Texts(len) == {starts \in SUBSET (0 .. len) : IsText(len, starts)}

\* The chunks of a text fit, and cover it.
ASSUME ChunksCoverTexts ==
  \A len \in 1 .. 13, overlap \in 0 .. 2 :
    \A starts \in Texts(len) :
      Covers(len, starts, overlap + 7, Windows(len, starts, overlap + 7, overlap))

\* What the words match, or the vectors are near to, among four rows.
Rows == 1 .. 4
Ranked == {list \in UNION {[1 .. n -> Rows] : n \in 0 .. 3} : IsInjective(list)}

\* Better rows come first, whichever rows have been deleted.
ASSUME DominanceIsKept ==
  \A matches, near \in Ranked, limit \in 1 .. 2, rows \in SUBSET Rows :
    KeepsDominance(matches, near, limit, rows)

ASSUME WordsAloneKeepTheirOrder ==
  \A matches \in Ranked, limit \in 1 .. 3, rows \in SUBSET Rows : FallsBack(matches, limit, rows)

\* The default limit is 10; from 21 on the last of both lists falls behind the
\* first of one.
ASSUME AgreementWinsUpTo20 ==
  (\A limit \in {10, 20} : AgreementWins(limit)) /\ ~AgreementWins(21)
=============================================================================
