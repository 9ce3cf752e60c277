------------------------------ MODULE Chunking ------------------------------
(***************************************************************************)
(* How the memory index cuts a text into chunks                            *)
(* (clawshake-memory/src/ingest/mod.rs): windows of at most `max` bytes,   *)
(* each beginning `overlap` bytes before the end of the last one, and both *)
(* ends moved back to where a character begins.                            *)
(*                                                                         *)
(* A text is its length in bytes and the set of positions at which a       *)
(* character begins or the text ends.  Nothing in the code relates `max`,  *)
(* `overlap` and the width of a character: WindowsAdvance, proved in       *)
(* FileIndexProofs, says by how much they must differ, and the two         *)
(* strategies in use (1600 and 320) do.                                    *)
(***************************************************************************)
EXTENDS Integers, FiniteSets

\* A character takes at most this many bytes in UTF-8.
Width == 4

\* The positions `starts` are those of a text of `len` bytes.
IsText(len, starts) ==
  /\ {0, len} \subseteq starts
  /\ starts \subseteq 0 .. len
  /\ \A i \in 0 .. len : \E s \in starts : s <= i /\ i < s + Width

\* snap_to_char_boundary: the last of `starts` up to i.
Snap(starts, i) == CHOOSE s \in starts : s <= i /\ \A t \in starts : t <= i => t <= s

Least(a, b) == IF a <= b THEN a ELSE b

\* saturating_sub
Less(a, b) == IF a >= b THEN a - b ELSE 0

\* Where the window that starts at `start` ends, and where the next one starts.
WindowEnd(len, starts, max, start) == Snap(starts, Least(start + max, len))

NextStart(len, starts, max, overlap, start) ==
  Snap(starts, Less(WindowEnd(len, starts, max, start), overlap))

\* split_into_chunks_ranged: the windows up to the first one that ends the text.
Windows(len, starts, max, overlap) ==
  LET at[n \in Nat] == IF n = 0 THEN 0 ELSE NextStart(len, starts, max, overlap, at[n - 1])
      end(n) == WindowEnd(len, starts, max, at[n])
      used == {n \in 0 .. len : \A m \in 0 .. n - 1 : end(m) # len}
  IN IF len <= max THEN {<<0, len>>} ELSE {<<at[n], end(n)>> : n \in used}

\* What the index needs of the chunks of a text: each fits, and together they
\* hold every character.
Covers(len, starts, max, windows) ==
  /\ \A w \in windows : w[1] < w[2] /\ w[2] - w[1] <= max /\ {w[1], w[2]} \subseteq starts
  /\ \A i \in 0 .. len - 1 : \E w \in windows : w[1] <= i /\ i < w[2]
=============================================================================
