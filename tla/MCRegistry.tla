----------------------------- MODULE MCRegistry -----------------------------
(***************************************************************************)
(* Registry on a small instance: a source whose manifest can name a server *)
(* that lists m and y, or one that lists m and y as a static tool, or be   *)
(* absent, a source whose manifest can name m as a static tool or a server *)
(* that lists it, or be broken, and a builtin b.                           *)
(***************************************************************************)
EXTENDS Registry

CONSTANTS server, plain, y, m, b

Static(names) == [Absent EXCEPT !.there = TRUE, !.parses = TRUE, !.static = names]
Served(names, c) == [c EXCEPT !.mcp = TRUE, !.serves = names]

MCContents ==
  [s \in {server, plain} |->
     IF s = server
     THEN {Absent, Served({m, y}, Static({})), Served({m}, Static({y}))}
     ELSE {[Absent EXCEPT !.there = TRUE], Static({m, b}), Served({m}, Static({}))}]
=============================================================================
