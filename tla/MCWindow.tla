------------------------------ MODULE MCWindow ------------------------------
(***************************************************************************)
(* Window on a small instance: a frame, a browser tab, a native window, an *)
(* agent that only renders and one that also opens windows.                *)
(***************************************************************************)
EXTENDS Window

CONSTANTS f1, tab, w, daemon, c1, c2

MCSocketOf == (tab :> tab) @@ (w :> daemon)

\* Three calls and a fault, two and a fault, or one and two faults.
Three == <<3, 1>>

MCBudgets == {Three, <<2, 1>>, <<1, 2>>}

\* Three calls meet the tab or the daemon at a time, fewer meet both together.
OneOrBoth == budget = Three => \E s \in Sockets : conn[s] = "down"

MCSpec == WindowInit /\ [][WindowNext /\ OneOrBoth']_uiVars
=============================================================================
