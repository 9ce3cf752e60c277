---------------------------- MODULE MCEventQueue ----------------------------
(***************************************************************************)
(* EventQueue on a small instance: one listener for everything that passes *)
(* a timeout, one for a single topic that blocks forever, two pushers, a   *)
(* ring that wraps.                                                        *)
(***************************************************************************)
EXTENDS EventQueue, TLC

CONSTANTS timed, untimed, a, b, p1, p2

MCSubscription == (timed :> {a, b}) @@ (untimed :> {a})
=============================================================================
