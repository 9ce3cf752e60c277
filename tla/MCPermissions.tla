--------------------------- MODULE MCPermissions ----------------------------
(***************************************************************************)
(* Permissions on a small instance: every store over one peer's and the    *)
(* class's rules for a tool and for everything, beside a rule of the class *)
(* for a second tool; a second peer that no rule names; two processes.     *)
(***************************************************************************)
EXTENDS Permissions, TLC

CONSTANTS a, b, t, u

MCClassOf == [x \in {a, b} |-> P2p]

Ruled == {<<a, t>>, <<a, Star>>, <<P2p, t>>, <<P2p, Star>>}

\* The second tool's rule is there unless the class denies the first one.
MCRules(r) ==
  [k \in Key |-> CASE k \in Ruled -> r[k]
                   [] k = <<Local, Star>> -> "allow"
                   [] k = <<P2p, u>> /\ r[<<P2p, t>>] # "deny" -> "deny"
                   [] OTHER -> None]

MCInitialRules == {MCRules(r) : r \in [Ruled -> Decision \cup {None}]}

Edits(agent, decision, names) ==
  [kind |-> "edit", agent |-> agent, decision |-> decision, names |-> names]

MCCommands ==
  {[NoCommand EXCEPT !.kind = "start"], Edits(a, "deny", {t}),
   Edits(P2p, "allow", {t, u}), Edits(P2p, "allow", {Star}), Edits(Local, None, {Star})}

MCSymmetry == Permutations(Procs)
=============================================================================
