---------------------------- MODULE Permissions -----------------------------
(***************************************************************************)
(* The permission store (clawshake-core/src/permissions.rs) and the        *)
(* processes that share its SQLite file: `clawshake permissions` commands  *)
(* and the bridge's start (clawshake-bridge/src/cli.rs), and the broker's  *)
(* router (clawshake-broker/src/router.rs).                                *)
(*                                                                         *)
(* Each SQL statement is a step.  A command writes one row per name, then  *)
(* consolidates: it lists the rows, works out which are redundant, and     *)
(* deletes those one statement at a time.  Nothing spans the statements,   *)
(* so other processes run in between, and a command may be killed.         *)
(*                                                                         *)
(* No code writes a row whose decision is `ask`: it is only the default of *)
(* the local agent.                                                        *)
(***************************************************************************)
EXTENDS Naturals

CONSTANTS
  Peers,        \* specific remote agents, "p2p:<id>" and "tailscale:<node>"
  Classes,      \* their class wildcards, "p2p:*" and "tailscale:*"
  ClassOf,      \* class_wildcard of each peer
  P2p,          \* the class "p2p:*"
  Local,        \* the agent "local"
  Resources,    \* names of tools and tunnels
  Star,         \* the resource "*"
  None,         \* no row
  Procs,        \* processes that run commands
  Commands,     \* the commands they run
  InitialRules, \* the stores found at the start
  MaxCommands   \* bound of the model: number of commands

Agents == Peers \cup Classes \cup {Local}
Key == Agents \X (Resources \cup {Star})
Decision == {"allow", "deny"}
Store == [Key -> Decision \cup {None}]

\* A command writes a decision, or removes the rows (None), for some names;
\* "start" is the start of the bridge.
Command == [kind : {"edit", "start"}, agent : Agents, decision : Decision \cup {None},
            names : SUBSET (Resources \cup {Star})]

ASSUME PermissionsAssumption ==
  /\ Peers \cap Classes = {} /\ Local \notin Peers \cup Classes
  /\ ClassOf \in [Peers -> Classes]
  /\ P2p \in Classes
  /\ Star \notin Resources
  /\ None \notin Decision \cup {"ask"}
  /\ Commands \subseteq Command
  /\ InitialRules \subseteq Store
  /\ MaxCommands \in Nat

VARIABLES
  rules,    \* the permissions table
  proc,     \* proc[p]: the command p runs and where it is
  asked,    \* tools whose call was answered Ask and has to store its Allow
  commands, \* number of commands issued (bound)
  base,     \* base[p]: history, the rows that p's consolidate listed
  alone     \* alone[p]: history, nobody else has written since p's command began

vars == <<rules, proc, asked, commands, base, alone>>

NoCommand == [kind |-> "edit", agent |-> Local, decision |-> None, names |-> {}]

NoRows == [k \in Key |-> None]

PC == {"idle", "edit", "seed local", "seed p2p", "list", "remove", "done"}
-----------------------------------------------------------------------------
(* check and is_network_exposed *)

\* An agent's own row for the resource, or else its row for all resources.
Own(r, a, t) == IF r[<<a, t>>] # None THEN r[<<a, t>>] ELSE r[<<a, Star>>]

\* Mutant: a row for the exact resource wins, whichever agent it is for.
BugCheck(r, a, t) ==
  IF a = Local \/ r[<<a, t>>] # None \/ r[<<ClassOf[a], t>>] = None
  THEN IF Own(r, a, t) # None THEN Own(r, a, t)
       ELSE IF a = Local THEN "ask"
       ELSE IF Own(r, ClassOf[a], t) # None THEN Own(r, ClassOf[a], t)
       ELSE "deny"
  ELSE r[<<ClassOf[a], t>>]

\* The waterfall: the agent's rows, then its class's rows, then the default.
Check(r, a, t) ==
  IF Own(r, a, t) # None THEN Own(r, a, t)
  ELSE IF a = Local THEN "ask"
  ELSE IF Own(r, ClassOf[a], t) # None THEN Own(r, ClassOf[a], t)
  ELSE "deny"

P2pAgents == {a \in Peers : ClassOf[a] = P2p} \cup {P2p}

\* Mutant: an exact deny of the class hides the resource, whoever else is allowed.
BugExposed(r, t) ==
  /\ r[<<P2p, t>>] # "deny"
  /\ \E a \in P2pAgents : r[<<a, t>>] = "allow" \/ r[<<a, Star>>] = "allow"

\* is_network_exposed: per agent, an exact deny beats an allow of everything.
Exposed(r, t) ==
  \E a \in P2pAgents :
    \/ r[<<a, t>>] = "allow"
    \/ r[<<a, Star>>] = "allow" /\ r[<<a, t>>] # "deny"
-----------------------------------------------------------------------------
(* consolidate *)

\* What decides for an exact rule's agent and resource without that rule.
Broader(r, a, t) ==
  IF r[<<a, Star>>] # None THEN r[<<a, Star>>] ELSE Own(r, ClassOf[a], t)

\* Level 1: exact rules that say what the broader ones say.
Redundant1(r) ==
  {k \in Peers \X Resources : r[k] # None /\ r[k] = Broader(r, k[1], k[2])}

\* Mutant: a level 1 rule shields although the sweep removes it.
BugShielded(r, a, t) == r[<<a, t>>] # None

\* A level 1 rule that survives the sweep decides for its resource.
Shielded(r, a, t) == r[<<a, t>>] # None /\ <<a, t>> \notin Redundant1(r)

\* Level 2: a peer's `*` rule that its class's rules stand in for.
Redundant2(r) ==
  {k \in Peers \X {Star} :
     /\ r[k] # None
     /\ r[<<ClassOf[k[1]], Star>>] = r[k]
     /\ \A t \in Resources :
          LET class == r[<<ClassOf[k[1]], t>>]
          IN  class \notin {None, r[k]} => Shielded(r, k[1], t)}

\* Level 3: rules of a class or of local that its `*` rule repeats.
Redundant3(r) ==
  {k \in (Classes \cup {Local}) \X Resources :
     r[k] # None /\ r[k] = r[<<k[1], Star>>]}

\* What the sweep removes.
Redundant(r) == Redundant1(r) \cup Redundant2(r) \cup Redundant3(r)
-----------------------------------------------------------------------------
Init ==
  /\ rules \in InitialRules
  /\ proc = [p \in Procs |-> [pc |-> "idle", command |-> NoCommand, todo |-> {}, plan |-> {}]]
  /\ asked = {}
  /\ commands = 0
  /\ base = [p \in Procs |-> NoRows]
  /\ alone = [p \in Procs |-> FALSE]

\* p writes: whoever else runs a command is no longer alone.
WroteBy(p) == alone' = [q \in Procs |-> q = p /\ alone[q]]

GoTo(p, pc) == proc' = [proc EXCEPT ![p].pc = pc]
-----------------------------------------------------------------------------
(* A process that runs a command: run_permissions_action and start_bridge *)

Issue(p, c) ==
  /\ proc[p].pc = "idle"
  /\ commands < MaxCommands
  /\ commands' = commands + 1
  /\ proc' = [proc EXCEPT ![p] =
       [pc |-> IF c.kind = "edit" THEN "edit" ELSE "seed local",
        command |-> c, todo |-> c.names, plan |-> {}]]
  /\ alone' = [alone EXCEPT ![p] = TRUE]
  /\ UNCHANGED <<rules, asked, base>>

\* set and remove, one statement for each name.
Edit(p, t) ==
  /\ proc[p].pc = "edit"
  /\ t \in proc[p].todo
  /\ rules' = [rules EXCEPT ![<<proc[p].command.agent, t>>] = proc[p].command.decision]
  /\ proc' = [proc EXCEPT ![p].todo = @ \ {t}]
  /\ WroteBy(p)
  /\ UNCHANGED <<asked, commands, base>>

\* `remove` does not consolidate.
EditDone(p) ==
  /\ proc[p].pc = "edit"
  /\ proc[p].todo = {}
  /\ GoTo(p, IF proc[p].command.decision = None THEN "done" ELSE "list")
  /\ UNCHANGED <<rules, asked, commands, base, alone>>

\* INSERT OR IGNORE
SeedRow(k, d) == rules' = [rules EXCEPT ![k] = IF @ = None THEN d ELSE @]

SeedLocal(p) ==
  /\ proc[p].pc = "seed local"
  /\ SeedRow(<<Local, Star>>, "allow")
  /\ GoTo(p, "seed p2p")
  /\ WroteBy(p)
  /\ UNCHANGED <<asked, commands, base>>

SeedP2p(p) ==
  /\ proc[p].pc = "seed p2p"
  /\ SeedRow(<<P2p, Star>>, "deny")
  /\ GoTo(p, "list")
  /\ WroteBy(p)
  /\ UNCHANGED <<asked, commands, base>>

\* consolidate lists the rows and decides what to remove.
ListRules(p) ==
  /\ proc[p].pc = "list"
  /\ base' = [base EXCEPT ![p] = rules]
  /\ proc' = [proc EXCEPT ![p].pc = "remove", ![p].plan = Redundant(rules)]
  /\ UNCHANGED <<rules, asked, commands, alone>>

\* It removes by key, one statement for each row, in its list's order (level 1
\* first); any order is allowed here, which is more than the code can do.
RemoveRule(p, k) ==
  /\ proc[p].pc = "remove"
  /\ k \in proc[p].plan
  /\ rules' = [rules EXCEPT ![k] = None]
  /\ proc' = [proc EXCEPT ![p].plan = @ \ {k}]
  /\ WroteBy(p)
  /\ UNCHANGED <<asked, commands, base>>

RemoveDone(p) ==
  /\ proc[p].pc = "remove"
  /\ proc[p].plan = {}
  /\ GoTo(p, "done")
  /\ UNCHANGED <<rules, asked, commands, base, alone>>

\* The process is through with its command, or is killed in the middle of it.
Leave(p) ==
  /\ proc[p].pc # "idle"
  /\ proc' = [proc EXCEPT ![p] = [pc |-> "idle", command |-> NoCommand,
                                  todo |-> {}, plan |-> {}]]
  /\ base' = [base EXCEPT ![p] = NoRows]
  /\ alone' = [alone EXCEPT ![p] = FALSE]
  /\ UNCHANGED <<rules, asked, commands>>
-----------------------------------------------------------------------------
(* dispatch, the broker's router *)

\* A call of a tool that local has no rule for ...
RouterAsks(t) ==
  /\ t \notin asked
  /\ Check(rules, Local, t) = "ask"
  /\ asked' = asked \cup {t}
  /\ UNCHANGED <<rules, proc, commands, base, alone>>

\* ... is taken as approved, which is stored.
RouterStores(t) ==
  /\ t \in asked
  /\ asked' = asked \ {t}
  /\ rules' = [rules EXCEPT ![<<Local, t>>] = "allow"]
  /\ alone' = [q \in Procs |-> FALSE]
  /\ UNCHANGED <<proc, commands, base>>
-----------------------------------------------------------------------------
Proc(p) ==
  \/ \E c \in Commands : Issue(p, c)
  \/ \E t \in Resources \cup {Star} : Edit(p, t)
  \/ EditDone(p)
  \/ SeedLocal(p)
  \/ SeedP2p(p)
  \/ ListRules(p)
  \/ \E k \in Key : RemoveRule(p, k)
  \/ RemoveDone(p)
  \/ Leave(p)

Router == \E t \in Resources : RouterAsks(t) \/ RouterStores(t)

Next == Router \/ \E p \in Procs : Proc(p)

Spec == Init /\ [][Next]_vars
-----------------------------------------------------------------------------
(* Properties *)

\* Every variable keeps its type.
TypeOK ==
  /\ rules \in Store
  /\ proc \in [Procs -> [pc : PC, command : Command, todo : SUBSET (Resources \cup {Star}),
                         plan : SUBSET Key]]
  /\ asked \subseteq Resources
  /\ commands \in 0 .. MaxCommands
  /\ base \in [Procs -> Store]
  /\ alone \in [Procs -> BOOLEAN]

Callers == Peers \cup {Local}

(***************************************************************************)
(* consolidate changes no answer of check, for any caller and resource, at *)
(* any point between its deletions: not for a call that is checked         *)
(* meanwhile, and not for ever if the process is killed there.  Another    *)
(* process that writes between the listing and the deletions voids this.   *)
(***************************************************************************)
ConsolidationIsInvisible ==
  \A p \in Procs : base[p] # NoRows /\ alone[p]
    => \A a \in Callers, t \in Resources : Check(rules, a, t) = Check(base[p], a, t)

(***************************************************************************)
(* What a command that nobody disturbed was told holds when it is done:    *)
(* each resource it named has the decision it gave, for the agent it named *)
(* and, for a class, for each peer without rules of its own.               *)
(***************************************************************************)
CommandTakesEffect ==
  \A p \in Procs : LET c == proc[p].command IN
    proc[p].pc = "done" /\ alone[p] /\ c.kind = "edit" /\ c.decision # None
      => \A t \in c.names \cap Resources, a \in Callers :
           \/ a = c.agent
           \/ /\ a \in Peers /\ ClassOf[a] = c.agent
              /\ rules[<<a, t>>] = None /\ rules[<<a, Star>>] = None
           => Check(rules, a, t) = c.decision

(***************************************************************************)
(* The bridge announces a tool exactly when some peer may call it, be it   *)
(* one that no rule names: the SQL of is_network_exposed and the waterfall *)
(* of check agree.                                                         *)
(***************************************************************************)
ExposedIffCallable ==
  \A t \in Resources :
    Exposed(rules, t) <=>
      \/ \E a \in Peers : ClassOf[a] = P2p /\ Check(rules, a, t) = "allow"
      \/ Own(rules, P2p, t) = "allow"
=============================================================================
