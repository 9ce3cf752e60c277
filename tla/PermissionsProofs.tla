------------------------- MODULE PermissionsProofs --------------------------
(***************************************************************************)
(* Proofs about the permission store, for every set of peers, classes,     *)
(* resources and processes, and every store: consolidate changes no        *)
(* decision, whichever of its deletions have been carried out; a command   *)
(* that nobody disturbs has what it was told in force when it is done; and *)
(* is_network_exposed agrees with check.                                   *)
(***************************************************************************)
EXTENDS Permissions, TLAPS

\* The store r without the rows of D.
Without(r, D) == [k \in Key |-> IF k \in D THEN None ELSE r[k]]
-----------------------------------------------------------------------------
LEMMA WithoutIsStore ==
  ASSUME NEW r \in Store, NEW D
  PROVE  Without(r, D) \in Store
  BY DEF Without, Store

\* Redundant rows are rows of the store.
LEMMA RedundantAreKeys ==
  ASSUME NEW r
  PROVE  Redundant(r) \subseteq Key
  BY DEF Redundant, Redundant1, Redundant2, Redundant3, Key, Agents

(***************************************************************************)
(* The heart of consolidate: whichever part of the redundant rows has been *)
(* removed, check answers as before.  For a peer four rows matter, that of *)
(* the peer and of its class for the resource and for everything; the last *)
(* is never removed, and each of the others only when the next one that    *)
(* remains says the same.                                                  *)
(***************************************************************************)
LEMMA RemovalKeepsPeer ==
  ASSUME NEW r \in Store, NEW D \in SUBSET Redundant(r),
         NEW a \in Peers, NEW t \in Resources
  PROVE  Check(Without(r, D), a, t) = Check(r, a, t)
<1> DEFINE c == ClassOf[a]
           s == Without(r, D)
<1> USE PermissionsAssumption
<1>1. /\ c \in Classes /\ c \notin Peers \cup {Local}
      /\ a \notin Classes \cup {Local}
      /\ t # Star
  OBVIOUS
<1>2. {<<a, t>>, <<a, Star>>, <<c, t>>, <<c, Star>>} \subseteq Key
  BY <1>1 DEF Key, Agents
<1>3. \A k \in Key : s[k] = IF k \in D THEN None ELSE r[k]
  BY DEF Without
<1>4. <<a, t>> \in D => /\ <<a, t>> \in Redundant1(r)
                        /\ r[<<a, t>>] # None
                        /\ r[<<a, t>>] = Broader(r, a, t)
  <2> SUFFICES ASSUME <<a, t>> \in D
               PROVE  /\ <<a, t>> \in Redundant1(r)
                      /\ r[<<a, t>>] # None
                      /\ r[<<a, t>>] = Broader(r, a, t)
    OBVIOUS
  <2>1. <<a, t>> \notin Redundant2(r) /\ <<a, t>> \notin Redundant3(r)
    BY <1>1 DEF Redundant2, Redundant3
  <2>2. <<a, t>> \in Redundant1(r)
    BY <2>1 DEF Redundant
  <2> QED
    BY <2>2 DEF Redundant1
<1>5. <<a, Star>> \in D =>
        /\ r[<<a, Star>>] # None
        /\ r[<<c, Star>>] = r[<<a, Star>>]
        /\ r[<<c, t>>] \notin {None, r[<<a, Star>>]} =>
             r[<<a, t>>] # None /\ <<a, t>> \notin D
  <2> SUFFICES ASSUME <<a, Star>> \in D
               PROVE  /\ r[<<a, Star>>] # None
                      /\ r[<<c, Star>>] = r[<<a, Star>>]
                      /\ r[<<c, t>>] \notin {None, r[<<a, Star>>]} =>
                           r[<<a, t>>] # None /\ <<a, t>> \notin D
    OBVIOUS
  <2>1. <<a, Star>> \notin Redundant1(r) /\ <<a, Star>> \notin Redundant3(r)
    BY <1>1 DEF Redundant1, Redundant3
  <2>2. <<a, Star>> \in Redundant2(r)
    BY <2>1 DEF Redundant
  <2> QED
    BY <2>2, <1>4 DEF Redundant2, Shielded
<1>6. <<c, t>> \in D => r[<<c, t>>] # None /\ r[<<c, t>>] = r[<<c, Star>>]
  <2> SUFFICES ASSUME <<c, t>> \in D
               PROVE  r[<<c, t>>] # None /\ r[<<c, t>>] = r[<<c, Star>>]
    OBVIOUS
  <2>1. <<c, t>> \in Redundant3(r)
    BY <1>1 DEF Redundant, Redundant1, Redundant2
  <2> QED
    BY <2>1 DEF Redundant3
<1>7. <<c, Star>> \notin D
  BY <1>1 DEF Redundant, Redundant1, Redundant2, Redundant3
<1> QED
  BY <1>1, <1>2, <1>3, <1>4, <1>5, <1>6, <1>7 DEF Check, Own, Broader

\* For local two rows matter, and the one for everything is never removed.
LEMMA RemovalKeepsLocal ==
  ASSUME NEW r \in Store, NEW D \in SUBSET Redundant(r), NEW t \in Resources
  PROVE  Check(Without(r, D), Local, t) = Check(r, Local, t)
<1> DEFINE s == Without(r, D)
<1> USE PermissionsAssumption
<1>1. {<<Local, t>>, <<Local, Star>>} \subseteq Key
  BY DEF Key, Agents
<1>2. \A k \in Key : s[k] = IF k \in D THEN None ELSE r[k]
  BY DEF Without
<1>3. <<Local, t>> \in D => r[<<Local, t>>] # None /\ r[<<Local, t>>] = r[<<Local, Star>>]
  BY DEF Redundant, Redundant1, Redundant2, Redundant3
<1>4. <<Local, Star>> \notin D
  BY DEF Redundant, Redundant1, Redundant2, Redundant3
<1> QED
  BY <1>1, <1>2, <1>3, <1>4 DEF Check, Own

(***************************************************************************)
(* Deleting any of the rows that consolidate finds redundant changes the   *)
(* decision of no caller on any resource.                                  *)
(***************************************************************************)
THEOREM RemovalKeepsDecisions ==
  ASSUME NEW r \in Store, NEW D \in SUBSET Redundant(r),
         NEW a \in Callers, NEW t \in Resources
  PROVE  Check(Without(r, D), a, t) = Check(r, a, t)
  BY RemovalKeepsPeer, RemovalKeepsLocal DEF Callers
-----------------------------------------------------------------------------
(***************************************************************************)
(* Every variable keeps its type, in every step of every process.          *)
(***************************************************************************)
LEMMA TypeOKInit == Init => TypeOK
  BY PermissionsAssumption DEF Init, TypeOK, NoCommand, NoRows, Command, PC, Store, Agents

LEMMA TypeOKStep == TypeOK /\ [Next]_vars => TypeOK'
<1> SUFFICES ASSUME TypeOK, [Next]_vars PROVE TypeOK'
  OBVIOUS
<1> USE PermissionsAssumption DEF TypeOK
<1>1. ASSUME NEW p \in Procs, NEW c \in Commands, Issue(p, c) PROVE TypeOK'
  <2>1. commands' \in 0 .. MaxCommands
    <3>1. commands' = commands + 1 /\ commands < MaxCommands
      BY <1>1 DEF Issue
    <3>2. commands \in Nat /\ MaxCommands \in Nat
      OBVIOUS
    <3> QED
      BY <3>1, <3>2
  <2>2. PICK x \in [pc : PC, command : Command,
                     todo : SUBSET (Resources \cup {Star}), plan : SUBSET Key] :
          proc' = [proc EXCEPT ![p] = x]
    BY <1>1 DEF Issue, Command, PC
  <2>3. proc' \in [Procs -> [pc : PC, command : Command,
                             todo : SUBSET (Resources \cup {Star}), plan : SUBSET Key]]
    BY <2>2
  <2> QED
    BY <1>1, <2>1, <2>3 DEF Issue
<1>2. ASSUME NEW p \in Procs, NEW t \in Resources \cup {Star}, Edit(p, t) PROVE TypeOK'
  <2>1. <<proc[p].command.agent, t>> \in Key
    BY DEF Command, Key
  <2>2. rules' \in Store
    BY <1>2, <2>1 DEF Edit, Store, Command
  <2> QED
    BY <1>2, <2>2 DEF Edit, WroteBy
<1>3. ASSUME NEW p \in Procs, EditDone(p) PROVE TypeOK'
  <2>1. PICK x \in PC : proc' = [proc EXCEPT ![p].pc = x]
    BY <1>3 DEF EditDone, GoTo, PC
  <2> QED
    BY <1>3, <2>1 DEF EditDone
<1>4. ASSUME NEW p \in Procs, SeedLocal(p) PROVE TypeOK'
  <2>1. rules' \in Store
    BY <1>4 DEF SeedLocal, SeedRow, Store, Decision
  <2> QED
    BY <1>4, <2>1 DEF SeedLocal, GoTo, WroteBy, PC
<1>5. ASSUME NEW p \in Procs, SeedP2p(p) PROVE TypeOK'
  <2>1. rules' \in Store
    BY <1>5 DEF SeedP2p, SeedRow, Store, Decision
  <2> QED
    BY <1>5, <2>1 DEF SeedP2p, GoTo, WroteBy, PC
<1>6. ASSUME NEW p \in Procs, ListRules(p) PROVE TypeOK'
  BY <1>6, RedundantAreKeys DEF ListRules, PC
<1>7. ASSUME NEW p \in Procs, NEW k \in Key, RemoveRule(p, k) PROVE TypeOK'
  <2>1. rules' \in Store
    BY <1>7 DEF RemoveRule, Store
  <2> QED
    BY <1>7, <2>1 DEF RemoveRule, WroteBy
<1>8. ASSUME NEW p \in Procs, RemoveDone(p) PROVE TypeOK'
  BY <1>8 DEF RemoveDone, GoTo, PC
<1>9. ASSUME NEW p \in Procs, Leave(p) PROVE TypeOK'
  BY <1>9 DEF Leave, NoCommand, NoRows, Command, PC, Agents, Store
<1>10. ASSUME NEW t \in Resources, RouterAsks(t) PROVE TypeOK'
  BY <1>10 DEF RouterAsks
<1>11. ASSUME NEW t \in Resources, RouterStores(t) PROVE TypeOK'
  <2>1. rules' \in Store
    BY <1>11 DEF RouterStores, Store, Decision
  <2> QED
    BY <1>11, <2>1 DEF RouterStores
<1>12. CASE UNCHANGED vars
  BY <1>12 DEF vars
<1> QED
  BY <1>1, <1>2, <1>3, <1>4, <1>5, <1>6, <1>7, <1>8, <1>9, <1>10, <1>11, <1>12
  DEF Next, Proc, Router

\* Every variable keeps its type.
THEOREM TypeCorrect == Spec => []TypeOK
  BY TypeOKInit, TypeOKStep, PTL DEF Spec
-----------------------------------------------------------------------------
(***************************************************************************)
(* The inductive invariant of consolidate: as long as nobody else writes,  *)
(* the table is the listing without the planned rows that are no longer in *)
(* the plan.                                                               *)
(***************************************************************************)
ListedWhileRemoving ==
  \A p \in Procs : base[p] # NoRows => proc[p].pc \in {"remove", "done"}

PlanCarriedOut ==
  \A p \in Procs : base[p] # NoRows /\ alone[p] =>
    /\ proc[p].plan \subseteq Redundant(base[p])
    /\ rules = Without(base[p], Redundant(base[p]) \ proc[p].plan)

IInv == TypeOK /\ ListedWhileRemoving /\ PlanCarriedOut

LEMMA InvInit == Init => IInv
  BY TypeOKInit DEF Init, IInv, ListedWhileRemoving, PlanCarriedOut

LEMMA ListedStep == TypeOK /\ ListedWhileRemoving /\ [Next]_vars => ListedWhileRemoving'
<1> SUFFICES ASSUME TypeOK, ListedWhileRemoving, [Next]_vars PROVE ListedWhileRemoving'
  OBVIOUS
<1> USE DEF TypeOK, ListedWhileRemoving
<1>1. ASSUME NEW p \in Procs, NEW c \in Commands, Issue(p, c) PROVE ListedWhileRemoving'
  BY <1>1 DEF Issue
<1>2. ASSUME NEW p \in Procs, NEW t \in Resources \cup {Star}, Edit(p, t)
      PROVE ListedWhileRemoving'
  BY <1>2 DEF Edit
<1>3. ASSUME NEW p \in Procs, EditDone(p) PROVE ListedWhileRemoving'
  BY <1>3 DEF EditDone, GoTo
<1>4. ASSUME NEW p \in Procs, SeedLocal(p) PROVE ListedWhileRemoving'
  BY <1>4 DEF SeedLocal, GoTo
<1>5. ASSUME NEW p \in Procs, SeedP2p(p) PROVE ListedWhileRemoving'
  BY <1>5 DEF SeedP2p, GoTo
<1>6. ASSUME NEW p \in Procs, ListRules(p) PROVE ListedWhileRemoving'
  BY <1>6 DEF ListRules
<1>7. ASSUME NEW p \in Procs, NEW k \in Key, RemoveRule(p, k) PROVE ListedWhileRemoving'
  BY <1>7 DEF RemoveRule
<1>8. ASSUME NEW p \in Procs, RemoveDone(p) PROVE ListedWhileRemoving'
  BY <1>8 DEF RemoveDone, GoTo
<1>9. ASSUME NEW p \in Procs, Leave(p) PROVE ListedWhileRemoving'
  BY <1>9 DEF Leave
<1>10. CASE Router \/ UNCHANGED vars
  BY <1>10 DEF Router, RouterAsks, RouterStores, vars
<1> QED
  BY <1>1, <1>2, <1>3, <1>4, <1>5, <1>6, <1>7, <1>8, <1>9, <1>10 DEF Next, Proc

LEMMA PlanStep ==
  ASSUME TypeOK, ListedWhileRemoving, PlanCarriedOut, [Next]_vars
  PROVE  PlanCarriedOut'
<1> USE DEF TypeOK, ListedWhileRemoving, PlanCarriedOut
<1>1. ASSUME NEW p \in Procs, NEW c \in Commands, Issue(p, c) PROVE PlanCarriedOut'
  BY <1>1 DEF Issue
<1>2. ASSUME NEW p \in Procs, NEW t \in Resources \cup {Star}, Edit(p, t)
      PROVE PlanCarriedOut'
  BY <1>2 DEF Edit, WroteBy
<1>3. ASSUME NEW p \in Procs, EditDone(p) PROVE PlanCarriedOut'
  BY <1>3 DEF EditDone, GoTo
<1>4. ASSUME NEW p \in Procs, SeedLocal(p) PROVE PlanCarriedOut'
  BY <1>4 DEF SeedLocal, GoTo, WroteBy
<1>5. ASSUME NEW p \in Procs, SeedP2p(p) PROVE PlanCarriedOut'
  BY <1>5 DEF SeedP2p, GoTo, WroteBy
<1>6. ASSUME NEW p \in Procs, ListRules(p) PROVE PlanCarriedOut'
  <2>1. rules = Without(rules, {})
    BY DEF Without, Store
  <2>2. Redundant(rules) \ Redundant(rules) = {}
    OBVIOUS
  <2>3. /\ base'[p] = rules /\ rules' = rules
        /\ proc'[p].plan = Redundant(rules)
    BY <1>6 DEF ListRules
  <2>4. \A q \in Procs \ {p} : base'[q] = base[q] /\ alone'[q] = alone[q]
                               /\ proc'[q] = proc[q]
    BY <1>6 DEF ListRules
  <2> QED
    BY <2>1, <2>2, <2>3, <2>4
<1>7. ASSUME NEW p \in Procs, NEW k \in Key, RemoveRule(p, k) PROVE PlanCarriedOut'
  <2>1. /\ k \in proc[p].plan
        /\ rules' = [rules EXCEPT ![k] = None]
        /\ proc'[p].plan = proc[p].plan \ {k}
        /\ base' = base
        /\ alone'[p] = alone[p]
        /\ \A q \in Procs \ {p} : ~alone'[q]
    BY <1>7 DEF RemoveRule, WroteBy
  <2>2. ASSUME base[p] # NoRows, alone[p]
        PROVE  /\ proc'[p].plan \subseteq Redundant(base[p])
               /\ rules' = Without(base[p], Redundant(base[p]) \ proc'[p].plan)
    <3> DEFINE red == Redundant(base[p])
    <3>1. proc[p].plan \subseteq red /\ rules = Without(base[p], red \ proc[p].plan)
      BY <2>2
    <3>2. red \ proc'[p].plan = (red \ proc[p].plan) \cup {k}
      BY <2>1, <3>1
    <3> HIDE DEF red
    <3>3. [rules EXCEPT ![k] = None] = Without(base[p], (red \ proc[p].plan) \cup {k})
      BY <3>1 DEF Without
    <3> QED
      BY <2>1, <3>1, <3>2, <3>3 DEF red
  <2> QED
    BY <2>1, <2>2
<1>8. ASSUME NEW p \in Procs, RemoveDone(p) PROVE PlanCarriedOut'
  BY <1>8 DEF RemoveDone, GoTo
<1>9. ASSUME NEW p \in Procs, Leave(p) PROVE PlanCarriedOut'
  BY <1>9 DEF Leave
<1>10. CASE Router \/ UNCHANGED vars
  BY <1>10 DEF Router, RouterAsks, RouterStores, vars
<1> QED
  BY <1>1, <1>2, <1>3, <1>4, <1>5, <1>6, <1>7, <1>8, <1>9, <1>10 DEF Next, Proc

LEMMA Invariance == Spec => []IInv
<1>1. IInv /\ [Next]_vars => IInv'
  BY TypeOKStep, ListedStep, PlanStep DEF IInv
<1> QED
  BY InvInit, <1>1, PTL DEF Spec

(***************************************************************************)
(* No consolidate that runs alone changes a decision, at any point between *)
(* its deletions: the table is the listing without redundant rows, so      *)
(* RemovalKeepsDecisions applies.                                          *)
(***************************************************************************)
THEOREM ConsolidateCorrect == Spec => []ConsolidationIsInvisible
<1>1. IInv => ConsolidationIsInvisible
  <2> SUFFICES ASSUME IInv, NEW p \in Procs, base[p] # NoRows, alone[p],
                      NEW a \in Callers, NEW t \in Resources
               PROVE  Check(rules, a, t) = Check(base[p], a, t)
    BY DEF ConsolidationIsInvisible
  <2>1. base[p] \in Store
    BY DEF IInv, TypeOK
  <2>2. rules = Without(base[p], Redundant(base[p]) \ proc[p].plan)
    BY DEF IInv, PlanCarriedOut
  <2> QED
    BY <2>1, <2>2, RemovalKeepsDecisions
<1> QED
  BY Invariance, <1>1, PTL
-----------------------------------------------------------------------------
(***************************************************************************)
(* The inductive invariant of a command that writes a decision and that    *)
(* nobody disturbs: the rows it is through with hold the decision, until   *)
(* consolidate lists them; from then on the listing has them, and what the *)
(* table still has of the listing is PlanCarriedOut's.                     *)
(***************************************************************************)
Undisturbed(p) ==
  /\ alone[p]
  /\ proc[p].command.kind = "edit"
  /\ proc[p].command.decision # None

\* p's decision stands in r, for its agent, at the names ns.
StandsAt(p, r, ns) ==
  \A n \in ns : r[<<proc[p].command.agent, n>>] = proc[p].command.decision

\* Only the bridge's start seeds, and only a consolidate has a plan.
Stages ==
  \A p \in Procs :
    /\ proc[p].pc \in {"seed local", "seed p2p"} => proc[p].command.kind # "edit"
    /\ proc[p].pc # "remove" => proc[p].plan = {}
    /\ proc[p].pc = "list" /\ proc[p].command.kind = "edit" => proc[p].todo = {}

\* What p has written, or what it has listed, holds its decision.
Stands(p) ==
  Undisturbed(p) =>
    /\ proc[p].pc \in {"edit", "list"} =>
         StandsAt(p, rules, proc[p].command.names \ proc[p].todo)
    /\ proc[p].pc \in {"remove", "done"} => StandsAt(p, base[p], proc[p].command.names)

CommandInv == Stages /\ \A p \in Procs : Stands(p)

LEMMA CommandInit == Init => CommandInv
<1> SUFFICES ASSUME Init PROVE CommandInv
  OBVIOUS
<1>1. \A p \in Procs : proc[p].pc = "idle" /\ proc[p].plan = {}
  BY DEF Init
<1> QED
  BY <1>1 DEF CommandInv, Stages, Stands

LEMMA StagesStep == TypeOK /\ Stages /\ [Next]_vars => Stages'
<1> SUFFICES ASSUME TypeOK, Stages, [Next]_vars PROVE Stages'
  OBVIOUS
<1> USE DEF TypeOK, Stages
<1>1. ASSUME NEW p \in Procs, NEW c \in Commands, Issue(p, c) PROVE Stages'
  BY <1>1 DEF Issue
<1>2. ASSUME NEW p \in Procs, NEW t \in Resources \cup {Star}, Edit(p, t) PROVE Stages'
  BY <1>2 DEF Edit
<1>3. ASSUME NEW p \in Procs, EditDone(p) PROVE Stages'
  BY <1>3 DEF EditDone, GoTo
<1>4. ASSUME NEW p \in Procs, SeedLocal(p) PROVE Stages'
  BY <1>4 DEF SeedLocal, GoTo
<1>5. ASSUME NEW p \in Procs, SeedP2p(p) PROVE Stages'
  BY <1>5 DEF SeedP2p, GoTo
<1>6. ASSUME NEW p \in Procs, ListRules(p) PROVE Stages'
  BY <1>6 DEF ListRules
<1>7. ASSUME NEW p \in Procs, NEW k \in Key, RemoveRule(p, k) PROVE Stages'
  BY <1>7 DEF RemoveRule
<1>8. ASSUME NEW p \in Procs, RemoveDone(p) PROVE Stages'
  BY <1>8 DEF RemoveDone, GoTo
<1>9. ASSUME NEW p \in Procs, Leave(p) PROVE Stages'
  BY <1>9 DEF Leave
<1>10. CASE Router \/ UNCHANGED vars
  BY <1>10 DEF Router, RouterAsks, RouterStores, vars
<1> QED
  BY <1>1, <1>2, <1>3, <1>4, <1>5, <1>6, <1>7, <1>8, <1>9, <1>10 DEF Next, Proc

\* A process that stays where it is stands as before, unless it is disturbed.
LEMMA OthersStand ==
  ASSUME NEW q \in Procs, Stands(q), proc'[q] = proc[q], base'[q] = base[q],
         ~alone'[q] \/ (alone'[q] = alone[q] /\ rules' = rules)
  PROVE  Stands(q)'
  BY DEF Stands, StandsAt, Undisturbed

LEMMA StandsStep ==
  ASSUME TypeOK, Stages, \A q \in Procs : Stands(q), [Next]_vars
  PROVE  \A q \in Procs : Stands(q)'
<1> SUFFICES ASSUME NEW q \in Procs PROVE Stands(q)'
  OBVIOUS
<1> USE DEF TypeOK
<1>1. ASSUME NEW p \in Procs, NEW c \in Commands, Issue(p, c) PROVE Stands(q)'
  <2>1. CASE q = p
    BY <1>1, <2>1 DEF Issue, Stands, StandsAt, Undisturbed
  <2> QED
    BY <1>1, <2>1, OthersStand DEF Issue
<1>2. ASSUME NEW p \in Procs, NEW t \in Resources \cup {Star}, Edit(p, t) PROVE Stands(q)'
  <2> DEFINE c == proc[p].command
  <2>1. /\ proc[p].pc = "edit" /\ t \in proc[p].todo
        /\ rules' = [rules EXCEPT ![<<c.agent, t>>] = c.decision]
        /\ proc' = [proc EXCEPT ![p].todo = @ \ {t}]
        /\ \A r \in Procs : alone'[r] <=> r = p /\ alone[r]
        /\ base' = base
    BY <1>2 DEF Edit, WroteBy
  <2>2. CASE q = p
    <3>1. \A n \in Resources \cup {Star} : <<c.agent, n>> \in Key
      BY DEF Command, Key
    <3>2. rules'[<<c.agent, t>>] = c.decision
      BY <2>1, <3>1 DEF Store
    <3>3. \A n \in Resources \cup {Star} : n # t => rules'[<<c.agent, n>>] = rules[<<c.agent, n>>]
      BY <2>1, <3>1 DEF Store
    <3>4. c.names \subseteq Resources \cup {Star}
      BY DEF Command
    <3>5. proc'[p].pc = "edit" /\ proc'[p].command = c /\ proc'[p].todo = proc[p].todo \ {t}
      BY <2>1
    <3>6. ASSUME Undisturbed(p)', NEW n \in c.names \ proc'[p].todo
          PROVE  rules'[<<c.agent, n>>] = c.decision
      <4>1. Undisturbed(p)
        BY <2>1, <3>5, <3>6 DEF Undisturbed
      <4>2. CASE n = t
        BY <3>2, <4>2
      <4>3. CASE n # t
        <5>1. n \in c.names \ proc[p].todo
          BY <3>5, <3>6, <4>3
        <5>2. rules[<<c.agent, n>>] = c.decision
          BY <2>1, <4>1, <5>1 DEF Stands, StandsAt
        <5> QED
          BY <3>3, <3>4, <4>3, <5>1, <5>2
      <4> QED
        BY <4>2, <4>3
    <3> QED
      BY <2>2, <3>5, <3>6 DEF Stands, StandsAt
  <2>3. CASE q # p
    BY <2>1, <2>3, OthersStand
  <2> QED
    BY <2>2, <2>3
<1>3. ASSUME NEW p \in Procs, EditDone(p) PROVE Stands(q)'
  <2>1. CASE q = p
    <3>1. /\ proc[p].pc = "edit" /\ rules' = rules /\ alone' = alone
          /\ proc'[p].pc \in {"list", "done"}
          /\ proc'[p].pc = "done" => proc[p].command.decision = None
          /\ proc'[p].command = proc[p].command /\ proc'[p].todo = proc[p].todo
      BY <1>3 DEF EditDone, GoTo
    <3> QED
      BY <2>1, <3>1 DEF Stands, StandsAt, Undisturbed
  <2> QED
    BY <1>3, <2>1, OthersStand DEF EditDone, GoTo
<1>4. ASSUME NEW p \in Procs, SeedLocal(p) PROVE Stands(q)'
  <2>1. CASE q = p
    BY <1>4, <2>1 DEF SeedLocal, GoTo, Stands
  <2> QED
    BY <1>4, <2>1, OthersStand DEF SeedLocal, GoTo, WroteBy
<1>5. ASSUME NEW p \in Procs, SeedP2p(p) PROVE Stands(q)'
  <2>1. CASE q = p
    BY <1>5, <2>1 DEF SeedP2p, GoTo, Stands, Undisturbed, Stages
  <2> QED
    BY <1>5, <2>1, OthersStand DEF SeedP2p, GoTo, WroteBy
<1>6. ASSUME NEW p \in Procs, ListRules(p) PROVE Stands(q)'
  <2>1. CASE q = p
    <3>1. /\ proc[p].pc = "list" /\ base'[p] = rules /\ alone' = alone
          /\ proc'[p].pc = "remove" /\ proc'[p].command = proc[p].command
      BY <1>6 DEF ListRules
    <3>2. proc[p].command.kind = "edit" => proc[p].todo = {}
      BY <3>1 DEF Stages
    <3> QED
      BY <2>1, <3>1, <3>2 DEF Stands, StandsAt, Undisturbed
  <2> QED
    BY <1>6, <2>1, OthersStand DEF ListRules
<1>7. ASSUME NEW p \in Procs, NEW k \in Key, RemoveRule(p, k) PROVE Stands(q)'
  <2>1. CASE q = p
    <3>1. /\ proc[p].pc = "remove" /\ base' = base /\ alone'[p] = alone[p]
          /\ proc'[p].pc = "remove" /\ proc'[p].command = proc[p].command
      BY <1>7 DEF RemoveRule, WroteBy
    <3> QED
      BY <2>1, <3>1 DEF Stands, StandsAt, Undisturbed
  <2> QED
    BY <1>7, <2>1, OthersStand DEF RemoveRule, WroteBy
<1>8. ASSUME NEW p \in Procs, RemoveDone(p) PROVE Stands(q)'
  <2>1. CASE q = p
    <3>1. /\ proc[p].pc = "remove" /\ base' = base /\ alone' = alone
          /\ proc'[p].pc = "done" /\ proc'[p].command = proc[p].command
      BY <1>8 DEF RemoveDone, GoTo
    <3> QED
      BY <2>1, <3>1 DEF Stands, StandsAt, Undisturbed
  <2> QED
    BY <1>8, <2>1, OthersStand DEF RemoveDone, GoTo
<1>9. ASSUME NEW p \in Procs, Leave(p) PROVE Stands(q)'
  <2>1. CASE q = p
    BY <1>9, <2>1 DEF Leave, Stands
  <2> QED
    BY <1>9, <2>1, OthersStand DEF Leave
<1>10. CASE Router
  <2>1. \/ alone' = alone /\ rules' = rules
        \/ ~alone'[q]
    BY <1>10 DEF Router, RouterAsks, RouterStores
  <2> QED
    BY <1>10, <2>1, OthersStand DEF Router, RouterAsks, RouterStores
<1>11. CASE UNCHANGED vars
  BY <1>11, OthersStand DEF vars
<1> QED
  BY <1>1, <1>2, <1>3, <1>4, <1>5, <1>6, <1>7, <1>8, <1>9, <1>10, <1>11 DEF Next, Proc

(***************************************************************************)
(* A decision that stands in the listing for an agent is the agent's       *)
(* answer once consolidate is through; and, for a class, the answer for a  *)
(* peer that has no rows left, be it that consolidate removed them.  The   *)
(* class's own row may be gone too, but only if its `*` row repeats it.    *)
(***************************************************************************)
LEMMA StandingDecides ==
  ASSUME NEW r \in Store, NEW agent \in Agents, NEW t \in Resources,
         NEW d \in Decision, r[<<agent, t>>] = d,
         NEW a \in Callers,
         \/ a = agent
         \/ /\ a \in Peers /\ ClassOf[a] = agent
            /\ Without(r, Redundant(r))[<<a, t>>] = None
            /\ Without(r, Redundant(r))[<<a, Star>>] = None
  PROVE  Check(Without(r, Redundant(r)), a, t) = d
<1> DEFINE D == Redundant(r)
           s == Without(r, D)
<1> USE PermissionsAssumption
<1>1. CASE a = agent
  <2>1. Check(r, a, t) = d
    BY <1>1 DEF Check, Own
  <2> QED
    BY <2>1, RemovalKeepsDecisions
<1>2. CASE /\ a \in Peers /\ ClassOf[a] = agent
           /\ s[<<a, t>>] = None /\ s[<<a, Star>>] = None
  <2>1. agent \in Classes /\ agent \notin Peers /\ a # Local
    BY <1>2
  <2>2. <<agent, t>> \in Key /\ <<agent, Star>> \in Key
    BY DEF Key
  <2>3. s[<<agent, t>>] = IF <<agent, t>> \in D THEN None ELSE d
    BY <2>2 DEF Without
  <2>4. <<agent, t>> \in D => r[<<agent, Star>>] = d
    BY <2>1 DEF Redundant, Redundant1, Redundant2, Redundant3
  <2>5. <<agent, Star>> \notin D
    BY <2>1 DEF Redundant, Redundant1, Redundant2, Redundant3
  <2>6. s[<<agent, Star>>] = r[<<agent, Star>>]
    BY <2>2, <2>5 DEF Without
  <2>7. Own(s, a, t) = None
    BY <1>2 DEF Own
  <2>8. Own(s, agent, t) = d /\ d # None
    BY <2>3, <2>4, <2>6 DEF Own
  <2> QED
    BY <1>2, <2>1, <2>7, <2>8 DEF Check
<1> QED
  BY <1>1, <1>2

(***************************************************************************)
(* What a command that nobody disturbed was told holds when it is done:    *)
(* its rows were in the listing, and consolidate took away only what the   *)
(* rows that remain say as well.                                           *)
(***************************************************************************)
THEOREM CommandsTakeEffect == Spec => []CommandTakesEffect
<1>1. IInv /\ CommandInv /\ [Next]_vars => CommandInv'
  BY StagesStep, StandsStep DEF IInv, CommandInv
<1>2. IInv /\ CommandInv => CommandTakesEffect
  <2> SUFFICES ASSUME IInv, CommandInv, NEW p \in Procs,
                      proc[p].pc = "done", Undisturbed(p),
                      NEW t \in proc[p].command.names \cap Resources, NEW a \in Callers,
                      \/ a = proc[p].command.agent
                      \/ /\ a \in Peers /\ ClassOf[a] = proc[p].command.agent
                         /\ rules[<<a, t>>] = None /\ rules[<<a, Star>>] = None
               PROVE  Check(rules, a, t) = proc[p].command.decision
    BY DEF CommandTakesEffect, Undisturbed
  <2> DEFINE c == proc[p].command
             r == base[p]
  <2>1. r \in Store /\ c \in Command
    BY DEF IInv, TypeOK
  <2>2. c.agent \in Agents /\ c.decision \in Decision /\ c.decision # None
    BY <2>1 DEF Command, Undisturbed
  <2>3. r[<<c.agent, t>>] = c.decision
    BY DEF CommandInv, Stands, StandsAt
  <2>4. <<c.agent, t>> \in Key
    BY <2>2 DEF Key
  <2>5. r # NoRows
    BY <2>2, <2>3, <2>4 DEF NoRows
  <2>6. rules = Without(r, Redundant(r) \ proc[p].plan)
    BY <2>5 DEF IInv, PlanCarriedOut, Undisturbed
  <2>7. proc[p].plan = {}
    BY DEF CommandInv, Stages
  <2>8. rules = Without(r, Redundant(r))
    BY <2>6, <2>7
  <2> QED
    BY <2>1, <2>2, <2>3, <2>8, StandingDecides
<1> QED
  BY InvInit, CommandInit, Invariance, <1>1, <1>2, PTL DEF Spec
-----------------------------------------------------------------------------
(***************************************************************************)
(* A tool is announced exactly when some peer may call it.                 *)
(***************************************************************************)
THEOREM ExposureCorrect == Spec => []ExposedIffCallable
<1>1. TypeOK => ExposedIffCallable
  <2> SUFFICES ASSUME TypeOK, NEW t \in Resources
               PROVE  Exposed(rules, t) <=>
                        \/ \E a \in Peers : ClassOf[a] = P2p /\ Check(rules, a, t) = "allow"
                        \/ Own(rules, P2p, t) = "allow"
    BY DEF ExposedIffCallable
  <2>1. \A a \in P2pAgents :
          (rules[<<a, t>>] = "allow" \/ (rules[<<a, Star>>] = "allow" /\ rules[<<a, t>>] # "deny"))
            <=> Own(rules, a, t) = "allow"
    <3> TAKE a \in P2pAgents
    <3>1. <<a, t>> \in Key /\ <<a, Star>> \in Key
      BY PermissionsAssumption DEF P2pAgents, Key, Agents
    <3>2. rules[<<a, t>>] \in {"allow", "deny", None} /\ None \notin {"allow", "deny"}
      BY <3>1, PermissionsAssumption DEF TypeOK, Store, Decision
    <3> QED
      BY <3>2 DEF Own
  <2>2. Exposed(rules, t) <=> \E a \in P2pAgents : Own(rules, a, t) = "allow"
    BY <2>1 DEF Exposed
  <2>3. \A a \in Peers : ClassOf[a] = P2p =>
          /\ Own(rules, a, t) = "allow" => Check(rules, a, t) = "allow"
          /\ Check(rules, a, t) = "allow" =>
               Own(rules, a, t) = "allow" \/ Own(rules, P2p, t) = "allow"
    BY PermissionsAssumption DEF Check, Decision
  <2> QED
    BY <2>2, <2>3 DEF P2pAgents
<1> QED
  BY TypeCorrect, <1>1, PTL
=============================================================================
