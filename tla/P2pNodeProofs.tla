--------------------------- MODULE P2pNodeProofs ---------------------------
(***************************************************************************)
(* Proofs that the bridge sees the peers it is connected to, asks each     *)
(* rendezvous point and relay once, and answers lookups with what it       *)
(* knows, for every number of peers, connections, servers and requests.    *)
(***************************************************************************)
EXTENDS P2pNode, TLAPS

(* The types, as far as the proofs need them. *)

NodeTypes ==
  /\ conns \subseteq Conn
  /\ registered \subseteq Peers
  /\ asked \in [Peers -> Nat]

\* Each circuit rides on a connection, to a relay that counts as reserved.
CircuitsRide ==
  /\ circuits \subseteq conns
  /\ \A c \in circuits : c.peer \in reserved

\* The inductive invariant of the node.
NodeInv == NodeTypes /\ PeersAreTracked /\ ServersAreAskedOnce /\ CircuitsRide

Sent ==
  [at : {"waiting", "looking in the table"}, tool : {"lookup", "call"},
   peer : Peers, known : BOOLEAN]

Answered ==
  [at : {"answered"}, tool : {"lookup", "call"}, peer : Peers, record : BOOLEAN,
   known : BOOLEAN, missed : BOOLEAN]

AskState == [at : {"none"}] \cup Sent \cup Answered

ToolTypes ==
  /\ ask \in [Asks -> AskState]
  /\ slot \in [Asks -> {"empty", "record", "result", "error"}]
  /\ queue \subseteq Asks /\ queries \subseteq Asks /\ calling \subseteq Asks
  /\ found \in {0} \cup Asks

Made(k) == ask[k] \in Sent \cup Answered

(***************************************************************************)
(* What is on its way belongs to a request, and a record that is on its    *)
(* way, or has arrived, is in the table, as is a peer that was known.      *)
(***************************************************************************)
OnTheWay ==
  /\ \A k \in queue \cup queries \cup calling : Made(k)
  /\ \A k \in calling : ask[k].tool = "call"
  /\ found # 0 => Made(found) /\ ask[found].peer \in table

Arrived(k) ==
  /\ slot[k] # "empty" => Made(k)
  /\ slot[k] = "record" => ask[k].peer \in table
  /\ slot[k] = "result" => ask[k].tool = "call"
  /\ Made(k) /\ ask[k].known => ask[k].peer \in table

\* The inductive invariant of the requests.
ToolInv == ToolTypes /\ OnTheWay /\ (\A k \in Asks : Arrived(k)) /\ AnswersUseWhatIsKnown
-----------------------------------------------------------------------------
(* Connections *)

LEMMA NodeStart == Init => NodeInv
BY DEF Init, NodeInit, NodeInv, NodeTypes, PeersAreTracked, ServersAreAskedOnce,
       CircuitsRide, Reachable, Linked

\* A peer that connects is reachable, and nothing else is known of it.
LEMMA EstablishedNode ==
  ASSUME NodeInv, NEW p \in Peers, NEW id \in ConnIds, NEW relayed \in BOOLEAN,
         Established(p, id, relayed)
  PROVE  NodeInv'
<1> DEFINE c == [id |-> id, peer |-> p, relayed |-> relayed]
<1>1. /\ conns' = conns \cup {c} /\ connected' = connected \cup {p}
      /\ UNCHANGED <<reserved, servers, registered, asked, held, circuits>>
  BY DEF Established
<1>2. c \in Conn /\ c.peer = p
  BY DEF Conn
<1> HIDE DEF c
<1>3. Linked' = Linked \cup {p}
  BY <1>1, <1>2 DEF Linked
<1>4. NodeTypes'
  BY <1>1, <1>2 DEF NodeInv, NodeTypes
<1>5. PeersAreTracked'
  BY <1>1, <1>3 DEF NodeInv, PeersAreTracked, Reachable
<1>6. ServersAreAskedOnce' /\ CircuitsRide'
  BY <1>1 DEF NodeInv, ServersAreAskedOnce, CircuitsRide
<1> QED
  BY <1>4, <1>5, <1>6 DEF NodeInv

\* Only the last connection of a peer takes with it what was known of it.
LEMMA ClosedNode ==
  ASSUME NodeInv, NEW c \in conns, Closed(c)
  PROVE  NodeInv'
<1>1. /\ conns' = conns \ {c} /\ circuits' = circuits \ {c}
      /\ UNCHANGED <<asked, held>>
  BY DEF Closed
<1>2. c \in Conn /\ c.peer \in Peers
  BY DEF NodeInv, NodeTypes, Conn
<1>3. CASE Of(c.peer) = {c}
  <2>1. /\ connected' = connected \ {c.peer}
        /\ reserved' = reserved \ {c.peer}
        /\ servers' = servers \ {c.peer}
        /\ registered' = registered \ {c.peer}
    BY <1>3 DEF Closed, Forget, ForgetServer
  <2>2. \A d \in conns : d.peer = c.peer => d = c
    BY <1>3 DEF Of
  <2>3. Linked' = Linked \ {c.peer}
    BY <1>1, <2>2 DEF Linked
  <2>4. NodeTypes'
    BY <1>1, <2>1 DEF NodeInv, NodeTypes
  <2>5. PeersAreTracked'
    BY <2>1, <2>3 DEF NodeInv, PeersAreTracked, Reachable
  <2>6. ServersAreAskedOnce'
    BY <1>1, <2>1 DEF NodeInv, ServersAreAskedOnce
  <2>7. CircuitsRide'
    BY <1>1, <2>1, <2>2 DEF NodeInv, CircuitsRide
  <2> QED
    BY <2>4, <2>5, <2>6, <2>7 DEF NodeInv
<1>4. CASE Of(c.peer) # {c}
  <2>1. UNCHANGED <<connected, reserved, servers, registered>>
    BY <1>4 DEF Closed
  <2>2. PICK d \in conns : d # c /\ d.peer = c.peer
    BY <1>4 DEF Of
  <2>3. Linked' = Linked
    BY <1>1, <2>2 DEF Linked
  <2>4. NodeTypes'
    BY <1>1, <2>1 DEF NodeInv, NodeTypes
  <2>5. PeersAreTracked'
    BY <2>1, <2>3 DEF NodeInv, PeersAreTracked, Reachable
  <2>6. ServersAreAskedOnce' /\ CircuitsRide'
    BY <1>1, <2>1 DEF NodeInv, ServersAreAskedOnce, CircuitsRide
  <2> QED
    BY <2>4, <2>5, <2>6 DEF NodeInv
<1> QED
  BY <1>3, <1>4

\* The steps that leave alone what the invariant speaks of.
LEMMA QuietNode ==
  ASSUME NodeInv, UNCHANGED <<nodeVars, circuits, asked, held>>
  PROVE  NodeInv'
BY DEF nodeVars, NodeInv, NodeTypes, PeersAreTracked, ServersAreAskedOnce,
       CircuitsRide, Reachable, Linked

\* Who listens on fewer circuits, too.
LEMMA ReservationNode ==
  ASSUME NodeInv, NEW c \in circuits, ReservationEnds(c)
  PROVE  NodeInv'
<1>1. circuits' = circuits \ {c} /\ UNCHANGED <<nodeVars, asked, held>>
  BY DEF ReservationEnds
<1> QED
  BY <1>1 DEF nodeVars, NodeInv, NodeTypes, PeersAreTracked, ServersAreAskedOnce,
              CircuitsRide, Reachable, Linked
-----------------------------------------------------------------------------
(* Relays and rendezvous points *)

\* Peers that count as registered with have been asked.
LEMMA RegisterAsks ==
  ASSUME NodeInv, NEW ps \in SUBSET Peers, held' = held,
         \/ /\ registered' = registered \cup ps
            /\ asked' = [p \in Peers |-> IF p \in ps THEN asked[p] + 1 ELSE asked[p]]
         \/ UNCHANGED <<registered, asked>>
  PROVE  /\ registered' \subseteq Peers
         /\ asked' \in [Peers -> Nat]
         /\ \A p \in registered' : asked'[p] > 0 \/ p \in held'
<1>1. asked \in [Peers -> Nat] /\ registered \subseteq Peers
  BY DEF NodeInv, NodeTypes
<1>2. \A p \in registered : asked[p] > 0 \/ p \in held
  BY DEF NodeInv, ServersAreAskedOnce
<1> QED
  BY <1>1, <1>2

\* A relay that counts as reserved is not asked again, and one that does not
\* serves no circuit.
LEMMA ReserveOnce ==
  ASSUME NodeInv, NEW p \in Linked, Reserve(p), conns' = conns
  PROVE  /\ CircuitsRide'
         /\ \A c, d \in circuits' : c.peer = d.peer => c = d
         /\ reserved' \in {reserved, reserved \cup {p}}
<1>1. \A c, d \in circuits : c.peer = d.peer => c = d
  BY DEF NodeInv, ServersAreAskedOnce
<1>2. CircuitsRide
  BY DEF NodeInv
<1>3. CASE UNCHANGED <<circuits, reserved>>
  BY <1>1, <1>2, <1>3 DEF CircuitsRide
<1>4. CASE /\ p \notin reserved /\ reserved' = reserved \cup {p}
           /\ circuits' = circuits
  BY <1>1, <1>2, <1>4 DEF CircuitsRide
<1>5. ASSUME NEW c \in Of(p), p \notin reserved, reserved' = reserved \cup {p},
             circuits' = circuits \cup {c}
      PROVE  /\ CircuitsRide'
             /\ \A d, e \in circuits' : d.peer = e.peer => d = e
             /\ reserved' \in {reserved, reserved \cup {p}}
  <2>1. c \in conns /\ c.peer = p
    BY <1>5 DEF Of
  <2>2. \A d \in circuits : d.peer # p
    BY <1>2, <1>5 DEF CircuitsRide
  <2> QED
    BY <1>1, <1>2, <1>5, <2>1, <2>2 DEF CircuitsRide
<1> QED
  BY <1>3, <1>4, <1>5 DEF Reserve

LEMMA IdentifyServerNode ==
  ASSUME NodeInv, NEW p \in Servers, IdentifyServer(p)
  PROVE  NodeInv'
<1>1. /\ p \in Linked /\ p \in Peers
      /\ servers' = servers \cup {p}
      /\ Register({p} \ registered) /\ Reserve(p)
      /\ UNCHANGED <<conns, connected, held>>
  BY P2pAssumption DEF IdentifyServer
<1>2. Linked' = Linked
  BY <1>1 DEF Linked
<1>3. /\ registered' \subseteq Peers
      /\ asked' \in [Peers -> Nat]
      /\ \A q \in registered' : asked'[q] > 0 \/ q \in held'
  <2> DEFINE ps == {p} \ registered
  <2>1. ps \in SUBSET Peers
    BY <1>1
  <2>2. \/ /\ registered' = registered \cup ps
           /\ asked' = [q \in Peers |-> IF q \in ps THEN asked[q] + 1 ELSE asked[q]]
        \/ UNCHANGED <<registered, asked>>
    BY <1>1 DEF Register
  <2> HIDE DEF ps
  <2> QED
    BY <1>1, <2>1, <2>2, RegisterAsks
<1>4. /\ CircuitsRide'
      /\ \A c, d \in circuits' : c.peer = d.peer => c = d
      /\ reserved' \in {reserved, reserved \cup {p}}
  BY <1>1, ReserveOnce
<1>5. PeersAreTracked'
  BY <1>1, <1>2, <1>4 DEF NodeInv, PeersAreTracked, Reachable
<1>6. NodeTypes' /\ ServersAreAskedOnce'
  BY <1>1, <1>3, <1>4 DEF NodeInv, NodeTypes, ServersAreAskedOnce
<1> QED
  BY <1>4, <1>5, <1>6 DEF NodeInv

LEMMA ConfirmedNode ==
  ASSUME NodeInv, ExternalAddrConfirmed
  PROVE  NodeInv'
<1> DEFINE ps == IF relayServer THEN {} ELSE servers \ registered
<1>1. /\ registered' = registered \cup ps
      /\ asked' = [q \in Peers |-> IF q \in ps THEN asked[q] + 1 ELSE asked[q]]
      /\ UNCHANGED <<conns, connected, reserved, servers, circuits, held>>
  BY DEF ExternalAddrConfirmed
<1>2. ps \in SUBSET Peers
  BY DEF NodeInv, NodeTypes, PeersAreTracked, Linked, Conn
<1> HIDE DEF ps
<1>3. /\ registered' \subseteq Peers
      /\ asked' \in [Peers -> Nat]
      /\ \A q \in registered' : asked'[q] > 0 \/ q \in held'
  BY <1>1, <1>2, RegisterAsks
<1>4. PeersAreTracked' /\ CircuitsRide'
  BY <1>1 DEF NodeInv, PeersAreTracked, CircuitsRide, Reachable, Linked
<1>5. NodeTypes' /\ ServersAreAskedOnce'
  BY <1>1, <1>3 DEF NodeInv, NodeTypes, ServersAreAskedOnce
<1> QED
  BY <1>4, <1>5 DEF NodeInv

\* Accepted, refused or expired: who no longer holds a registration counts as
\* registered with only if asked again.
LEMMA RegistrationNode ==
  ASSUME NodeInv, NEW p \in Servers,
         Registered(p) \/ RegisterFailed(p) \/ RegistrationExpired(p)
  PROVE  NodeInv'
<1>1. UNCHANGED <<conns, connected, reserved, servers, circuits>>
  BY DEF Registered, RegisterFailed, RegistrationExpired, nodeVars
<1>2. PeersAreTracked' /\ CircuitsRide'
  BY <1>1 DEF NodeInv, PeersAreTracked, CircuitsRide, Reachable, Linked
<1>3. p \in Peers /\ asked \in [Peers -> Nat] /\ registered \subseteq Peers
  BY P2pAssumption DEF NodeInv, NodeTypes
<1>4. \A q \in registered : asked[q] > 0 \/ q \in held
  BY DEF NodeInv, ServersAreAskedOnce
<1>5. /\ registered' \subseteq Peers
      /\ asked' \in [Peers -> Nat]
      /\ \A q \in registered' : asked'[q] > 0 \/ q \in held'
  <2>1. CASE Registered(p)
    <3>1. /\ asked[p] > 0 /\ asked' = [asked EXCEPT ![p] = @ - 1]
          /\ held' = held \cup {p} /\ registered' = registered
      BY <2>1 DEF Registered, nodeVars
    <3> QED
      BY <1>3, <1>4, <3>1
  <2>2. CASE RegisterFailed(p)
    <3>1. /\ asked[p] > 0 /\ asked' = [asked EXCEPT ![p] = @ - 1]
          /\ held' = held /\ registered' = registered \ {p}
      BY <2>2 DEF RegisterFailed
    <3> QED
      BY <1>3, <1>4, <3>1
  <2>3. CASE RegistrationExpired(p)
    <3>1. /\ held' = held \ {p}
          /\ \/ registered' = registered \cup {p} /\ asked' = [asked EXCEPT ![p] = @ + 1]
             \/ registered' = registered \ {p} /\ asked' = asked
      BY <2>3 DEF RegistrationExpired
    <3> QED
      BY <1>3, <1>4, <3>1
  <2> QED
    BY <2>1, <2>2, <2>3
<1>6. NodeTypes' /\ ServersAreAskedOnce'
  BY <1>1, <1>5 DEF NodeInv, NodeTypes, ServersAreAskedOnce
<1> QED
  BY <1>2, <1>6 DEF NodeInv

LEMMA NodeStep == NodeInv /\ [Next]_vars => NodeInv'
<1> SUFFICES ASSUME NodeInv, [Next]_vars
             PROVE  NodeInv'
  OBVIOUS
<1>1. CASE Connections
  BY <1>1, EstablishedNode, ClosedNode, QuietNode
     DEF Connections, BootstrapRetry
<1>2. CASE Swarm
  <2>1. CASE ExternalAddrConfirmed
    BY <2>1, ConfirmedNode
  <2>2. CASE ~ExternalAddrConfirmed
    <3>1. UNCHANGED <<nodeVars, circuits, asked, held>>
      BY <1>2, <2>2
         DEF Swarm, DialFails, Discovered, PeerGoes, Identify, ExternalAddrExpired, UpnpMapping
    <3> QED
      BY <3>1, QuietNode
  <2> QED
    BY <2>1, <2>2
<1>3. CASE Rendezvous
  BY <1>3, IdentifyServerNode, RegistrationNode, ReservationNode DEF Rendezvous
<1>4. CASE Tools
  BY <1>4, QuietNode DEF Tools, swarmVars
<1>5. CASE UNCHANGED vars
  BY <1>5, QuietNode DEF vars, swarmVars
<1> QED
  BY <1>1, <1>2, <1>3, <1>4, <1>5 DEF Next

LEMMA NodeAlways == Spec => []NodeInv
BY NodeStart, NodeStep, PTL DEF Spec

(***************************************************************************)
(* At any number of connections at a time, direct or through relays, the   *)
(* peers that network_ping reaches are those there is a connection to, and *)
(* relays and rendezvous points are forgotten with their last connection.  *)
(* (on_connection_established and on_connection_closed)                    *)
(***************************************************************************)
THEOREM PeersTracked == Spec => []PeersAreTracked
<1>1. NodeInv => PeersAreTracked
  BY DEF NodeInv
<1> QED
  BY NodeAlways, <1>1, PTL

(***************************************************************************)
(* Whatever the servers answer and whenever addresses come and go, a       *)
(* rendezvous point counts as registered with only while it holds the      *)
(* registration or has yet to answer, and no relay serves two circuits.    *)
(* (try_auto_relay_reserve and the rendezvous client's events)             *)
(***************************************************************************)
THEOREM ServersAsked == Spec => []ServersAreAskedOnce
<1>1. NodeInv => ServersAreAskedOnce
  BY DEF NodeInv
<1> QED
  BY NodeAlways, <1>1, PTL
-----------------------------------------------------------------------------
(* Requests *)

\* What a request in a state of AskState has.
LEMMA AskShapes ==
  ASSUME ToolTypes, NEW k \in Asks
  PROVE  /\ ask[k] \in AskState
         /\ Made(k) <=> ask[k].at # "none"
         /\ Made(k) => /\ ask[k].tool \in {"lookup", "call"}
                       /\ ask[k].peer \in Peers
                       /\ ask[k].known \in BOOLEAN
         /\ ask[k].at \in {"waiting", "looking in the table"} => ask[k] \in Sent
         /\ ask[k].at = "answered" => ask[k] \in Answered
<1>1. ask[k] \in AskState
  BY DEF ToolTypes
<1>2. CASE ask[k] \in [at : {"none"}]
  BY <1>1, <1>2 DEF AskState, Sent, Answered, Made
<1>3. CASE ask[k] \in Sent
  BY <1>1, <1>3 DEF AskState, Sent, Answered, Made
<1>4. CASE ask[k] \in Answered
  BY <1>1, <1>4 DEF AskState, Sent, Answered, Made
<1> QED
  BY <1>1, <1>2, <1>3, <1>4 DEF AskState

\* A conclusion about one request.
Concludes(k) ==
  ask[k].at = "answered" /\ ask[k].tool = "lookup" =>
    IF ask[k].record THEN ask[k].peer \in table
                     ELSE ~ask[k].known /\ ~ask[k].missed

LEMMA Conclusions == AnswersUseWhatIsKnown <=> \A k \in Asks : Concludes(k)
BY DEF AnswersUseWhatIsKnown, Concludes, Listed

(***************************************************************************)
(* A step of one request's task, which changes what only it reads: the     *)
(* request, and, when it is made, the channel it is put in.                *)
(***************************************************************************)
LEMMA TaskStep ==
  ASSUME ToolInv, NEW k \in Asks, NEW r \in Sent \cup Answered,
         ask' = [ask EXCEPT ![k] = r],
         UNCHANGED <<table, queries, slot, found, calling>>,
         queue' \subseteq queue \cup {k},
         Made(k) => r.tool = ask[k].tool /\ r.peer = ask[k].peer /\ r.known = ask[k].known,
         r.known => r.peer \in table,
         r.at = "answered" /\ r.tool = "lookup" =>
           IF r.record THEN r.peer \in table ELSE ~r.known /\ ~r.missed
  PROVE  ToolInv'
<1>1. ToolTypes /\ OnTheWay /\ \A j \in Asks : Arrived(j)
  BY DEF ToolInv
<1>2. ask \in [Asks -> AskState] /\ r \in AskState
  BY <1>1 DEF ToolTypes, AskState
<1>3. ask' \in [Asks -> AskState] /\ ask'[k] = r /\ \A j \in Asks \ {k} : ask'[j] = ask[j]
  BY <1>2
<1>4. ToolTypes'
  BY <1>1, <1>3 DEF ToolTypes
<1>5. \A j \in Asks : Made(j) => /\ Made(j)' /\ ask'[j].tool = ask[j].tool
                                 /\ ask'[j].peer = ask[j].peer
                                 /\ ask'[j].known = ask[j].known
  BY <1>3 DEF Made
<1>6. Made(k)'
  BY <1>3 DEF Made
<1>7. \A j \in queue' \cup queries' \cup calling' : Made(j)'
  BY <1>1, <1>4, <1>5, <1>6 DEF OnTheWay, ToolTypes
<1>8. \A j \in calling' : ask'[j].tool = "call"
  BY <1>1, <1>5 DEF OnTheWay, ToolTypes
<1>9. found' # 0 => Made(found)' /\ ask'[found'].peer \in table'
  <2> SUFFICES ASSUME found # 0
               PROVE  Made(found)' /\ ask'[found'].peer \in table'
    OBVIOUS
  <2>1. found \in Asks /\ Made(found) /\ ask[found].peer \in table
    BY <1>1 DEF OnTheWay, ToolTypes
  <2> QED
    BY <2>1, <1>5
<1>10. ASSUME NEW j \in Asks PROVE Arrived(j)' /\ Concludes(j)'
  <2>1. CASE j = k
    <3>1. Arrived(j)'
      BY <1>1, <1>3, <1>5, <1>6, <2>1 DEF Arrived
    <3>2. Concludes(j)'
      BY <1>3, <2>1 DEF Concludes
    <3> QED
      BY <3>1, <3>2
  <2>2. CASE j # k
    <3>1. ask'[j] = ask[j]
      BY <1>3, <2>2
    <3>2. Arrived(j) /\ Concludes(j)
      BY <1>1, Conclusions DEF ToolInv
    <3> QED
      BY <3>1, <3>2 DEF Arrived, Concludes, Made
  <2> QED
    BY <2>1, <2>2
<1>11. AnswersUseWhatIsKnown'
  BY <1>10 DEF AnswersUseWhatIsKnown, Concludes, Listed
<1> QED
  BY <1>4, <1>7, <1>8, <1>9, <1>10, <1>11 DEF ToolInv, OnTheWay

LEMMA RequestStep ==
  ASSUME ToolInv, NEW k \in Asks, Request(k)
  PROVE  ToolInv'
<1>1. ToolTypes /\ OnTheWay /\ Arrived(k)
  BY DEF ToolInv
<1>2. ask \in [Asks -> AskState]
  BY <1>1 DEF ToolTypes
<1>3. ASSUME NEW p \in Peers, NEW tool \in {"lookup", "call"}, Send(k, tool, p)
      PROVE  ToolInv'
  <2> DEFINE r == [at |-> "waiting", tool |-> tool, peer |-> p, known |-> p \in table]
  <2>1. r \in Sent
    BY DEF Sent
  <2>2. ~Made(k)
    BY <1>1, <1>3, AskShapes DEF Send
  <2>3. /\ ask' = [ask EXCEPT ![k] = r] /\ queue' = queue \cup {k}
        /\ UNCHANGED <<table, queries, slot, found, calling>>
    BY <1>3 DEF Send
  <2>4. r.at = "waiting" /\ (r.known => r.peer \in table)
    OBVIOUS
  <2> HIDE DEF r
  <2> QED
    BY <2>1, <2>2, <2>3, <2>4, TaskStep
<1>4. ASSUME Receive(k) PROVE ToolInv'
  <2> DEFINE r == [at |-> "answered", tool |-> ask[k].tool, peer |-> ask[k].peer,
                   record |-> slot[k] = "record", known |-> ask[k].known, missed |-> FALSE]
  <2>1. ask[k] \in Sent /\ Made(k) /\ slot[k] \in {"record", "result"}
    BY <1>1, <1>4, AskShapes DEF Receive
  <2>2. /\ ask' = [ask EXCEPT ![k] = r]
        /\ UNCHANGED <<table, queue, queries, slot, found, calling>>
    BY <1>2, <1>4 DEF Receive, Answer
  <2>3. r \in Answered
    BY <2>1 DEF Sent, Answered
  <2>4. r.tool = ask[k].tool /\ r.peer = ask[k].peer /\ r.known = ask[k].known
    OBVIOUS
  <2>5. r.known => r.peer \in table
    BY <1>1, <2>1 DEF Arrived
  <2>6. r.tool = "lookup" => r.record /\ r.peer \in table
    BY <1>1, <2>1 DEF Arrived
  <2> HIDE DEF r
  <2> QED
    BY <2>2, <2>3, <2>4, <2>5, <2>6, TaskStep
<1>5. ASSUME LookupFails(k) PROVE ToolInv'
  <2> DEFINE r == [ask[k] EXCEPT !.at = "looking in the table"]
  <2>1. ask[k] \in Sent /\ Made(k)
    BY <1>1, <1>5, AskShapes DEF LookupFails
  <2>2. /\ ask' = [ask EXCEPT ![k] = r]
        /\ UNCHANGED <<table, queue, queries, slot, found, calling>>
    BY <1>2, <1>5 DEF LookupFails
  <2>3. /\ r \in Sent /\ r.at # "answered"
        /\ r.tool = ask[k].tool /\ r.peer = ask[k].peer /\ r.known = ask[k].known
    BY <2>1 DEF Sent
  <2>4. r.known => r.peer \in table
    BY <1>1, <2>1, <2>3 DEF Arrived
  <2> HIDE DEF r
  <2> QED
    BY <2>2, <2>3, <2>4, TaskStep
<1>6. ASSUME FallBack(k) PROVE ToolInv'
  <2> DEFINE r == [at |-> "answered", tool |-> ask[k].tool, peer |-> ask[k].peer,
                   record |-> InTable(k), known |-> ask[k].known,
                   missed |-> slot[k] = "record"]
  <2>1. ask[k] \in Sent /\ Made(k)
    BY <1>1, <1>6, AskShapes DEF FallBack
  <2>2. /\ ask' = [ask EXCEPT ![k] = r]
        /\ UNCHANGED <<table, queue, queries, slot, found, calling>>
    BY <1>2, <1>6 DEF FallBack
  <2>3. r \in Answered
    <3>1. InTable(k) \in BOOLEAN /\ (slot[k] = "record") \in BOOLEAN
      BY DEF InTable
    <3> QED
      BY <2>1, <3>1 DEF Sent, Answered
  <2>4. r.tool = ask[k].tool /\ r.peer = ask[k].peer /\ r.known = ask[k].known
    OBVIOUS
  <2>5. r.known => r.peer \in table
    BY <1>1, <2>1 DEF Arrived
  <2>6. IF r.record THEN r.peer \in table ELSE ~r.known /\ ~r.missed
    BY <1>1, <2>1 DEF Arrived, InTable
  <2> HIDE DEF r
  <2> QED
    BY <2>2, <2>3, <2>4, <2>5, <2>6, TaskStep
<1> QED
  BY <1>3, <1>4, <1>5, <1>6 DEF Request, Lookup, Call

(***************************************************************************)
(* A step of the loop, or of the task of a call: the table only grows, and *)
(* what arrives is a record of a peer that it now has, the result of a     *)
(* call, or an error.                                                      *)
(***************************************************************************)
LEMMA LoopStep ==
  ASSUME ToolInv, ask' = ask, table \subseteq table',
         slot' \in [Asks -> {"empty", "record", "result", "error"}],
         \A k \in Asks : slot'[k] # slot[k] =>
           /\ Made(k)
           /\ slot'[k] = "record" => ask[k].peer \in table
           /\ slot'[k] = "result" => ask[k].tool = "call",
         queue' \subseteq queue,
         queries' \subseteq queries \cup queue,
         calling' \subseteq calling \cup {k \in queue : ask[k].tool = "call"},
         found' \in {0} \cup Asks,
         found' # 0 => Made(found') /\ ask[found'].peer \in table'
  PROVE  ToolInv'
<1>1. ToolTypes /\ OnTheWay /\ \A k \in Asks : Arrived(k) /\ Concludes(k)
  BY Conclusions DEF ToolInv
<1>2. \A k \in Asks : Made(k)' <=> Made(k)
  BY DEF Made
<1>3. ToolTypes'
  BY <1>1 DEF ToolTypes
<1>4. OnTheWay'
  <2>1. \A k \in queue' \cup queries' \cup calling' : Made(k)'
    BY <1>1 DEF OnTheWay, Made
  <2>2. \A k \in calling' : ask'[k].tool = "call"
    BY <1>1 DEF OnTheWay
  <2>3. found' # 0 => Made(found)' /\ ask'[found'].peer \in table'
    BY DEF Made
  <2> QED
    BY <2>1, <2>2, <2>3 DEF OnTheWay
<1>5. ASSUME NEW k \in Asks PROVE Arrived(k)' /\ Concludes(k)'
  <2>1. Arrived(k) /\ Concludes(k)
    BY <1>1
  <2>2. Arrived(k)'
    <3>1. CASE slot'[k] = slot[k]
      BY <2>1, <1>2, <3>1 DEF Arrived
    <3>2. CASE slot'[k] # slot[k]
      BY <2>1, <1>2, <3>2 DEF Arrived
    <3> QED
      BY <3>1, <3>2
  <2>3. Concludes(k)'
    BY <2>1 DEF Concludes
  <2> QED
    BY <2>2, <2>3
<1>6. AnswersUseWhatIsKnown'
  BY <1>5 DEF AnswersUseWhatIsKnown, Concludes, Listed
<1> QED
  BY <1>3, <1>4, <1>5, <1>6 DEF ToolInv

LEMMA TakeStep ==
  ASSUME ToolInv, NEW k \in Asks, Take(k)
  PROVE  ToolInv'
<1>1. ToolTypes /\ OnTheWay
  BY DEF ToolInv
<1>2. /\ k \in queue /\ queue' = queue \ {k}
      /\ UNCHANGED <<table, ask, slot, found>>
  BY DEF Take
<1>3. Made(k) /\ ask[k].tool \in {"lookup", "call"}
  BY <1>1, <1>2, AskShapes DEF OnTheWay
<1>4. /\ queries' \subseteq queries \cup queue
      /\ calling' \subseteq calling \cup {j \in queue : ask[j].tool = "call"}
  <2>1. CASE ask[k].tool = "lookup"
    BY <1>2, <2>1 DEF Take
  <2>2. CASE ask[k].tool # "lookup"
    BY <1>2, <1>3, <2>2 DEF Take
  <2> QED
    BY <2>1, <2>2
<1>5. /\ slot \in [Asks -> {"empty", "record", "result", "error"}]
      /\ found \in {0} \cup Asks
      /\ found # 0 => Made(found) /\ ask[found].peer \in table
  BY <1>1 DEF ToolTypes, OnTheWay
<1> QED
  BY <1>2, <1>4, <1>5, LoopStep

\* The table has the record before the request does.
LEMMA QueryStep ==
  ASSUME ToolInv, NEW k \in Asks, QueryEnds(k), found = 0
  PROVE  ToolInv'
<1>1. ToolTypes /\ OnTheWay
  BY DEF ToolInv
<1>2. /\ k \in queries /\ queries' = queries \ {k}
      /\ UNCHANGED <<ask, queue, calling>>
  BY DEF QueryEnds, Found, NotFound
<1>3. Made(k) /\ slot \in [Asks -> {"empty", "record", "result", "error"}]
  BY <1>1, <1>2 DEF OnTheWay, ToolTypes
<1>4. CASE Found(k)
  <2>1. /\ table' = table \cup {ask[k].peer} /\ found' = k /\ slot' = slot
    BY <1>4 DEF Found
  <2> QED
    BY <1>2, <1>3, <2>1, LoopStep
<1>5. CASE NotFound(k)
  <2>1. /\ slot' = [slot EXCEPT ![k] = "error"] /\ table' = table /\ found' = 0
    BY <1>5 DEF NotFound
  <2>2. /\ slot' \in [Asks -> {"empty", "record", "result", "error"}]
        /\ slot'[k] = "error" /\ \A j \in Asks : slot'[j] # slot[j] => j = k
    BY <1>3, <2>1
  <2> QED
    BY <1>2, <1>3, <2>1, <2>2, LoopStep
<1> QED
  BY <1>4, <1>5 DEF QueryEnds

LEMMA DeliverStep ==
  ASSUME ToolInv, Deliver
  PROVE  ToolInv'
<1>1. ToolTypes /\ OnTheWay
  BY DEF ToolInv
<1>2. /\ found # 0 /\ slot' = [slot EXCEPT ![found] = "record"] /\ found' = 0
      /\ UNCHANGED <<table, ask, queue, queries, calling>>
  BY DEF Deliver
<1>3. found \in Asks /\ Made(found) /\ ask[found].peer \in table
  BY <1>1, <1>2 DEF OnTheWay, ToolTypes
<1>4. slot \in [Asks -> {"empty", "record", "result", "error"}]
  BY <1>1 DEF ToolTypes
<1>5. /\ slot' \in [Asks -> {"empty", "record", "result", "error"}]
      /\ slot'[found] = "record" /\ \A j \in Asks : slot'[j] # slot[j] => j = found
  BY <1>2, <1>3, <1>4
<1> QED
  BY <1>2, <1>3, <1>5, LoopStep

LEMMA CallStep ==
  ASSUME ToolInv, NEW k \in Asks, CallEnds(k)
  PROVE  ToolInv'
<1>1. ToolTypes /\ OnTheWay
  BY DEF ToolInv
<1>2. /\ k \in calling /\ calling' = calling \ {k}
      /\ slot' = [slot EXCEPT ![k] = "result"]
      /\ UNCHANGED <<table, ask, queue, queries, found>>
  BY DEF CallEnds
<1>3. Made(k) /\ ask[k].tool = "call"
  BY <1>1, <1>2 DEF OnTheWay
<1>4. /\ slot \in [Asks -> {"empty", "record", "result", "error"}]
      /\ found \in {0} \cup Asks
      /\ found # 0 => Made(found) /\ ask[found].peer \in table
  BY <1>1 DEF ToolTypes, OnTheWay
<1>5. /\ slot' \in [Asks -> {"empty", "record", "result", "error"}]
      /\ slot'[k] = "result" /\ \A j \in Asks : slot'[j] # slot[j] => j = k
  BY <1>2, <1>4
<1> QED
  BY <1>2, <1>3, <1>4, <1>5, LoopStep

\* The steps that change nothing, or no more than the table.
LEMMA QuietTools ==
  ASSUME ToolInv, UNCHANGED <<ask, queue, queries, slot, found, calling>>,
         table \subseteq table'
  PROVE  ToolInv'
<1>1. ToolTypes /\ OnTheWay
  BY DEF ToolInv
<1>2. /\ slot \in [Asks -> {"empty", "record", "result", "error"}]
      /\ found \in {0} \cup Asks
      /\ found # 0 => Made(found) /\ ask[found].peer \in table'
  BY <1>1 DEF ToolTypes, OnTheWay
<1> QED
  BY <1>2, LoopStep

LEMMA ToolsStart == Init => ToolInv
<1> SUFFICES ASSUME Init PROVE ToolInv
  OBVIOUS
<1>1. /\ ask = [k \in Asks |-> [at |-> "none"]]
      /\ queue = {} /\ queries = {} /\ calling = {}
      /\ slot = [k \in Asks |-> "empty"] /\ found = 0
  BY DEF Init, NodeInit, ToolsInit
<1>2. ToolTypes
  BY <1>1 DEF ToolTypes, AskState
<1>3. OnTheWay
  BY <1>1 DEF OnTheWay
<1>4. \A k \in Asks : ~Made(k) /\ slot[k] = "empty" /\ ask[k].at # "answered"
  BY <1>1, <1>2, AskShapes
<1> QED
  BY <1>2, <1>3, <1>4 DEF ToolInv, Arrived, AnswersUseWhatIsKnown

LEMMA ToolsStep == ToolInv /\ [Next]_vars => ToolInv'
<1> SUFFICES ASSUME ToolInv, [Next]_vars
             PROVE  ToolInv'
  OBVIOUS
<1>1. CASE Tools
  <2>1. CASE \E k \in Asks : Request(k) \/ CallEnds(k)
    BY <2>1, RequestStep, CallStep
  <2>2. CASE Serve
    <3>1. CASE found # 0
      BY <2>2, <3>1, DeliverStep DEF Serve
    <3>2. CASE found = 0
      <4>1. ASSUME NEW p \in Peers, FetchEnds(p) PROVE ToolInv'
        BY <4>1, QuietTools DEF FetchEnds
      <4> QED
        BY <2>2, <3>2, <4>1, TakeStep, QueryStep DEF Serve
    <3> QED
      BY <3>1, <3>2
  <2> QED
    BY <1>1, <2>1, <2>2 DEF Tools, ToolsNext
<1>2. CASE ~Tools
  <2>1. UNCHANGED <<table, ask, queue, queries, slot, found, calling>>
    <3>1. CASE Connections
      BY <3>1 DEF Connections, Established, Closed, BootstrapRetry, toolVars
    <3>2. CASE Swarm
      BY <3>2 DEF Swarm, DialFails, Discovered, PeerGoes, Identify, ExternalAddrConfirmed,
                  ExternalAddrExpired, UpnpMapping, toolVars
    <3>3. CASE Rendezvous
      BY <3>3 DEF Rendezvous, IdentifyServer, Registered, RegisterFailed,
                  RegistrationExpired, ReservationEnds, toolVars
    <3>4. CASE UNCHANGED vars
      BY <3>4 DEF vars, toolVars
    <3> QED
      BY <1>2, <3>1, <3>2, <3>3, <3>4 DEF Next
  <2> QED
    BY <2>1, QuietTools
<1> QED
  BY <1>1, <1>2

(***************************************************************************)
(* However requests, queries, records and timeouts overtake each other, a  *)
(* lookup is told that a peer is not known only when it was not known at   *)
(* its start and no record has been sent to it.                            *)
(* (upsert before the oneshot, the table read after the timeout)           *)
(***************************************************************************)
THEOREM LookupsAnswered == Spec => []AnswersUseWhatIsKnown
<1>1. ToolInv => AnswersUseWhatIsKnown
  BY DEF ToolInv
<1> QED
  BY ToolsStart, ToolsStep, <1>1, PTL DEF Spec
=============================================================================
