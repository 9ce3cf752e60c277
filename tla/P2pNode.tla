------------------------------ MODULE P2pNode ------------------------------
(***************************************************************************)
(* The bridge's view of the peer-to-peer network: the state its event loop *)
(* keeps (clawshake-bridge/src/p2p/mod.rs) and the handlers of the swarm's *)
(* events (clawshake-bridge/src/p2p/event.rs).  NetworkTools has the tools *)
(* that it serves.                                                         *)
(*                                                                         *)
(* One task runs the loop, so a handler is one step.  libp2p is modelled   *)
(* from what the handlers read and call: connections that come and go,     *)
(* dials, and circuit listeners and rendezvous registrations that succeed  *)
(* or fail in their own time.                                              *)
(*                                                                         *)
(* Left out: which addresses are kept and dialled (p2p/addr.rs), NAT       *)
(* status, which sets a mode of libp2p, and the cookies that shorten what a *)
(* rendezvous point answers.  Announcements are in ToolLists, tunnels in     *)
(* Tunnels.                                                                *)
(***************************************************************************)
EXTENDS NetworkTools, FiniteSetsExt

CONSTANTS
  Servers,    \* those that run with --relay-server: relays and rendezvous points
  Boot,       \* the configured bootstrap peers
  Budgets     \* bounds of the model: <<connections at a time, requests>>

ASSUME P2pAssumption ==
  /\ Servers \subseteq Peers
  /\ Boot \subseteq Peers
  /\ Budgets \subseteq Nat \X Nat

VARIABLES
  budget,        \* the bounds of this behaviour
  relayServer,   \* EventContext::relay_server
  conns,         \* NodeState::peer_connections, of libp2p's connections
  connected,     \* ConnectedPeers
  reserved,      \* NodeState::relay_reserved_peers
  servers,       \* NodeState::rendezvous_servers
  registered,    \* NodeState::rendezvous_registered
  up,            \* external: peers that can be reached; the others than Boot always
  dialing,       \* external: peers that the swarm is dialling
  closing,       \* external: connections told to close
  circuits,      \* external: circuit listeners, by the connection they ride on
  asked,         \* external: asked[p]: registrations that p has not answered
  held,          \* external: rendezvous points that hold a registration of this node
  address        \* external: the swarm has an external address

nodeVars == <<conns, connected, reserved, servers, registered>>
swarmVars == <<up, dialing, closing, circuits, asked, held, address>>
vars == <<budget, relayServer, nodeVars, swarmVars, toolVars>>

ConnIds == 1 .. Max({b[1] : b \in Budgets})

\* An open connection: its id, its peer, and whether it goes through a relay.
Conn == [id : ConnIds, peer : Peers, relayed : BOOLEAN]

Of(p) == {c \in conns : c.peer = p}

Linked == {c.peer : c \in conns}

\* What network_ping answers.
Reachable(p) == p \in connected

NodeInit ==
  /\ conns = {} /\ connected = {} /\ reserved = {} /\ servers = {} /\ registered = {}
  /\ ToolsInit

Init ==
  /\ budget \in Budgets
  /\ relayServer \in {r \in BOOLEAN : r => budget[2] = 0}
  /\ NodeInit
  /\ up = Peers
  /\ dialing = Boot
  /\ closing = {} /\ circuits = {} /\ held = {} /\ address = FALSE
  /\ asked = [p \in Peers |-> 0]
-----------------------------------------------------------------------------
(* Connections *)

\* swarm.dial: nothing is dialled that is connected or dialled already.
Dial(ps) == dialing' = dialing \cup (ps \ Linked)

\* on_connection_established: a direct connection closes the relayed ones, and
\* the first one has the peer's record fetched (as far as requests are modelled).
Established(p, id, relayed) ==
  /\ p \in up
  /\ id <= budget[1]
  /\ \A c \in conns : c.id # id
  /\ conns' = conns \cup {[id |-> id, peer |-> p, relayed |-> relayed]}
  /\ closing' = IF relayed THEN closing
                           ELSE closing \cup {c.id : c \in {d \in Of(p) : d.relayed}}
  /\ connected' = connected \cup {p}
  /\ dialing' = dialing \ {p}
  /\ fetching' = IF Of(p) = {} /\ budget[2] > 0 THEN fetching \cup {p} ELSE fetching
  /\ UNCHANGED <<budget, relayServer, reserved, servers, registered,
                 up, circuits, asked, held, address,
                 table, ask, queue, queries, pending, slot, found, calling>>

\* Mutant: the last connection leaves the peer reachable.
BugForget(p) == connected' = connected

\* on_connection_closed, num_established == 0
Forget(p) == connected' = connected \ {p}

ForgetServer(p) ==
  /\ reserved' = reserved \ {p}
  /\ servers' = servers \ {p}
  /\ registered' = registered \ {p}

\* The peer, the network, an idle timeout or close_connection ended it.  A
\* circuit listener ends with the connection it rides on.
Closed(c) ==
  /\ c \in conns
  /\ conns' = conns \ {c}
  /\ closing' = closing \ {c.id}
  /\ circuits' = circuits \ {c}
  /\ IF Of(c.peer) = {c}
       THEN /\ Forget(c.peer)
            /\ ForgetServer(c.peer)
            /\ dialing' = IF c.relayed \/ relayServer THEN dialing
                                                      ELSE dialing \cup {c.peer}
       ELSE UNCHANGED <<connected, reserved, servers, registered, dialing>>
  /\ UNCHANGED <<budget, relayServer, toolVars, up, asked, held, address>>

DialFails(p) ==
  /\ p \in dialing
  /\ dialing' = dialing \ {p}
  /\ UNCHANGED <<budget, relayServer, nodeVars, toolVars,
                 up, closing, circuits, asked, held, address>>

\* mDNS, or a rendezvous point that was asked every 10 s, names a peer.
Discovered(p) ==
  /\ Dial({p})
  /\ UNCHANGED <<budget, relayServer, nodeVars, toolVars,
                 up, closing, circuits, asked, held, address>>

\* Mutant: a node dials once, at its start.
BugBootstrapRetry ==
  /\ connected = {}
  /\ UNCHANGED vars

\* Every 60 s.
BootstrapRetry ==
  /\ connected = {}
  /\ Dial(Boot)
  /\ UNCHANGED <<budget, relayServer, nodeVars, toolVars,
                 up, closing, circuits, asked, held, address>>

PeerGoes(p) ==
  /\ p \in Boot
  /\ up' = IF p \in up THEN up \ {p} ELSE up \cup {p}
  /\ UNCHANGED <<budget, relayServer, nodeVars, toolVars,
                 dialing, closing, circuits, asked, held, address>>
-----------------------------------------------------------------------------
(* Relays and rendezvous points *)

\* rendezvous_client.register, for peers not registered with.  It fails at
\* once as long as the node has no external address.
Register(ps) ==
  IF address /\ ps # {}
    THEN /\ registered' = registered \cup ps
         /\ asked' = [p \in Peers |-> IF p \in ps THEN asked[p] + 1 ELSE asked[p]]
    ELSE UNCHANGED <<registered, asked>>

\* Mutant: every Identify reserves again.
BugReserve(p) ==
  \/ \E c \in Of(p) : circuits' = circuits \cup {c} /\ reserved' = reserved \cup {p}
  \/ circuits' = circuits /\ reserved' = reserved \cup {p}
  \/ UNCHANGED <<circuits, reserved>>

\* try_auto_relay_reserve: the peer counts as reserved whether or not
\* listen_on succeeds; without an address to build a circuit on, nothing.
Reserve(p) ==
  \/ /\ p \notin reserved
     /\ reserved' = reserved \cup {p}
     /\ circuits' = circuits \/ \E c \in Of(p) : circuits' = circuits \cup {c}
  \/ UNCHANGED <<circuits, reserved>>

\* on_identify_received from a relay: discover, register, reserve.
IdentifyServer(p) ==
  /\ p \in Servers \cap Linked
  /\ ~relayServer
  /\ asked[p] < 2
  /\ servers' = servers \cup {p}
  /\ Register({p} \ registered)
  /\ Reserve(p)
  /\ UNCHANGED <<budget, relayServer, conns, connected, toolVars,
                 up, dialing, closing, held, address>>

\* From any peer: a relay server confirms the address it was observed at; a
\* peer met through a relay is dialled at its private addresses.
Identify(p) ==
  /\ p \in Linked
  /\ address' = IF relayServer THEN TRUE ELSE address
  /\ dialing' = IF \E c \in Of(p) : c.relayed THEN dialing \cup {p} ELSE dialing
  /\ UNCHANGED <<budget, relayServer, nodeVars, toolVars,
                 up, closing, circuits, asked, held>>

\* ListenerClosed: logged, and nothing else.
ReservationEnds(c) ==
  /\ c \in circuits
  /\ circuits' = circuits \ {c}
  /\ UNCHANGED <<budget, relayServer, nodeVars, toolVars,
                 up, dialing, closing, asked, held, address>>

\* on_external_addr_confirmed
ExternalAddrConfirmed ==
  /\ address' = TRUE
  /\ LET ps == IF relayServer THEN {} ELSE servers \ registered
     IN  /\ \A p \in ps : asked[p] < 2
         /\ registered' = registered \cup ps
         /\ asked' = [p \in Peers |-> IF p \in ps THEN asked[p] + 1 ELSE asked[p]]
  /\ UNCHANGED <<budget, relayServer, conns, connected, reserved, servers, toolVars,
                 up, dialing, closing, circuits, held>>

ExternalAddrExpired ==
  /\ address' = FALSE
  /\ UNCHANGED <<budget, relayServer, nodeVars, toolVars,
                 up, dialing, closing, circuits, asked, held>>

\* The router maps an external address or drops the mapping.  Unlike a
\* confirmed address, this one has nobody registered.
UpnpMapping(mapped) ==
  /\ address' = mapped
  /\ UNCHANGED <<budget, relayServer, nodeVars, toolVars,
                 up, dialing, closing, circuits, asked, held>>

\* rendezvous::client::Event::Registered
Registered(p) ==
  /\ asked[p] > 0
  /\ asked' = [asked EXCEPT ![p] = @ - 1]
  /\ held' = held \cup {p}
  /\ UNCHANGED <<budget, relayServer, nodeVars, toolVars,
                 up, dialing, closing, circuits, address>>

\* RegisterFailed: the peer is asked again when it is next identified, or
\* when an address is confirmed.
RegisterFailed(p) ==
  /\ asked[p] > 0
  /\ asked' = [asked EXCEPT ![p] = @ - 1]
  /\ registered' = registered \ {p}
  /\ UNCHANGED <<budget, relayServer, conns, connected, reserved, servers, toolVars,
                 up, dialing, closing, circuits, held, address>>

\* Expired: registers again at once, whether or not p is connected.
RegistrationExpired(p) ==
  /\ p \in held
  /\ asked[p] < 2
  /\ held' = held \ {p}
  /\ IF address
       THEN /\ registered' = registered \cup {p}
            /\ asked' = [asked EXCEPT ![p] = @ + 1]
       ELSE /\ registered' = registered \ {p}
            /\ UNCHANGED asked
  /\ UNCHANGED <<budget, relayServer, conns, connected, reserved, servers, toolVars,
                 up, dialing, closing, circuits, address>>
-----------------------------------------------------------------------------
DialSucceeds(p) == p \in dialing /\ \E id \in ConnIds : Established(p, id, FALSE)

Connections ==
  \/ \E p \in Peers, id \in ConnIds, relayed \in BOOLEAN : Established(p, id, relayed)
  \/ \E c \in conns : Closed(c)
  \/ BootstrapRetry

Swarm ==
  \/ \E p \in Peers : DialFails(p) \/ Discovered(p) \/ PeerGoes(p) \/ Identify(p)
  \/ ExternalAddrConfirmed
  \/ ExternalAddrExpired
  \/ \E mapped \in BOOLEAN : UpnpMapping(mapped)

Rendezvous ==
  \/ \E p \in Servers :
       \/ IdentifyServer(p)
       \/ Registered(p)
       \/ RegisterFailed(p)
       \/ RegistrationExpired(p)
  \/ \E c \in circuits : ReservationEnds(c)

Tools ==
  /\ ToolsNext
  /\ \A k \in Asks : ask'[k] # ask[k] => k <= budget[2]
  /\ UNCHANGED <<budget, relayServer, nodeVars, swarmVars>>

\* The loop handles no other event between a record's two steps.  Bound of the
\* model: a behaviour with requests has no other events than connections.
Next ==
  \/ found = 0 /\ Connections
  \/ budget[2] = 0 /\ (Swarm \/ Rendezvous)
  \/ Tools

Spec == Init /\ [][Next]_vars

\* A step of NetworkTools, the rest of the node left alone.
Only(step) == step /\ UNCHANGED <<budget, relayServer, nodeVars, swarmVars>>

(***************************************************************************)
(* The loop's interval ticks and its channels are served; Kademlia ends    *)
(* each query, after 30 s at the latest (set_query_timeout); the timeouts  *)
(* of lookups and calls expire; and dials to a peer that can be reached    *)
(* again and again do not fail each time.                                  *)
(***************************************************************************)
FairSpec ==
  /\ Spec
  /\ WF_vars(BootstrapRetry)
  /\ \A p \in Boot : SF_vars(DialSucceeds(p))
  /\ WF_vars(Only(Deliver))
  /\ \A k \in Asks :
       /\ SF_vars(Only(found = 0 /\ Take(k)))
       /\ SF_vars(Only(found = 0 /\ QueryEnds(k)))
       /\ WF_vars(Only(CallEnds(k)))
       /\ WF_vars(Only(Receive(k) \/ LookupFails(k) \/ FallBack(k)))
-----------------------------------------------------------------------------
(***************************************************************************)
(* network_ping and the bootstrap retry, which read ConnectedPeers, see    *)
(* the peers there is a connection to, direct or not; and what was learnt  *)
(* of a relay or rendezvous point lasts no longer than its connections.    *)
(* (on_connection_closed cleans up after the last one, not after each)     *)
(***************************************************************************)
PeersAreTracked ==
  /\ \A p \in Peers : Reachable(p) <=> p \in Linked
  /\ reserved \cup servers \subseteq Linked

(***************************************************************************)
(* A rendezvous point counts as registered with only while it holds the    *)
(* registration or has yet to answer, so that a refusal is retried; and no *)
(* relay is asked for a second circuit while it serves one, however often  *)
(* it identifies itself.                                                   *)
(* (relay_reserved_peers and rendezvous_registered across refusals,        *)
(* expiry, second connections and reconnection)                            *)
(***************************************************************************)
ServersAreAskedOnce ==
  /\ \A p \in registered : asked[p] > 0 \/ p \in held
  /\ \A c, d \in circuits : c.peer = d.peer => c = d

(***************************************************************************)
(* A node does not stay isolated while a bootstrap peer can be reached:    *)
(* the retry notices the loss of the last connection.  (Where the bounds   *)
(* allow connections.)                                                     *)
(* (on_connection_closed, and the bootstrap_retry branch of the loop)      *)
(***************************************************************************)
IsolationEnds ==
  budget[1] > 0 => \A p \in Boot : <>[](p \in up) => []<>(conns # {})
=============================================================================
