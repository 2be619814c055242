------------------------------ MODULE HostNode ------------------------------
(***************************************************************************)
(* The host's datapath: WireGuard over a DERP relay, with the peer list    *)
(* published by the control-plane thread (lando-host/src/node.rs, and      *)
(* poll_netmap of lando-host/src/main.rs).                                 *)
(*                                                                         *)
(* One thread reads relay events and runs each to completion; the other    *)
(* replaces the shared peer list whenever a netmap names peers.  The relay *)
(* delivers in order what one of its clients, the packet's `src`, sends,   *)
(* and may lose any of it.  The static key inside a handshake need not be  *)
(* the src's: `authorised` looks at the src, and everything kept of a      *)
(* handshake is kept under the static key.  A session's key is represented *)
(* by its initiation and its index; the host's ephemerals are random.  A   *)
(* read that fails ends the process, which keeps nothing, so each peer     *)
(* starts with a key of an earlier process, timestamp 0, that it may use;  *)
(* a write that fails while a packet is handled is reported and the loop   *)
(* goes on.                                                                *)
(***************************************************************************)
EXTENDS Integers, Sequences, FiniteSets, FiniteSetsExt

CONSTANTS
    Peers, None,
    Netmaps,            \* [Peers, PeersChanged]: sets of peers, None an unreadable entry
    INDEX_SPACE,        \* how many values a session index has (2^32)
    LINK,               \* bound: packets of one peer in flight
    MAX_TIMESTAMP,      \* bound: a peer's handshake timestamps
    MAX_RESPONSES,      \* bound: handshakes answered
    MAX_PACKETS,        \* bound: packets a peer sends on one key
    MAX_ENCRYPTIONS     \* bound: packets the host encrypts

ASSUME HostAssumption ==
    /\ INDEX_SPACE \in Nat /\ INDEX_SPACE > 1
    /\ Netmaps \subseteq [Peers : SUBSET (Peers \cup {None}), PeersChanged : SUBSET (Peers \cup {None})]
    /\ LINK \in Nat /\ MAX_TIMESTAMP \in Nat /\ MAX_RESPONSES \in Nat
    /\ MAX_PACKETS \in Nat /\ MAX_ENCRYPTIONS \in Nat

Payloads == {"TsmpPing", "Data", "Keepalive"}
Timestamps == 1 .. MAX_TIMESTAMP
Keys == [peer : Peers, ts : Timestamps, index : 1 .. INDEX_SPACE - 1]
Sessions == [key : Keys, send_counter : Nat, seen : SUBSET Nat]

ASSUME NoneAssumption == None \notin Peers /\ None \notin Sessions

VARIABLES
    known,        \* the PeerSet both threads share
    mentioned,    \* history: every peer a netmap has named
    peers,        \* last_handshake_timestamp of each peer, 0 for none
    sessions,     \* the session of each peer, or None
    next_index,
    tunnel_peer,  \* whose traffic the TCP stack carries, or None
    link,         \* external: packets on their way from each client of the relay
    client,       \* external: what each peer knows of its session with us
    responses,    \* history: every key the host answered with
    nonces,       \* history: the (key, counter) pairs the host encrypted with
    encryptions   \* history: how many times it encrypted

nodeVars == <<peers, sessions, next_index, tunnel_peer>>
nonceVars == <<nonces, encryptions>>
externalVars == <<client, link>>
vars == <<known, mentioned, nodeVars, externalVars, responses, nonceVars>>

Init ==
    /\ known = {} /\ mentioned = {}
    /\ peers = [p \in Peers |-> 0]
    /\ sessions = [p \in Peers |-> None]
    /\ next_index = 1 /\ tunnel_peer = None
    /\ link = [p \in Peers |-> <<>>]
    /\ client = [p \in Peers |-> [ts |-> 0, waiting |-> FALSE, counter |-> 0,
                                  key |-> [peer |-> p, ts |-> 0, index |-> 1]]]
    /\ responses = {} /\ nonces = {} /\ encryptions = 0

-----------------------------------------------------------------------------
(* The control-plane thread.                                               *)

\* control::peers: both lists are read, and an entry without a key is skipped.
NetmapPeers(netmap) == (netmap.Peers \cup netmap.PeersChanged) \ {None}

\* Mutant: a netmap that names no peers empties the list.
PublishPeers_Empty(netmap) ==
    /\ known' = NetmapPeers(netmap)
    /\ mentioned' = mentioned \cup NetmapPeers(netmap)
    /\ UNCHANGED <<nodeVars, externalVars, responses, nonceVars>>

\* A netmap that names peers replaces the list; one that names none leaves it.
PublishPeers(netmap) ==
    /\ NetmapPeers(netmap) # {}
    /\ known' = NetmapPeers(netmap)
    /\ mentioned' = mentioned \cup NetmapPeers(netmap)
    /\ UNCHANGED <<nodeVars, externalVars, responses, nonceVars>>

-----------------------------------------------------------------------------
(* The datapath thread.                                                    *)

take_index == Max({(next_index + 1) % INDEX_SPACE, 1})

\* The relay hands over the next packet of its client src.
Receives(src, kind) ==
    /\ link[src] # <<>>
    /\ Head(link[src]).kind = kind
    /\ link' = [link EXCEPT ![src] = Tail(@)]
    /\ UNCHANGED <<known, mentioned, client>>

authorised(src) == known = {} \/ src \in known

\* Mutant: a timestamp seen before is accepted again.
accept_handshake_timestamp_Repeat(p, ts) == ts >= peers[p]

accept_handshake_timestamp(p, ts) == peers[p] = 0 \/ ts > peers[p]

\* Answered when src is authorised and the timestamp new for the static key p: a
\* fresh key takes p's session's place at once.  If the response cannot be sent,
\* the timestamp and the index are spent and the session stays as it was.
HandleInitiation(src) ==
    /\ Receives(src, "Initiation")
    /\ LET pkt == Head(link[src])
           p == pkt.peer_static
           key == [peer |-> p, ts |-> pkt.ts, index |-> next_index]
       IN  IF authorised(src) /\ accept_handshake_timestamp(p, pkt.ts)
           THEN /\ Cardinality(responses) < MAX_RESPONSES
                /\ peers' = [peers EXCEPT ![p] = pkt.ts]
                /\ next_index' = take_index
                /\ \/ /\ sessions' = [sessions EXCEPT ![p] =
                            [key |-> key, send_counter |-> 0, seen |-> {}]]
                      /\ responses' = responses \cup {key}
                   \/ UNCHANGED <<sessions, responses>>
           ELSE UNCHANGED <<peers, sessions, next_index, responses>>
    /\ UNCHANGED <<tunnel_peer, nonceVars>>

\* Encrypts n packets with session s, recorded in the history.
Encrypts(s, n) ==
    /\ encryptions + n <= MAX_ENCRYPTIONS
    /\ nonces' = nonces \cup {<<s.key, s.send_counter + i>> : i \in 0 .. n - 1}
    /\ encryptions' = encryptions + n

Decrypts(s, pkt) == s # None /\ pkt.key = s.key /\ pkt.counter \notin s.seen

\* Mutant: the stack is given to the peer before the packet is decrypted.
DropTransport_Claims(p) ==
    /\ Receives(p, "Transport")
    /\ ~Decrypts(sessions[p], Head(link[p]))
    /\ tunnel_peer' = p
    /\ UNCHANGED <<peers, sessions, next_index, responses, nonceVars>>

\* No session, another session, or seen before: reported and dropped.
DropTransport(p) ==
    /\ Receives(p, "Transport")
    /\ ~Decrypts(sessions[p], Head(link[p]))
    /\ UNCHANGED <<nodeVars, responses, nonceVars>>

\* A ping is answered with one packet.  An IPv4 packet is fed to the TCP stack,
\* which becomes this peer's and is drained of what it wants to send.  A
\* keepalive, like anything else that is not IPv4, goes no further.
HandleTransport(p) ==
    /\ Receives(p, "Transport")
    /\ LET pkt == Head(link[p])
           s == sessions[p]
           heard == [s EXCEPT !.seen = @ \cup {pkt.counter}]
       IN  /\ Decrypts(s, pkt)
           /\ \/ /\ pkt.payload = "TsmpPing"
                 /\ Encrypts(s, 1)
                 /\ sessions' = [sessions EXCEPT ![p] = [heard EXCEPT !.send_counter = @ + 1]]
                 /\ UNCHANGED tunnel_peer
              \/ /\ pkt.payload = "Data"
                 /\ \E pending \in 0 .. 1 :
                       /\ Encrypts(s, pending)
                       /\ sessions' = [sessions EXCEPT ![p] =
                             [heard EXCEPT !.send_counter = @ + pending]]
                 /\ tunnel_peer' = p
              \/ /\ pkt.payload = "Keepalive"
                 /\ sessions' = [sessions EXCEPT ![p] = heard]
                 /\ UNCHANGED <<tunnel_peer, nonceVars>>
    /\ UNCHANGED <<peers, next_index, responses>>

\* Mutant: the output is encrypted with a copy of the session.
drain_stack_Copy ==
    /\ tunnel_peer # None
    /\ sessions[tunnel_peer] # None
    /\ Encrypts(sessions[tunnel_peer], 1)
    /\ UNCHANGED <<known, mentioned, nodeVars, externalVars, responses>>

\* A tick with no event: the stack has output of its own, for tunnel_peer.
drain_stack ==
    /\ tunnel_peer # None
    /\ LET s == sessions[tunnel_peer]
       IN  /\ s # None
           /\ Encrypts(s, 1)
           /\ sessions' = [sessions EXCEPT ![tunnel_peer].send_counter = @ + 1]
    /\ UNCHANGED <<known, mentioned, peers, next_index, tunnel_peer, externalVars,
                   responses>>

-----------------------------------------------------------------------------
(* The peers and the relay, external.  A peer's timestamps usually grow,   *)
(* but one that restarts without a clock repeats old ones.  Its handshake  *)
(* comes from its own relay client or from another.                        *)

hostUnchanged == <<known, mentioned, nodeVars, responses, nonceVars>>

ClientInitiate(p, src, ts) ==
    /\ Len(link[src]) < LINK
    /\ client' = [client EXCEPT ![p].ts = ts, ![p].waiting = TRUE]
    /\ link' = [link EXCEPT ![src] =
                   Append(@, [kind |-> "Initiation", peer_static |-> p, ts |-> ts])]
    /\ UNCHANGED hostUnchanged

ClientEstablish(p) ==
    /\ client[p].waiting
    /\ \E key \in responses :
          /\ key.peer = p /\ key.ts = client[p].ts /\ key # client[p].key
          /\ client' = [client EXCEPT ![p].waiting = FALSE, ![p].key = key, ![p].counter = 0]
    /\ UNCHANGED <<link, hostUnchanged>>

ClientSend(p, payload) ==
    /\ client[p].counter < MAX_PACKETS
    /\ Len(link[p]) < LINK
    /\ client' = [client EXCEPT ![p].counter = @ + 1]
    /\ link' = [link EXCEPT ![p] = Append(@, [kind |-> "Transport", payload |-> payload,
                      key |-> client[p].key, counter |-> client[p].counter])]
    /\ UNCHANGED hostUnchanged

RelayDrops(p) ==
    /\ link[p] # <<>>
    /\ link' = [link EXCEPT ![p] = Tail(@)]
    /\ UNCHANGED <<client, hostUnchanged>>

-----------------------------------------------------------------------------

Next ==
    \/ \E netmap \in Netmaps : PublishPeers(netmap)
    \/ drain_stack
    \/ \E p \in Peers :
          \/ HandleInitiation(p) \/ DropTransport(p) \/ HandleTransport(p)
          \/ \E src \in Peers, ts \in Timestamps : ClientInitiate(p, src, ts)
          \/ \E payload \in Payloads : ClientSend(p, payload)
          \/ ClientEstablish(p) \/ RelayDrops(p)

Spec == Init /\ [][Next]_vars

-----------------------------------------------------------------------------

\* No two packets the host encrypts share a key and a counter, over the pongs,
\* the replies to a packet and the stack's own output, on any number of keys.
NonceUnique == Cardinality(nonces) = encryptions

\* The relay thread never finds stack output it has no session for, which would
\* end `run` on an idle tick with the relay still there.
StackHasSession == tunnel_peer # None => sessions[tunnel_peer] # None

\* A peer's initiations are answered in the order of their timestamps and none
\* twice, so the key in use is always that of the newest one answered, also
\* when a response between them could not be sent.
NewestInitiation ==
    \A key \in responses :
        LET s == sessions[key.peer]
        IN  /\ key.ts <= s.key.ts /\ s.key.ts <= peers[key.peer]
            /\ key.ts = s.key.ts => key = s.key

\* From the first netmap that names anyone, a session is only ever brought by a
\* relay client some netmap named: none that follows opens the node again, however
\* the list changes under the datapath.  The static key the session belongs to is
\* not compared with the list, although the module's head says "a handshake from a
\* key the control plane never mentioned is refused".
OpenOnlyAtFirst ==
    [][\A src \in Peers : link'[src] # link[src] /\ responses' # responses =>
           mentioned = {} \/ src \in mentioned]_vars
=============================================================================
