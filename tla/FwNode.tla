------------------------------- MODULE FwNode -------------------------------
(***************************************************************************)
(* The firmware's WireGuard responder and the two transports that share it *)
(* (lando-fw/src/wg.rs, and the pump of lando-fw/src/derp.rs).             *)
(*                                                                         *)
(* Packets reach `Node::handle` from the UDP socket and from the relay.    *)
(* The tunnel's replies are encrypted by the UDP loop and leave by UDP or, *)
(* through the bounded channel DERP_OUT, by the relay connection, which    *)
(* another task owns and which comes and goes.                             *)
(*                                                                         *)
(* A session is one answer to an initiation: the initiation (its peer and  *)
(* timestamp) and the index the responder drew for it.  Its key is derived *)
(* from the initiation and the responder's ephemeral, which keeps only     *)
(* part of the index, so two answers to one initiation may have one key.   *)
(* Every packet sent to the device stays in `net`: it may arrive at any    *)
(* later time, any number of times, or never, but as it was sent.  The     *)
(* replay window is the filter NoiseProofs proves it to implement, with    *)
(* every packet inside the window.                                         *)
(***************************************************************************)
EXTENDS Integers, Sequences, FiniteSets, FiniteSetsExt

CONSTANTS
    Peers,            \* node keys on the tailnet
    None,
    INDEX_SPACE,      \* how many values a session index has (2^32)
    CLAMP,            \* how many indices give one X25519 scalar (8)
    NONCE_SPACE,      \* how many values a disco nonce has (2^192)
    OUT_SLOTS,        \* capacity of DERP_OUT
    QUEUE,            \* capacity of the tunnel's outbound queue
    MAX_INITIATIONS,  \* bound: initiations a peer sends
    MAX_RESPONSES,    \* bound: initiations the device answers, repeats included
    MAX_PACKETS,      \* bound: packets a peer sends on one session
    MAX_ENCRYPTIONS   \* bound: packets the device encrypts

ASSUME BoundsAssumption ==
    /\ INDEX_SPACE \in Nat /\ INDEX_SPACE % 2 = 0 /\ INDEX_SPACE > 1
    /\ CLAMP \in Nat \ {0}
    /\ NONCE_SPACE \in Nat \ {0}
    /\ OUT_SLOTS \in Nat /\ QUEUE \in Nat
    /\ MAX_INITIATIONS \in Nat /\ MAX_RESPONSES \in Nat /\ MAX_PACKETS \in Nat /\ MAX_ENCRYPTIONS \in Nat

\* The odd indices come round again after INDEX_SPACE / 2 handshakes, 2^31 of
\* them; the bound stops short of it.
ASSUME WrapAssumption == 2 * MAX_RESPONSES <= INDEX_SPACE

VARIABLES
    peer,        \* the one peer slot of Node, or None
    next_index,
    nonce,       \* the last nonce a disco pong was sealed with
    outbound,    \* packets the tunnel wants sent
    derp_out,    \* the channel to the relay task
    connected,   \* the relay connection is up
    peer_key,    \* where the relay task addresses DERP_OUT's packets, or None
    client,      \* external: what each peer knows of its session with us
    net,         \* external: every packet sent to the device
    responses,   \* every handshake response the device sent
    nonces,      \* history: the (session, counter) pairs the device encrypted with
    encryptions, \* history: how many times it encrypted
    delivered,   \* history: the packets handed to the tunnel
    deliveries   \* history: how many times one was

deviceVars == <<peer, next_index, nonce, outbound>>
relayVars == <<derp_out, connected, peer_key>>
externalVars == <<client, net>>
vars == <<deviceVars, relayVars, externalVars, responses, nonces,
          encryptions, delivered, deliveries>>

Vias == {"Udp", "Derp"}
Payloads == {"TsmpPing", "Data"}
Sessions == [peer : Peers, ts : 1 .. MAX_INITIATIONS, index : 1 .. INDEX_SPACE - 1]
Sources == [via : Vias, from : Peers]
Slots == [session : Sessions, source : Sources, send_counter : Nat, seen : SUBSET Nat]

ASSUME NoneAssumption == None \notin Peers /\ None \notin Sessions /\ None \notin Slots

\* What a Source::Udp or Source::Derp records of the packet pkt.
Source(pkt) == [via |-> pkt.via, from |-> pkt.from]

\* The responder's ephemeral: the index fills the first bytes of an X25519
\* scalar, little-endian, and X25519 clears the low three bits of the first.
Ephemeral(index) == index \div CLAMP

\* What both ends derive.  The index itself is not mixed in.
SessionKey(s) == [peer |-> s.peer, ts |-> s.ts, ephemeral |-> Ephemeral(s.index)]

-----------------------------------------------------------------------------
(* The device.                                                             *)

Init ==
    /\ peer = None /\ nonce = 0 /\ outbound = 0
    /\ next_index \in 1 .. INDEX_SPACE - 1 /\ next_index % 2 = 1
    /\ derp_out = <<>> /\ connected = FALSE /\ peer_key = None
    /\ client = [p \in Peers |-> [ts |-> 0, waiting |-> FALSE, session |-> None, counter |-> 0]]
    /\ net = {} /\ responses = {}
    /\ nonces = {} /\ encryptions = 0
    /\ delivered = {} /\ deliveries = 0

\* A packet reaches handle over UDP, or over the relay while it is connected.
\* The relay task notes who sent it before it looks inside.
Arrives(pkt) ==
    /\ pkt.via = "Derp" => connected
    /\ peer_key' = IF pkt.via = "Derp" THEN pkt.from ELSE peer_key
    /\ UNCHANGED <<derp_out, connected>>

\* Session::encrypt on the slot's session, recorded in the history.
Encrypts(slot) ==
    /\ encryptions < MAX_ENCRYPTIONS
    /\ nonces' = nonces \cup {<<slot.session, slot.send_counter>>}
    /\ encryptions' = encryptions + 1

\* Mutant: the counter advances on a copy of the session.
Advance_Lost(slot) == slot

Advance(slot) == [slot EXCEPT !.send_counter = @ + 1]

bump(n) == (n + 1) % NONCE_SPACE

NextIndex == Max({(next_index + 2) % INDEX_SPACE, 1})

\* A handshake: a fresh index, and the slot is the new session's, with its
\* counter and its window as new.
HandleInitiation(pkt) ==
    /\ pkt.kind = "Initiation"
    /\ Cardinality(responses) < MAX_RESPONSES
    /\ Arrives(pkt)
    /\ LET session == [peer |-> pkt.from, ts |-> pkt.ts, index |-> next_index]
       IN  /\ peer' = [session |-> session, source |-> Source(pkt), send_counter |-> 0, seen |-> {}]
           /\ responses' = responses \cup {session}
    /\ next_index' = NextIndex
    /\ UNCHANGED <<nonce, outbound, externalVars, nonces, encryptions, delivered, deliveries>>

\* Mutant: the packet's receiver index is not looked at.
Decrypts_AnyIndex(slot, pkt) ==
    SessionKey(pkt.session) = SessionKey(slot.session) /\ pkt.counter \notin slot.seen

\* decrypt succeeds: the slot's own index and key, and not seen before.
Decrypts(slot, pkt) ==
    /\ pkt.session.index = slot.session.index
    /\ SessionKey(pkt.session) = SessionKey(slot.session)
    /\ pkt.counter \notin slot.seen

\* A transport packet turns the return path first, whatever it proves to be.
\* Then a ping is answered with a pong, and anything else is the tunnel's.
HandleTransport(pkt) ==
    /\ pkt.kind = "Transport"
    /\ peer # None
    /\ Arrives(pkt)
    /\ LET moved == [peer EXCEPT !.source = Source(pkt)]
           heard == [moved EXCEPT !.seen = @ \cup {pkt.counter}]
       IN  \/ /\ ~Decrypts(peer, pkt)
              /\ peer' = moved
              /\ UNCHANGED <<nonces, encryptions, delivered, deliveries>>
           \/ /\ Decrypts(peer, pkt) /\ pkt.payload = "TsmpPing"
              /\ Encrypts(heard)
              /\ peer' = Advance(heard)
              /\ UNCHANGED <<delivered, deliveries>>
           \/ /\ Decrypts(peer, pkt) /\ pkt.payload = "Data"
              /\ peer' = heard
              /\ delivered' = delivered \cup {<<pkt.session, pkt.counter>>}
              /\ deliveries' = deliveries + 1
              /\ UNCHANGED <<nonces, encryptions>>
    /\ UNCHANGED <<next_index, nonce, outbound, externalVars, responses>>

\* A disco ping is answered, from any peer at any time, under a fresh nonce.
\* What is not for this node is dropped: a ping that does not open, a transport
\* packet before any handshake, a response to a handshake we did not start.  A
\* transport packet that was damaged turns the return path all the same.
HandleOther(source) ==
    /\ Arrives(source)
    /\ \/ nonce' \in {nonce, bump(nonce)} /\ UNCHANGED peer
       \/ peer # None /\ peer' = [peer EXCEPT !.source = source] /\ UNCHANGED nonce
    /\ UNCHANGED <<next_index, outbound, externalVars, responses,
                   nonces, encryptions, delivered, deliveries>>

\* The tunnel's TCP stack has something to say to a connection it carries; a
\* full queue drops it.
TunnelOutput ==
    /\ delivered # {}
    /\ outbound < QUEUE
    /\ outbound' = outbound + 1
    /\ UNCHANGED <<peer, next_index, nonce, relayVars, externalVars, responses,
                   nonces, encryptions, delivered, deliveries>>

\* One turn of the UDP loop's drain: encrypt for the slot's peer and send the
\* way it was last heard from.  A full channel drops the packet.
Drain ==
    /\ outbound > 0
    /\ outbound' = outbound - 1
    /\ IF peer = None
       THEN UNCHANGED <<peer, nonces, encryptions, derp_out>>
       ELSE /\ Encrypts(peer)
            /\ peer' = Advance(peer)
            /\ derp_out' = IF peer.source.via = "Derp" /\ Len(derp_out) < OUT_SLOTS
                           THEN Append(derp_out, peer.session)
                           ELSE derp_out
    /\ UNCHANGED <<next_index, nonce, connected, peer_key, externalVars, responses, delivered, deliveries>>

-----------------------------------------------------------------------------
(* The relay task.                                                         *)

\* DERP_OUT's next packet goes to peer_key, and nowhere while there is none.
RelayOutbound ==
    /\ connected
    /\ derp_out # <<>>
    /\ derp_out' = Tail(derp_out)
    /\ UNCHANGED <<connected, peer_key, deviceVars, externalVars, responses,
                   nonces, encryptions, delivered, deliveries>>

RelayConnect ==
    /\ ~connected
    /\ connected' = TRUE
    /\ UNCHANGED <<derp_out, peer_key, deviceVars, externalVars, responses, nonces, encryptions, delivered, deliveries>>

\* The connection ends; the next one starts pump with no peer_key, and
\* DERP_OUT keeps what it holds.
RelayLost ==
    /\ connected
    /\ connected' = FALSE
    /\ peer_key' = None
    /\ UNCHANGED <<derp_out, deviceVars, externalVars, responses,
                   nonces, encryptions, delivered, deliveries>>

-----------------------------------------------------------------------------
(* The peers, external: Tailscale clients that initiate, retry and roam.   *)

clientUnchanged == <<deviceVars, relayVars, responses, nonces,
                     encryptions, delivered, deliveries>>

ClientInitiate(p, via) ==
    /\ client[p].ts < MAX_INITIATIONS
    /\ client' = [client EXCEPT ![p].ts = @ + 1, ![p].waiting = TRUE]
    /\ net' = net \cup {[kind |-> "Initiation", from |-> p, via |-> via, ts |-> client[p].ts + 1]}
    /\ UNCHANGED clientUnchanged

\* A response to the initiation in flight, consumed once.
ClientEstablish(p) ==
    /\ client[p].waiting
    /\ \E session \in responses :
          /\ session.peer = p /\ session.ts = client[p].ts
          /\ client' = [client EXCEPT ![p].waiting = FALSE, ![p].session = session, ![p].counter = 0]
    /\ UNCHANGED <<net, clientUnchanged>>

ClientSend(p, via, payload) ==
    /\ client[p].session # None
    /\ client[p].counter < MAX_PACKETS
    /\ client' = [client EXCEPT ![p].counter = @ + 1]
    /\ net' = net \cup {[kind |-> "Transport", from |-> p, via |-> via, payload |-> payload,
                         session |-> client[p].session, counter |-> client[p].counter]}
    /\ UNCHANGED clientUnchanged

-----------------------------------------------------------------------------

Relay == RelayOutbound \/ RelayConnect \/ RelayLost

Next ==
    \/ \E pkt \in net : HandleInitiation(pkt) \/ HandleTransport(pkt)
    \/ \E source \in Sources : HandleOther(source)
    \/ TunnelOutput \/ Drain
    \/ Relay
    \/ \E p \in Peers :
          \/ ClientEstablish(p)
          \/ \E via \in Vias :
                \/ ClientInitiate(p, via)
                \/ \E payload \in Payloads : ClientSend(p, via, payload)

Spec == Init /\ [][Next]_vars

-----------------------------------------------------------------------------

\* Two answers to one initiation derived one key: it reached `handle` twice and
\* both indices fell in one block of CLAMP, although the comment at the seed says
\* "A fresh ephemeral per handshake".  The run reaches this.
KeyRepeated == \E s, t \in responses : s # t /\ SessionKey(s) = SessionKey(t)

\* Until such a repeat, no two packets the device encrypts share a key and a
\* counter, although two call sites encrypt (the TSMP answer in `handle` and the
\* drain) and every handshake of either peer starts the counter again.
NonceUnique ==
    ~KeyRepeated => Cardinality({<<SessionKey(n[1]), n[2]>> : n \in nonces}) = encryptions

\* A packet a peer sent is handed to the tunnel at most once, across every
\* handshake that empties the replay window, those included that derive the key
\* of an earlier one.
DeliveredOnce == Cardinality(delivered) = deliveries
=============================================================================
