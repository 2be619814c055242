--------------------------- MODULE HostNodeProofs ---------------------------
(***************************************************************************)
(* Proofs about HostNode, for any peers, any netmaps and any index space.  *)
(***************************************************************************)
EXTENDS HostNode, FiniteSetTheorems, SequenceTheorems, TLAPS

(***************************************************************************)
(* The types of the host's state and of what the peers put on the relay.   *)
(* A peer's key may be one of an earlier process, with timestamp 0.        *)
(***************************************************************************)
PeerKeys == [peer : Peers, ts : 0 .. MAX_TIMESTAMP, index : 1 .. INDEX_SPACE - 1]

Packets ==
  [kind : {"Initiation"}, peer_static : Peers, ts : Timestamps]
  \cup [kind : {"Transport"}, payload : Payloads, key : PeerKeys, counter : Nat]

Clients == [ts : Nat, waiting : BOOLEAN, counter : Nat, key : PeerKeys]

TypeOK ==
  /\ known \subseteq Peers /\ mentioned \subseteq Peers
  /\ peers \in [Peers -> Nat]
  /\ sessions \in [Peers -> Sessions \cup {None}]
  /\ next_index \in 1 .. INDEX_SPACE - 1
  /\ tunnel_peer \in Peers \cup {None}
  /\ link \in [Peers -> Seq(Packets)]
  /\ client \in [Peers -> Clients]
  /\ responses \subseteq Keys
  /\ nonces \subseteq responses \X Nat
  /\ IsFiniteSet(nonces)
  /\ encryptions \in Nat

(***************************************************************************)
(* A session's key is one the host answered its peer with, and a peer the  *)
(* host ever answered keeps a session.                                     *)
(***************************************************************************)
Answered ==
  /\ \A p \in Peers : sessions[p] # None =>
        sessions[p].key \in responses /\ sessions[p].key.peer = p
  /\ \A key \in responses : sessions[key.peer] # None

(***************************************************************************)
(* The counters spent on the key in use are below its next one.            *)
(***************************************************************************)
Spent ==
  \A n \in nonces :
     n[1] = sessions[n[1].peer].key => n[2] < sessions[n[1].peer].send_counter

(***************************************************************************)
(* The published list holds mentioned peers, and is empty only before any  *)
(* netmap has mentioned one.                                               *)
(***************************************************************************)
Published == known \subseteq mentioned /\ (known = {} => mentioned = {})

KeyInv == Answered /\ NewestInitiation /\ Spent /\ NonceUnique

IInv == TypeOK /\ KeyInv /\ StackHasSession /\ Published

-----------------------------------------------------------------------------
(* Lemmas about the operators and the actions.                             *)

(***************************************************************************)
(* `next_index` wraps to 1 and never takes the value 0.                    *)
(***************************************************************************)
LEMMA TakeIndex ==
  ASSUME next_index \in 1 .. INDEX_SPACE - 1
  PROVE  take_index \in 1 .. INDEX_SPACE - 1
<1> DEFINE n == (next_index + 1) % INDEX_SPACE
           m == IF n >= 1 THEN n ELSE 1
<1>1. n \in 0 .. INDEX_SPACE - 1
  BY HostAssumption
<1> HIDE DEF n
<1>2. m \in {n, 1} /\ \A y \in {n, 1} : m >= y
  BY <1>1
<1>3. \A x \in {n, 1} : (\A y \in {n, 1} : x >= y) => x \in 1 .. INDEX_SPACE - 1
  BY <1>1, HostAssumption
<1>4. Max({n, 1}) \in 1 .. INDEX_SPACE - 1
  <2> HIDE DEF m
  <2> QED BY <1>2, <1>3, Zenon DEF Max
<1> QED
  BY <1>4 DEF take_index, n

(***************************************************************************)
(* A session of peer p is used for n packets: its key stays, its counter   *)
(* goes up by n and the history has one nonce for each.                    *)
(***************************************************************************)
Uses(p, n) ==
  /\ sessions[p] \in Sessions
  /\ \E t \in Sessions :
        /\ t.key = sessions[p].key
        /\ t.send_counter = sessions[p].send_counter + n
        /\ sessions' = [sessions EXCEPT ![p] = t]
  /\ nonces' = nonces \cup {<<sessions[p].key, sessions[p].send_counter + i>> : i \in 0 .. n - 1}
  /\ encryptions' = encryptions + n
  /\ UNCHANGED <<known, mentioned, peers, next_index, responses>>

(***************************************************************************)
(* What hearing a packet and sending n does to a session.                  *)
(***************************************************************************)
LEMMA HeardAndSent ==
  ASSUME NEW s \in Sessions, NEW c \in Nat, NEW n \in Nat
  PROVE  LET heard == [s EXCEPT !.seen = @ \cup {c}]
             t == [heard EXCEPT !.send_counter = @ + n]
         IN  /\ heard \in Sessions /\ heard.key = s.key
             /\ heard.send_counter = s.send_counter
             /\ t \in Sessions /\ t.key = s.key
             /\ t.send_counter = s.send_counter + n
<1> DEFINE heard == [s EXCEPT !.seen = @ \cup {c}]
           t == [heard EXCEPT !.send_counter = heard.send_counter + n]
<1>1. /\ heard \in Sessions /\ heard.key = s.key
      /\ heard.send_counter = s.send_counter
  BY DEF Sessions
<1> HIDE DEF heard
<1>2. t \in Sessions /\ t.key = heard.key /\ t.send_counter = heard.send_counter + n
  BY <1>1 DEF Sessions
<1> QED
  BY <1>1, <1>2 DEF heard

(***************************************************************************)
(* The packet the relay hands over next is one a peer put there.           *)
(***************************************************************************)
LEMMA NextPacket ==
  ASSUME TypeOK, NEW p \in Peers, link[p] # <<>>
  PROVE  Head(link[p]) \in Packets /\ Tail(link[p]) \in Seq(Packets)
<1>1. link[p] \in Seq(Packets)
  BY DEF TypeOK
<1> QED
  BY <1>1, HeadTailProperties

(***************************************************************************)
(* A packet that decrypts uses the session for none or one, and so does    *)
(* the stack's own output.                                                 *)
(***************************************************************************)
LEMMA TransportUses ==
  ASSUME TypeOK, NEW p \in Peers, HandleTransport(p)
  PROVE  \E n \in {0, 1} : Uses(p, n)
<1> DEFINE pkt == Head(link[p])
           s == sessions[p]
           heard == [s EXCEPT !.seen = @ \cup {pkt.counter}]
<1>1. link[p] # <<>> /\ pkt.kind = "Transport" /\ s # None
  BY DEF HandleTransport, Receives, Decrypts
<1>2. s \in Sessions /\ pkt \in Packets
  BY <1>1, NextPacket DEF TypeOK
<1>3. pkt.counter \in Nat
  BY <1>1, <1>2 DEF Packets
<1>4. UNCHANGED <<known, mentioned, peers, next_index, responses>>
  BY DEF HandleTransport, Receives
<1> DEFINE Sends(n) == [heard EXCEPT !.send_counter = @ + n]
           Result(n) ==
             /\ nonces' = nonces \cup {<<s.key, s.send_counter + i>> : i \in 0 .. n - 1}
             /\ encryptions' = encryptions + n
             /\ \/ sessions' = [sessions EXCEPT ![p] = Sends(n)]
                \/ n = 0 /\ sessions' = [sessions EXCEPT ![p] = heard]
<1>5. \E n \in {0, 1} : Result(n)
  <2>1. \/ Encrypts(s, 1) /\ sessions' = [sessions EXCEPT ![p] = Sends(1)]
        \/ \E pending \in 0 .. 1 :
              Encrypts(s, pending) /\ sessions' = [sessions EXCEPT ![p] = Sends(pending)]
        \/ sessions' = [sessions EXCEPT ![p] = heard] /\ UNCHANGED nonceVars
    BY Zenon DEF HandleTransport
  <2> HIDE DEF heard, Sends, s, pkt
  <2>2. ASSUME NEW pending \in 0 .. 1, Encrypts(s, pending),
               sessions' = [sessions EXCEPT ![p] = Sends(pending)]
        PROVE  Result(pending) /\ pending \in {0, 1}
    BY <2>2 DEF Encrypts
  <2>3. ASSUME sessions' = [sessions EXCEPT ![p] = heard], UNCHANGED nonceVars
        PROVE  Result(0)
    <3>1. {<<s.key, s.send_counter + i>> : i \in 0 .. 0 - 1} = {}
      OBVIOUS
    <3> QED BY <2>3, <3>1 DEF nonceVars, TypeOK
  <2> HIDE DEF Result
  <2> QED
    BY <2>1, <2>2, <2>3
<1>e. PICK n \in {0, 1} : Result(n)
  BY <1>5
<1>6. \E t \in Sessions :
        /\ t.key = s.key /\ t.send_counter = s.send_counter + n
        /\ sessions' = [sessions EXCEPT ![p] = t]
  <2> n \in Nat OBVIOUS
  <2>1. /\ heard \in Sessions /\ heard.key = s.key
        /\ heard.send_counter = s.send_counter
        /\ Sends(n) \in Sessions /\ Sends(n).key = s.key
        /\ Sends(n).send_counter = s.send_counter + n
    BY <1>2, <1>3, HeardAndSent
  <2>2. n = 0 => s.send_counter + n = s.send_counter
    BY <1>2 DEF Sessions
  <2> HIDE DEF heard, s, pkt, Sends
  <2> QED BY <1>e, <2>1, <2>2
<1> QED
  BY <1>2, <1>4, <1>e, <1>6 DEF Uses

LEMMA StackUses ==
  ASSUME TypeOK, drain_stack
  PROVE  tunnel_peer \in Peers /\ Uses(tunnel_peer, 1)
<1> DEFINE s == sessions[tunnel_peer]
           t == [s EXCEPT !.send_counter = @ + 1]
<1>1. tunnel_peer \in Peers /\ s \in Sessions
  BY DEF drain_stack, TypeOK
<1>2. t \in Sessions /\ t.key = s.key /\ t.send_counter = s.send_counter + 1
  BY <1>1 DEF Sessions
<1>3. sessions' = [sessions EXCEPT ![tunnel_peer] = t]
  BY DEF drain_stack
<1> QED
  BY <1>1, <1>2, <1>3 DEF drain_stack, Encrypts, Uses

(***************************************************************************)
(* A nonce above every one spent on its key is a new one.                  *)
(***************************************************************************)
LEMMA FreshNonces ==
  ASSUME TypeOK, Answered, Spent, NonceUnique, NEW p \in Peers, NEW n \in {0, 1}, Uses(p, n)
  PROVE  /\ nonces' \subseteq responses \X Nat /\ IsFiniteSet(nonces')
         /\ encryptions' \in Nat /\ NonceUnique'
<1> DEFINE s == sessions[p]
           new == {<<s.key, s.send_counter + i>> : i \in 0 .. n - 1}
<1>1. s \in Sessions /\ s # None /\ s.key \in responses /\ s.key.peer = p /\ s.send_counter \in Nat
  BY NoneAssumption DEF Uses, Answered, Sessions
<1>2. nonces' = nonces \cup new /\ encryptions' = encryptions + n
  BY DEF Uses
<1>3. CASE n = 0
  <2>1. new = {}
    BY <1>3
  <2>2. nonces' = nonces /\ encryptions' = encryptions
    BY <1>2, <1>3, <2>1 DEF TypeOK
  <2> QED BY <2>2 DEF TypeOK, NonceUnique
<1>4. CASE n = 1
  <2>1. new = {<<s.key, s.send_counter>>}
    BY <1>1, <1>4
  <2>2. <<s.key, s.send_counter>> \notin nonces
    <3> SUFFICES ASSUME <<s.key, s.send_counter>> \in nonces PROVE FALSE
      OBVIOUS
    <3> DEFINE m == <<s.key, s.send_counter>>
    <3>1. m[1] = s.key /\ m[2] = s.send_counter /\ m \in nonces
      OBVIOUS
    <3>2. m[2] < s.send_counter
      BY <3>1, <1>1 DEF Spent
    <3> QED BY <3>1, <3>2, <1>1
  <2>3. IsFiniteSet(nonces) /\ Cardinality(nonces) = encryptions /\ encryptions \in Nat
    BY DEF TypeOK, NonceUnique
  <2>4. /\ IsFiniteSet(nonces \cup {<<s.key, s.send_counter>>})
        /\ Cardinality(nonces \cup {<<s.key, s.send_counter>>}) = encryptions + 1
    BY <2>2, <2>3, FS_AddElement
  <2>5. <<s.key, s.send_counter>> \in responses \X Nat
    BY <1>1
  <2> HIDE DEF s, new
  <2>6. nonces' = nonces \cup {<<s.key, s.send_counter>>} /\ encryptions' = encryptions + 1
    BY <1>2, <1>4, <2>1
  <2>7. nonces' \subseteq responses \X Nat
    BY <2>5, <2>6 DEF TypeOK
  <2> QED BY <2>3, <2>4, <2>6, <2>7 DEF NonceUnique
<1> QED
  BY <1>3, <1>4

(***************************************************************************)
(* Using a session keeps everything known of the keys.                     *)
(***************************************************************************)
LEMMA UsesKeeps ==
  ASSUME TypeOK, KeyInv, NEW p \in Peers, NEW n \in {0, 1}, Uses(p, n)
  PROVE  /\ KeyInv' /\ sessions' \in [Peers -> Sessions \cup {None}]
         /\ \A q \in Peers : sessions'[q] = None <=> sessions[q] = None
<1> DEFINE s == sessions[p]
<1>1. PICK t \in Sessions :
        /\ t.key = s.key /\ t.send_counter = s.send_counter + n
        /\ sessions' = [sessions EXCEPT ![p] = t]
  BY DEF Uses
<1>2. s \in Sessions /\ s # None /\ t # None /\ s.send_counter \in Nat
  BY NoneAssumption DEF Uses, Sessions
<1>3. sessions' \in [Peers -> Sessions \cup {None}]
  BY <1>1 DEF TypeOK
<1>4. \A q \in Peers : sessions'[q] = IF q = p THEN t ELSE sessions[q]
  BY <1>1 DEF TypeOK
<1>5. \A q \in Peers : sessions'[q] = None <=> sessions[q] = None
  BY <1>2, <1>4
<1>6. \A q \in Peers : sessions[q] # None => sessions'[q].key = sessions[q].key
  BY <1>1, <1>4
<1>7. responses' = responses /\ peers' = peers /\ \A key \in responses : key.peer \in Peers
  BY DEF Uses, TypeOK, Keys
<1>8. Answered'
  BY <1>5, <1>6, <1>7 DEF KeyInv, Answered
<1>9. NewestInitiation'
  BY <1>6, <1>7 DEF KeyInv, NewestInitiation, Answered
<1>10. Spent'
  <2> SUFFICES ASSUME NEW m \in nonces', m[1] = sessions'[m[1].peer].key
               PROVE  m[2] < sessions'[m[1].peer].send_counter
    BY DEF Spent
  <2>1. CASE m \in nonces
    <3>1. m[1] \in responses /\ m[2] \in Nat
      BY <2>1 DEF TypeOK
    <3>2. m[1].peer \in Peers /\ sessions[m[1].peer] # None
      BY <3>1, <1>7 DEF KeyInv, Answered
    <3>3. m[2] < sessions[m[1].peer].send_counter
      BY <2>1, <3>1, <3>2, <1>6 DEF KeyInv, Spent
    <3> QED BY <1>1, <1>2, <1>4, <3>1, <3>2, <3>3
  <2>2. CASE m \notin nonces
    <3>1. PICK i \in 0 .. n - 1 : m = <<s.key, s.send_counter + i>>
      BY <2>2 DEF Uses
    <3>2. m[1].peer = p /\ n = 1 /\ m[2] = s.send_counter
      BY <3>1, <1>2 DEF KeyInv, Answered
    <3> QED BY <1>1, <1>2, <1>4, <3>2
  <2> QED BY <2>1, <2>2
<1> QED
  BY <1>3, <1>5, <1>8, <1>9, <1>10, FreshNonces DEF KeyInv

(***************************************************************************)
(* The next timestamp the host accepts from a peer is above those of every *)
(* key it answered the peer with, whatever its index.                      *)
(***************************************************************************)
LEMMA FreshKey ==
  ASSUME TypeOK, KeyInv, NEW p \in Peers, NEW ts \in Timestamps, accept_handshake_timestamp(p, ts)
  PROVE  /\ \A key \in responses : key.peer = p => key.ts < ts
         /\ peers[p] < ts
<1>1. peers[p] \in Nat /\ ts \in Nat /\ ts >= 1 /\ peers[p] < ts
  BY HostAssumption DEF TypeOK, accept_handshake_timestamp, Timestamps
<1> SUFFICES ASSUME NEW key \in responses, key.peer = p PROVE key.ts < ts
  BY <1>1
<1>2. key.ts \in Nat /\ sessions[p] # None
  BY HostAssumption DEF TypeOK, Keys, Timestamps, KeyInv, Answered
<1>3. sessions[p].key.ts \in Nat
  BY <1>2, HostAssumption DEF TypeOK, Sessions, Keys, Timestamps
<1>4. key.ts <= sessions[p].key.ts /\ sessions[p].key.ts <= peers[p]
  BY DEF KeyInv, NewestInitiation
<1> QED
  BY <1>1, <1>2, <1>3, <1>4

(***************************************************************************)
(* The initiation read is the head of the relay client's link.             *)
(***************************************************************************)
LEMMA InitiationTyped ==
  ASSUME TypeOK, NEW src \in Peers, HandleInitiation(src)
  PROVE  Head(link[src]).ts \in Timestamps /\ Head(link[src]).peer_static \in Peers
<1>1. link[src] # <<>> /\ Head(link[src]).kind = "Initiation"
  BY DEF HandleInitiation, Receives
<1>2. Head(link[src]) \in Packets
  BY <1>1, NextPacket
<1> QED
  BY <1>1, <1>2 DEF Packets

(***************************************************************************)
(* Answering an initiation, or failing to send the answer, keeps           *)
(* everything known of the keys.                                           *)
(***************************************************************************)
LEMMA InitiationKeeps ==
  ASSUME TypeOK, KeyInv, NEW src \in Peers, HandleInitiation(src)
  PROVE  /\ KeyInv' /\ sessions' \in [Peers -> Sessions \cup {None}]
         /\ responses' \subseteq Keys /\ responses \subseteq responses'
         /\ peers' \in [Peers -> Nat] /\ next_index' \in 1 .. INDEX_SPACE - 1
         /\ \A q \in Peers : sessions[q] # None => sessions'[q] # None
<1> DEFINE ts == Head(link[src]).ts
           p == Head(link[src]).peer_static
           key == [peer |-> p, ts |-> ts, index |-> next_index]
           s == [key |-> key, send_counter |-> 0, seen |-> {}]
           Goal == /\ KeyInv' /\ sessions' \in [Peers -> Sessions \cup {None}]
                   /\ responses' \subseteq Keys /\ responses \subseteq responses'
                   /\ peers' \in [Peers -> Nat] /\ next_index' \in 1 .. INDEX_SPACE - 1
                   /\ \A q \in Peers : sessions[q] # None => sessions'[q] # None
<1>1. ts \in Timestamps /\ ts \in Nat /\ p \in Peers
  BY InitiationTyped, HostAssumption DEF Timestamps
<1>2. key \in Keys /\ key.peer = p /\ key.ts = ts
  BY <1>1 DEF TypeOK, Keys
<1>3. s \in Sessions /\ s.key = key /\ s # None
  BY <1>2, NoneAssumption DEF Sessions
<1>4. UNCHANGED <<tunnel_peer, nonces, encryptions>>
  BY DEF HandleInitiation, nonceVars
<1>5. NonceUnique'
  BY <1>4 DEF KeyInv, NonceUnique
<1>6. /\ \A k \in responses : k \in Keys /\ k.peer \in Peers /\ sessions[k.peer] # None
      /\ \A n \in nonces : n[1] \in responses /\ n[2] \in Nat
  BY DEF TypeOK, Keys, KeyInv, Answered
<1>7. ASSUME accept_handshake_timestamp(p, ts), peers' = [peers EXCEPT ![p] = ts],
             next_index' = take_index,
             sessions' = [sessions EXCEPT ![p] = s], responses' = responses \cup {key}
      PROVE  Goal
  <2> HIDE DEF key, s, ts, p
  <2>1. /\ \A k \in responses : k.peer = p => k.ts < ts
        /\ peers[p] < ts
    BY <1>1, <1>7, FreshKey
  <2>2. \A q \in Peers : sessions'[q] = IF q = p THEN s ELSE sessions[q]
    BY <1>7 DEF TypeOK
  <2>3. \A q \in Peers : peers'[q] = IF q = p THEN ts ELSE peers[q]
    BY <1>7 DEF TypeOK
  <2>4. Answered'
    BY <1>1, <1>2, <1>3, <1>6, <1>7, <2>2 DEF KeyInv, Answered
  <2>5. NewestInitiation'
    <3> SUFFICES ASSUME NEW k \in responses \cup {key}
                 PROVE  /\ k.ts <= sessions'[k.peer].key.ts
                        /\ sessions'[k.peer].key.ts <= peers'[k.peer]
                        /\ k.ts = sessions'[k.peer].key.ts => k = sessions'[k.peer].key
      BY <1>7 DEF NewestInitiation
    <3>1. CASE k.peer = p
      <4>1. k \in responses => k.ts \in Nat /\ k.ts < ts
        BY <1>6, <2>1, <3>1, HostAssumption DEF Keys, Timestamps
      <4> QED BY <1>1, <1>2, <1>3, <2>2, <2>3, <3>1, <4>1
    <3>2. CASE k.peer # p
      BY <1>2, <1>6, <2>2, <2>3, <3>2 DEF KeyInv, NewestInitiation
    <3> QED BY <3>1, <3>2
  <2>6. Spent'
    <3> SUFFICES ASSUME NEW n \in nonces, n[1] = sessions'[n[1].peer].key
                 PROVE  n[2] < sessions'[n[1].peer].send_counter
      BY <1>4 DEF Spent
    <3>1. n[1] \in responses /\ n[1].peer \in Peers
      BY <1>6
    <3>2. n[1].peer # p
      <4> SUFFICES ASSUME n[1].peer = p PROVE FALSE
        OBVIOUS
      <4>1. n[1] = key
        BY <1>3, <2>2, <3>1
      <4>2. n[1].ts < ts
        BY <2>1, <3>1
      <4> QED BY <1>1, <1>2, <4>1, <4>2
    <3> QED BY <2>2, <3>1, <3>2 DEF KeyInv, Spent
  <2>7. sessions' \in [Peers -> Sessions \cup {None}] /\ responses' \subseteq Keys
    BY <1>2, <1>3, <1>7 DEF TypeOK
  <2>8. peers' \in [Peers -> Nat] /\ next_index' \in 1 .. INDEX_SPACE - 1
    BY <1>1, <1>7, TakeIndex DEF TypeOK
  <2> QED BY <1>3, <1>5, <1>7, <2>2, <2>4, <2>5, <2>6, <2>7, <2>8 DEF KeyInv
<1>8. ASSUME accept_handshake_timestamp(p, ts), peers' = [peers EXCEPT ![p] = ts],
             next_index' = take_index, UNCHANGED <<sessions, responses>>
      PROVE  Goal
  <2> HIDE DEF key, s, ts, p
  <2>1. peers[p] < ts
    BY <1>1, <1>8, FreshKey
  <2>2. \A q \in Peers : peers'[q] \in Nat /\ peers[q] \in Nat /\ peers[q] <= peers'[q]
    BY <1>1, <1>8, <2>1 DEF TypeOK
  <2>3. NewestInitiation'
    <3>1. \A k \in responses : sessions[k.peer].key.ts \in Nat
      BY <1>6, HostAssumption DEF TypeOK, Sessions, Keys, Timestamps
    <3> QED BY <1>6, <1>8, <2>2, <3>1 DEF KeyInv, NewestInitiation
  <2>4. Answered' /\ Spent'
    BY <1>4, <1>8 DEF KeyInv, Answered, Spent
  <2>5. peers' \in [Peers -> Nat] /\ next_index' \in 1 .. INDEX_SPACE - 1
    BY <1>1, <1>8, TakeIndex DEF TypeOK
  <2> QED BY <1>5, <1>8, <2>3, <2>4, <2>5 DEF KeyInv, TypeOK
<1>9. ASSUME UNCHANGED <<peers, sessions, next_index, responses>>
      PROVE  Goal
  <2>1. Answered' /\ Spent' /\ NewestInitiation'
    BY <1>4, <1>9 DEF KeyInv, Answered, Spent, NewestInitiation
  <2> QED BY <1>5, <1>9, <2>1 DEF KeyInv, TypeOK
<1>10. \/ /\ accept_handshake_timestamp(p, ts) /\ peers' = [peers EXCEPT ![p] = ts]
          /\ next_index' = take_index
          /\ \/ sessions' = [sessions EXCEPT ![p] = s] /\ responses' = responses \cup {key}
             \/ UNCHANGED <<sessions, responses>>
       \/ UNCHANGED <<peers, sessions, next_index, responses>>
  BY Zenon DEF HandleInitiation
<1> HIDE DEF Goal, key, s, ts, p
<1>11. Goal
  BY <1>7, <1>8, <1>9, <1>10
<1> QED
  BY <1>11 DEF Goal

(***************************************************************************)
(* What the peers and the relay leave alone, and the types of what they    *)
(* change.                                                                 *)
(***************************************************************************)
ExternalStep ==
  /\ link' \in [Peers -> Seq(Packets)] /\ client' \in [Peers -> Clients]
  /\ UNCHANGED <<known, mentioned, peers, sessions, next_index, tunnel_peer,
                 responses, nonces, encryptions>>

(***************************************************************************)
(* The peers send packets of the types the host reads, on keys of theirs.  *)
(***************************************************************************)
LEMMA PeersAreTyped ==
  ASSUME TypeOK, NEW p \in Peers,
         \/ \E src \in Peers, ts \in Timestamps : ClientInitiate(p, src, ts)
         \/ \E payload \in Payloads : ClientSend(p, payload)
         \/ ClientEstablish(p) \/ RelayDrops(p)
  PROVE  ExternalStep
<1>0. link[p] \in Seq(Packets) /\ client[p] \in Clients
  BY DEF TypeOK
<1> USE DEF hostUnchanged, nodeVars, nonceVars
<1>1. ASSUME NEW src \in Peers, NEW ts \in Timestamps, ClientInitiate(p, src, ts)
      PROVE  ExternalStep
  <2> DEFINE c == [client[p] EXCEPT !.ts = ts, !.waiting = TRUE]
             pkt == [kind |-> "Initiation", peer_static |-> p, ts |-> ts]
  <2>1. c \in Clients
    <3>1. ts \in Nat
      BY HostAssumption DEF Timestamps
    <3> QED BY <1>0, <3>1, Zenon DEF Clients
  <2>2. client' = [client EXCEPT ![p] = c]
    BY <1>1 DEF ClientInitiate
  <2>3. pkt \in Packets
    BY DEF Packets
  <2>4. Append(link[src], pkt) \in Seq(Packets)
    <3>1. link[src] \in Seq(Packets)
      BY DEF TypeOK
    <3> QED BY <2>3, <3>1, AppendProperties
  <2>5. link' = [link EXCEPT ![src] = Append(link[src], pkt)]
    BY <1>1 DEF ClientInitiate
  <2>6. UNCHANGED hostUnchanged
    BY <1>1 DEF ClientInitiate
  <2> HIDE DEF c, pkt
  <2> QED BY <2>1, <2>2, <2>4, <2>5, <2>6 DEF ExternalStep, TypeOK
<1>2. ASSUME NEW payload \in Payloads, ClientSend(p, payload)
      PROVE  ExternalStep
  <2> DEFINE c == [client[p] EXCEPT !.counter = @ + 1]
             pkt == [kind |-> "Transport", payload |-> payload,
                     key |-> client[p].key, counter |-> client[p].counter]
  <2>1. c \in Clients
    BY <1>0 DEF Clients
  <2>2. client' = [client EXCEPT ![p] = c]
    BY <1>2 DEF ClientSend
  <2>3. client[p].key \in PeerKeys /\ client[p].counter \in Nat
    BY <1>0, <1>2 DEF ClientSend, Clients
  <2>4. pkt \in Packets
    BY <2>3 DEF Packets
  <2>5. Append(link[p], pkt) \in Seq(Packets)
    BY <1>0, <2>4, AppendProperties
  <2>6. link' = [link EXCEPT ![p] = Append(link[p], pkt)]
    BY <1>2 DEF ClientSend
  <2>7. UNCHANGED hostUnchanged
    BY <1>2 DEF ClientSend
  <2> HIDE DEF c, pkt
  <2> QED BY <2>1, <2>2, <2>5, <2>6, <2>7 DEF ExternalStep, TypeOK
<1>3. CASE ClientEstablish(p)
  <2>1. PICK key \in responses :
          client' = [client EXCEPT ![p].waiting = FALSE, ![p].key = key, ![p].counter = 0]
    BY <1>3 DEF ClientEstablish
  <2> DEFINE c == [client[p] EXCEPT !.waiting = FALSE, !.key = key, !.counter = 0]
  <2>2. key \in PeerKeys
    BY HostAssumption DEF TypeOK, Keys, PeerKeys, Timestamps
  <2>3. c \in Clients
    BY <1>0, <2>2 DEF Clients
  <2>4. client' = [client EXCEPT ![p] = c]
    BY <2>1
  <2> HIDE DEF c
  <2> QED BY <1>3, <2>3, <2>4 DEF ClientEstablish, ExternalStep, TypeOK
<1>4. CASE RelayDrops(p)
  <2>1. Tail(link[p]) \in Seq(Packets)
    BY <1>4, NextPacket DEF RelayDrops
  <2> QED BY <1>4, <2>1 DEF RelayDrops, ExternalStep, TypeOK
<1> QED
  BY <1>1, <1>2, <1>3, <1>4

(***************************************************************************)
(* A packet handed over leaves its link, and changes nothing the datapath  *)
(* does not own.                                                           *)
(***************************************************************************)
LEMMA ReceivesIsTyped ==
  ASSUME TypeOK, NEW p \in Peers, NEW kind, Receives(p, kind)
  PROVE  /\ link' \in [Peers -> Seq(Packets)] /\ client' \in [Peers -> Clients]
         /\ UNCHANGED <<known, mentioned>>
<1>1. Tail(link[p]) \in Seq(Packets)
  BY NextPacket DEF Receives
<1> QED
  BY <1>1 DEF Receives, TypeOK

-----------------------------------------------------------------------------
(* The inductive invariant.                                                *)

LEMMA Initially == Init => IInv
<1> SUFFICES ASSUME Init PROVE IInv
  OBVIOUS
<1>1. client \in [Peers -> Clients]
  <2>1. \A p \in Peers : [peer |-> p, ts |-> 0, index |-> 1] \in PeerKeys
    BY HostAssumption DEF PeerKeys
  <2> QED BY <2>1 DEF Init, Clients
<1>2. IsFiniteSet({}) /\ Cardinality({}) = 0
  BY FS_EmptySet
<1>3. link \in [Peers -> Seq(Packets)]
  BY DEF Init
<1>4. TypeOK
  BY <1>1, <1>2, <1>3, HostAssumption DEF Init, TypeOK
<1> QED
  BY <1>2, <1>4 DEF Init, IInv, KeyInv, Answered, NewestInitiation, Spent, NonceUnique,
     StackHasSession, Published

LEMMA Inductive == IInv /\ [Next]_vars => IInv'
<1> SUFFICES ASSUME IInv, [Next]_vars PROVE IInv'
  OBVIOUS
<1>0. TypeOK /\ KeyInv /\ StackHasSession /\ Published
  BY DEF IInv
<1>1. ASSUME NEW netmap \in Netmaps, PublishPeers(netmap)
      PROVE  IInv'
  <2> USE DEF nodeVars, externalVars, nonceVars
  <2>1. NetmapPeers(netmap) \subseteq Peers /\ NetmapPeers(netmap) # {}
    BY <1>1, HostAssumption DEF PublishPeers, NetmapPeers
  <2>2. TypeOK'
    BY <1>0, <1>1, <2>1 DEF PublishPeers, TypeOK
  <2>3. KeyInv' /\ StackHasSession'
    BY <1>0, <1>1 DEF PublishPeers, KeyInv, Answered, NewestInitiation, Spent, NonceUnique,
       StackHasSession
  <2>4. Published'
    BY <1>0, <1>1, <2>1 DEF PublishPeers, Published
  <2> QED BY <2>2, <2>3, <2>4 DEF IInv
<1>2. CASE drain_stack
  <2>1. tunnel_peer \in Peers /\ Uses(tunnel_peer, 1)
    BY <1>0, <1>2, StackUses
  <2>2. /\ KeyInv' /\ sessions' \in [Peers -> Sessions \cup {None}]
        /\ \A q \in Peers : sessions'[q] = None <=> sessions[q] = None
    BY <1>0, <2>1, UsesKeeps
  <2>3. /\ nonces' \subseteq responses \X Nat /\ IsFiniteSet(nonces') /\ encryptions' \in Nat
    BY <1>0, <2>1, FreshNonces DEF KeyInv
  <2>4. UNCHANGED <<known, mentioned, peers, next_index, responses, tunnel_peer, link, client>>
    BY <1>2 DEF drain_stack, externalVars
  <2>5. TypeOK'
    BY <1>0, <2>2, <2>3, <2>4 DEF TypeOK
  <2>6. StackHasSession' /\ Published'
    BY <1>0, <2>1, <2>2, <2>4 DEF StackHasSession, Published
  <2> QED BY <2>2, <2>5, <2>6 DEF IInv
<1>3. ASSUME NEW p \in Peers, HandleInitiation(p)
      PROVE  IInv'
  <2>1. /\ KeyInv' /\ sessions' \in [Peers -> Sessions \cup {None}]
        /\ responses' \subseteq Keys /\ responses \subseteq responses'
        /\ peers' \in [Peers -> Nat] /\ next_index' \in 1 .. INDEX_SPACE - 1
        /\ \A q \in Peers : sessions[q] # None => sessions'[q] # None
    BY <1>0, <1>3, InitiationKeeps
  <2>2. /\ link' \in [Peers -> Seq(Packets)] /\ client' \in [Peers -> Clients]
        /\ UNCHANGED <<known, mentioned>>
    BY <1>0, <1>3, ReceivesIsTyped DEF HandleInitiation
  <2>3. UNCHANGED <<tunnel_peer, nonces, encryptions>>
    BY <1>3 DEF HandleInitiation, nonceVars
  <2>5. nonces' \subseteq responses' \X Nat
    BY <1>0, <2>1, <2>3 DEF TypeOK
  <2>6. TypeOK'
    BY <1>0, <2>1, <2>2, <2>3, <2>5 DEF TypeOK
  <2>7. StackHasSession' /\ Published'
    BY <1>0, <2>1, <2>2, <2>3, NoneAssumption DEF TypeOK, StackHasSession, Published
  <2> QED BY <2>1, <2>6, <2>7 DEF IInv
<1>4. ASSUME NEW p \in Peers, DropTransport(p)
      PROVE  IInv'
  <2>1. /\ link' \in [Peers -> Seq(Packets)] /\ client' \in [Peers -> Clients]
        /\ UNCHANGED <<known, mentioned>>
    BY <1>0, <1>4, ReceivesIsTyped DEF DropTransport
  <2>2. UNCHANGED <<peers, sessions, next_index, tunnel_peer, responses, nonces, encryptions>>
    BY <1>4 DEF DropTransport, nodeVars, nonceVars
  <2> QED BY <1>0, <2>1, <2>2 DEF IInv, TypeOK, KeyInv, Answered, NewestInitiation, Spent,
             NonceUnique, StackHasSession, Published
<1>5. ASSUME NEW p \in Peers, HandleTransport(p)
      PROVE  IInv'
  <2>1. PICK n \in {0, 1} : Uses(p, n)
    BY <1>0, <1>5, TransportUses
  <2>2. /\ KeyInv' /\ sessions' \in [Peers -> Sessions \cup {None}]
        /\ \A q \in Peers : sessions'[q] = None <=> sessions[q] = None
    BY <1>0, <2>1, UsesKeeps
  <2>3. /\ nonces' \subseteq responses \X Nat /\ IsFiniteSet(nonces') /\ encryptions' \in Nat
    BY <1>0, <2>1, FreshNonces DEF KeyInv
  <2>4. UNCHANGED <<known, mentioned, peers, next_index, responses>>
    BY <2>1 DEF Uses
  <2>5. link' \in [Peers -> Seq(Packets)] /\ client' \in [Peers -> Clients]
    BY <1>0, <1>5, ReceivesIsTyped DEF HandleTransport
  <2>6. tunnel_peer' \in {tunnel_peer, p} /\ sessions[p] # None
    BY <1>5 DEF HandleTransport, Decrypts
  <2>7. TypeOK'
    BY <1>0, <2>2, <2>3, <2>4, <2>5, <2>6 DEF TypeOK
  <2>8. StackHasSession' /\ Published'
    BY <1>0, <2>2, <2>4, <2>6 DEF TypeOK, StackHasSession, Published
  <2> QED BY <2>2, <2>7, <2>8 DEF IInv
<1>6. ASSUME ExternalStep
      PROVE  IInv'
  BY <1>0, <1>6 DEF ExternalStep, IInv, TypeOK, KeyInv, Answered, NewestInitiation, Spent,
     NonceUnique, StackHasSession, Published
<1>7. CASE UNCHANGED vars
  BY <1>0, <1>7 DEF vars, nodeVars, externalVars, nonceVars, IInv, TypeOK, KeyInv, Answered,
     NewestInitiation, Spent, NonceUnique, StackHasSession, Published
<1> QED
  BY <1>0, <1>1, <1>2, <1>3, <1>4, <1>5, <1>6, <1>7, PeersAreTyped DEF Next

LEMMA Invariant == Spec => []IInv
BY Initially, Inductive, PTL DEF Spec

-----------------------------------------------------------------------------

(***************************************************************************)
(* The host never encrypts two packets with one key and one counter: not a *)
(* pong, a reply and the stack's own output between them, and not when a   *)
(* handshake replaces the session, because the timestamp that a new key    *)
(* depends on is above those of all the peer's earlier keys.  The index,   *)
(* which wraps, is not needed for it.                                      *)
(***************************************************************************)
THEOREM NonceUniqueHolds == Spec => []NonceUnique
BY Invariant, PTL DEF IInv, KeyInv

(***************************************************************************)
(* The peer whose traffic the TCP stack carries always has a session, so   *)
(* `drain_stack` on an idle tick never ends the relay loop with an error.  *)
(***************************************************************************)
THEOREM StackHasSessionHolds == Spec => []StackHasSession
BY Invariant, PTL DEF IInv

(***************************************************************************)
(* The session of a peer is that of the newest initiation answered, and no *)
(* initiation is answered twice, for any order of arrival and any response *)
(* that could not be sent.                                                 *)
(***************************************************************************)
THEOREM NewestInitiationHolds == Spec => []NewestInitiation
BY Invariant, PTL DEF IInv, KeyInv

(***************************************************************************)
(* From the first netmap that names anyone, only a relay client that some  *)
(* netmap named ever brings a session: a later netmap cannot empty the     *)
(* list that `authorised` reads and so open the node again.                *)
(***************************************************************************)
THEOREM OpenOnlyAtFirstHolds == Spec => OpenOnlyAtFirst
<1> DEFINE Brought == \A src \in Peers : link'[src] # link[src] /\ responses' # responses =>
                          mentioned = {} \/ src \in mentioned
<1>1. ASSUME IInv, [Next]_vars PROVE [Brought]_vars
  <2> SUFFICES ASSUME NEW src \in Peers, link'[src] # link[src], responses' # responses
               PROVE  mentioned = {} \/ src \in mentioned
    OBVIOUS
  <2>1. PICK q \in Peers : HandleInitiation(q)
    <3>1. responses' = responses \/ \E q \in Peers : HandleInitiation(q)
      BY <1>1 DEF Next, PublishPeers, drain_stack, DropTransport, HandleTransport, ClientInitiate,
         ClientSend, ClientEstablish, RelayDrops, hostUnchanged, vars
    <3> QED BY <3>1
  <2>2. link' = [link EXCEPT ![q] = Tail(@)] /\ authorised(q)
    BY <2>1, Zenon DEF HandleInitiation, Receives
  <2>3. q = src
    BY <1>1, <2>2 DEF IInv, TypeOK
  <2> QED BY <1>1, <2>2, <2>3 DEF authorised, IInv, Published
<1> QED
  BY <1>1, Invariant, PTL DEF Spec, OpenOnlyAtFirst
=============================================================================
