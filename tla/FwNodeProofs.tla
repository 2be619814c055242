---------------------------- MODULE FwNodeProofs ----------------------------
(***************************************************************************)
(* Proofs about FwNode, for any peers, any queue sizes and any number of   *)
(* handshakes up to the wrap of the session index.                         *)
(***************************************************************************)
EXTENDS FwNode, FiniteSetTheorems, SequenceTheorems, TLAPS

(***************************************************************************)
(* The types of the device's state and of what its peers send.             *)
(***************************************************************************)
Packets ==
  [kind : {"Initiation"}, from : Peers, via : Vias, ts : 1 .. MAX_INITIATIONS]
  \cup [kind : {"Transport"}, from : Peers, via : Vias, payload : Payloads,
        session : Sessions, counter : Nat]

Clients == [ts : 0 .. MAX_INITIATIONS, waiting : BOOLEAN, session : Sessions \cup {None}, counter : Nat]

DeviceType ==
  /\ peer \in Slots \cup {None}
  /\ next_index \in 1 .. INDEX_SPACE - 1
  /\ nonce \in 0 .. NONCE_SPACE - 1
  /\ outbound \in 0 .. QUEUE

RelayType ==
  /\ derp_out \in Seq(Sessions)
  /\ connected \in BOOLEAN
  /\ peer_key \in Peers \cup {None}

ExternalType == client \in [Peers -> Clients] /\ net \subseteq Packets

HistoryType ==
  /\ responses \subseteq Sessions /\ IsFiniteSet(responses)
  /\ nonces \subseteq responses \X Nat /\ IsFiniteSet(nonces)
  /\ delivered \subseteq responses \X Nat /\ IsFiniteSet(delivered)
  /\ encryptions \in Nat /\ deliveries \in Nat

TypeOK == DeviceType /\ RelayType /\ ExternalType /\ HistoryType

(***************************************************************************)
(* The next index is odd, and ahead of every one drawn by two for each of  *)
(* some of the handshakes since the start, round the end of the index      *)
(* space or not.                                                           *)
(***************************************************************************)
Ahead(next, index, count) ==
  \E j \in 1 .. count : next = index + 2 * j \/ next = index + 2 * j - INDEX_SPACE

Drawn ==
  /\ next_index % 2 = 1
  /\ \A s \in responses : Ahead(next_index, s.index, Cardinality(responses))

(***************************************************************************)
(* The slot's session is one of the device's answers; the counters spent   *)
(* on it are below its next one, and its window has every packet delivered *)
(* on it.                                                                  *)
(***************************************************************************)
SlotInv ==
  peer # None =>
     /\ peer.session \in responses
     /\ \A n \in nonces : n[1] = peer.session => n[2] < peer.send_counter
     /\ \A d \in delivered : d[1] = peer.session => d[2] \in peer.seen

(***************************************************************************)
(* No session spends a counter twice.                                      *)
(***************************************************************************)
CountersFresh == Cardinality(nonces) = encryptions

IInv == TypeOK /\ Drawn /\ SlotInv /\ CountersFresh /\ DeliveredOnce

-----------------------------------------------------------------------------
(* Lemmas about the operators and the actions.                             *)

(***************************************************************************)
(* `next_index` steps by two, wraps and never takes the value 0.           *)
(***************************************************************************)
LEMMA NextIndexStep ==
  ASSUME next_index \in 1 .. INDEX_SPACE - 1, next_index % 2 = 1
  PROVE  /\ NextIndex \in 1 .. INDEX_SPACE - 1 /\ NextIndex % 2 = 1
         /\ NextIndex \in {next_index + 2, next_index + 2 - INDEX_SPACE}
<1> DEFINE n == (next_index + 2) % INDEX_SPACE
<1>0. INDEX_SPACE \in Nat /\ INDEX_SPACE % 2 = 0 /\ INDEX_SPACE > 1 /\ next_index \in Nat
  BY BoundsAssumption
<1>1. /\ n \in 1 .. INDEX_SPACE - 1 /\ n % 2 = 1
      /\ n \in {next_index + 2, next_index + 2 - INDEX_SPACE}
  <2>1. CASE next_index + 2 < INDEX_SPACE
    <3>1. n = next_index + 2
      BY <1>0, <2>1
    <3> QED BY <1>0, <2>1, <3>1
  <2>2. CASE next_index + 2 >= INDEX_SPACE
    <3>1. next_index = INDEX_SPACE - 1
      BY <1>0, <2>2
    <3>2. n = 1
      BY <1>0, <3>1
    <3> QED BY <1>0, <3>1, <3>2
  <2> QED BY <1>0, <2>1, <2>2
<1> HIDE DEF n
<1>2. n \in {n, 1} /\ \A y \in {n, 1} : n >= y
  BY <1>0, <1>1
<1>3. \A x \in {n, 1} : (\A y \in {n, 1} : x >= y) => x = n
  BY <1>0, <1>1
<1>4. Max({n, 1}) = n
  BY <1>2, <1>3, Zenon DEF Max
<1> QED
  BY <1>1, <1>4 DEF NextIndex, n

(***************************************************************************)
(* A packet names a peer of the tailnet and a transport.                   *)
(***************************************************************************)
LEMMA PacketTypes ==
  ASSUME ExternalType, NEW pkt \in net
  PROVE  /\ pkt.from \in Peers /\ pkt.via \in Vias
         /\ pkt.kind = "Initiation" => pkt.ts \in 1 .. MAX_INITIATIONS
         /\ pkt.kind = "Transport" => pkt.session \in Sessions /\ pkt.counter \in Nat
<1>1. pkt \in Packets
  BY DEF ExternalType
<1>2. CASE pkt \in [kind : {"Initiation"}, from : Peers, via : Vias, ts : 1 .. MAX_INITIATIONS]
  BY <1>2
<1>3. CASE pkt \in [kind : {"Transport"}, from : Peers, via : Vias, payload : Payloads,
                    session : Sessions, counter : Nat]
  BY <1>3
<1> QED
  BY <1>1, <1>2, <1>3 DEF Packets

(***************************************************************************)
(* A packet's arrival leaves the relay's state typed.                      *)
(***************************************************************************)
LEMMA ArrivesTyped ==
  ASSUME RelayType, NEW pkt, pkt.from \in Peers, Arrives(pkt)
  PROVE  RelayType'
BY DEF Arrives, RelayType

(***************************************************************************)
(* What a packet does to the slot: the return path moves, then, if it      *)
(* decrypts, the window has its counter.                                   *)
(***************************************************************************)
Moved(slot, source) == [slot EXCEPT !.source = source]
Heard(slot, source, c) == [Moved(slot, source) EXCEPT !.seen = @ \cup {c}]

LEMMA SlotSteps ==
  ASSUME NEW slot \in Slots, NEW source \in Sources, NEW c \in Nat
  PROVE  /\ Moved(slot, source) \in Slots /\ Moved(slot, source).session = slot.session
         /\ Moved(slot, source).send_counter = slot.send_counter
         /\ Moved(slot, source).seen = slot.seen
         /\ Heard(slot, source, c) \in Slots /\ Heard(slot, source, c).session = slot.session
         /\ Heard(slot, source, c).send_counter = slot.send_counter
         /\ Heard(slot, source, c).seen = slot.seen \cup {c}
<1>1. /\ Moved(slot, source) \in Slots /\ Moved(slot, source).session = slot.session
      /\ Moved(slot, source).send_counter = slot.send_counter
      /\ Moved(slot, source).seen = slot.seen
  BY DEF Slots, Moved
<1> QED
  BY <1>1 DEF Slots, Heard

LEMMA AdvanceStep ==
  ASSUME NEW slot \in Slots
  PROVE  /\ Advance(slot) \in Slots /\ Advance(slot).session = slot.session
         /\ Advance(slot).send_counter = slot.send_counter + 1 /\ Advance(slot).seen = slot.seen
BY DEF Advance, Slots

(***************************************************************************)
(* One more packet encrypted with the slot's session: its nonce is new.    *)
(***************************************************************************)
LEMMA FreshNonce ==
  ASSUME HistoryType, CountersFresh, NEW key \in responses, NEW c \in Nat,
         \A n \in nonces : n[1] = key => n[2] < c,
         nonces' = nonces \cup {<<key, c>>}, encryptions' = encryptions + 1
  PROVE  /\ nonces' \subseteq responses \X Nat /\ IsFiniteSet(nonces')
         /\ encryptions' \in Nat /\ CountersFresh'
         /\ \A n \in nonces' : n[1] = key => n[2] < c + 1
<1>1. <<key, c>> \notin nonces
  <2> SUFFICES ASSUME <<key, c>> \in nonces PROVE FALSE
    OBVIOUS
  <2> DEFINE m == <<key, c>>
  <2>1. m \in nonces /\ m[1] = key /\ m[2] = c
    OBVIOUS
  <2> HIDE DEF m
  <2>2. m[2] < c
    BY <2>1
  <2> QED BY <2>1, <2>2
<1>2. IsFiniteSet(nonces) /\ Cardinality(nonces) = encryptions /\ encryptions \in Nat
  BY DEF HistoryType, CountersFresh
<1>3. IsFiniteSet(nonces') /\ Cardinality(nonces') = encryptions + 1
  BY <1>1, <1>2, FS_AddElement
<1>4. nonces' \subseteq responses \X Nat
  BY DEF HistoryType
<1>5. ASSUME NEW n \in nonces', n[1] = key PROVE n[2] < c + 1
  <2>1. CASE n \in nonces
    <3>1. n[2] \in Nat /\ n[2] < c
      BY <1>5, <2>1 DEF HistoryType
    <3> QED BY <3>1
  <2>2. CASE n = <<key, c>>
    BY <2>2
  <2> QED BY <2>1, <2>2
<1> QED
  BY <1>2, <1>3, <1>4, <1>5 DEF CountersFresh

(***************************************************************************)
(* The packet that decrypts is of the slot's own session: the key fixes    *)
(* the initiation and the receiver index says which answer to it.          *)
(***************************************************************************)
LEMMA DecryptsOwn ==
  ASSUME NEW slot \in Slots, NEW pkt, pkt.session \in Sessions, Decrypts(slot, pkt)
  PROVE  pkt.session = slot.session /\ pkt.counter \notin slot.seen
<1> DEFINE s == pkt.session
           t == slot.session
<1>1. s \in Sessions /\ t \in Sessions /\ pkt.counter \notin slot.seen
  BY DEF Decrypts, Slots
<1>2. s.index = t.index /\ SessionKey(s) = SessionKey(t)
  BY DEF Decrypts
<1> HIDE DEF s, t
<1>3. s.peer = t.peer /\ s.ts = t.ts
  <2>1. SessionKey(s).peer = SessionKey(t).peer /\ SessionKey(s).ts = SessionKey(t).ts
    BY <1>2
  <2> QED BY <2>1 DEF SessionKey
<1>4. s = t
  BY <1>1, <1>2, <1>3 DEF Sessions
<1> QED BY <1>1, <1>4 DEF s, t

(***************************************************************************)
(* A packet that decrypts was never delivered before.                      *)
(***************************************************************************)
LEMMA FreshDelivery ==
  ASSUME HistoryType, DeliveredOnce, NEW key \in responses, NEW c \in Nat, NEW seen,
         \A d \in delivered : d[1] = key => d[2] \in seen, c \notin seen,
         delivered' = delivered \cup {<<key, c>>}, deliveries' = deliveries + 1
  PROVE  /\ delivered' \subseteq responses \X Nat /\ IsFiniteSet(delivered')
         /\ deliveries' \in Nat /\ DeliveredOnce'
         /\ \A d \in delivered' : d[1] = key => d[2] \in seen \cup {c}
<1>1. <<key, c>> \notin delivered
  <2> SUFFICES ASSUME <<key, c>> \in delivered PROVE FALSE
    OBVIOUS
  <2> DEFINE m == <<key, c>>
  <2>1. m \in delivered /\ m[1] = key /\ m[2] = c
    OBVIOUS
  <2> HIDE DEF m
  <2> QED BY <2>1
<1>2. IsFiniteSet(delivered) /\ Cardinality(delivered) = deliveries /\ deliveries \in Nat
  BY DEF HistoryType, DeliveredOnce
<1>3. IsFiniteSet(delivered') /\ Cardinality(delivered') = deliveries + 1
  BY <1>1, <1>2, FS_AddElement
<1>4. delivered' \subseteq responses \X Nat
  BY DEF HistoryType
<1> QED
  BY <1>2, <1>3, <1>4 DEF DeliveredOnce

-----------------------------------------------------------------------------
(* Each action keeps the inductive invariant.                              *)

LEMMA InitiationKeeps ==
  ASSUME IInv, NEW pkt \in net, HandleInitiation(pkt)
  PROVE  IInv'
<1> DEFINE key == [peer |-> pkt.from, ts |-> pkt.ts, index |-> next_index]
           slot == [session |-> key, source |-> Source(pkt), send_counter |-> 0, seen |-> {}]
<1>0. TypeOK /\ Drawn /\ SlotInv /\ CountersFresh /\ DeliveredOnce
  BY DEF IInv
<1>1. /\ pkt.from \in Peers /\ pkt.via \in Vias /\ pkt.ts \in 1 .. MAX_INITIATIONS
      /\ next_index \in 1 .. INDEX_SPACE - 1
  BY <1>0, PacketTypes DEF HandleInitiation, TypeOK, DeviceType
<1>2. key \in Sessions /\ key.index = next_index
  BY <1>1 DEF Sessions
<1>3. slot \in Slots /\ slot.session = key /\ slot # None
  BY <1>1, <1>2, NoneAssumption DEF Slots, Source, Sources
<1>4. /\ peer' = slot /\ responses' = responses \cup {key} /\ next_index' = NextIndex
      /\ Cardinality(responses) < MAX_RESPONSES /\ Arrives(pkt)
      /\ UNCHANGED <<nonce, outbound, client, net, nonces, encryptions, delivered, deliveries>>
  BY DEF HandleInitiation, externalVars
<1> HIDE DEF key, slot
<1>5. /\ Cardinality(responses) \in Nat /\ next_index \in Nat /\ next_index % 2 = 1
      /\ \A s \in responses : s.index \in Nat
  <2>1. Cardinality(responses) \in Nat
    BY <1>0, FS_CardinalityType DEF TypeOK, HistoryType
  <2>2. \A s \in responses : s.index \in Nat
    BY <1>0, BoundsAssumption DEF TypeOK, HistoryType, Sessions
  <2> QED BY <1>0, <1>1, <2>1, <2>2, BoundsAssumption DEF Drawn
<1>6. key \notin responses
  <2> SUFFICES ASSUME key \in responses PROVE FALSE
    OBVIOUS
  <2>1. PICK j \in 1 .. Cardinality(responses) :
          next_index = next_index + 2 * j \/ next_index = next_index + 2 * j - INDEX_SPACE
    BY <1>0, <1>2 DEF Drawn, Ahead
  <2> QED BY <1>4, <1>5, <2>1, WrapAssumption, BoundsAssumption
<1>7. /\ IsFiniteSet(responses') /\ Cardinality(responses') = Cardinality(responses) + 1
      /\ Cardinality(responses) \in Nat
  BY <1>0, <1>4, <1>6, FS_AddElement, FS_CardinalityType DEF TypeOK, HistoryType
<1>8. TypeOK'
  <2>1. DeviceType'
    BY <1>0, <1>1, <1>3, <1>4, <1>5, NextIndexStep DEF TypeOK, DeviceType
  <2>2. RelayType'
    BY <1>0, <1>1, <1>4, ArrivesTyped DEF TypeOK
  <2>3. ExternalType'
    BY <1>0, <1>4 DEF TypeOK, ExternalType
  <2>4. HistoryType'
    BY <1>0, <1>2, <1>4, <1>7 DEF TypeOK, HistoryType
  <2> QED BY <2>1, <2>2, <2>3, <2>4 DEF TypeOK
<1>9. Drawn'
  <2>1. NextIndex % 2 = 1 /\ NextIndex \in {next_index + 2, next_index + 2 - INDEX_SPACE}
    BY <1>1, <1>5, NextIndexStep
  <2>2. ASSUME NEW s \in responses' PROVE Ahead(next_index', s.index, Cardinality(responses'))
    <3>1. CASE s = key
      <4>1. 1 \in 1 .. Cardinality(responses')
        BY <1>5, <1>7
      <4>2. \/ next_index' = s.index + 2 * 1
            \/ next_index' = s.index + 2 * 1 - INDEX_SPACE
        BY <1>2, <1>4, <2>1, <3>1
      <4> QED BY <4>1, <4>2 DEF Ahead
    <3>2. CASE s \in responses
      <4>1. PICK j \in 1 .. Cardinality(responses) :
              next_index = s.index + 2 * j \/ next_index = s.index + 2 * j - INDEX_SPACE
        BY <1>0, <3>2 DEF Drawn, Ahead
      <4>2. j + 1 \in 1 .. Cardinality(responses') /\ j \in Nat /\ 2 * j < INDEX_SPACE
        BY <1>4, <1>5, <1>7, WrapAssumption, BoundsAssumption
      <4>3. next_index' \in Nat /\ next_index' < INDEX_SPACE
        BY <1>1, <1>4, <1>5, NextIndexStep, BoundsAssumption
      <4>4. s.index \in Nat /\ s.index < INDEX_SPACE /\ INDEX_SPACE \in Nat
        BY <1>0, <3>2, BoundsAssumption DEF TypeOK, HistoryType, Sessions
      <4>5. \/ next_index' = s.index + 2 * (j + 1)
            \/ next_index' = s.index + 2 * (j + 1) - INDEX_SPACE
        BY <1>1, <1>4, <1>5, <2>1, <4>1, <4>2, <4>3, <4>4
      <4> QED BY <4>2, <4>5 DEF Ahead
    <3> QED BY <1>4, <3>1, <3>2
  <2> QED BY <1>4, <2>1, <2>2 DEF Drawn
<1>10. SlotInv'
  <2>1. \A n \in nonces : n[1] # key
    BY <1>0, <1>6 DEF TypeOK, HistoryType
  <2>2. \A d \in delivered : d[1] # key
    BY <1>0, <1>6 DEF TypeOK, HistoryType
  <2> QED BY <1>3, <1>4, <2>1, <2>2 DEF SlotInv
<1> QED
  BY <1>0, <1>4, <1>8, <1>9, <1>10 DEF IInv, CountersFresh, DeliveredOnce

LEMMA TransportKeeps ==
  ASSUME IInv, NEW pkt \in net, HandleTransport(pkt)
  PROVE  IInv'
<1> DEFINE moved == Moved(peer, Source(pkt))
           heard == Heard(peer, Source(pkt), pkt.counter)
           sent == Advance(heard)
<1>0. TypeOK /\ Drawn /\ SlotInv /\ CountersFresh /\ DeliveredOnce
  BY DEF IInv
<1>1. /\ pkt.from \in Peers /\ pkt.via \in Vias /\ pkt.counter \in Nat
      /\ pkt.session \in Sessions /\ peer \in Slots /\ peer # None
  BY <1>0, PacketTypes DEF HandleTransport, TypeOK, DeviceType
<1>2. Source(pkt) \in Sources
  BY <1>1 DEF Source, Sources
<1>3. /\ moved \in Slots /\ moved.session = peer.session
      /\ moved.send_counter = peer.send_counter /\ moved.seen = peer.seen
      /\ heard \in Slots /\ heard.session = peer.session
      /\ heard.send_counter = peer.send_counter /\ heard.seen = peer.seen \cup {pkt.counter}
      /\ sent \in Slots /\ sent.session = peer.session
      /\ sent.send_counter = peer.send_counter + 1 /\ sent.seen = peer.seen \cup {pkt.counter}
  <2>1. /\ moved \in Slots /\ moved.session = peer.session
        /\ moved.send_counter = peer.send_counter /\ moved.seen = peer.seen
        /\ heard \in Slots /\ heard.session = peer.session
        /\ heard.send_counter = peer.send_counter /\ heard.seen = peer.seen \cup {pkt.counter}
    BY <1>1, <1>2, SlotSteps
  <2>2. /\ sent \in Slots /\ sent.session = heard.session
        /\ sent.send_counter = heard.send_counter + 1 /\ sent.seen = heard.seen
    <3> HIDE DEF heard
    <3> QED BY <2>1, AdvanceStep
  <2> HIDE DEF moved, heard, sent
  <2> QED BY <2>1, <2>2
<1>4. /\ Arrives(pkt)
      /\ UNCHANGED <<next_index, nonce, outbound, client, net, responses>>
  BY DEF HandleTransport, externalVars
<1>5. \/ peer' = moved /\ UNCHANGED <<nonces, encryptions, delivered, deliveries>>
      \/ Encrypts(heard) /\ peer' = sent /\ UNCHANGED <<delivered, deliveries>>
      \/ /\ Decrypts(peer, pkt) /\ peer' = heard
         /\ delivered' = delivered \cup {<<pkt.session, pkt.counter>>}
         /\ deliveries' = deliveries + 1 /\ UNCHANGED <<nonces, encryptions>>
  BY Zenon DEF HandleTransport, Moved, Heard
<1> HIDE DEF moved, heard, sent
<1>6. /\ peer.session \in responses /\ peer.send_counter \in Nat
      /\ \A n \in nonces : n[1] = peer.session => n[2] < peer.send_counter
      /\ \A d \in delivered : d[1] = peer.session => d[2] \in peer.seen
  BY <1>0, <1>1 DEF SlotInv, Slots
<1>7. peer' \in Slots /\ peer'.session = peer.session
  BY <1>3, <1>5
<1>8. /\ nonces' \subseteq responses \X Nat /\ IsFiniteSet(nonces')
      /\ encryptions' \in Nat /\ CountersFresh'
      /\ \A n \in nonces' : n[1] = peer.session => n[2] < peer'.send_counter
  <2>1. CASE UNCHANGED <<nonces, encryptions>> /\ peer' \in {moved, heard}
    BY <1>0, <1>3, <1>6, <2>1 DEF TypeOK, HistoryType, CountersFresh
  <2>2. CASE Encrypts(heard) /\ peer' = sent
    <3>1. /\ nonces' = nonces \cup {<<peer.session, peer.send_counter>>}
          /\ encryptions' = encryptions + 1
      BY <1>3, <2>2 DEF Encrypts
    <3>2. peer'.send_counter = peer.send_counter + 1
      BY <1>3, <2>2
    <3>3. HistoryType /\ CountersFresh
      BY <1>0 DEF TypeOK
    <3> QED BY <1>6, <3>1, <3>2, <3>3, FreshNonce
  <2> QED BY <1>5, <2>1, <2>2
<1>9. /\ delivered' \subseteq responses \X Nat /\ IsFiniteSet(delivered')
      /\ deliveries' \in Nat /\ DeliveredOnce'
      /\ \A d \in delivered' : d[1] = peer.session => d[2] \in peer'.seen
  <2>1. CASE UNCHANGED <<delivered, deliveries>> /\ peer' \in {moved, sent}
    BY <1>0, <1>3, <1>6, <2>1 DEF TypeOK, HistoryType, DeliveredOnce
  <2>2. CASE /\ Decrypts(peer, pkt) /\ peer' = heard
             /\ delivered' = delivered \cup {<<pkt.session, pkt.counter>>}
             /\ deliveries' = deliveries + 1
    <3>1. /\ delivered' = delivered \cup {<<peer.session, pkt.counter>>}
          /\ deliveries' = deliveries + 1 /\ pkt.counter \notin peer.seen
      BY <1>1, <2>2, DecryptsOwn
    <3>2. peer'.seen = peer.seen \cup {pkt.counter}
      BY <1>3, <2>2
    <3>3. HistoryType /\ DeliveredOnce
      BY <1>0 DEF TypeOK
    <3>4. /\ delivered' \subseteq responses \X Nat /\ IsFiniteSet(delivered')
          /\ deliveries' \in Nat /\ DeliveredOnce'
          /\ \A d \in delivered' : d[1] = peer.session => d[2] \in peer.seen \cup {pkt.counter}
      BY <1>1, <1>6, <3>1, <3>3, FreshDelivery, Zenon
    <3> QED BY <3>2, <3>4
  <2> QED BY <1>5, <2>1, <2>2
<1>10. TypeOK'
  <2>1. DeviceType'
    BY <1>0, <1>4, <1>7 DEF TypeOK, DeviceType
  <2>2. RelayType'
    BY <1>0, <1>1, <1>4, ArrivesTyped DEF TypeOK
  <2>3. ExternalType'
    BY <1>0, <1>4 DEF TypeOK, ExternalType
  <2>4. HistoryType'
    BY <1>0, <1>4, <1>8, <1>9 DEF TypeOK, HistoryType
  <2> QED BY <2>1, <2>2, <2>3, <2>4 DEF TypeOK
<1>11. Drawn' /\ SlotInv'
  BY <1>0, <1>4, <1>6, <1>7, <1>8, <1>9 DEF Drawn, Ahead, SlotInv
<1> QED
  BY <1>8, <1>9, <1>10, <1>11 DEF IInv

LEMMA DrainKeeps ==
  ASSUME IInv, Drain
  PROVE  IInv'
<1>0. TypeOK /\ Drawn /\ SlotInv /\ CountersFresh /\ DeliveredOnce
  BY DEF IInv
<1>1. UNCHANGED <<next_index, nonce, connected, peer_key, client, net, responses,
                  delivered, deliveries>>
  BY DEF Drain, externalVars
<1>2. outbound' \in 0 .. QUEUE
  BY <1>0, BoundsAssumption DEF Drain, TypeOK, DeviceType
<1>3. ExternalType' /\ Drawn' /\ DeliveredOnce'
  BY <1>0, <1>1 DEF TypeOK, ExternalType, Drawn, Ahead, DeliveredOnce
<1>4. CASE peer = None
  <2>1. UNCHANGED <<peer, nonces, encryptions, derp_out>>
    BY <1>4 DEF Drain
  <2>2. DeviceType' /\ RelayType' /\ HistoryType'
    BY <1>0, <1>1, <1>2, <2>1 DEF TypeOK, DeviceType, RelayType, HistoryType
  <2> QED BY <1>0, <1>1, <1>3, <2>1, <2>2 DEF IInv, TypeOK, SlotInv, CountersFresh
<1>5. CASE peer # None
  <2>1. peer \in Slots /\ peer.session \in Sessions /\ peer.session \in responses /\ peer.send_counter \in Nat
    BY <1>0, <1>5 DEF TypeOK, DeviceType, Slots, SlotInv
  <2>2. /\ Encrypts(peer) /\ peer' = Advance(peer)
        /\ derp_out' \in {derp_out, Append(derp_out, peer.session)}
    BY <1>5 DEF Drain
  <2>3. /\ peer' \in Slots /\ peer'.session = peer.session
        /\ peer'.send_counter = peer.send_counter + 1 /\ peer'.seen = peer.seen
    BY <2>1, <2>2, AdvanceStep
  <2>4. /\ nonces' \subseteq responses \X Nat /\ IsFiniteSet(nonces')
        /\ encryptions' \in Nat /\ CountersFresh'
        /\ \A n \in nonces' : n[1] = peer.session => n[2] < peer.send_counter + 1
    <3>1. /\ nonces' = nonces \cup {<<peer.session, peer.send_counter>>}
          /\ encryptions' = encryptions + 1
      BY <2>2 DEF Encrypts
    <3>2. HistoryType /\ CountersFresh
      BY <1>0 DEF TypeOK
    <3>3. \A n \in nonces : n[1] = peer.session => n[2] < peer.send_counter
      BY <1>0, <1>5 DEF SlotInv
    <3> QED BY <2>1, <3>1, <3>2, <3>3, FreshNonce
  <2>5. derp_out' \in Seq(Sessions)
    BY <1>0, <2>1, <2>2, AppendProperties DEF TypeOK, RelayType
  <2>6. DeviceType' /\ RelayType' /\ HistoryType'
    BY <1>0, <1>1, <1>2, <2>3, <2>4, <2>5 DEF TypeOK, DeviceType, RelayType, HistoryType
  <2>7. SlotInv'
    BY <1>0, <1>1, <1>5, <2>1, <2>3, <2>4 DEF SlotInv
  <2> QED BY <1>3, <2>4, <2>6, <2>7 DEF IInv, TypeOK
<1> QED
  BY <1>4, <1>5

(***************************************************************************)
(* What the invariant says of the slot, the indices and the histories does *)
(* not depend on the rest, nor on the return path.                         *)
(***************************************************************************)
LEMMA SlotMoved ==
  ASSUME IInv, nonce' \in 0 .. NONCE_SPACE - 1, outbound' \in 0 .. QUEUE,
         RelayType', ExternalType', NEW source \in Sources,
         peer' = peer \/ (peer # None /\ peer' = Moved(peer, source)),
         UNCHANGED <<next_index, responses, nonces, encryptions, delivered, deliveries>>
  PROVE  IInv'
<1>1. peer # None => peer \in Slots
  BY DEF IInv, TypeOK, DeviceType
<1>2. /\ peer' \in Slots \cup {None} /\ (peer' = None <=> peer = None)
      /\ peer # None => /\ peer'.session = peer.session /\ peer'.seen = peer.seen
                        /\ peer'.send_counter = peer.send_counter
  <2>1. CASE peer' = peer
    BY <2>1 DEF IInv, TypeOK, DeviceType
  <2>2. CASE peer # None /\ peer' = Moved(peer, source)
    <3>1. 0 \in Nat
      OBVIOUS
    <3> QED BY <1>1, <2>2, <3>1, SlotSteps, NoneAssumption
  <2> QED BY <2>1, <2>2
<1>3. DeviceType' /\ HistoryType'
  BY <1>2 DEF IInv, TypeOK, DeviceType, HistoryType
<1>4. SlotInv'
  BY <1>2 DEF IInv, SlotInv
<1> QED
  BY <1>3, <1>4 DEF IInv, TypeOK, Drawn, Ahead, CountersFresh, DeliveredOnce

LEMMA SlotUntouched ==
  ASSUME IInv, nonce' \in 0 .. NONCE_SPACE - 1, outbound' \in 0 .. QUEUE,
         RelayType', ExternalType',
         UNCHANGED <<peer, next_index, responses, nonces, encryptions, delivered, deliveries>>
  PROVE  IInv'
<1>1. DeviceType' /\ HistoryType'
  BY DEF IInv, TypeOK, DeviceType, HistoryType
<1> QED
  BY <1>1 DEF IInv, TypeOK, Drawn, Ahead, SlotInv, CountersFresh, DeliveredOnce

(***************************************************************************)
(* The peers send packets of the types `handle` reads, on keys of theirs.  *)
(***************************************************************************)
LEMMA PeersAreTyped ==
  ASSUME IInv, NEW p \in Peers,
         \/ ClientEstablish(p)
         \/ \E via \in Vias :
               \/ ClientInitiate(p, via)
               \/ \E payload \in Payloads : ClientSend(p, via, payload)
  PROVE  ExternalType' /\ UNCHANGED clientUnchanged
<1>0. client[p] \in Clients /\ client \in [Peers -> Clients] /\ net \subseteq Packets
  BY DEF IInv, TypeOK, ExternalType
<1>1. CASE ClientEstablish(p)
  <2>1. PICK key \in responses :
          client' = [client EXCEPT ![p].waiting = FALSE, ![p].session = key, ![p].counter = 0]
    BY <1>1 DEF ClientEstablish
  <2> DEFINE c == [client[p] EXCEPT !.waiting = FALSE, !.session = key, !.counter = 0]
  <2>2. key \in Sessions
    BY DEF IInv, TypeOK, HistoryType
  <2>3. c \in Clients
    BY <1>0, <2>2 DEF Clients
  <2>4. client' = [client EXCEPT ![p] = c]
    BY <2>1
  <2>5. net' = net /\ UNCHANGED clientUnchanged
    BY <1>1 DEF ClientEstablish
  <2> HIDE DEF c
  <2> QED BY <1>0, <2>3, <2>4, <2>5 DEF ExternalType
<1>2. ASSUME NEW via \in Vias, ClientInitiate(p, via)
      PROVE  ExternalType' /\ UNCHANGED clientUnchanged
  <2> DEFINE c == [client[p] EXCEPT !.ts = @ + 1, !.waiting = TRUE]
             pkt == [kind |-> "Initiation", from |-> p, via |-> via, ts |-> client[p].ts + 1]
  <2>1. client[p].ts + 1 \in 1 .. MAX_INITIATIONS /\ client[p].ts + 1 \in 0 .. MAX_INITIATIONS
    BY <1>0, <1>2, BoundsAssumption DEF ClientInitiate, Clients
  <2>2. c \in Clients
    BY <1>0, <2>1, Zenon DEF Clients
  <2>3. pkt \in Packets
    BY <2>1 DEF Packets
  <2>4. client' = [client EXCEPT ![p] = c]
    BY <1>2 DEF ClientInitiate
  <2>5. net' = net \cup {pkt} /\ UNCHANGED clientUnchanged
    BY <1>2 DEF ClientInitiate
  <2> HIDE DEF c, pkt
  <2> QED BY <1>0, <2>2, <2>3, <2>4, <2>5 DEF ExternalType
<1>3. ASSUME NEW via \in Vias, NEW payload \in Payloads, ClientSend(p, via, payload)
      PROVE  ExternalType' /\ UNCHANGED clientUnchanged
  <2> DEFINE c == [client[p] EXCEPT !.counter = @ + 1]
             pkt == [kind |-> "Transport", from |-> p, via |-> via, payload |-> payload,
                     session |-> client[p].session, counter |-> client[p].counter]
  <2>1. client[p].session \in Sessions /\ client[p].counter \in Nat
    BY <1>0, <1>3 DEF ClientSend, Clients
  <2>2. c \in Clients
    BY <1>0 DEF Clients
  <2>3. pkt \in Packets
    BY <2>1 DEF Packets
  <2>4. client' = [client EXCEPT ![p] = c]
    BY <1>3 DEF ClientSend
  <2>5. net' = net \cup {pkt} /\ UNCHANGED clientUnchanged
    BY <1>3 DEF ClientSend
  <2> HIDE DEF c, pkt
  <2> QED BY <1>0, <2>2, <2>3, <2>4, <2>5 DEF ExternalType
<1> QED
  BY <1>1, <1>2, <1>3

LEMMA Initially == Init => IInv
<1> SUFFICES ASSUME Init PROVE IInv
  OBVIOUS
<1>1. IsFiniteSet({}) /\ Cardinality({}) = 0
  BY FS_EmptySet
<1>2. DeviceType /\ RelayType
  <2>1. peer = None /\ next_index \in 1 .. INDEX_SPACE - 1 /\ nonce = 0 /\ outbound = 0
    BY DEF Init
  <2>2. DeviceType
    BY <2>1, BoundsAssumption DEF DeviceType
  <2>3. RelayType
    <3>1. derp_out \in Seq(Sessions)
      BY DEF Init
    <3>2. connected \in BOOLEAN /\ peer_key \in Peers \cup {None}
      BY DEF Init
    <3> QED BY <3>1, <3>2 DEF RelayType
  <2> QED BY <2>2, <2>3
<1>3. ExternalType
  BY BoundsAssumption DEF Init, ExternalType, Clients
<1>4. HistoryType
  BY <1>1 DEF Init, HistoryType
<1> QED
  BY <1>1, <1>2, <1>3, <1>4
  DEF Init, IInv, TypeOK, Drawn, SlotInv, CountersFresh, DeliveredOnce

LEMMA Inductive == IInv /\ [Next]_vars => IInv'
<1> SUFFICES ASSUME IInv, [Next]_vars PROVE IInv'
  OBVIOUS
<1>0. /\ nonce \in 0 .. NONCE_SPACE - 1 /\ outbound \in 0 .. QUEUE
      /\ RelayType /\ ExternalType
  BY DEF IInv, TypeOK, DeviceType
<1> USE DEF deviceVars, relayVars, externalVars
<1>1. ASSUME NEW source \in Sources, HandleOther(source)
      PROVE  IInv'
  <2>1. RelayType'
    BY <1>0, <1>1, ArrivesTyped DEF HandleOther, Sources
  <2>2. nonce' \in 0 .. NONCE_SPACE - 1
    BY <1>0, <1>1, BoundsAssumption DEF HandleOther, bump
  <2>3. /\ outbound' \in 0 .. QUEUE /\ ExternalType'
        /\ UNCHANGED <<next_index, responses, nonces, encryptions, delivered, deliveries>>
    BY <1>0, <1>1 DEF HandleOther, ExternalType
  <2>4. peer' = peer \/ (peer # None /\ peer' = Moved(peer, source))
    BY <1>1 DEF HandleOther, Moved
  <2> QED BY <2>1, <2>2, <2>3, <2>4, SlotMoved
<1>2. CASE TunnelOutput
  <2>1. outbound' \in 0 .. QUEUE
    BY <1>0, <1>2, BoundsAssumption DEF TunnelOutput
  <2>2. /\ nonce' \in 0 .. NONCE_SPACE - 1 /\ RelayType' /\ ExternalType'
        /\ UNCHANGED <<peer, next_index, responses, nonces, encryptions, delivered, deliveries>>
    BY <1>0, <1>2 DEF TunnelOutput, ExternalType, RelayType
  <2> QED BY <2>1, <2>2, SlotUntouched
<1>3. CASE Relay
  <2>1. derp_out' \in Seq(Sessions)
    <3>1. derp_out \in Seq(Sessions)
      BY <1>0 DEF RelayType
    <3>2. derp_out # <<>> => Tail(derp_out) \in Seq(Sessions)
      BY <3>1, HeadTailProperties
    <3> QED BY <1>3, <3>1, <3>2 DEF Relay, RelayOutbound, RelayConnect, RelayLost
  <2>2. RelayType'
    BY <1>0, <1>3, <2>1 DEF Relay, RelayOutbound, RelayConnect, RelayLost, RelayType
  <2>3. /\ nonce' \in 0 .. NONCE_SPACE - 1 /\ outbound' \in 0 .. QUEUE /\ ExternalType'
        /\ UNCHANGED <<peer, next_index, responses, nonces, encryptions, delivered, deliveries>>
    BY <1>0, <1>3 DEF Relay, RelayOutbound, RelayConnect, RelayLost, ExternalType
  <2> QED BY <2>2, <2>3, SlotUntouched
<1>4. ASSUME ExternalType', UNCHANGED clientUnchanged
      PROVE  IInv'
  <2>1. /\ nonce' \in 0 .. NONCE_SPACE - 1 /\ outbound' \in 0 .. QUEUE /\ RelayType'
        /\ UNCHANGED <<peer, next_index, responses, nonces, encryptions, delivered, deliveries>>
    BY <1>0, <1>4 DEF clientUnchanged, RelayType
  <2> QED BY <1>4, <2>1, SlotUntouched
<1>5. CASE UNCHANGED vars
  <2>1. UNCHANGED clientUnchanged /\ ExternalType'
    BY <1>0, <1>5 DEF vars, clientUnchanged, ExternalType
  <2> QED BY <1>4, <2>1
<1> QED
  BY <1>1, <1>2, <1>3, <1>4, <1>5, InitiationKeeps, TransportKeeps, DrainKeeps, PeersAreTyped
  DEF Next

LEMMA Invariant == Spec => []IInv
BY Initially, Inductive, PTL DEF Spec

-----------------------------------------------------------------------------

(***************************************************************************)
(* While no two answers share a key, what was spent on a session was spent *)
(* on its key alone.                                                       *)
(***************************************************************************)
LEMMA KeysApart ==
  ASSUME HistoryType, CountersFresh
  PROVE  NonceUnique
<1> SUFFICES ASSUME ~KeyRepeated
             PROVE  Cardinality({<<SessionKey(n[1]), n[2]>> : n \in nonces}) = encryptions
  BY DEF NonceUnique
<1> DEFINE K == {<<SessionKey(n[1]), n[2]>> : n \in nonces}
           f == [n \in nonces |-> <<SessionKey(n[1]), n[2]>>]
<1>1. ASSUME NEW m \in nonces, NEW n \in nonces, f[m] = f[n] PROVE m = n
  <2>1. m \in responses \X Nat /\ n \in responses \X Nat
    BY DEF HistoryType
  <2>2. SessionKey(m[1]) = SessionKey(n[1]) /\ m[2] = n[2]
    BY <1>1
  <2>3. m[1] = n[1]
    BY <2>1, <2>2 DEF KeyRepeated
  <2> QED BY <2>1, <2>2, <2>3
<1>2. f \in [nonces -> K] /\ \A k \in K : \E n \in nonces : f[n] = k
  OBVIOUS
<1> HIDE DEF K, f
<1>3. f \in Bijection(nonces, K)
  <2>1. DOMAIN f = nonces
    BY <1>2, Zenon
  <2>2. IsInjective(f)
    BY <1>1, <2>1, Zenon DEF IsInjective
  <2> QED BY <1>2, <2>2, Zenon DEF Bijection, Injection, Surjection
<1>4. IsFiniteSet(nonces) /\ Cardinality(nonces) = encryptions
  BY DEF HistoryType, CountersFresh
<1>5. Cardinality(K) = Cardinality(nonces)
  BY <1>3, <1>4, FS_Bijection, Zenon DEF ExistsBijection
<1> QED BY <1>4, <1>5 DEF K

(***************************************************************************)
(* As long as no two answers of the device derive one key, it never        *)
(* encrypts two packets with one key and one counter: the answer to a ping *)
(* in `handle` and the drain share one counter, and a handshake that       *)
(* resets it draws an index no earlier session has.                        *)
(***************************************************************************)
THEOREM NonceUniqueHolds == Spec => []NonceUnique
<1>1. IInv => NonceUnique
  BY KeysApart DEF IInv, TypeOK
<1> QED BY <1>1, Invariant, PTL

(***************************************************************************)
(* No packet reaches the tunnel twice, however often and by whichever      *)
(* transport the network delivers it: a handshake empties the window, and  *)
(* may bring back the key of an earlier session, but not its index.        *)
(***************************************************************************)
THEOREM DeliveredOnceHolds == Spec => []DeliveredOnce
BY Invariant, PTL DEF IInv
=============================================================================
