----------------------------- MODULE NoiseProofs -----------------------------
(***************************************************************************)
(* Proofs about the two Noise sessions.  WireGuard's: WgTransport, for     *)
(* every window width, message limit and counter field, and WgPeer, for    *)
(* every setting of the timers.  And ts2021's, to the control server:      *)
(* ControlConn, for every size of its buffers and everything a server may  *)
(* send in the order of the protocol.                                      *)
(***************************************************************************)
EXTENDS WgPeer, WgTransport, ControlConn, FiniteSetTheorems, SequenceTheorems, TLAPS

(***************************************************************************)
(* Two counters less than a window apart do not share a slot.              *)
(***************************************************************************)
LEMMA SlotInjective ==
  ASSUME NEW a \in Nat, NEW b \in Nat,
         a <= b, b - a < WINDOW_BITS, index(a) = index(b)
  PROVE  a = b
<1> DEFINE W == WINDOW_BITS
           p == a \div W
           q == b \div W
           r == index(a)
<1>1. W \in Nat /\ W > 0
  BY WindowAssumption
<1>2. p \in Nat /\ q \in Nat /\ r \in Nat
  BY <1>1, SMT DEF index
<1>3. a = W * p + r /\ b = W * q + r
  BY <1>1, SMT DEF index
<1> HIDE DEF W, p, q, r
<1>4. b - a = W * (q - p)
  BY <1>1, <1>2, <1>3, SMT
<1>5. q - p < 1
  <2> SUFFICES ASSUME q - p >= 1 PROVE FALSE
    BY <1>2, SMT
  <2>1. W * (q - p) >= W
    BY <1>1, <1>2, SMT
  <2> QED BY <2>1, <1>4, <1>1, SMT DEF W
<1>6. q - p > -1
  <2> SUFFICES ASSUME q - p <= -1 PROVE FALSE
    BY <1>2, SMT
  <2>1. W * (q - p) <= -W
    BY <1>1, <1>2, SMT
  <2> QED BY <2>1, <1>4, <1>1, SMT
<1>7. q = p
  BY <1>5, <1>6, <1>2, SMT
<1> QED
  BY <1>7, <1>3, <1>1, <1>2, SMT

(***************************************************************************)
(* The window w tells the truth about the set S of counters let through,   *)
(* as far as it covers them.                                               *)
(***************************************************************************)
Covers(w, c) == c <= w.highest /\ w.highest - c < WINDOW_BITS

Truthful(w, S) ==
  /\ w \in Windows
  /\ ~w.started => w = NewWindow /\ S = {}
  /\ w.started => /\ w.highest \in S
                  /\ \A a \in S : a <= w.highest
                  /\ \A c \in Counters : Covers(w, c) => (get(w, c) <=> c \in S)

LEMMA IndexInSlots == \A c \in Nat : index(c) \in Slots
BY WindowAssumption, SMT DEF index, Slots

(***************************************************************************)
(* `accept` keeps the window truthful: the counter it lets through is      *)
(* marked, the counters it jumps over are clear, and those it still covers *)
(* keep their bit.                                                         *)
(***************************************************************************)
LEMMA RecordTruthful ==
  ASSUME NEW w, NEW S \in SUBSET Counters, NEW n \in Counters,
         Truthful(w, S), Accepts(w, n)
  PROVE  Truthful(Record(w, n), S \cup {n})
<1> DEFINE v == Record(w, n)
<1> USE WindowAssumption, CountersAssumption
<1>0. w \in Windows /\ n \in Nat
  BY DEF Truthful
<1>1. /\ Cleared(w, n) \in [Slots -> BOOLEAN]
      /\ v.bits \in [Slots -> BOOLEAN]
      /\ v.highest \in Nat
      /\ v.started = TRUE
      /\ v \in Windows
  BY <1>0 DEF Record, Windows, Cleared, shift_left, set
<1>2. v.highest \in S \cup {n}
  BY DEF Truthful, Record
<1>3. \A a \in S \cup {n} : a <= v.highest
  <2>1. CASE ~w.started
    BY <2>1, <1>0 DEF Truthful, Record
  <2>2. CASE w.started
    BY <2>2, <1>0 DEF Truthful, Record, Windows
  <2> QED BY <2>1, <2>2
<1>4. \A c \in Nat : v.bits[index(c)] <=> (index(c) = index(n) \/ Cleared(w, n)[index(c)])
  BY <1>0, <1>1, IndexInSlots DEF Record, set
<1>5. ASSUME NEW c \in Counters, Covers(v, c)
      PROVE  get(v, c) <=> c \in S \cup {n}
  <2>0. c \in Nat /\ n <= v.highest /\ v.highest - n < WINDOW_BITS
    BY <1>0, <1>3 DEF Accepts, Record, Windows
  <2>1. index(c) = index(n) => c = n
    <3>1. v.highest - c < WINDOW_BITS /\ c <= v.highest
      BY <1>5 DEF Covers
    <3>2. c <= n => n - c < WINDOW_BITS
      BY <3>1, <2>0, <1>0, <1>1
    <3>3. n <= c => c - n < WINDOW_BITS
      BY <3>1, <2>0, <1>0, <1>1
    <3>4. c <= n \/ n <= c
      BY <2>0, <1>0
    <3> QED BY <3>2, <3>3, <3>4, <2>0, <1>0, SlotInjective
  <2>2. get(v, c) <=> (c = n \/ Cleared(w, n)[index(c)])
    BY <2>0, <2>1, <1>4 DEF get
  <2> SUFFICES ASSUME c # n
               PROVE  Cleared(w, n)[index(c)] <=> c \in S
    BY <2>2
  <2>3. index(c) \in Slots
    BY <2>0, IndexInSlots
  <2>4. CASE ~w.started
    BY <2>4, <2>3 DEF Truthful, Cleared, NewWindow
  <2>5. CASE w.started /\ n <= w.highest
    <3>1. v.highest = w.highest /\ Cleared(w, n) = w.bits
      BY <2>5, <1>0 DEF Record, Cleared, Windows
    <3> QED BY <3>1, <2>5, <1>5 DEF Covers, Truthful, get
  <2>6. CASE w.started /\ n > w.highest
    <3>0. w.highest \in Nat /\ v.highest = n
      BY <2>6, <1>0 DEF Record, Windows
    <3>1. c <= n /\ n - c < WINDOW_BITS
      BY <3>0, <1>5 DEF Covers
    <3>2. CASE n - w.highest >= WINDOW_BITS
      <4>1. ~Cleared(w, n)[index(c)]
        BY <3>2, <2>6, <2>3, <3>0, <1>0 DEF Cleared
      <4>2. c > w.highest
        BY <3>0, <3>1, <3>2, <2>0, <1>0
      <4> QED BY <4>1, <4>2, <2>6, <3>0, <2>0 DEF Truthful
    <3>3. CASE n - w.highest < WINDOW_BITS
      <4>1. Cleared(w, n)[index(c)] <=>
              (index(c) \notin Vacated(w, n - w.highest) /\ w.bits[index(c)])
        BY <3>3, <2>6, <2>3, <3>0, <1>0 DEF Cleared, shift_left, Windows
      <4>2. CASE c > w.highest
        <5>1. c - w.highest \in 1 .. n - w.highest /\ w.highest + (c - w.highest) = c
          BY <4>2, <3>0, <3>1, <2>0, <1>0
        <5>2. index(c) \in Vacated(w, n - w.highest)
          BY <5>1 DEF Vacated
        <5> QED BY <5>2, <4>1, <4>2, <2>6, <3>0, <2>0 DEF Truthful
      <4>3. CASE c <= w.highest
        <5>1. ASSUME NEW i \in 1 .. n - w.highest
              PROVE  index(w.highest + i) # index(c)
          <6>1. /\ w.highest + i \in Nat
                /\ c < w.highest + i
                /\ (w.highest + i) - c < WINDOW_BITS
            BY <4>3, <3>0, <3>1, <2>0, <1>0
          <6> QED BY <6>1, <2>0, SlotInjective
        <5>2. index(c) \notin Vacated(w, n - w.highest)
          BY <5>1 DEF Vacated
        <5>3. Covers(w, c)
          BY <4>3, <3>0, <3>1, <2>0, <1>0, <2>6 DEF Covers
        <5> QED BY <5>2, <5>3, <4>1, <2>6 DEF Truthful, get
      <4> QED BY <4>2, <4>3, <3>0, <2>0
    <3> QED BY <3>2, <3>3, <3>0, <1>0
  <2> QED BY <2>4, <2>5, <2>6, <1>0 DEF Windows
<1> QED
  BY <1>1, <1>2, <1>3, <1>5 DEF Truthful

(***************************************************************************)
(* A truthful window lets a counter through exactly when it is fresh for a *)
(* filter that remembers all of S.                                         *)
(***************************************************************************)
LEMMA AcceptsFresh ==
  ASSUME SessionTypeOK, Truthful(replay, accepted), NEW c \in Counters
  PROVE  Accepts(replay, c) <=> Filter!Fresh(c)
<1> USE WindowAssumption, CountersAssumption
<1>0. c \in Nat /\ replay.highest \in Nat /\ accepted \subseteq Nat
  BY DEF SessionTypeOK, Windows
<1>1. CASE ~replay.started
  BY <1>1, <1>0 DEF Truthful, Accepts, Filter!Fresh
<1>2. CASE replay.started
  <2>1. /\ replay.highest \in accepted
        /\ \A a \in accepted : a <= replay.highest
        /\ Covers(replay, c) => (get(replay, c) <=> c \in accepted)
    BY <1>2 DEF Truthful
  <2>2. CASE c > replay.highest
    <3>1. c \notin accepted /\ \A a \in accepted : a - c < WINDOW_BITS
      BY <2>1, <2>2, <1>0
    <3> QED BY <3>1, <2>2 DEF Accepts, Filter!Fresh
  <2>3. CASE c <= replay.highest /\ replay.highest - c >= WINDOW_BITS
    <3>1. ~ Filter!Fresh(c)
      BY <2>1, <2>3, <1>0 DEF Filter!Fresh
    <3>2. ~ Accepts(replay, c)
      BY <2>3, <1>0, <1>2 DEF Accepts
    <3> QED BY <3>1, <3>2
  <2>4. CASE Covers(replay, c)
    <3>1. \A a \in accepted : a - c < WINDOW_BITS
      BY <2>1, <2>4, <1>0 DEF Covers
    <3> QED BY <3>1, <2>1, <2>4, <1>0, <1>2 DEF Accepts, Filter!Fresh, Covers
  <2> QED BY <2>2, <2>3, <2>4, <1>0 DEF Covers
<1> QED BY <1>1, <1>2

(***************************************************************************)
(* The inductive invariant: the window is truthful about the history, and  *)
(* the history holds nothing the sender has not sent.                      *)
(***************************************************************************)
SessionInv ==
  /\ SessionTypeOK
  /\ Truthful(replay, accepted)
  /\ \A a \in accepted : a < send_counter
  /\ NoReplay

LEMMA SessionStarts == SessionInit => SessionInv
<1> SUFFICES ASSUME SessionInit PROVE SessionInv
  OBVIOUS
<1> USE WindowAssumption, CountersAssumption
<1>1. NewWindow \in Windows /\ ~NewWindow.started
  BY DEF NewWindow, Windows
<1>2. 0 \in Counters
  OBVIOUS
<1>3. SessionTypeOK
  BY <1>1, <1>2 DEF SessionInit, SessionTypeOK, Results
<1> QED
  BY <1>1, <1>3 DEF SessionInit, SessionInv, Truthful, NoReplay

LEMMA SessionStep == SessionInv /\ [SessionNext]_sessionVars => SessionInv'
<1> SUFFICES ASSUME SessionInv, [SessionNext]_sessionVars PROVE SessionInv'
  OBVIOUS
<1> USE WindowAssumption, CountersAssumption
<1>1. CASE encrypt
  <2>1. SessionTypeOK'
    BY <1>1 DEF SessionInv, SessionTypeOK, encrypt, receiverVars
  <2>2. send_counter' >= send_counter /\ send_counter \in Nat /\ send_counter' \in Nat
    BY <1>1 DEF SessionInv, SessionTypeOK, encrypt
  <2>3. accepted' = accepted /\ replay' = replay /\ repeated' = repeated
    BY <1>1 DEF encrypt, receiverVars
  <2>4. \A a \in accepted' : a < send_counter'
    BY <2>2, <2>3 DEF SessionInv, SessionTypeOK
  <2> QED BY <2>1, <2>3, <2>4 DEF SessionInv, Truthful, NoReplay, Covers, get
<1>2. ASSUME NEW c \in Counters, DecryptAuthentic(c)
      PROVE  SessionInv'
  <2>1. c < send_counter
    BY <1>2 DEF DecryptAuthentic, Sent, SessionInv, SessionTypeOK
  <2>2. CASE Accepts(replay, c)
    <3>1. /\ replay' = Record(replay, c)
          /\ accepted' = accepted \cup {c}
          /\ repeated' = repeated \cup ({c} \cap accepted)
          /\ answer' = [counter |-> c, result |-> "Ok"]
          /\ UNCHANGED <<send_counter, encrypted>>
      BY <1>2, <2>2 DEF DecryptAuthentic
    <3>2. Truthful(Record(replay, c), accepted \cup {c})
      BY <2>2, RecordTruthful DEF SessionInv, SessionTypeOK
    <3>3. Truthful(replay, accepted)'
      BY <3>1, <3>2 DEF Truthful, Covers, get
    <3>4. c \notin accepted
      BY <2>2, AcceptsFresh DEF SessionInv, Filter!Fresh
    <3>5. SessionTypeOK'
      BY <3>1, <3>3, <3>4 DEF SessionInv, SessionTypeOK, Results, Truthful
    <3> QED BY <3>1, <3>3, <3>4, <3>5, <2>1 DEF SessionInv, NoReplay
  <2>3. CASE ~Accepts(replay, c)
    <3>1. /\ answer' = [counter |-> c, result |-> "ReplayedTransport"]
          /\ UNCHANGED <<send_counter, encrypted, replay, accepted, repeated>>
      BY <1>2, <2>3 DEF DecryptAuthentic
    <3>2. SessionTypeOK'
      BY <3>1 DEF SessionInv, SessionTypeOK, Results
    <3> QED BY <3>1, <3>2 DEF SessionInv, Truthful, NoReplay, Covers, get
  <2> QED BY <2>2, <2>3
<1>3. ASSUME NEW c \in Counters, DecryptUnauthentic(c)
      PROVE  SessionInv'
  <2>1. SessionTypeOK'
    BY <1>3 DEF SessionInv, SessionTypeOK, Results, DecryptUnauthentic
  <2> QED BY <1>3, <2>1 DEF SessionInv, Truthful, NoReplay, Covers, get, DecryptUnauthentic
<1>4. CASE UNCHANGED sessionVars
  <2>1. SessionTypeOK'
    BY <1>4 DEF SessionInv, SessionTypeOK, sessionVars
  <2> QED BY <1>4, <2>1 DEF SessionInv, Truthful, NoReplay, Covers, get, sessionVars
<1> QED
  BY <1>1, <1>2, <1>3, <1>4 DEF SessionNext

LEMMA SessionInvariant == SessionSpec => []SessionInv
BY SessionStarts, SessionStep, PTL DEF SessionSpec

(***************************************************************************)
(* Every variable of a session keeps its type; send_counter never passes   *)
(* REJECT_AFTER_MESSAGES, so no nonce is used beyond it.                   *)
(***************************************************************************)
THEOREM SessionTypeCorrect == SessionSpec => []SessionTypeOK
<1>1. SessionInv => SessionTypeOK
  BY DEF SessionInv
<1> QED
  BY <1>1, SessionInvariant, PTL

(***************************************************************************)
(* The bits `accept` keeps are exact over the window.                      *)
(***************************************************************************)
THEOREM WindowIsExact == SessionSpec => []WindowExact
<1>1. SessionInv => WindowExact
  BY DEF SessionInv, Truthful, WindowExact, InWindow, Covers
<1> QED
  BY <1>1, SessionInvariant, PTL

(***************************************************************************)
(* The top of the window is the greatest counter accepted.                 *)
(***************************************************************************)
THEOREM WindowTopIsAccepted == SessionSpec => []WindowTop
<1>1. SessionInv => WindowTop
  BY DEF SessionInv, Truthful, WindowTop
<1> QED
  BY <1>1, SessionInvariant, PTL

(***************************************************************************)
(* `decrypt` returns the plaintext of a packet at most once.               *)
(***************************************************************************)
THEOREM NothingReplayed == SessionSpec => []NoReplay
<1>1. SessionInv => NoReplay
  BY DEF SessionInv
<1> QED
  BY <1>1, SessionInvariant, PTL

(***************************************************************************)
(* `accept`, with WINDOW_BITS bits of memory, implements the filter that   *)
(* remembers every counter it let through.                                 *)
(***************************************************************************)
THEOREM WindowImplementsFilter == SessionSpec => ImplementsFilter
<1>1. SessionInit => Filter!Init
  BY DEF SessionInit, Filter!Init
<1>2. SessionInv /\ [SessionNext]_sessionVars => [Filter!Next]_(Filter!vars)
  <2> SUFFICES ASSUME SessionInv, [SessionNext]_sessionVars PROVE [Filter!Next]_(Filter!vars)
    OBVIOUS
  <2>1. CASE encrypt
    BY <2>1 DEF encrypt, receiverVars, Filter!vars
  <2>2. ASSUME NEW c \in Counters, DecryptAuthentic(c)
        PROVE  Filter!Next
    <3>1. Accepts(replay, c) <=> Filter!Fresh(c)
      BY AcceptsFresh DEF SessionInv
    <3> QED BY <2>2, <3>1 DEF DecryptAuthentic, Filter!Next, Filter!Pass, Filter!Refuse
  <2>3. ASSUME NEW c \in Counters, DecryptUnauthentic(c)
        PROVE  Filter!Next
    BY <2>3 DEF DecryptUnauthentic, Filter!Next, Filter!Discard
  <2>4. CASE UNCHANGED sessionVars
    BY <2>4 DEF sessionVars, Filter!vars
  <2> QED BY <2>1, <2>2, <2>3, <2>4 DEF SessionNext
<1> QED
  BY <1>1, <1>2, SessionInvariant, PTL DEF SessionSpec, ImplementsFilter, Filter!Spec

-----------------------------------------------------------------------------
(* The peer.                                                               *)

(***************************************************************************)
(* Nothing carries a time later than the clock.                            *)
(***************************************************************************)
NoFuture ==
  /\ current # None => current.established <= now
  /\ previous # None => previous.established <= now

(***************************************************************************)
(* A run of attempts is open since the first initiation after the last     *)
(* session, and its initiations are spaced: the k-th was sent no earlier   *)
(* than k - 1 timeouts after the first, and once `poll` has asked for      *)
(* another, k timeouts have passed and the window was still open.          *)
(***************************************************************************)
Spaced ==
  /\ handshake_sent = None <=> attempts = 0
  /\ handshake_started = None <=> attempts = 0
  /\ first = handshake_started
  /\ attempts > 0 =>
       /\ handshake_sent <= now
       /\ handshake_started + (attempts - 1) * REKEY_TIMEOUT <= handshake_sent
       /\ todo = "Initiate" =>
            /\ handshake_started + attempts * REKEY_TIMEOUT <= now
            /\ attempts * REKEY_TIMEOUT < REKEY_ATTEMPT_TIME

PeerInv == TypeOK /\ NoFuture /\ Spaced /\ KeyLifetime /\ AttemptsBounded

(***************************************************************************)
(* What `send_session` and the encryption after it do to a session.        *)
(***************************************************************************)
LEMMA SentKeepsType ==
  ASSUME NEW a \in Actives, NEW t \in Nat
  PROVE  LET b == [a EXCEPT !.last_sent = t, !.send_counter = @ + 1]
         IN  b \in Actives /\ b.index = a.index /\ b.established = a.established
<1> DEFINE c == [a EXCEPT !.last_sent = t]
           b == [c EXCEPT !.send_counter = c.send_counter + 1]
<1>1. c \in Actives /\ c.index = a.index /\ c.established = a.established
  BY DEF Actives
<1>2. b = [a EXCEPT !.last_sent = t, !.send_counter = @ + 1]
  OBVIOUS
<1> HIDE DEF c
<1>3. b \in Actives /\ b.index = c.index /\ b.established = c.established
  BY <1>1 DEF Actives
<1> QED
  BY <1>1, <1>2, <1>3

(***************************************************************************)
(* Every variable of a peer keeps its type.                                *)
(***************************************************************************)
LEMMA TypeStep == TypeOK /\ NoFuture /\ [Next]_vars => TypeOK'
<1> SUFFICES ASSUME TypeOK, NoFuture, [Next]_vars PROVE TypeOK'
  OBVIOUS
<1> USE TimersAssumption, NoneAssumption
<1>1. CASE Tick
  BY <1>1 DEF Tick, TypeOK, peerVars, tried
<1>2. CASE Poll
  BY <1>2 DEF Poll, TypeOK, peerVars, tried, poll, Actions
<1>3. CASE HandshakeSent
  BY <1>3 DEF HandshakeSent, TypeOK, Actions
<1>4. ASSUME NEW i \in Indices, NEW initiator \in BOOLEAN, install_session(i, initiator)
      PROVE  TypeOK'
  <2>1. current' \in Actives
    BY <1>4 DEF install_session, NewActive, TypeOK, Actives
  <2> QED BY <1>4, <2>1 DEF install_session, NewActive, TypeOK
<1>5. CASE SendSession
  <2>1. current \in Actives /\ now \in Nat /\ now - current.established \in Nat
    BY <1>5 DEF SendSession, TypeOK, Actives, NoFuture
  <2>2. current' \in Actives
    BY <1>5, <2>1, SentKeepsType DEF SendSession
  <2> QED BY <1>5, <2>1, <2>2 DEF SendSession, TypeOK, Actions, tried
<1>6. ASSUME NEW i \in Indices, session_for_index(i)
      PROVE  TypeOK'
  BY <1>6 DEF session_for_index, TypeOK, tried, Actives, NoFuture, Received, Serves
<1>7. CASE expire
  BY <1>7 DEF expire, TypeOK, Unexpired, tried
<1>8. CASE UNCHANGED vars
  BY <1>8 DEF vars, peerVars, tried, TypeOK
<1> QED
  BY <1>1, <1>2, <1>3, <1>4, <1>5, <1>6, <1>7, <1>8 DEF Next

LEMMA NoFutureStep == TypeOK /\ NoFuture /\ [Next]_vars => NoFuture'
<1> SUFFICES ASSUME TypeOK, NoFuture, [Next]_vars PROVE NoFuture'
  OBVIOUS
<1> USE TimersAssumption, NoneAssumption
<1>1. CASE Tick
  BY <1>1 DEF Tick, TypeOK, peerVars, NoFuture, Actives
<1>2. CASE Poll \/ HandshakeSent
  BY <1>2 DEF Poll, HandshakeSent, peerVars, NoFuture
<1>4. ASSUME NEW i \in Indices, NEW initiator \in BOOLEAN, install_session(i, initiator)
      PROVE  NoFuture'
  BY <1>4 DEF install_session, NewActive, TypeOK, NoFuture
<1>5. CASE SendSession
  BY <1>5 DEF SendSession, TypeOK, Actives, NoFuture
<1>6. ASSUME NEW i \in Indices, session_for_index(i)
      PROVE  NoFuture'
  BY <1>6 DEF session_for_index, TypeOK, Actives, NoFuture, Received, Serves
<1>7. CASE expire
  BY <1>7 DEF expire, NoFuture, Unexpired
<1>8. CASE UNCHANGED vars
  BY <1>8 DEF vars, peerVars, NoFuture
<1> QED
  BY <1>1, <1>2, <1>4, <1>5, <1>6, <1>7, <1>8 DEF Next

LEMMA LifetimeStep == TypeOK /\ KeyLifetime /\ [Next]_vars => KeyLifetime'
<1> SUFFICES ASSUME TypeOK, KeyLifetime, [Next]_vars PROVE KeyLifetime'
  OBVIOUS
<1> USE TimersAssumption, NoneAssumption
<1>1. CASE SendSession
  BY <1>1 DEF SendSession, Refused, expired, TypeOK, Actives, KeyLifetime
<1>2. ASSUME NEW i \in Indices, session_for_index(i)
      PROVE  KeyLifetime'
  BY <1>2 DEF session_for_index, Serves, expired, TypeOK, Actives, KeyLifetime
<1>3. CASE UNCHANGED useAge
  BY <1>3 DEF KeyLifetime
<1> QED
  BY <1>1, <1>2, <1>3
  DEF Next, vars, Tick, Poll, HandshakeSent, install_session, expire

LEMMA SpacedStep ==
  TypeOK /\ Spaced /\ AttemptsBounded /\ [Next]_vars => (Spaced /\ AttemptsBounded)'
<1> SUFFICES ASSUME TypeOK, Spaced, AttemptsBounded, [Next]_vars
             PROVE  (Spaced /\ AttemptsBounded)'
  OBVIOUS
<1> USE TimersAssumption, NoneAssumption
<1>0. /\ now \in Nat /\ attempts \in Nat /\ REKEY_TIMEOUT \in Nat
      /\ attempts > 0 => handshake_sent \in Nat /\ handshake_started \in Nat
  BY DEF TypeOK, Spaced
<1>m. /\ attempts * REKEY_TIMEOUT \in Nat
      /\ attempts * REKEY_TIMEOUT = (attempts - 1) * REKEY_TIMEOUT + REKEY_TIMEOUT
      /\ (attempts + 1 - 1) * REKEY_TIMEOUT = attempts * REKEY_TIMEOUT
  BY <1>0, SMT
<1>1. CASE Tick
  <2> now' = now + 1 /\ UNCHANGED <<handshake_sent, handshake_started, todo, attempts, first>>
    BY <1>1 DEF Tick, peerVars, tried
  <2> DEFINE k == attempts * REKEY_TIMEOUT
             j == (attempts - 1) * REKEY_TIMEOUT
  <2> QED BY <1>0, <1>m DEF Spaced, AttemptsBounded
<1>2. CASE Poll
  <2>1. UNCHANGED <<now, handshake_sent, handshake_started, attempts, first>> /\ todo' = poll
    BY <1>2 DEF Poll, peerVars, tried
  <2>2. ASSUME attempts > 0, poll = "Initiate"
        PROVE  /\ handshake_started + attempts * REKEY_TIMEOUT <= now
               /\ attempts * REKEY_TIMEOUT < REKEY_ATTEMPT_TIME
    <3>1. /\ handshake_sent # None
          /\ now - handshake_sent >= REKEY_TIMEOUT
          /\ ~(now - handshake_started >= REKEY_ATTEMPT_TIME)
      BY <2>2, <1>0 DEF poll, giving_up, Spaced
    <3>2. handshake_started + (attempts - 1) * REKEY_TIMEOUT <= handshake_sent
      BY <2>2 DEF Spaced
    <3> QED BY <3>1, <3>2, <1>0, <1>m, <2>2
  <2> QED BY <2>1, <2>2 DEF Spaced, AttemptsBounded
<1>3. CASE HandshakeSent
  <2>1. /\ todo = "Initiate" /\ todo' = "Idle"
        /\ handshake_sent' = now
        /\ handshake_started' = IF handshake_started = None THEN now ELSE handshake_started
        /\ attempts' = attempts + 1
        /\ first' = IF attempts = 0 THEN now ELSE first
        /\ now' = now
    BY <1>3 DEF HandshakeSent
  <2>2. CASE attempts = 0
    <3>1. attempts' - 1 = 0 /\ 0 * REKEY_TIMEOUT = 0
      BY <2>1, <2>2, <1>0
    <3>2. /\ attempts' = 1 /\ handshake_started' = now /\ handshake_sent' = now
          /\ first' = now
          /\ todo' # "Initiate"
      BY <2>1, <2>2 DEF Spaced
    <3> QED BY <2>1, <3>1, <3>2, <1>0 DEF Spaced, AttemptsBounded
  <2>3. CASE attempts > 0
    <3>1. /\ handshake_started + attempts * REKEY_TIMEOUT <= now
          /\ attempts * REKEY_TIMEOUT < REKEY_ATTEMPT_TIME
          /\ handshake_started # None
      BY <2>1, <2>3 DEF Spaced
    <3>2. (attempts' - 1) * REKEY_TIMEOUT = attempts * REKEY_TIMEOUT
      <4>1. attempts' - 1 = attempts
        BY <2>1, <1>0
      <4> QED BY <4>1
    <3>3. /\ handshake_started' = handshake_started /\ attempts' > 0 /\ attempts' # 0
          /\ first' = first
      BY <2>1, <2>3, <3>1, <1>0
    <3>4. /\ first' = handshake_started'
          /\ handshake_sent' # None /\ handshake_started' # None /\ todo' # "Initiate"
      BY <2>1, <3>1, <3>3, <1>0 DEF Spaced
    <3>5. /\ handshake_sent' <= now'
          /\ handshake_started' + (attempts' - 1) * REKEY_TIMEOUT <= handshake_sent'
          /\ (attempts' - 1) * REKEY_TIMEOUT < REKEY_ATTEMPT_TIME
      BY <2>1, <3>1, <3>2, <3>3, <1>0
    <3> QED BY <3>3, <3>4, <3>5 DEF Spaced, AttemptsBounded
  <2> QED BY <2>2, <2>3, <1>0
<1>4. ASSUME NEW i \in Indices, NEW initiator \in BOOLEAN, install_session(i, initiator)
      PROVE  (Spaced /\ AttemptsBounded)'
  <2>1. attempts' = 0 /\ first' = None /\ handshake_sent' = None /\ handshake_started' = None
    BY <1>4 DEF install_session
  <2> QED BY <2>1 DEF Spaced, AttemptsBounded
<1>5. CASE SendSession
  <2>1. /\ UNCHANGED <<now, handshake_sent, handshake_started, attempts, first>>
        /\ todo' = "Initiate" => todo = "Initiate"
    BY <1>5 DEF SendSession, tried
  <2> QED BY <2>1 DEF Spaced, AttemptsBounded
<1>6. CASE UNCHANGED <<now, handshake_sent, handshake_started, todo, attempts, first>>
  BY <1>6 DEF Spaced, AttemptsBounded
<1> QED
  BY <1>1, <1>2, <1>3, <1>4, <1>5, <1>6
  DEF Next, vars, peerVars, tried, session_for_index, expire

LEMMA PeerStarts == Init => PeerInv
BY TimersAssumption, NoneAssumption
DEF Init, PeerInv, TypeOK, NoFuture, Spaced, KeyLifetime, AttemptsBounded, Actions

LEMMA PeerInvariant == Spec => []PeerInv
<1>1. PeerInv /\ [Next]_vars => PeerInv'
  BY TypeStep, NoFutureStep, LifetimeStep, SpacedStep DEF PeerInv
<1> QED
  BY <1>1, PeerStarts, PTL DEF Spec

(***************************************************************************)
(* Every variable of a peer keeps its type.                                *)
(***************************************************************************)
THEOREM PeerTypeCorrect == Spec => []TypeOK
<1>1. PeerInv => TypeOK
  BY DEF PeerInv
<1> QED
  BY <1>1, PeerInvariant, PTL

(***************************************************************************)
(* `send_session` and `session_for_index` never hand out a key that is     *)
(* REJECT_AFTER_TIME old.                                                  *)
(***************************************************************************)
THEOREM KeyLifetimeHolds == Spec => []KeyLifetime
<1>1. PeerInv => KeyLifetime
  BY DEF PeerInv
<1> QED
  BY <1>1, PeerInvariant, PTL

(***************************************************************************)
(* An unreachable peer is sent a bounded number of initiations: `poll`     *)
(* spaces them by REKEY_TIMEOUT and ends the run at REKEY_ATTEMPT_TIME.    *)
(***************************************************************************)
THEOREM AttemptsAreBounded == Spec => []AttemptsBounded
<1>1. PeerInv => AttemptsBounded
  BY DEF PeerInv
<1> QED
  BY <1>1, PeerInvariant, PTL

(***************************************************************************)
(* A peer that cannot send is left without an order to initiate only for   *)
(* REKEY_TIMEOUT after each initiation, or once it has gone unanswered for *)
(* all of REKEY_ATTEMPT_TIME: no earlier run of attempts, and no session   *)
(* in between, shortens the window.                                        *)
(***************************************************************************)
THEOREM QuietOnlyAfterWindowHolds == Spec => []QuietOnlyAfterWindow
<1>1. PeerInv => QuietOnlyAfterWindow
  <2> SUFFICES ASSUME PeerInv,
                      current # None => Refused(current) /\ current.initiator,
                      poll # "Initiate"
               PROVE  /\ attempts > 0
                      /\ \/ now - handshake_sent < REKEY_TIMEOUT
                         \/ now - first >= REKEY_ATTEMPT_TIME
    BY DEF QuietOnlyAfterWindow
  <2> USE TimersAssumption, NoneAssumption
  <2>1. handshake_sent # None
    <3>1. ASSUME current # None, ~expired(current) PROVE due_for_rekey(current)
      BY <3>1 DEF PeerInv, TypeOK, Refused, due_for_rekey, Actives
    <3> QED BY <3>1 DEF poll, has_session
  <2>2. attempts > 0 /\ first = handshake_started
    BY <2>1 DEF PeerInv, Spaced, TypeOK
  <2>3. giving_up \/ ~(now - handshake_sent >= REKEY_TIMEOUT)
    BY <2>1 DEF poll
  <2>4. now \in Nat /\ handshake_sent \in Nat
    BY <2>1 DEF PeerInv, TypeOK
  <2> QED BY <2>2, <2>3, <2>4 DEF giving_up
<1> QED
  BY <1>1, PeerInvariant, PTL

(***************************************************************************)
(* `install_session` and `expire` keep a key findable by its index until   *)
(* it is too old or a second rekey replaces it.                            *)
(***************************************************************************)
THEOREM RekeyKeepsPrevious == Spec => RekeyOverlap
<1> USE TimersAssumption, NoneAssumption
<1> DEFINE Kept(i) ==
      /\ Serves(current, i) =>
            \/ Usable(i)'
            \/ now' - current.established >= REJECT_AFTER_TIME
      /\ Serves(previous, i) =>
            \/ Usable(i)'
            \/ now' - previous.established >= REJECT_AFTER_TIME
            \/ previous' = current /\ current' # current
<1>1. ASSUME TypeOK, [Next]_vars, NEW i \in Indices
      PROVE  Kept(i)
  <2> USE <1>1
  <2>1. CASE Tick
    BY <2>1 DEF Tick, peerVars, Serves, Usable, expired, TypeOK, Actives
  <2>2. CASE UNCHANGED <<now, current, previous>>
    BY <2>2 DEF Serves, Usable, expired
  <2>3. ASSUME NEW j \in Indices, NEW initiator \in BOOLEAN, install_session(j, initiator)
        PROVE  Kept(i)
    BY <2>3 DEF install_session, NewActive, Serves, Usable, expired, TypeOK, Actives
  <2>4. CASE SendSession
    <3>1. current \in Actives /\ now \in Nat
      BY <2>4 DEF SendSession, TypeOK
    <3>2. /\ current' \in Actives
          /\ current'.index = current.index
          /\ current'.established = current.established
      BY <2>4, <3>1, SentKeepsType DEF SendSession
    <3>3. UNCHANGED <<now, previous>> /\ current' # None /\ current # None
      BY <2>4, <3>2 DEF SendSession
    <3> QED BY <3>2, <3>3 DEF Serves, Usable, expired
  <2>5. ASSUME NEW j \in Indices, session_for_index(j)
        PROVE  Kept(i)
    BY <2>5 DEF session_for_index, Received, Serves, Usable, expired, TypeOK, Actives
  <2>6. CASE expire
    BY <2>6 DEF expire, Unexpired, Serves, Usable, expired, TypeOK, Actives
  <2> QED
    BY <2>1, <2>2, <2>3, <2>4, <2>5, <2>6
    DEF Next, vars, peerVars, Poll, HandshakeSent
<1>2. TypeOK /\ [Next]_vars => [\A i \in Indices : Kept(i)]_vars
  BY <1>1
<1> QED
  BY <1>2, PeerTypeCorrect, PTL DEF Spec, RekeyOverlap

-----------------------------------------------------------------------------
(***************************************************************************)
(* ControlConn.  Bytes are counted: a byte of plaintext is known by its    *)
(* rank, how much of what the server sealed stands up to it.               *)
(***************************************************************************)

\* The part a byte of a script belongs to, the bytes that are plaintext, and how many
\* of those stand in its first b: PartOf, IsPlaintext and PlainUpTo of any script.
PartIn(ps, st, b) == CHOOSE k \in DOMAIN ps : st[k] < b /\ b <= st[k + 1]
PlainIn(ps, st, b) ==
    /\ ps[PartIn(ps, st, b)].kind = "Record"
    /\ b - st[PartIn(ps, st, b)] \in HEADER_LEN + 1 .. HEADER_LEN + ps[PartIn(ps, st, b)].length
Rank(ps, st, b) == Cardinality({c \in 1 .. b : PlainIn(ps, st, c)})

\* The plaintext of the k-th part, a record.
PlainOf(ps, st, k) == [i \in 1 .. ps[k].length |-> st[k] + HEADER_LEN + i]

\* The sequence s holds plaintext, from what follows the first e bytes of it.
Ranked(ps, st, s, e) == \A i \in 1 .. Len(s) : PlainIn(ps, st, s[i]) /\ Rank(ps, st, s[i]) = e + i

Shaking == stage \in {"upgrade", "response"}
Running == stage \in {"early", "body"}

KindsInv ==
    /\ Laid(parts, starts) /\ early \in Nat
    /\ raw \in Seq(Nat) /\ pending \in Seq(Nat) /\ delivered \in Seq(Nat)
    /\ rx_nonce \in Nat /\ before \in Int

\* The sequence r is the last of the first n bytes.
LastOf(r, n) == Len(r) <= n /\ \A i \in 1 .. Len(r) : r[i] = n - Len(r) + i

\* `raw` is the end of what was read.
RawInv == LastOf(raw, read)

ShakingInv ==
    Shaking => /\ at = "read" /\ Len(raw) = read
               /\ pending = <<>> /\ delivered = <<>>

StartInv == stage = "start" => at = "use" /\ read = started

\* What was opened: records, from the third part on.
Behind == /\ rx_nonce + 2 <= Len(parts)
          /\ \A k \in 3 .. rx_nonce + 2 : parts[k].kind = "Record"

\* The host kept a piece of a header from its handshake: its next record is no record.
Lost ==
    /\ program = "host" /\ Running /\ raw = <<>> /\ read = started
    /\ rx_nonce + 3 \in DOMAIN parts
    /\ starts[rx_nonce + 3] < read /\ read < starts[rx_nonce + 4]

\* All up to some record was opened, and nothing of it.
PlaceInv ==
    ~Shaking => /\ Behind
                /\ (program = "host" /\ Running => raw = <<>>)
                /\ (read - Len(raw) = starts[rx_nonce + 3] \/ Lost)

PlainInv ==
    /\ stage \in {"start", "early"} =>
          /\ delivered = <<>> /\ Ranked(parts, starts, pending, 0)
          /\ Len(pending) = Rank(parts, starts, starts[rx_nonce + 3])
    /\ stage = "body" =>
          /\ Ranked(parts, starts, delivered \o pending, early)
          /\ early + Len(delivered) + Len(pending) = Rank(parts, starts, starts[rx_nonce + 3])

\* What the firmware's pump was called with.
PumpInv ==
    program = "fw" /\ Running /\ at \in {"drain", "read"} =>
        /\ \/ before = -1 /\ stage = "early" /\ at = "drain"
           \/ before = 0
           \/ stage = "early" /\ 0 < before /\ before < early
        /\ at = "read" => Len(pending) <= before

\* A firmware that waits with `raw` full holds back a record there is no room for.
FullInv ==
    program = "fw" /\ Running /\ at = "read" /\ Len(raw) = RAW =>
        /\ rx_nonce + 3 \in DOMAIN parts /\ parts[rx_nonce + 3].kind = "Record"
        /\ Len(pending) + CipherLen(parts[rx_nonce + 3]) > PENDING

ControlInv ==
    /\ ControlTypeOK /\ KindsInv /\ RawInv /\ ShakingInv /\ StartInv /\ PlaceInv
    /\ PlainInv /\ PumpInv /\ FullInv /\ FailsForCause

-----------------------------------------------------------------------------
(* Scripts.                                                                *)

LEMMA NamesOfScript ==
    ASSUME NEW b
    PROVE  /\ PartOf(b) = PartIn(parts, starts, b)
           /\ IsPlaintext(b) <=> PlainIn(parts, starts, b)
           /\ PlainUpTo(b) = Rank(parts, starts, b)
BY DEF PartOf, PartIn, PartAt, IsPlaintext, PlainIn, PlainUpTo, Rank

\* What Laid says, in pieces.
LEMMA LaidFacts ==
    ASSUME NEW ps, NEW st, Laid(ps, st)
    PROVE  /\ Len(ps) \in Nat \ {0} /\ Len(st) = Len(ps) + 1
           /\ DOMAIN ps = 1 .. Len(ps) /\ DOMAIN st = 1 .. Len(ps) + 1
           /\ \A k \in 1 .. Len(ps) : ps[k].kind \in Kinds /\ ps[k].length \in Nat
           /\ \A k \in 1 .. Len(ps) + 1 : st[k] \in Nat
           /\ st[1] = 0
<1>1. /\ ps \in Seq([kind : Kinds, length : Nat]) /\ st \in Seq(Nat) /\ Len(st) = Len(ps) + 1
      /\ ps # <<>> /\ st[1] = 0
  BY DEF Laid
<1>2. Len(ps) \in Nat /\ DOMAIN ps = 1 .. Len(ps) /\ DOMAIN st = 1 .. Len(ps) + 1
  BY <1>1
<1>3. Len(ps) # 0
  BY <1>1
<1>4. \A k \in 1 .. Len(ps) : ps[k] \in [kind : Kinds, length : Nat]
  BY <1>1, ElementOfSeq
<1>5. \A k \in 1 .. Len(ps) + 1 : st[k] \in Nat
  BY <1>1
<1> QED BY <1>1, <1>2, <1>3, <1>4, <1>5

LEMMA Sizes ==
    ASSUME NEW ps, NEW st, Laid(ps, st), NEW k \in 1 .. Len(ps)
    PROVE  /\ st[k] \in Nat /\ st[k + 1] \in Nat /\ st[k + 1] = st[k] + PartSize(ps[k])
           /\ st[k] < st[k + 1] /\ ps[k].length \in Nat
           /\ CipherLen(ps[k]) \in Nat
           /\ ps[k].kind = "Record" => CipherLen(ps[k]) = ps[k].length + TAG_LEN
           /\ ps[k].kind \in {"Record", "Error"} => PartSize(ps[k]) = HEADER_LEN + CipherLen(ps[k])
           /\ k > 2 => ps[k].kind \in {"Record", "Error"}
           /\ k <= 2 => ps[k].kind # "Record"
           /\ HEADER_LEN \in Nat \ {0} /\ TAG_LEN \in Nat \ {0}
<1>0. HEADER_LEN \in Nat \ {0} /\ TAG_LEN \in Nat \ {0}
  BY ControlAssumption
<1>1. st[k] \in Nat /\ st[k + 1] \in Nat /\ ps[k].length \in Nat /\ k \in DOMAIN ps /\ k \in Nat
      /\ k \in DOMAIN st /\ k + 1 \in DOMAIN st
  <2>1. /\ Len(ps) \in Nat /\ DOMAIN ps = 1 .. Len(ps) /\ DOMAIN st = 1 .. Len(ps) + 1
        /\ ps[k].length \in Nat /\ \A j \in 1 .. Len(ps) + 1 : st[j] \in Nat
    BY LaidFacts, Zenon
  <2>2. k \in Nat /\ k \in 1 .. Len(ps) + 1 /\ k + 1 \in 1 .. Len(ps) + 1
    <3>1. Len(ps) \in Nat
      BY <2>1
    <3> QED BY <3>1
  <2> QED BY <2>1, <2>2, Zenon
<1>2. st[k + 1] = st[k] + PartSize(ps[k])
  BY <1>1 DEF Laid
<1>3. st[k] < st[k + 1]
  BY <1>1 DEF Laid
<1>4. CipherLen(ps[k]) \in Nat
  BY <1>0, <1>1 DEF CipherLen
<1>5. k > 2 => ps[k].kind \in {"Record", "Error"}
  BY <1>1 DEF Laid
<1>6. ps[1].kind # "Record" /\ (k = 2 => ps[k].kind # "Record")
  BY <1>1 DEF Laid
<1>7. k <= 2 => k = 1 \/ k = 2
  BY <1>1
<1> QED BY <1>0, <1>1, <1>2, <1>3, <1>4, <1>5, <1>6, <1>7 DEF CipherLen, PartSize

LEMMA RecordSize ==
    ASSUME NEW ps, NEW st, Laid(ps, st), NEW k \in 1 .. Len(ps), ps[k].kind = "Record"
    PROVE  st[k + 1] = st[k] + (HEADER_LEN + (ps[k].length + TAG_LEN))
<1>1. /\ st[k + 1] = st[k] + PartSize(ps[k]) /\ CipherLen(ps[k]) = ps[k].length + TAG_LEN
      /\ ps[k].kind \in {"Record", "Error"} => PartSize(ps[k]) = HEADER_LEN + CipherLen(ps[k])
  BY Sizes, Zenon
<1>2. ps[k].kind \in {"Record", "Error"}
  OBVIOUS
<1> QED BY <1>1, <1>2, Zenon

LEMMA StartsGrow ==
    ASSUME NEW ps, NEW st, Laid(ps, st),
           NEW j \in 1 .. Len(ps) + 1, NEW k \in 1 .. Len(ps) + 1, j <= k
    PROVE  st[j] <= st[k]
<1>1. j \in DOMAIN st /\ k \in DOMAIN st /\ st[j] \in Nat /\ st[k] \in Nat
  BY LaidFacts
<1>2. j < k => st[j] < st[k]
  BY <1>1 DEF Laid
<1> QED BY <1>1, <1>2

\* A byte belongs to one part.
LEMMA PartIs ==
    ASSUME NEW ps, NEW st, Laid(ps, st), NEW k \in 1 .. Len(ps), NEW b \in Nat,
           st[k] < b, b <= st[k + 1]
    PROVE  PartIn(ps, st, b) = k
<1>1. Len(ps) \in Nat /\ DOMAIN ps = 1 .. Len(ps)
  BY LaidFacts
<1>2. ASSUME NEW j \in 1 .. Len(ps), st[j] < b, b <= st[j + 1]
      PROVE  j = k
  <2>1. st[j] \in Nat /\ st[j + 1] \in Nat /\ st[k] \in Nat /\ st[k + 1] \in Nat
    BY Sizes
  <2>2. j < k => st[j + 1] <= st[k]
    BY <1>1, StartsGrow
  <2>3. k < j => st[k + 1] <= st[j]
    BY <1>1, StartsGrow
  <2> QED BY <1>1, <1>2, <2>1, <2>2, <2>3
<1> QED BY <1>1, <1>2 DEF PartIn

\* No record stands before the third part.
LEMMA RankOfStart ==
    ASSUME NEW ps, NEW st, Laid(ps, st), Len(ps) >= 2
    PROVE  Rank(ps, st, st[3]) = 0
<1>1. Len(ps) \in Nat /\ st[1] = 0 /\ st[2] \in Nat /\ st[3] \in Nat
  BY LaidFacts
<1>2. ASSUME NEW c \in 1 .. st[3] PROVE ~PlainIn(ps, st, c)
  <2>0. c \in Nat /\ c > 0 /\ c <= st[3]
    BY <1>1
  <2>1. CASE c <= st[2]
    <3>1. 1 \in 1 .. Len(ps)
      BY <1>1
    <3>2. st[1] < c /\ c <= st[1 + 1]
      BY <1>1, <2>0, <2>1
    <3>3. PartIn(ps, st, c) = 1
      BY <3>1, <3>2, <2>0, PartIs
    <3>4. ps[1].kind # "Record"
      BY <3>1, Sizes
    <3> QED BY <3>3, <3>4 DEF PlainIn
  <2>2. CASE c > st[2]
    <3>1. 2 \in 1 .. Len(ps)
      BY <1>1
    <3>2. st[2] < c /\ c <= st[2 + 1]
      BY <1>1, <2>0, <2>2
    <3>3. PartIn(ps, st, c) = 2
      BY <3>1, <3>2, <2>0, PartIs
    <3>4. ps[2].kind # "Record"
      BY <3>1, Sizes
    <3> QED BY <3>3, <3>4 DEF PlainIn
  <2> QED BY <1>1, <2>0, <2>1, <2>2
<1>3. {c \in 1 .. st[3] : PlainIn(ps, st, c)} = {}
  BY <1>2
<1> QED BY <1>3, FS_EmptySet DEF Rank

LEMMA RankNat ==
    ASSUME NEW ps, NEW st, NEW b \in Nat
    PROVE  Rank(ps, st, b) \in Nat
<1>1. IsFiniteSet(1 .. b)
  BY FS_Interval
<1>2. {c \in 1 .. b : PlainIn(ps, st, c)} \subseteq 1 .. b
  OBVIOUS
<1> QED BY <1>1, <1>2, FS_Subset, FS_CardinalityType DEF Rank

\* The plaintext of a record follows its header.
LEMMA PlainOfRecord ==
    ASSUME NEW ps, NEW st, Laid(ps, st), NEW k \in 1 .. Len(ps), ps[k].kind = "Record",
           NEW c \in Nat, st[k] < c, c <= st[k + 1]
    PROVE  PlainIn(ps, st, c) <=> st[k] + HEADER_LEN < c /\ c <= st[k] + HEADER_LEN + ps[k].length
<1>1. PartIn(ps, st, c) = k
  BY PartIs
<1>2. st[k] \in Nat /\ HEADER_LEN \in Nat /\ ps[k].length \in Nat
  BY Sizes
<1>3. ASSUME NEW s \in Nat, NEW h \in Nat, NEW l \in Nat
      PROVE  c - s \in h + 1 .. h + l <=> s + h < c /\ c <= s + h + l
  OBVIOUS
<1>4. c - st[k] \in HEADER_LEN + 1 .. HEADER_LEN + ps[k].length
        <=> st[k] + HEADER_LEN < c /\ c <= st[k] + HEADER_LEN + ps[k].length
  BY <1>2, <1>3, Zenon
<1> QED BY <1>1, <1>4, Zenon DEF PlainIn

\* And is counted from there: up to its m-th byte, or to the end of the record.
LEMMA IntervalSize ==
    ASSUME NEW lo \in Int, NEW m \in Nat
    PROVE  IsFiniteSet(lo + 1 .. lo + m) /\ Cardinality(lo + 1 .. lo + m) = m
<1>1. lo + 1 \in Int /\ lo + m \in Int
  OBVIOUS
<1>2. /\ IsFiniteSet(lo + 1 .. lo + m)
      /\ Cardinality(lo + 1 .. lo + m) = IF lo + 1 > lo + m THEN 0 ELSE lo + m - (lo + 1) + 1
  BY <1>1, FS_Interval
<1> QED BY <1>2

Span(s, h, l, e, m, b) ==
    /\ b <= e /\ s <= b /\ s + h + m <= b
    /\ s + h + 1 \in Int /\ s + h + m \in Int /\ m \in Nat
    /\ \A c \in s + h + 1 .. s + h + m :
          /\ c \in Nat /\ c >= 1 /\ c <= b /\ c <= e /\ s < c
          /\ s + h < c /\ c <= s + h + l

LEMMA RecordSpan ==
    ASSUME NEW s \in Nat, NEW h \in Nat, NEW l \in Nat, NEW t \in Nat, NEW e, e = s + (h + (l + t)),
           NEW m \in 0 .. l, NEW b \in Nat, b = s + h + m \/ (b = e /\ m = l)
    PROVE  Span(s, h, l, e, m, b)
BY DEF Span

LEMMA RecordCut ==
    ASSUME NEW s \in Nat, NEW h \in Nat, NEW l \in Nat, NEW m \in 0 .. l, NEW b \in Nat,
           b = s + h + m \/ m = l, NEW c \in Nat, c <= b, s + h < c, c <= s + h + l
    PROVE  c \in s + h + 1 .. s + h + m
OBVIOUS

LEMMA RecordByte ==
    ASSUME NEW s \in Nat, NEW h \in Nat, NEW l \in Nat, NEW t \in Nat, NEW e, e = s + (h + (l + t)),
           NEW m \in 1 .. l
    PROVE  /\ s + h + m \in Nat /\ s < s + h + m /\ s + h + m <= e
           /\ s + h < s + h + m /\ s + h + m <= s + h + l
OBVIOUS

LEMMA RankInRecord ==
    ASSUME NEW ps, NEW st, Laid(ps, st), NEW k \in 1 .. Len(ps), ps[k].kind = "Record",
           NEW b \in Nat, NEW m \in 0 .. ps[k].length,
           b = st[k] + HEADER_LEN + m \/ (b = st[k + 1] /\ m = ps[k].length)
    PROVE  Rank(ps, st, b) = Rank(ps, st, st[k]) + m
<1> DEFINE Here == st[k] + HEADER_LEN + 1 .. st[k] + HEADER_LEN + m
           Past == {c \in 1 .. st[k] : PlainIn(ps, st, c)}
           All == {c \in 1 .. b : PlainIn(ps, st, c)}
<1>1. st[k] \in Nat /\ HEADER_LEN \in Nat /\ TAG_LEN \in Nat /\ ps[k].length \in Nat /\ m \in Nat
      /\ st[k + 1] = st[k] + (HEADER_LEN + (ps[k].length + TAG_LEN)) /\ m <= ps[k].length
  <2>1. st[k] \in Nat /\ HEADER_LEN \in Nat /\ TAG_LEN \in Nat /\ ps[k].length \in Nat
    BY Sizes
  <2>2. st[k + 1] = st[k] + (HEADER_LEN + (ps[k].length + TAG_LEN))
    BY RecordSize, Zenon
  <2>3. m \in Nat /\ m <= ps[k].length
    BY <2>1
  <2> QED BY <2>1, <2>2, <2>3, Zenon
<1>2. /\ b <= st[k + 1] /\ st[k] <= b /\ st[k] + HEADER_LEN + m <= b
      /\ st[k] + HEADER_LEN + 1 \in Int /\ st[k] + HEADER_LEN + m \in Int /\ m \in Nat
      /\ \A c \in Here :
            /\ c \in Nat /\ c >= 1 /\ c <= b /\ c <= st[k + 1] /\ st[k] < c
            /\ st[k] + HEADER_LEN < c /\ c <= st[k] + HEADER_LEN + ps[k].length
  <2>1. st[k] \in Nat /\ HEADER_LEN \in Nat /\ TAG_LEN \in Nat /\ ps[k].length \in Nat
    BY <1>1
  <2>2. st[k + 1] = st[k] + (HEADER_LEN + (ps[k].length + TAG_LEN))
    BY <1>1
  <2>3. Span(st[k], HEADER_LEN, ps[k].length, st[k + 1], m, b)
    BY <2>1, <2>2, RecordSpan, Zenon
  <2> QED BY <2>3, Zenon DEF Span
<1>3. ASSUME NEW c \in All PROVE c \in Past \/ c \in Here
  <2>1. c \in Nat /\ c >= 1 /\ c <= b /\ PlainIn(ps, st, c)
    OBVIOUS
  <2>2. CASE c <= st[k]
    BY <1>1, <2>1, <2>2
  <2>3. CASE st[k] < c
    <3>1. c <= st[k + 1]
      <4>1. b <= st[k + 1] /\ c <= b /\ c \in Nat
        BY <1>2, <2>1, Zenon
      <4>2. st[k + 1] \in Nat
        BY Sizes
      <4> QED BY <4>1, <4>2
    <3>2. st[k] + HEADER_LEN < c /\ c <= st[k] + HEADER_LEN + ps[k].length
      BY <2>1, <2>3, <3>1, PlainOfRecord
    <3>3. st[k] \in Nat /\ HEADER_LEN \in Nat /\ ps[k].length \in Nat
      BY <1>1
    <3>4. c \in Nat /\ c <= b
      BY <2>1
    <3>5. b = st[k] + HEADER_LEN + m \/ m = ps[k].length
      BY Zenon
    <3> QED BY <3>2, <3>3, <3>4, <3>5, RecordCut, Zenon
  <2>4. c <= st[k] \/ st[k] < c
    <3>1. st[k] \in Nat /\ c \in Nat
      BY <1>1, <2>1
    <3> QED BY <3>1
  <2> QED BY <2>2, <2>3, <2>4, Zenon
<1>4. ASSUME NEW c \in Past PROVE c \in All
  BY <1>1, <1>2
<1>5. ASSUME NEW c \in Here PROVE c \in All
  <2>1. c \in Nat /\ c >= 1 /\ c <= b /\ c <= st[k + 1] /\ st[k] < c
        /\ st[k] + HEADER_LEN < c /\ c <= st[k] + HEADER_LEN + ps[k].length
    BY <1>2, Zenon
  <2>2. PlainIn(ps, st, c)
    BY <2>1, PlainOfRecord
  <2> QED BY <2>1, <2>2
<1>6. All = Past \cup Here
  BY <1>3, <1>4, <1>5
<1>7. Past \cap Here = {}
  BY <1>1
<1>8. IsFiniteSet(1 .. st[k]) /\ Past \subseteq 1 .. st[k]
  <2>1. 1 \in Int /\ st[k] \in Int
    BY <1>1
  <2> QED BY <2>1, FS_Interval
<1>9. IsFiniteSet(Past) /\ Cardinality(Past) \in Nat
  BY <1>8, FS_Subset, FS_CardinalityType
<1>11. st[k] + HEADER_LEN \in Int
  BY <1>1
<1>12. IsFiniteSet(Here) /\ Cardinality(Here) = m
  BY <1>1, <1>11, IntervalSize, Zenon
<1>13. Cardinality(All) = Cardinality(Past) + Cardinality(Here) - Cardinality(Past \cap Here)
  BY <1>6, <1>9, <1>12, FS_Union
<1>14. Cardinality(Past \cap Here) = 0
  BY <1>7, FS_EmptySet
<1>15. Cardinality(All) = Cardinality(Past) + m
  BY <1>1, <1>9, <1>12, <1>13, <1>14
<1> QED BY <1>15 DEF Rank

\* The plaintext of the next record continues what went before it.
LEMMA PlaintextSeq ==
    ASSUME NEW s \in Nat, NEW h \in Nat, NEW l \in Nat
    PROVE  LET t == [i \in 1 .. l |-> s + h + i]
           IN  t \in Seq(Nat) /\ Len(t) = l /\ \A i \in 1 .. l : t[i] = s + h + i
OBVIOUS

LEMMA RankedMore ==
    ASSUME NEW ps, NEW st, Laid(ps, st), NEW k \in 1 .. Len(ps), ps[k].kind = "Record",
           NEW s \in Seq(Nat), NEW e \in Nat, Ranked(ps, st, s, e),
           e + Len(s) = Rank(ps, st, st[k])
    PROVE  /\ Ranked(ps, st, s \o PlainOf(ps, st, k), e)
           /\ Rank(ps, st, st[k + 1]) = e + Len(s) + ps[k].length
<1> DEFINE t == PlainOf(ps, st, k)
<1>1. st[k] \in Nat /\ HEADER_LEN \in Nat /\ ps[k].length \in Nat /\ st[k + 1] \in Nat /\ TAG_LEN \in Nat
      /\ st[k + 1] = st[k] + (HEADER_LEN + (ps[k].length + TAG_LEN))
  <2>1. /\ st[k] \in Nat /\ HEADER_LEN \in Nat /\ ps[k].length \in Nat /\ st[k + 1] \in Nat
        /\ TAG_LEN \in Nat
    BY Sizes
  <2> QED BY <2>1, RecordSize, Zenon
<1>0. ps[k].length \in 0 .. ps[k].length
  BY <1>1
<1>2. Rank(ps, st, st[k + 1]) = Rank(ps, st, st[k]) + ps[k].length
  <2>1. st[k + 1] \in Nat
    BY <1>1
  <2> HIDE <1>1
  <2> QED BY <1>0, <2>1, RankInRecord, ZenonT(60)
<1>3. t \in Seq(Nat) /\ Len(t) = ps[k].length /\ \A i \in 1 .. ps[k].length : t[i] = st[k] + HEADER_LEN + i
  BY <1>1, PlaintextSeq, ZenonT(60) DEF PlainOf
<1> HIDE DEF t
<1>30. t \in Seq(Nat) /\ Len(t) = ps[k].length /\ Len(t) \in Nat
  BY <1>1, <1>3
<1>4. ASSUME NEW i \in 1 .. Len(s \o t)
      PROVE  PlainIn(ps, st, (s \o t)[i]) /\ Rank(ps, st, (s \o t)[i]) = e + i
  <2>0. Len(s \o t) = Len(s) + Len(t) /\ Len(s) \in Nat /\ i \in Nat
    <3>1. Len(s \o t) = Len(s) + Len(t) /\ Len(s) \in Nat /\ Len(s \o t) \in Nat
      <4>1. t \in Seq(Nat)
        BY <1>30
      <4> QED BY <4>1
    <3> QED BY <3>1
  <2>1. CASE i <= Len(s)
    <3>1. (s \o t)[i] = s[i] /\ i \in 1 .. Len(s)
      BY <2>0, <2>1, <1>3
    <3> QED BY <3>1 DEF Ranked
  <2>2. CASE i > Len(s)
    <3> DEFINE m == i - Len(s)
    <3>1. m \in 1 .. ps[k].length /\ (s \o t)[i] = t[m]
      <4>1. i \in 1 .. Len(s) + Len(t)
        BY <2>0
      <4>2. m \in 1 .. Len(t)
        <5>1. Len(t) \in Nat /\ Len(s) \in Nat
          BY <1>30
        <5> QED BY <5>1, <4>1, <2>2
      <4>3. (s \o t)[i] = t[i - Len(s)]
        BY <2>0, <2>2, <4>1, <1>3
      <4> QED BY <4>2, <4>3, <1>3
    <3>2. t[m] = st[k] + HEADER_LEN + m
      BY <3>1, <1>3
    <3>3. e + i = e + Len(s) + m /\ m \in Nat /\ m \in 0 .. ps[k].length
      BY <2>0, <3>1, <1>1
    <3> DEFINE c == st[k] + HEADER_LEN + m
    <3>4. c \in Nat /\ st[k] < c /\ c <= st[k + 1] /\ st[k] + HEADER_LEN < c
          /\ c <= st[k] + HEADER_LEN + ps[k].length
      BY <1>1, <3>1, RecordByte, Zenon
    <3>5. Rank(ps, st, c) = Rank(ps, st, st[k]) + m
      BY <3>3, <3>4, RankInRecord
    <3>6. PlainIn(ps, st, c)
      BY <3>4, PlainOfRecord
    <3> QED BY <3>1, <3>2, <3>3, <3>5, <3>6
  <2>3. Len(s) \in Nat /\ i \in Nat
    BY <2>0
  <2>4. i <= Len(s) \/ i > Len(s)
    BY <2>3
  <2> QED BY <2>1, <2>2, <2>4, Zenon
<1>5. e + Len(s) + ps[k].length = Rank(ps, st, st[k + 1])
  BY <1>2
<1> QED BY <1>4, <1>5, Zenon DEF Ranked, t

\* Without its first e bytes it is ranked from e.
LEMMA RankedRest ==
    ASSUME NEW ps, NEW st, NEW s \in Seq(Nat), NEW e \in Nat, e <= Len(s), Ranked(ps, st, s, 0)
    PROVE  Ranked(ps, st, SubSeq(s, e + 1, Len(s)), e) /\ SubSeq(s, e + 1, Len(s)) \in Seq(Nat)
           /\ Len(SubSeq(s, e + 1, Len(s))) = Len(s) - e
<1>1. Len(s) \in Nat
  OBVIOUS
<1>2. SubSeq(s, e + 1, Len(s)) \in Seq(Nat) /\ Len(SubSeq(s, e + 1, Len(s))) = Len(s) - e
  BY <1>1
<1>3. ASSUME NEW i \in 1 .. Len(s) - e
      PROVE  PlainIn(ps, st, SubSeq(s, e + 1, Len(s))[i]) /\ Rank(ps, st, SubSeq(s, e + 1, Len(s))[i]) = e + i
  <2>1. SubSeq(s, e + 1, Len(s))[i] = s[e + i] /\ e + i \in 1 .. Len(s)
    BY <1>1
  <2>2. PlainIn(ps, st, s[e + i]) /\ Rank(ps, st, s[e + i]) = 0 + (e + i)
    BY <2>1 DEF Ranked
  <2>3. 0 + (e + i) = e + i
    BY <1>1
  <2> QED BY <2>1, <2>2, <2>3
<1> QED BY <1>2, <1>3 DEF Ranked

-----------------------------------------------------------------------------
(* The next part.                                                          *)

LEMMA Sizing ==
    /\ HEADER_LEN \in Nat \ {0} /\ TAG_LEN \in Nat \ {0} /\ RESPONSE_LEN \in Nat
    /\ RESPONSE_LEN >= HEADER_LEN /\ MAX_CIPHERTEXT_SIZE \in Nat /\ MAX_CIPHERTEXT_SIZE > TAG_LEN
    /\ BUF["fw"] \in Nat /\ BUF["host"] \in Nat /\ BUF["fw"] <= RAW
    /\ RAW \in Nat /\ PENDING \in Nat /\ PENDING >= MAX_CIPHERTEXT_SIZE
    /\ RAW >= HEADER_LEN + MAX_CIPHERTEXT_SIZE
<1>1. BUF["fw"] \in Nat /\ BUF["host"] \in Nat /\ BUF["fw"] <= RAW
  BY ControlAssumption
<1> QED BY <1>1, ControlAssumption DEF RAW, PENDING, MAX_MESSAGE_SIZE

LEMMA Widest ==
    /\ Max({RAW, BUF["host"]}) \in Nat
    /\ RAW <= Max({RAW, BUF["host"]}) /\ BUF["host"] <= Max({RAW, BUF["host"]})
    /\ BUF["fw"] <= Max({RAW, BUF["host"]})
<1>1. RAW \in Nat /\ BUF["host"] \in Nat /\ BUF["fw"] \in Nat /\ BUF["fw"] <= RAW
  BY Sizing
<1> DEFINE S == {RAW, BUF["host"]}
<1>2. \E x \in S : \A y \in S : x >= y
  BY <1>1
<1>3. Max(S) \in S /\ \A y \in S : Max(S) >= y
  BY <1>2 DEF Max
<1>4. Max(S) \in Nat /\ Max(S) >= RAW /\ Max(S) >= BUF["host"]
  BY <1>1, <1>3
<1> QED BY <1>1, <1>4

LEMMA TotalIs ==
    ASSUME KindsInv
    PROVE  Total = starts[Len(parts) + 1] /\ Total \in Nat /\ Len(parts) \in Nat \ {0}
BY LaidFacts DEF KindsInv, Total

\* A byte of the part that is next.
LEMMA InNextPart ==
    ASSUME KindsInv, rx_nonce + 3 \in 1 .. Len(parts), NEW b \in Nat,
           starts[rx_nonce + 3] < b, b <= starts[rx_nonce + 4]
    PROVE  PartOf(b) = rx_nonce + 3 /\ PartAt(b) = parts[rx_nonce + 3]
<1>1. Laid(parts, starts) /\ rx_nonce \in Nat
  BY DEF KindsInv
<1>2. rx_nonce + 4 = (rx_nonce + 3) + 1
  BY <1>1
<1>3. PartIn(parts, starts, b) = rx_nonce + 3
  BY <1>1, <1>2, PartIs
<1> QED BY <1>3, NamesOfScript DEF PartAt

LEMMA NonceIs ==
    ASSUME KindsInv, Behind, NEW b, PartOf(b) = rx_nonce + 3
    PROVE  Nonce(b) = rx_nonce
<1>1. Laid(parts, starts) /\ rx_nonce \in Nat /\ Len(parts) \in Nat
  BY LaidFacts DEF KindsInv
<1>2. \A k \in 1 .. rx_nonce + 2 : parts[k].kind = "Record" <=> k \in 3 .. rx_nonce + 2
  <2> TAKE k \in 1 .. rx_nonce + 2
  <2>1. k \in 1 .. Len(parts)
    BY <1>1 DEF Behind
  <2>2. k <= 2 => parts[k].kind # "Record"
    BY <1>1, <2>1, Sizes
  <2>3. k \in 3 .. rx_nonce + 2 => parts[k].kind = "Record"
    BY DEF Behind
  <2>4. k \in 3 .. rx_nonce + 2 <=> ~(k <= 2)
    BY <1>1
  <2> QED BY <2>2, <2>3, <2>4
<1>3. PartOf(b) - 1 = rx_nonce + 2
  BY <1>1
<1>4. {k \in 1 .. PartOf(b) - 1 : parts[k].kind = "Record"} = 2 + 1 .. 2 + rx_nonce
  <2>1. 2 + 1 .. 2 + rx_nonce = 3 .. rx_nonce + 2
    BY <1>1
  <2>2. \A k : k \in 3 .. rx_nonce + 2 => k \in 1 .. rx_nonce + 2
    BY <1>1
  <2> QED BY <1>2, <1>3, <2>1, <2>2
<1>5. 2 \in Int
  OBVIOUS
<1> QED BY <1>1, <1>4, <1>5, IntervalSize DEF Nonce

\* What stands where the last record ended.
NextIs(b) ==
    /\ rx_nonce + 3 \in 1 .. Len(parts)
    /\ PartOf(b) = rx_nonce + 3 /\ PartAt(b) = parts[rx_nonce + 3]
    /\ Aligned(b)
    /\ Opened(b) <=> parts[rx_nonce + 3].kind = "Record"
    /\ parts[rx_nonce + 3].kind \in {"Record", "Error"}
    /\ starts[rx_nonce + 3] \in Nat /\ starts[rx_nonce + 4] \in Nat
    /\ CipherLen(parts[rx_nonce + 3]) \in Nat /\ parts[rx_nonce + 3].length \in Nat
    /\ starts[rx_nonce + 4] = starts[rx_nonce + 3] + (HEADER_LEN + CipherLen(parts[rx_nonce + 3]))
    /\ starts[rx_nonce + 4] <= Total
    /\ Plaintext(b) = PlainOf(parts, starts, rx_nonce + 3)

\* Where a part starts that is neither the first nor the second.
LEMMA PlaceOfNext ==
    ASSUME KindsInv, Behind, NEW b \in Nat, starts[rx_nonce + 3] < b, b <= Total
    PROVE  /\ rx_nonce + 3 \in 1 .. Len(parts)
           /\ parts[rx_nonce + 3].kind \in {"Record", "Error"}
           /\ starts[rx_nonce + 3] \in Nat /\ starts[rx_nonce + 4] \in Nat
           /\ starts[rx_nonce + 3] < starts[rx_nonce + 4]
           /\ CipherLen(parts[rx_nonce + 3]) \in Nat /\ parts[rx_nonce + 3].length \in Nat
           /\ starts[rx_nonce + 4] = starts[rx_nonce + 3] + (HEADER_LEN + CipherLen(parts[rx_nonce + 3]))
           /\ starts[rx_nonce + 4] <= Total
<1>1. Laid(parts, starts) /\ rx_nonce \in Nat /\ Len(parts) \in Nat
  BY LaidFacts DEF KindsInv
<1>2. Total = starts[Len(parts) + 1] /\ Total \in Nat
  BY TotalIs
<1>3. rx_nonce + 2 <= Len(parts)
  BY DEF Behind
<1> DEFINE k == rx_nonce + 3
<1>4. starts[k] \in Nat
  <2>1. k \in 1 .. Len(parts) + 1
    BY <1>1, <1>3
  <2> QED BY <1>1, <2>1, LaidFacts
<1>5. k # Len(parts) + 1
  <2>1. starts[k] # Total
    BY <1>2, <1>4
  <2> QED BY <1>2, <2>1
<1>6. k \in 1 .. Len(parts) /\ rx_nonce + 4 = k + 1 /\ k > 2
      /\ k + 1 \in 1 .. Len(parts) + 1 /\ k + 1 <= Len(parts) + 1 /\ Len(parts) + 1 \in 1 .. Len(parts) + 1
  BY <1>1, <1>3, <1>5
<1>7. starts[k + 1] <= starts[Len(parts) + 1]
  BY <1>1, <1>6, StartsGrow
<1> HIDE DEF k
<1>8. /\ parts[k].kind \in {"Record", "Error"}
      /\ starts[k + 1] \in Nat /\ starts[k] < starts[k + 1]
      /\ CipherLen(parts[k]) \in Nat /\ parts[k].length \in Nat
      /\ starts[k + 1] = starts[k] + (HEADER_LEN + CipherLen(parts[k]))
  <2>1. /\ k > 2 => parts[k].kind \in {"Record", "Error"}
        /\ starts[k + 1] \in Nat /\ starts[k] < starts[k + 1] /\ parts[k].length \in Nat
        /\ CipherLen(parts[k]) \in Nat /\ starts[k + 1] = starts[k] + PartSize(parts[k])
        /\ parts[k].kind \in {"Record", "Error"} => PartSize(parts[k]) = HEADER_LEN + CipherLen(parts[k])
    BY <1>1, <1>6, Sizes, Zenon
  <2>2. parts[k].kind \in {"Record", "Error"}
    BY <1>6, <2>1, Zenon
  <2> QED BY <2>1, <2>2, Zenon
<1> QED BY <1>2, <1>4, <1>6, <1>7, <1>8, Zenon DEF k

LEMMA NextPart ==
    ASSUME KindsInv, Behind, NEW b \in Nat, b = starts[rx_nonce + 3] + 1, b <= Total
    PROVE  NextIs(b)
<1>1. Laid(parts, starts) /\ rx_nonce \in Nat /\ Len(parts) \in Nat /\ HEADER_LEN \in Nat
  BY LaidFacts, Sizing DEF KindsInv
<1> DEFINE k == rx_nonce + 3
<1>2. starts[k] \in Nat
  <2>1. k \in 1 .. Len(parts) + 1
    BY <1>1 DEF Behind
  <2> QED BY <1>1, <2>1, LaidFacts
<1>3. starts[k] < b
  BY <1>2
<1>4. /\ k \in 1 .. Len(parts) /\ parts[k].kind \in {"Record", "Error"}
      /\ starts[rx_nonce + 4] \in Nat /\ starts[k] < starts[rx_nonce + 4]
      /\ CipherLen(parts[k]) \in Nat /\ parts[k].length \in Nat
      /\ starts[rx_nonce + 4] = starts[k] + (HEADER_LEN + CipherLen(parts[k]))
      /\ starts[rx_nonce + 4] <= Total
  BY <1>3, PlaceOfNext
<1>5. b <= starts[rx_nonce + 4]
  BY <1>2, <1>4
<1>6. PartOf(b) = k /\ PartAt(b) = parts[k]
  BY <1>3, <1>4, <1>5, InNextPart
<1>7. Aligned(b)
  BY <1>6 DEF Aligned
<1>8. Nonce(b) = rx_nonce
  BY <1>6, NonceIs
<1>9. Opened(b) <=> parts[k].kind = "Record"
  BY <1>6, <1>7, <1>8 DEF Opened
<1>10. Plaintext(b) = PlainOf(parts, starts, k)
  <2>1. HEADER_LEN \in Nat /\ starts[k] \in Nat /\ parts[k].length \in Nat
    BY <1>1, <1>2, <1>4
  <2>2. ASSUME NEW c, NEW h \in Nat, NEW s \in Nat, c = s + 1, NEW i \in Int
        PROVE  c + h + i - 1 = s + h + i
    BY <2>2
  <2>3. ASSUME NEW i \in 1 .. parts[k].length
        PROVE  b + HEADER_LEN + i - 1 = starts[k] + HEADER_LEN + i
    <3>1. i \in Int
      BY <2>1
    <3>2. b = starts[k] + 1
      OBVIOUS
    <3> QED BY <2>1, <2>2, <3>1, <3>2
  <2> QED BY <1>6, <2>3, Zenon DEF Plaintext, PlainOf
<1> QED BY <1>2, <1>4, <1>6, <1>7, <1>9, <1>10 DEF NextIs

\* With something staged, that is what `raw` starts with.
LEMMA HeadPart ==
    ASSUME ControlInv, ~Shaking, Len(raw) >= 1
    PROVE  /\ NextIs(Head(raw)) /\ read - Len(raw) = starts[rx_nonce + 3]
           /\ RawLen = CipherLen(parts[rx_nonce + 3])
<1>1. KindsInv /\ Behind /\ (read - Len(raw) = starts[rx_nonce + 3] \/ Lost)
  BY DEF ControlInv, PlaceInv
<1>2. raw \in Seq(Nat) /\ Len(raw) \in Nat /\ read \in Nat /\ read <= Total /\ Total \in Nat
  <2>1. raw \in Seq(Nat) /\ read \in 0 .. Total /\ Total \in Nat
    BY <1>1, TotalIs DEF ControlInv, ControlTypeOK, KindsInv
  <2> QED BY <2>1
<1>3. raw # <<>> /\ Head(raw) = raw[1] /\ 1 \in 1 .. Len(raw)
  BY <1>2
<1>4. read - Len(raw) = starts[rx_nonce + 3]
  BY <1>1, <1>3 DEF Lost
<1>5. raw[1] = read - Len(raw) + 1 /\ Len(raw) <= read
  BY <1>3 DEF ControlInv, RawInv, LastOf
<1>6. Head(raw) \in Nat /\ Head(raw) = starts[rx_nonce + 3] + 1 /\ Head(raw) <= Total
  BY <1>2, <1>3, <1>4, <1>5
<1>7. NextIs(Head(raw))
  BY <1>1, <1>6, NextPart
<1> QED BY <1>4, <1>7 DEF NextIs, RawLen

-----------------------------------------------------------------------------
(* The invariant, step by step.                                            *)

LEMMA InvTypes ==
    ASSUME ControlInv
    PROVE  /\ Laid(parts, starts) /\ Len(parts) \in Nat \ {0} /\ early \in Nat
           /\ program \in {"fw", "host"} /\ BUF[program] \in Nat
           /\ raw \in Seq(Nat) /\ pending \in Seq(Nat) /\ delivered \in Seq(Nat)
           /\ Len(raw) \in Nat /\ Len(pending) \in Nat /\ Len(delivered) \in Nat
           /\ rx_nonce \in Nat /\ before \in Int
           /\ read \in Nat /\ started \in Nat /\ started <= read /\ read <= Total /\ Total \in Nat
           /\ Len(raw) <= read
<1>1. KindsInv
  BY DEF ControlInv
<1>2. Total \in Nat /\ Len(parts) \in Nat \ {0}
  BY <1>1, TotalIs
<1>3. program \in {"fw", "host"} /\ read \in 0 .. Total /\ started \in 0 .. read
  BY DEF ControlInv, ControlTypeOK
<1>4. read \in Nat /\ started \in Nat /\ started <= read /\ read <= Total
  BY <1>2, <1>3
<1>5. /\ Laid(parts, starts) /\ early \in Nat
      /\ raw \in Seq(Nat) /\ pending \in Seq(Nat) /\ delivered \in Seq(Nat)
      /\ rx_nonce \in Nat /\ before \in Int
  BY <1>1 DEF KindsInv
<1>6. Len(raw) \in Nat /\ Len(pending) \in Nat /\ Len(delivered) \in Nat
  BY <1>5
<1>7. BUF[program] \in Nat
  BY <1>3, Sizing
<1>8. Len(raw) <= read
  BY DEF ControlInv, RawInv, LastOf
<1> QED BY <1>2, <1>3, <1>4, <1>5, <1>6, <1>7, <1>8, Zenon

\* What cannot be sent is not read.
LEMMA AvailableBound ==
    ASSUME ControlInv
    PROVE  Available \in Nat /\ Available <= Total
<1>1. Laid(parts, starts) /\ Len(parts) \in Nat /\ Total \in Nat /\ KindsInv
  BY InvTypes DEF ControlInv
<1>2. CASE Len(parts) < 3
  BY <1>1, <1>2 DEF Available
<1>3. CASE Len(parts) >= 3
  <2>1. 3 \in 1 .. Len(parts) + 1 /\ Len(parts) + 1 \in 1 .. Len(parts) + 1 /\ 3 <= Len(parts) + 1
    BY <1>1, <1>3
  <2>2. starts[3] \in Nat /\ starts[3] <= starts[Len(parts) + 1]
    BY <1>1, <2>1, StartsGrow, LaidFacts
  <2>3. starts[3] <= Total
    BY <1>1, <2>2, TotalIs
  <2> QED BY <1>1, <2>2, <2>3 DEF Available
<1> QED BY <1>1, <1>2, <1>3

\* A read and a cut leave the end of what was read.
LEMMA ReadMore ==
    ASSUME NEW r \in Seq(Nat), NEW k \in Nat, NEW n \in Nat, LastOf(r, k)
    PROVE  LET q == r \o [i \in 1 .. n |-> k + i]
           IN  q \in Seq(Nat) /\ Len(q) = Len(r) + n /\ LastOf(q, k + n)
<1> DEFINE s == [i \in 1 .. n |-> k + i]
           q == r \o s
<1>1. s \in Seq(Nat) /\ Len(s) = n /\ Len(r) \in Nat
  OBVIOUS
<1>2. \A i \in 1 .. n : s[i] = k + i
  OBVIOUS
<1> HIDE DEF s
<1>3. q \in Seq(Nat) /\ Len(q) = Len(r) + n
  <2>1. s \in Seq(Nat)
    BY <1>1
  <2>2. r \o s \in Seq(Nat) /\ Len(r \o s) = Len(r) + Len(s)
    BY <2>1
  <2> QED BY <1>1, <2>2, Zenon
<1>4. Len(r) <= k /\ \A i \in 1 .. Len(r) : r[i] = k - Len(r) + i
  BY DEF LastOf
<1>5. ASSUME NEW i \in 1 .. Len(r) + n PROVE q[i] = (k + n) - (Len(r) + n) + i
  <2>1. CASE i <= Len(r)
    <3>1. q[i] = r[i] /\ i \in 1 .. Len(r)
      BY <1>1, <2>1
    <3>2. r[i] = k - Len(r) + i
      BY <1>4, <3>1
    <3> QED BY <1>1, <3>1, <3>2
  <2>2. CASE i > Len(r)
    <3>1. q[i] = s[i - Len(r)]
      BY <1>1, <2>2
    <3>2. i - Len(r) \in 1 .. n
      BY <1>1, <2>2
    <3>3. s[i - Len(r)] = k + (i - Len(r))
      BY <1>2, <3>2
    <3> QED BY <1>1, <3>1, <3>3
  <2> QED BY <1>1, <2>1, <2>2
<1>6. Len(r) + n <= k + n
  BY <1>1, <1>4
<1>7. LastOf(q, k + n)
  <2> HIDE DEF q
  <2> QED BY <1>3, <1>5, <1>6, Zenon DEF LastOf
<1> QED BY <1>3, <1>7 DEF s

LEMMA CutOff ==
    ASSUME NEW r \in Seq(Nat), NEW k \in Nat, NEW m \in Nat, m <= Len(r), LastOf(r, k)
    PROVE  LET q == SubSeq(r, m + 1, Len(r))
           IN  q \in Seq(Nat) /\ Len(q) = Len(r) - m /\ LastOf(q, k)
<1> DEFINE q == SubSeq(r, m + 1, Len(r))
<1>1. q \in Seq(Nat) /\ Len(q) = Len(r) - m /\ Len(r) \in Nat
  OBVIOUS
<1>2. Len(r) <= k /\ \A i \in 1 .. Len(r) : r[i] = k - Len(r) + i
  BY DEF LastOf
<1>3. ASSUME NEW i \in 1 .. Len(r) - m PROVE q[i] = k - (Len(r) - m) + i
  <2>0. Len(r) \in Nat
    OBVIOUS
  <2>1. q[i] = r[m + i] /\ m + i \in 1 .. Len(r)
    BY <2>0
  <2>2. r[m + i] = k - Len(r) + (m + i)
    BY <1>2, <2>1
  <2> QED BY <1>1, <2>1, <2>2
<1>4. Len(r) - m <= k
  BY <1>1, <1>2
<1>5. LastOf(q, k)
  <2> HIDE DEF q
  <2> QED BY <1>1, <1>3, <1>4, Zenon DEF LastOf
<1> QED BY <1>1, <1>5

\* A connection that ends keeps all the rest.
LEMMA FailKeeps ==
    ASSUME ControlInv, Opens, FailsForCause',
           NEW why \in {"Io", "Refused", "Handshake", "Truncated", "TooLarge", "Server", "Noise"},
           Fail(why)
    PROVE  ControlInv'
<1>1. /\ program' = program /\ parts' = parts /\ starts' = starts /\ early' = early
      /\ read' = read /\ started' = started /\ stage' = stage /\ at' = at /\ hello' = hello
      /\ raw' = raw /\ pending' = pending /\ before' = before /\ rx_nonce' = rx_nonce
      /\ delivered' = delivered /\ outcome' = why
  BY DEF Opens, Fail, scriptVars
<1>2. ControlTypeOK'
  <2>1. outcome' \in {"open", "Io", "Refused", "Handshake", "Truncated", "TooLarge", "Server", "Noise"}
    BY <1>1
  <2>2. ControlTypeOK
    BY DEF ControlInv
  <2> QED BY <1>1, <2>1, <2>2, Zenon DEF ControlTypeOK, Total
<1>3. KindsInv' /\ RawInv' /\ ShakingInv' /\ StartInv' /\ PumpInv' /\ FullInv'
  BY <1>1, Zenon DEF ControlInv, KindsInv, RawInv, ShakingInv, StartInv, PumpInv, FullInv, Shaking, Running
<1>4. PlaceInv' /\ PlainInv'
  BY <1>1, Zenon DEF ControlInv, PlaceInv, PlainInv, Behind, Lost, Shaking, Running
<1> QED BY <1>2, <1>3, <1>4 DEF ControlInv

\* These need no cause.
LEMMA NoCause ==
    ASSUME outcome' \in {"open", "Io", "Refused", "Handshake", "Server"}
    PROVE  FailsForCause'
BY DEF FailsForCause

\* A record too long for the protocol.
LEMMA OversizedCause ==
    ASSUME ControlInv, Opens, rx_nonce + 3 \in 1 .. Len(parts),
           parts[rx_nonce + 3].kind \in {"Record", "Error"},
           CipherLen(parts[rx_nonce + 3]) > MAX_CIPHERTEXT_SIZE, outcome' = "TooLarge"
    PROVE  FailsForCause'
<1>1. parts' = parts
  BY DEF Opens, scriptVars
<1>2. Oversized
  BY DEF Oversized
<1>3. Oversized'
  BY <1>1, <1>2, Zenon DEF Oversized
<1> QED BY <1>3 DEF FailsForCause

\* A record the host is in the middle of.
LEMMA MiddleCause ==
    ASSUME ControlInv, Opens, program = "host", started' = started,
           rx_nonce + 3 \in 1 .. Len(parts),
           starts[rx_nonce + 3] < started, started < starts[rx_nonce + 4],
           outcome' \in {"Noise", "Truncated"}
    PROVE  FailsForCause'
<1>1. parts' = parts /\ starts' = starts /\ program' = program
  BY DEF Opens, scriptVars
<1>2. KindsInv /\ started \in Nat /\ rx_nonce \in Nat /\ Laid(parts, starts) /\ Len(parts) \in Nat
  BY InvTypes DEF ControlInv
<1>3. starts[rx_nonce + 4] \in Nat /\ starts[rx_nonce + 3] \in Nat
  <2>1. rx_nonce + 3 \in 1 .. Len(parts) + 1 /\ rx_nonce + 4 \in 1 .. Len(parts) + 1
    BY <1>2
  <2> QED BY <1>2, <2>1, LaidFacts
<1>4. PartOf(started) = rx_nonce + 3
  <2>1. started <= starts[rx_nonce + 4]
    BY <1>2, <1>3
  <2> QED BY <1>2, <2>1, InNextPart
<1>5. ~EndOfPart(started)
  <2>1. (rx_nonce + 3) + 1 = rx_nonce + 4
    BY <1>2
  <2>2. started # starts[rx_nonce + 4]
    BY <1>2, <1>3
  <2> QED BY <1>4, <2>1, <2>2 DEF EndOfPart
<1>6. ~EndOfPart(started)'
  BY <1>1, <1>5, Zenon DEF EndOfPart, PartOf
<1> QED BY <1>1, <1>6 DEF FailsForCause

LEMMA ConnectionLostKeeps ==
    ASSUME ControlInv, ConnectionLost
    PROVE  ControlInv'
<1>1. Opens /\ Fail("Io")
  BY DEF ConnectionLost
<1>2. FailsForCause'
  BY <1>1, NoCause DEF Fail
<1> QED BY <1>1, <1>2, FailKeeps

LEMMA HandshakeFails ==
    ASSUME ControlInv, HandshakeFull \/ HandshakeRejected
    PROVE  ControlInv'
<1>1. PICK why \in {"Io", "Handshake", "Refused"} : Opens /\ Fail(why)
  BY DEF HandshakeFull, HandshakeRejected
<1>2. FailsForCause'
  BY <1>1, NoCause DEF Fail
<1> QED BY <1>1, <1>2, FailKeeps

LEMMA ReadHandshakeKeeps ==
    ASSUME ControlInv, NEW n \in 1 .. BUF[program], ReadHandshake(n)
    PROVE  ControlInv'
<1>0. Opens /\ Shaking
  BY DEF ReadHandshake, Shaking
<1>1. CASE Fail("Refused")
  <2>1. FailsForCause'
    BY <1>1, NoCause DEF Fail
  <2> QED BY <1>0, <1>1, <2>1, FailKeeps
<1>2. CASE ~Fail("Refused")
  <2>1. /\ raw' = raw \o Next_n(n) /\ read' = read + n
        /\ stage' = IF Len(raw') >= HeadLen THEN "response" ELSE "upgrade"
        /\ started' = started /\ at' = at /\ hello' = hello /\ pending' = pending /\ before' = before
        /\ rx_nonce' = rx_nonce /\ outcome' = outcome /\ delivered' = delivered
        /\ n <= BUF[program] - Len(raw) /\ read + n <= Available
    BY <1>2, Zenon DEF ReadHandshake
  <2>2. program' = program /\ parts' = parts /\ starts' = starts /\ early' = early
    BY <1>0 DEF Opens, scriptVars
  <2>3. /\ Len(raw) \in Nat /\ raw \in Seq(Nat) /\ read \in Nat /\ n \in Nat /\ BUF[program] \in Nat
        /\ started \in Nat /\ started <= read /\ Total \in Nat /\ Available \in Nat /\ Available <= Total
        /\ LastOf(raw, read)
    BY InvTypes, AvailableBound DEF ControlInv, RawInv
  <2>4. stage' \in {"upgrade", "response"}
    BY <2>1
  <2>5. raw' \in Seq(Nat) /\ Len(raw') = Len(raw) + n /\ LastOf(raw', read')
    BY <2>1, <2>3, ReadMore, Zenon DEF Next_n
  <2>6. Len(raw) = read /\ pending = <<>> /\ delivered = <<>> /\ at = "read"
    BY <1>0 DEF ControlInv, ShakingInv
  <2>7. ControlTypeOK'
    <3>1. read' \in 0 .. Total /\ started' \in 0 .. read'
      BY <2>1, <2>3
    <3>2. Len(raw') <= BUF[program]
      BY <2>1, <2>3, <2>5
    <3>3. Total' = Total
      BY <2>2 DEF Total
    <3>4. /\ program \in {"fw", "host"} /\ at \in {"use", "drain", "read"} /\ hello \in BOOLEAN
          /\ program = "fw" => Len(pending) <= PENDING
          /\ outcome \in {"open", "Io", "Refused", "Handshake", "Truncated", "TooLarge", "Server", "Noise"}
      BY DEF ControlInv, ControlTypeOK
    <3>5. stage' \in {"upgrade", "response", "start", "early", "body"}
      BY <2>4
    <3> QED BY <2>1, <2>2, <2>4, <3>1, <3>2, <3>3, <3>4, <3>5, Zenon DEF ControlTypeOK
  <2>8. KindsInv' /\ RawInv'
    BY <2>1, <2>2, <2>5, Zenon DEF ControlInv, KindsInv, RawInv
  <2>9. Shaking' /\ ~Running' /\ stage' # "start" /\ stage' \notin {"start", "early"} /\ stage' # "body"
    BY <2>4 DEF Shaking, Running
  <2>10. ShakingInv'
    BY <2>1, <2>5, <2>6 DEF ShakingInv
  <2>11. StartInv' /\ PumpInv' /\ FullInv' /\ PlaceInv' /\ PlainInv'
    BY <2>9, Zenon DEF StartInv, PumpInv, FullInv, PlaceInv, PlainInv
  <2>12. FailsForCause'
    BY <1>0, <2>1, NoCause DEF Opens
  <2> QED BY <2>7, <2>8, <2>10, <2>11, <2>12 DEF ControlInv
<1> QED BY <1>1, <1>2

\* The parts of an accepted connection begin with two that are no records.
LEMMA ResponseEnds ==
    ASSUME ControlInv, Shaking, HandshakeEnds, ~Rejected
    PROVE  /\ Len(parts) >= 2 /\ HeadLen + RESPONSE_LEN = starts[3]
           /\ starts[3] <= Len(raw) /\ starts[3] \in Nat
<1>1. /\ Laid(parts, starts) /\ Len(parts) \in Nat \ {0} /\ Len(raw) \in Nat /\ read \in Nat
      /\ read <= Total /\ Total \in Nat /\ KindsInv
  BY InvTypes DEF ControlInv
<1>2. Len(raw) = read
  BY DEF ControlInv, ShakingInv
<1>3. HEADER_LEN \in Nat \ {0} /\ RESPONSE_LEN \in Nat /\ RESPONSE_LEN >= HEADER_LEN
  BY Sizing
<1>4. 1 \in 1 .. Len(parts)
  BY <1>1
<1>5. starts[1] = 0 /\ starts[2] \in Nat /\ starts[2] = HeadLen
  <2>1. starts[1] = 0
    BY <1>1, LaidFacts
  <2>2. starts[1 + 1] \in Nat /\ starts[1 + 1] = starts[1] + PartSize(parts[1])
    BY <1>1, <1>4, Sizes, ZenonT(60)
  <2>3. starts[2] \in Nat /\ starts[2] = 0 + PartSize(parts[1])
    BY <2>1, <2>2
  <2>4. PartSize(parts[1]) = IF parts[1].kind \in {"Record", "Error"} THEN HEADER_LEN + CipherLen(parts[1])
                             ELSE IF parts[1].kind = "Response" THEN RESPONSE_LEN ELSE parts[1].length
    BY DEF PartSize
  <2>5. PartSize(parts[1]) \in Nat
    BY <1>1, <1>3, <1>4, <2>4, Sizes
  <2> QED BY <2>1, <2>3, <2>5 DEF HeadLen
<1>6. Len(raw) - HeadLen >= RESPONSE_LEN /\ stage = "response"
  BY DEF HandshakeEnds
<1>7. Len(parts) >= 2
  <2>1. Len(parts) = 1 => Total = starts[2]
    BY <1>1, TotalIs
  <2>2. Total # starts[2]
    BY <1>1, <1>2, <1>3, <1>5, <1>6
  <2> QED BY <1>1, <2>1, <2>2
<1>8. parts[2].kind = "Response"
  <2>1. 2 \in DOMAIN parts
    BY <1>1, <1>7, LaidFacts
  <2>2. parts[2].kind \in {"Response", "Error"}
    BY <1>1, <2>1 DEF Laid
  <2>3. Len(raw) - HeadLen >= HEADER_LEN
    BY <1>1, <1>3, <1>5, <1>6
  <2>4. parts[2].kind # "Error"
    BY <1>6, <2>3 DEF Rejected
  <2> QED BY <2>2, <2>4
<1>9. starts[3] = starts[2] + RESPONSE_LEN
  <2>1. 2 \in 1 .. Len(parts)
    BY <1>1, <1>7
  <2>2. starts[2 + 1] = starts[2] + PartSize(parts[2])
    BY <1>1, <2>1, Sizes, ZenonT(60)
  <2> QED BY <1>8, <2>2 DEF PartSize
<1> QED BY <1>1, <1>3, <1>5, <1>6, <1>7, <1>9

LEMMA FinishKeeps ==
    ASSUME ControlInv, Finish
    PROVE  ControlInv'
<1>1. /\ Opens /\ HandshakeEnds /\ ~Rejected
      /\ stage' = "start" /\ at' = "use" /\ started' = read
      /\ raw' = SubSeq(raw, HeadLen + RESPONSE_LEN + 1, Len(raw))
      /\ rx_nonce' = 0
      /\ read' = read /\ hello' = hello /\ pending' = pending /\ before' = before
      /\ outcome' = outcome /\ delivered' = delivered
  BY DEF Finish
<1>2. program' = program /\ parts' = parts /\ starts' = starts /\ early' = early
  BY <1>1 DEF Opens, scriptVars
<1>3. Shaking
  BY <1>1 DEF HandshakeEnds, Shaking
<1>4. /\ Len(parts) >= 2 /\ HeadLen + RESPONSE_LEN = starts[3]
      /\ starts[3] <= Len(raw) /\ starts[3] \in Nat
  BY <1>1, <1>3, ResponseEnds
<1>5. /\ Laid(parts, starts) /\ Len(parts) \in Nat /\ Len(raw) \in Nat /\ raw \in Seq(Nat)
      /\ read \in Nat /\ read <= Total /\ Total \in Nat /\ LastOf(raw, read) /\ KindsInv
  BY InvTypes DEF ControlInv, RawInv
<1>6. Len(raw) = read /\ pending = <<>> /\ delivered = <<>>
  BY <1>3 DEF ControlInv, ShakingInv
<1>7. raw' \in Seq(Nat) /\ Len(raw') = Len(raw) - starts[3] /\ LastOf(raw', read)
  <2>1. raw' = SubSeq(raw, starts[3] + 1, Len(raw))
    BY <1>1, <1>4, Zenon
  <2> QED BY <1>4, <1>5, <2>1, CutOff, Zenon
<1>8. ControlTypeOK'
  <2>1. read' \in 0 .. Total /\ started' \in 0 .. read'
    BY <1>1, <1>5
  <2>2. Len(raw') <= Max({RAW, BUF["host"]})
    <3>1. Len(raw) <= BUF[program]
      BY <1>3 DEF ControlInv, ControlTypeOK, Shaking
    <3>2. program \in {"fw", "host"}
      BY DEF ControlInv, ControlTypeOK
    <3>3. BUF[program] \in Nat /\ BUF[program] <= Max({RAW, BUF["host"]}) /\ Max({RAW, BUF["host"]}) \in Nat
      BY <3>2, Widest, Sizing
    <3> QED BY <1>4, <1>5, <1>7, <3>1, <3>3
  <2>3. Total' = Total
    BY <1>2 DEF Total
  <2>4. /\ program \in {"fw", "host"} /\ hello \in BOOLEAN
        /\ program = "fw" => Len(pending) <= PENDING
        /\ outcome \in {"open", "Io", "Refused", "Handshake", "Truncated", "TooLarge", "Server", "Noise"}
    BY DEF ControlInv, ControlTypeOK
  <2>5. stage' \in {"upgrade", "response", "start", "early", "body"} /\ stage' \notin {"upgrade", "response"}
        /\ at' \in {"use", "drain", "read"}
    BY <1>1
  <2> QED BY <1>1, <1>2, <2>1, <2>2, <2>3, <2>4, <2>5, Zenon DEF ControlTypeOK
<1>9. KindsInv' /\ RawInv'
  <2>1. rx_nonce' \in Nat
    BY <1>1
  <2> QED BY <1>1, <1>2, <1>5, <1>7, <2>1, Zenon DEF KindsInv, RawInv
<1>10. ~Shaking' /\ ~Running' /\ stage' # "body"
  BY <1>1 DEF Shaking, Running
<1>11. ShakingInv' /\ PumpInv' /\ FullInv' /\ StartInv'
  BY <1>1, <1>10, Zenon DEF ShakingInv, PumpInv, FullInv, StartInv
<1>12. rx_nonce' + 3 = 3 /\ rx_nonce' + 2 = 2
  BY <1>1
<1>13. PlaceInv'
  <2>1. read - Len(raw') = starts[3]
    BY <1>4, <1>5, <1>6, <1>7
  <2>2. Behind'
    <3>1. \A k \in 3 .. 2 : FALSE
      OBVIOUS
    <3> QED BY <1>2, <1>4, <1>12, <3>1 DEF Behind
  <2> QED BY <1>1, <1>2, <1>10, <1>12, <2>1, <2>2, Zenon DEF PlaceInv
<1>14. PlainInv'
  <2>1. Rank(parts, starts, starts[3]) = 0
    BY <1>4, <1>5, RankOfStart
  <2>2. Ranked(parts, starts, <<>>, 0) /\ Len(<<>>) = 0
    BY DEF Ranked
  <2> QED BY <1>1, <1>2, <1>6, <1>10, <1>12, <2>1, <2>2, Zenon DEF PlainInv
<1>15. FailsForCause'
  BY <1>1, NoCause DEF Opens
<1> QED BY <1>8, <1>9, <1>11, <1>13, <1>14, <1>15 DEF ControlInv

\* The plaintext of the next record joins what was staged.
LEMMA TakeRecord ==
    ASSUME ControlInv, ~Shaking, Opens, NEW k, k = rx_nonce + 3,
           k \in 1 .. Len(parts), parts[k].kind = "Record"
    PROVE  /\ stage' = stage /\ delivered' = delivered /\ rx_nonce' = rx_nonce + 1
           /\ pending' = pending \o PlainOf(parts, starts, k)
           => /\ pending' \in Seq(Nat) /\ Len(pending') = Len(pending) + parts[k].length
              /\ PlainInv' /\ Behind'
<1> DEFINE P == PlainOf(parts, starts, k)
<1>0. SUFFICES ASSUME stage' = stage, delivered' = delivered, rx_nonce' = rx_nonce + 1,
                      pending' = pending \o P
               PROVE  /\ pending' \in Seq(Nat) /\ Len(pending') = Len(pending) + parts[k].length
                      /\ PlainInv' /\ Behind'
  BY Zenon
<1>1. parts' = parts /\ starts' = starts /\ early' = early
  BY DEF Opens, scriptVars
<1>2. /\ Laid(parts, starts) /\ Len(parts) \in Nat /\ rx_nonce \in Nat /\ early \in Nat
      /\ pending \in Seq(Nat) /\ delivered \in Seq(Nat)
      /\ Len(pending) \in Nat /\ Len(delivered) \in Nat
  BY InvTypes
<1>3. starts[k] \in Nat /\ parts[k].length \in Nat /\ HEADER_LEN \in Nat
  BY <1>2, Sizes
<1>4. P \in Seq(Nat) /\ Len(P) = parts[k].length
  <2>1. /\ P \in Seq(Nat) /\ Len(P) = parts[k].length
        /\ \A i \in 1 .. parts[k].length : P[i] = starts[k] + HEADER_LEN + i
    BY <1>3, PlaintextSeq, ZenonT(60) DEF PlainOf
  <2> QED BY <2>1, Zenon
<1>6. k \in 1 .. Len(parts) /\ parts[k].kind = "Record"
  OBVIOUS
<1>7. rx_nonce' + 3 = k + 1 /\ rx_nonce' + 2 = k
  BY <1>0, <1>2
<1>8. Behind'
  <2>1. \A j \in 3 .. k : j = k \/ j \in 3 .. rx_nonce + 2
    BY <1>2
  <2>2. \A j \in 3 .. rx_nonce + 2 : parts[j].kind = "Record"
    BY DEF ControlInv, PlaceInv, Behind
  <2>3. k <= Len(parts)
    BY <1>2
  <2> QED BY <1>1, <1>6, <1>7, <2>1, <2>2, <2>3, Zenon DEF Behind
<1> HIDE DEF P
<1>9. pending' \in Seq(Nat) /\ Len(pending') = Len(pending) + parts[k].length
  <2>1. pending \o P \in Seq(Nat) /\ Len(pending \o P) = Len(pending) + Len(P)
    <3>1. pending \in Seq(Nat) /\ P \in Seq(Nat)
      BY <1>2, <1>4
    <3> QED BY <3>1
  <2> QED BY <1>0, <1>4, <2>1, Zenon
<1>10. ASSUME stage \in {"start", "early"}
       PROVE  /\ delivered = <<>> /\ Ranked(parts, starts, pending', 0)
              /\ Len(pending') = Rank(parts, starts, starts[k + 1])
  <2>1. /\ delivered = <<>> /\ Ranked(parts, starts, pending, 0)
        /\ Len(pending) = Rank(parts, starts, starts[k])
    BY <1>10, Zenon DEF ControlInv, PlainInv
  <2>2. 0 \in Nat /\ 0 + Len(pending) = Rank(parts, starts, starts[k])
    BY <1>2, <2>1
  <2>3. /\ Ranked(parts, starts, pending \o P, 0)
        /\ Rank(parts, starts, starts[k + 1]) = 0 + Len(pending) + parts[k].length
    BY <1>2, <1>6, <2>1, <2>2, RankedMore DEF P
  <2>4. Len(pending') = 0 + Len(pending) + parts[k].length
    BY <1>2, <1>3, <1>9
  <2> QED BY <1>0, <2>1, <2>3, <2>4, Zenon
<1>11. ASSUME stage = "body"
       PROVE  /\ Ranked(parts, starts, delivered \o pending', early)
              /\ early + Len(delivered) + Len(pending') = Rank(parts, starts, starts[k + 1])
  <2>1. /\ Ranked(parts, starts, delivered \o pending, early)
        /\ early + Len(delivered) + Len(pending) = Rank(parts, starts, starts[k])
    BY <1>11, Zenon DEF ControlInv, PlainInv
  <2>2. delivered \o pending \in Seq(Nat) /\ Len(delivered \o pending) = Len(delivered) + Len(pending)
    BY <1>2
  <2>3. early + Len(delivered \o pending) = Rank(parts, starts, starts[k])
    BY <1>2, <2>1, <2>2
  <2>4. /\ Ranked(parts, starts, (delivered \o pending) \o P, early)
        /\ Rank(parts, starts, starts[k + 1]) = early + Len(delivered \o pending) + parts[k].length
    <3>1. PICK d \in Seq(Nat) : d = delivered \o pending
      BY <2>2
    <3>2. Ranked(parts, starts, d, early) /\ early + Len(d) = Rank(parts, starts, starts[k])
      BY <2>1, <2>3, <3>1, Zenon
    <3>3. Laid(parts, starts) /\ early \in Nat
      BY <1>2
    <3>4. /\ Ranked(parts, starts, d \o P, early)
          /\ Rank(parts, starts, starts[k + 1]) = early + Len(d) + parts[k].length
      BY <1>6, <3>2, <3>3, RankedMore DEF P
    <3> QED BY <3>1, <3>4, Zenon
  <2>5. (delivered \o pending) \o P = delivered \o (pending \o P)
    <3>1. delivered \in Seq(Nat) /\ pending \in Seq(Nat) /\ P \in Seq(Nat)
      BY <1>2, <1>4
    <3> QED BY <3>1, ConcatAssociative, SMTT(40)
  <2>6. early + Len(delivered) + Len(pending') = early + Len(delivered \o pending) + parts[k].length
    BY <1>2, <1>3, <1>9, <2>2
  <2> QED BY <1>0, <2>4, <2>5, <2>6, Zenon
<1>12. PlainInv'
  BY <1>0, <1>1, <1>7, <1>10, <1>11, Zenon DEF PlainInv
<1> QED BY <1>8, <1>9, <1>12, Zenon

\* The record that `raw` starts with is opened.
LEMMA OpenStagedKeeps ==
    ASSUME ControlInv, Opens, ~Shaking, RawWhole, Opened(Head(raw)), OpenStaged,
           program = "fw" => Fits(RawLen) /\ at = "drain",
           program = "host" => stage = "start"
    PROVE  ControlInv'
<1>1. /\ pending' = pending \o Plaintext(Head(raw))
      /\ raw' = SubSeq(raw, HEADER_LEN + RawLen + 1, Len(raw))
      /\ rx_nonce' = rx_nonce + 1
      /\ read' = read /\ started' = started /\ stage' = stage /\ at' = at /\ hello' = hello
      /\ before' = before /\ outcome' = outcome /\ delivered' = delivered
  BY DEF OpenStaged
<1>2. program' = program /\ parts' = parts /\ starts' = starts /\ early' = early
  BY DEF Opens, scriptVars
<1>3. /\ Len(parts) \in Nat /\ Len(raw) \in Nat /\ raw \in Seq(Nat) /\ rx_nonce \in Nat /\ read \in Nat
      /\ Len(pending) \in Nat /\ LastOf(raw, read) /\ HEADER_LEN \in Nat \ {0} /\ TAG_LEN \in Nat
  BY InvTypes, Sizing DEF ControlInv, RawInv
<1>4. Len(raw) >= HEADER_LEN /\ Len(raw) >= HEADER_LEN + RawLen
  BY DEF RawWhole, RawHeader
<1>5. Len(raw) >= 1
  BY <1>3, <1>4
<1>6. NextIs(Head(raw)) /\ read - Len(raw) = starts[rx_nonce + 3] /\ RawLen = CipherLen(parts[rx_nonce + 3])
  BY <1>5, HeadPart
<1>7. /\ rx_nonce + 3 \in 1 .. Len(parts) /\ parts[rx_nonce + 3].kind = "Record"
      /\ parts[rx_nonce + 3].length \in Nat /\ RawLen \in Nat
      /\ starts[rx_nonce + 3] \in Nat
      /\ starts[rx_nonce + 4] = starts[rx_nonce + 3] + (HEADER_LEN + RawLen)
      /\ Plaintext(Head(raw)) = PlainOf(parts, starts, rx_nonce + 3)
  BY <1>6, Zenon DEF NextIs
<1>8. RawLen = parts[rx_nonce + 3].length + TAG_LEN
  BY <1>6, <1>7 DEF CipherLen
<1>9. /\ pending' \in Seq(Nat) /\ Len(pending') = Len(pending) + parts[rx_nonce + 3].length
      /\ PlainInv' /\ Behind'
  BY <1>1, <1>7, TakeRecord, Zenon
<1>10. raw' \in Seq(Nat) /\ Len(raw') = Len(raw) - (HEADER_LEN + RawLen) /\ LastOf(raw', read')
  <2>1. HEADER_LEN + RawLen \in Nat /\ HEADER_LEN + RawLen <= Len(raw)
    BY <1>3, <1>4, <1>7
  <2> QED BY <1>1, <1>3, <2>1, CutOff, Zenon
<1>11. Len(raw') <= Len(raw) /\ Len(raw') \in Nat
  BY <1>3, <1>4, <1>7, <1>10
<1>12. ControlTypeOK'
  <2>1. Len(raw') <= Max({RAW, BUF["host"]})
    <3>1. Len(raw) <= Max({RAW, BUF["host"]})
      BY DEF ControlInv, ControlTypeOK, Shaking
    <3> QED BY <1>3, <1>11, <3>1, Widest
  <2>2. program = "fw" => Len(pending') <= PENDING
    <3>1. program = "fw" => Len(pending) + RawLen <= PENDING
      BY DEF Fits
    <3>2. /\ parts[rx_nonce + 3].length \in Nat /\ Len(pending) \in Nat /\ TAG_LEN \in Nat /\ PENDING \in Nat
          /\ RawLen = parts[rx_nonce + 3].length + TAG_LEN
          /\ Len(pending') = Len(pending) + parts[rx_nonce + 3].length
      BY <1>3, <1>7, <1>8, <1>9, Sizing, Zenon
    <3>3. PICK l \in Nat : l = parts[rx_nonce + 3].length
      BY <3>2
    <3>4. PICK q : q = Len(pending')
      OBVIOUS
    <3>5. PICK c : c = RawLen
      OBVIOUS
    <3>6. /\ program = "fw" => Len(pending) + c <= PENDING
          /\ c = l + TAG_LEN /\ q = Len(pending) + l
          /\ Len(pending) \in Nat /\ TAG_LEN \in Nat /\ PENDING \in Nat
      BY <3>1, <3>2, <3>3, <3>4, <3>5, Zenon
    <3>7. program = "fw" => q <= PENDING
      BY <3>6
    <3> QED BY <3>4, <3>7, Zenon
  <2>3. Total' = Total
    BY <1>2 DEF Total
  <2>4. stage' \notin {"upgrade", "response"}
    BY <1>1 DEF Shaking
  <2>5. ControlTypeOK
    BY DEF ControlInv
  <2> QED BY <1>1, <1>2, <2>1, <2>2, <2>3, <2>4, <2>5, Zenon DEF ControlTypeOK
<1>13. KindsInv' /\ RawInv'
  <2>1. rx_nonce' \in Nat
    BY <1>1, <1>3
  <2> QED BY <1>1, <1>2, <1>9, <1>10, <2>1, Zenon DEF ControlInv, KindsInv, RawInv
<1>14. ShakingInv' /\ StartInv'
  BY <1>1, Zenon DEF ShakingInv, StartInv, ControlInv, Shaking
<1>15. PlaceInv'
  <2>1. read' - Len(raw') = starts'[rx_nonce' + 3]
    <3>1. rx_nonce' + 3 = rx_nonce + 4
      BY <1>1, <1>3
    <3>2. read - Len(raw') = starts[rx_nonce + 4]
      BY <1>3, <1>6, <1>7, <1>10
    <3> QED BY <1>1, <1>2, <3>1, <3>2, Zenon
  <2>2. ~(program' = "host" /\ Running')
    BY <1>1, <1>2 DEF Running
  <2> QED BY <1>9, <2>1, <2>2, Zenon DEF PlaceInv
<1>16. PumpInv' /\ FullInv'
  <2>1. program = "fw" => at = "drain"
    OBVIOUS
  <2>2. at # "read" \/ program # "fw"
    BY <2>1
  <2> QED BY <1>1, <1>2, <2>2, Zenon DEF ControlInv, PumpInv, FullInv, Running
<1>17. FailsForCause'
  BY <1>1, NoCause DEF Opens
<1> QED BY <1>9, <1>12, <1>13, <1>14, <1>15, <1>16, <1>17 DEF ControlInv

LEMMA StartKeeps ==
    ASSUME ControlInv, Start
    PROVE  ControlInv'
<1>1. /\ Opens /\ program = "fw" /\ stage = "start"
      /\ hello' = TRUE /\ stage' = "early" /\ at' = "drain" /\ before' = -1
      /\ read' = read /\ started' = started /\ raw' = raw /\ pending' = pending
      /\ rx_nonce' = rx_nonce /\ outcome' = outcome /\ delivered' = delivered
  BY DEF Start
<1>2. program' = program /\ parts' = parts /\ starts' = starts /\ early' = early
  BY <1>1 DEF Opens, scriptVars
<1>3. ~Shaking /\ ~Running /\ ~Shaking'
  BY <1>1 DEF Shaking, Running
<1>4. ControlTypeOK'
  <2>1. stage \notin {"upgrade", "response"} /\ stage' \notin {"upgrade", "response"}
        /\ stage' \in {"upgrade", "response", "start", "early", "body"} /\ at' \in {"use", "drain", "read"}
        /\ hello' \in BOOLEAN
    BY <1>1
  <2>2. ControlTypeOK
    BY DEF ControlInv
  <2> QED BY <1>1, <1>2, <2>1, <2>2, Zenon DEF ControlTypeOK, Total
<1>5. KindsInv' /\ RawInv'
  <2>1. before' \in Int
    BY <1>1
  <2> QED BY <1>1, <1>2, <2>1, Zenon DEF ControlInv, KindsInv, RawInv
<1>6. ShakingInv' /\ StartInv' /\ FullInv'
  <2>1. stage' # "start" /\ at' # "read"
    BY <1>1
  <2> QED BY <1>3, <2>1, Zenon DEF ShakingInv, StartInv, FullInv
<1>7. PlaceInv'
  <2>1. Behind /\ read - Len(raw) = starts[rx_nonce + 3]
    BY <1>3, Zenon DEF ControlInv, PlaceInv, Lost
  <2>2. program' # "host"
    BY <1>1, <1>2
  <2> QED BY <1>1, <1>2, <1>3, <2>1, <2>2, Zenon DEF PlaceInv, Behind
<1>8. PlainInv'
  <2>1. stage \in {"start", "early"} /\ stage' # "body"
    BY <1>1
  <2> QED BY <1>1, <1>2, <2>1, Zenon DEF ControlInv, PlainInv
<1>9. PumpInv'
  <2>1. at' # "read"
    BY <1>1
  <2> QED BY <1>1, <2>1, Zenon DEF PumpInv
<1>10. FailsForCause'
  BY <1>1, NoCause DEF Opens
<1> QED BY <1>4, <1>5, <1>6, <1>7, <1>8, <1>9, <1>10 DEF ControlInv

\* What drain_records finds, seen from the script: never a record out of its place.
LEMMA StagedIs ==
    ASSUME ControlInv, ~Shaking
    PROVE  /\ Staged \in {"more", "TooLarge", "Server", "record"}
           /\ Staged = "TooLarge" => /\ rx_nonce + 3 \in 1 .. Len(parts)
                                     /\ parts[rx_nonce + 3].kind \in {"Record", "Error"}
                                     /\ CipherLen(parts[rx_nonce + 3]) > MAX_CIPHERTEXT_SIZE
           /\ Staged = "record" => RawWhole /\ Opened(Head(raw)) /\ Fits(RawLen)
           /\ Staged = "more" /\ Len(raw) = RAW =>
                 /\ rx_nonce + 3 \in 1 .. Len(parts) /\ parts[rx_nonce + 3].kind = "Record"
                 /\ Len(pending) + CipherLen(parts[rx_nonce + 3]) > PENDING
<1>1. /\ Len(raw) \in Nat /\ Len(pending) \in Nat /\ HEADER_LEN \in Nat \ {0} /\ MAX_CIPHERTEXT_SIZE \in Nat
      /\ RAW \in Nat /\ RAW >= HEADER_LEN + MAX_CIPHERTEXT_SIZE /\ PENDING \in Nat
  BY InvTypes, Sizing, Zenon
<1>2. CASE ~RawHeader
  <2>1. Staged = "more"
    BY <1>2 DEF Staged
  <2>2. Len(raw) # RAW
    BY <1>1, <1>2 DEF RawHeader
  <2> QED BY <2>1, <2>2
<1>3. CASE RawHeader
  <2>1. Len(raw) >= 1
    BY <1>1, <1>3 DEF RawHeader
  <2>2. NextIs(Head(raw)) /\ RawLen = CipherLen(parts[rx_nonce + 3])
    BY <2>1, HeadPart
  <2>3. /\ rx_nonce + 3 \in 1 .. Len(parts) /\ PartAt(Head(raw)) = parts[rx_nonce + 3]
        /\ Aligned(Head(raw)) /\ (Opened(Head(raw)) <=> parts[rx_nonce + 3].kind = "Record")
        /\ parts[rx_nonce + 3].kind \in {"Record", "Error"} /\ RawLen \in Nat
    BY <2>2, Zenon DEF NextIs
  <2>4. Len(raw) = RAW /\ RawLen <= MAX_CIPHERTEXT_SIZE => RawWhole
    BY <1>1, <1>3, <2>3 DEF RawWhole
  <2>5. ~Fits(RawLen) => Len(pending) + RawLen > PENDING
    BY <1>1, <2>3 DEF Fits
  <2>6. RawLen > MAX_CIPHERTEXT_SIZE \/ RawLen <= MAX_CIPHERTEXT_SIZE
    BY <1>1, <2>3
  <2>7. Staged = IF RawLen > MAX_CIPHERTEXT_SIZE THEN "TooLarge"
                 ELSE IF ~RawWhole THEN "more"
                 ELSE IF parts[rx_nonce + 3].kind = "Error" THEN "Server"
                 ELSE IF ~Fits(RawLen) THEN "more" ELSE "record"
    BY <1>3, <2>3 DEF Staged
  <2> HIDE DEF RawLen
  <2>8. CASE RawLen > MAX_CIPHERTEXT_SIZE
    <3>1. Staged = "TooLarge"
      BY <2>7, <2>8
    <3> QED BY <2>2, <2>3, <2>8, <3>1
  <2>9. CASE ~(RawLen > MAX_CIPHERTEXT_SIZE) /\ ~RawWhole
    <3>1. Staged = "more" /\ Len(raw) # RAW
      BY <2>4, <2>6, <2>7, <2>9
    <3> QED BY <3>1
  <2>10. CASE ~(RawLen > MAX_CIPHERTEXT_SIZE) /\ RawWhole /\ parts[rx_nonce + 3].kind = "Error"
    <3>1. Staged = "Server"
      BY <2>7, <2>10
    <3> QED BY <3>1
  <2>11. CASE /\ ~(RawLen > MAX_CIPHERTEXT_SIZE) /\ RawWhole /\ parts[rx_nonce + 3].kind # "Error"
              /\ ~Fits(RawLen)
    <3>1. Staged = "more"
      BY <2>7, <2>11
    <3> QED BY <2>2, <2>3, <2>5, <2>11, <3>1
  <2>12. CASE /\ ~(RawLen > MAX_CIPHERTEXT_SIZE) /\ RawWhole /\ parts[rx_nonce + 3].kind # "Error"
              /\ Fits(RawLen)
    <3>1. Staged = "record"
      BY <2>7, <2>12
    <3> QED BY <2>3, <2>12, <3>1
  <2> QED BY <2>8, <2>9, <2>10, <2>11, <2>12
<1> QED BY <1>2, <1>3

LEMMA DrainsAfterHandshake ==
    ASSUME ControlInv, Drains
    PROVE  Opens /\ program = "fw" /\ at = "drain" /\ ~Shaking /\ Running
<1>1. Opens /\ program = "fw" /\ at = "drain"
  BY DEF Drains
<1>2. Shaking => at = "read"
  BY DEF ControlInv, ShakingInv
<1>3. stage = "start" => at = "use"
  BY DEF ControlInv, StartInv
<1>4. stage \in {"upgrade", "response", "start", "early", "body"}
  BY DEF ControlInv, ControlTypeOK
<1> QED BY <1>1, <1>2, <1>3, <1>4 DEF Shaking, Running

LEMMA DrainKeeps ==
    ASSUME ControlInv, DrainRefused \/ DrainRecord
    PROVE  ControlInv'
<1>1. Drains /\ (DrainRefused => Staged \in {"Noise", "TooLarge", "Server"} /\ Fail(Staged))
             /\ (DrainRecord => Staged = "record" /\ OpenStaged)
  BY DEF DrainRefused, DrainRecord
<1>2. Opens /\ program = "fw" /\ at = "drain" /\ ~Shaking
  BY <1>1, DrainsAfterHandshake
<1>3. CASE DrainRefused
  <2>1. CASE Staged = "TooLarge"
    <3>1. Fail("TooLarge")
      BY <1>1, <1>3, <2>1
    <3>2. /\ rx_nonce + 3 \in 1 .. Len(parts) /\ parts[rx_nonce + 3].kind \in {"Record", "Error"}
          /\ CipherLen(parts[rx_nonce + 3]) > MAX_CIPHERTEXT_SIZE
      BY <1>2, <2>1, StagedIs
    <3>3. FailsForCause'
      BY <1>2, <3>1, <3>2, OversizedCause DEF Fail
    <3> QED BY <1>2, <3>1, <3>3, FailKeeps
  <2>2. CASE Staged = "Server"
    <3>1. Fail("Server")
      BY <1>1, <1>3, <2>2
    <3>2. FailsForCause'
      BY <3>1, NoCause DEF Fail
    <3> QED BY <1>2, <3>1, <3>2, FailKeeps
  <2>3. Staged # "Noise"
    BY <1>2, StagedIs
  <2> QED BY <1>1, <1>3, <2>1, <2>2, <2>3
<1>4. CASE DrainRecord
  <2>1. RawWhole /\ Opened(Head(raw)) /\ Fits(RawLen) /\ OpenStaged
    BY <1>1, <1>2, <1>4, StagedIs
  <2>2. program # "host"
    BY <1>2
  <2> QED BY <1>2, <2>1, <2>2, OpenStagedKeeps
<1> QED BY <1>3, <1>4

LEMMA DrainedKeeps ==
    ASSUME ControlInv, Drained
    PROVE  ControlInv'
<1>1. /\ Drains /\ Staged = "more"
      /\ at' = IF Len(pending) > before THEN "use" ELSE "read"
      /\ read' = read /\ started' = started /\ stage' = stage /\ hello' = hello /\ raw' = raw
      /\ pending' = pending /\ before' = before /\ rx_nonce' = rx_nonce
      /\ outcome' = outcome /\ delivered' = delivered
  BY DEF Drained
<1>2. Opens /\ program = "fw" /\ at = "drain" /\ ~Shaking /\ Running
  BY <1>1, DrainsAfterHandshake
<1>3. program' = program /\ parts' = parts /\ starts' = starts /\ early' = early
  BY <1>2 DEF Opens, scriptVars
<1>4. at' \in {"use", "drain", "read"} /\ at' # "drain"
  BY <1>1
<1>5. ControlTypeOK'
  BY <1>1, <1>3, <1>4, Zenon DEF ControlInv, ControlTypeOK, Total
<1>6. KindsInv' /\ RawInv' /\ PlaceInv' /\ PlainInv'
  BY <1>1, <1>3, Zenon DEF ControlInv, KindsInv, RawInv, PlaceInv, PlainInv, Behind, Lost, Shaking, Running
<1>7. ShakingInv' /\ StartInv'
  <2>1. ~Shaking' /\ stage' # "start"
    BY <1>1, <1>2 DEF Shaking, Running
  <2> QED BY <2>1 DEF ShakingInv, StartInv
<1>8. FullInv'
  <2>1. Len(raw) = RAW =>
          /\ rx_nonce + 3 \in DOMAIN parts /\ parts[rx_nonce + 3].kind = "Record"
          /\ Len(pending) + CipherLen(parts[rx_nonce + 3]) > PENDING
    BY <1>1, <1>2, StagedIs, InvTypes, LaidFacts
  <2> QED BY <1>1, <1>3, <2>1, Zenon DEF FullInv
<1>9. PumpInv'
  <2>1. Len(pending) \in Nat /\ before \in Int
    BY InvTypes
  <2>2. \/ before = -1 /\ stage = "early"
        \/ before = 0
        \/ stage = "early" /\ 0 < before /\ before < early
    BY <1>2 DEF ControlInv, PumpInv
  <2>3. at' = "read" => Len(pending) <= before /\ before # -1
    BY <1>1, <2>1
  <2> QED BY <1>1, <1>3, <1>4, <2>2, <2>3 DEF PumpInv
<1>10. FailsForCause'
  BY <1>1, <1>2, NoCause DEF Opens
<1> QED BY <1>5, <1>6, <1>7, <1>8, <1>9, <1>10 DEF ControlInv

LEMMA ReadRawKeeps ==
    ASSUME ControlInv, NEW n \in 1 .. RAW, ReadRaw(n)
    PROVE  ControlInv'
<1>1. /\ Opens /\ program = "fw" /\ stage \in {"early", "body"} /\ at = "read"
      /\ n <= RAW - Len(raw) /\ read + n <= Available
      /\ raw' = raw \o Next_n(n) /\ read' = read + n /\ at' = "drain"
      /\ started' = started /\ stage' = stage /\ hello' = hello
      /\ pending' = pending /\ before' = before /\ rx_nonce' = rx_nonce
      /\ outcome' = outcome /\ delivered' = delivered
  BY DEF ReadRaw
<1>2. program' = program /\ parts' = parts /\ starts' = starts /\ early' = early
  BY <1>1 DEF Opens, scriptVars
<1>3. /\ Len(raw) \in Nat /\ raw \in Seq(Nat) /\ read \in Nat /\ n \in Nat /\ RAW \in Nat
      /\ started \in Nat /\ started <= read /\ Total \in Nat /\ Available \in Nat /\ Available <= Total
      /\ LastOf(raw, read)
  BY InvTypes, AvailableBound, Sizing DEF ControlInv, RawInv
<1>4. raw' \in Seq(Nat) /\ Len(raw') = Len(raw) + n /\ LastOf(raw', read')
  BY <1>1, <1>3, ReadMore, Zenon DEF Next_n
<1>5. ~Shaking /\ Running /\ stage' \notin {"upgrade", "response"} /\ ~Shaking' /\ stage' # "start"
  BY <1>1 DEF Shaking, Running
<1>6. ControlTypeOK'
  <2>1. read' \in 0 .. Total /\ started' \in 0 .. read'
    BY <1>1, <1>3
  <2>2. Len(raw') <= Max({RAW, BUF["host"]})
    <3>1. Len(raw') <= RAW
      BY <1>1, <1>3, <1>4
    <3> QED BY <1>3, <1>4, <3>1, Widest
  <2>3. Total' = Total
    BY <1>2 DEF Total
  <2>4. ControlTypeOK /\ at' \in {"use", "drain", "read"}
    BY <1>1 DEF ControlInv
  <2> QED BY <1>1, <1>2, <1>5, <2>1, <2>2, <2>3, <2>4, Zenon DEF ControlTypeOK
<1>7. KindsInv' /\ RawInv'
  BY <1>1, <1>2, <1>4, Zenon DEF ControlInv, KindsInv, RawInv
<1>8. ShakingInv' /\ StartInv' /\ FullInv'
  <2>1. at' # "read"
    BY <1>1
  <2> QED BY <1>5, <2>1, Zenon DEF ShakingInv, StartInv, FullInv
<1>9. PlaceInv'
  <2>1. Behind /\ (read - Len(raw) = starts[rx_nonce + 3] \/ Lost) /\ program # "host"
    BY <1>1, <1>5 DEF ControlInv, PlaceInv
  <2>2. read' - Len(raw') = read - Len(raw)
    BY <1>1, <1>3, <1>4
  <2> QED BY <1>1, <1>2, <2>1, <2>2, Zenon DEF PlaceInv, Lost, Behind
<1>10. PlainInv'
  BY <1>1, <1>2, Zenon DEF ControlInv, PlainInv
<1>11. PumpInv'
  <2>1. \/ before = 0
        \/ stage = "early" /\ 0 < before /\ before < early
    BY <1>1, <1>5 DEF ControlInv, PumpInv
  <2>2. at' # "read"
    BY <1>1
  <2> QED BY <1>1, <1>2, <2>1, <2>2, Zenon DEF PumpInv
<1>12. FailsForCause'
  BY <1>1, NoCause DEF Opens
<1> QED BY <1>6, <1>7, <1>8, <1>9, <1>10, <1>11, <1>12 DEF ControlInv

\* A firmware whose staging buffer is full cannot gather the early payload.
LEMMA RawFullKeeps ==
    ASSUME ControlInv, RawFull
    PROVE  ControlInv'
<1>1. Opens /\ program = "fw" /\ Running /\ at = "read" /\ Len(raw) = RAW /\ Fail("TooLarge")
  BY DEF RawFull, Running
<1> DEFINE k == rx_nonce + 3
<1>2. /\ k \in DOMAIN parts /\ parts[k].kind = "Record"
      /\ Len(pending) + CipherLen(parts[k]) > PENDING
  BY <1>1 DEF ControlInv, FullInv
<1>3. /\ \/ before = 0
         \/ stage = "early" /\ 0 < before /\ before < early
      /\ Len(pending) <= before
  BY <1>1 DEF ControlInv, PumpInv
<1>4. /\ Len(pending) \in Nat /\ before \in Int /\ early \in Nat /\ Laid(parts, starts) /\ Len(parts) \in Nat
      /\ PENDING \in Nat /\ MAX_CIPHERTEXT_SIZE \in Nat /\ PENDING >= MAX_CIPHERTEXT_SIZE
  BY InvTypes, Sizing
<1>5. k \in 1 .. Len(parts) /\ CipherLen(parts[k]) \in Nat
  BY <1>2, <1>4, LaidFacts, Sizes
<1> HIDE DEF k
<1>6. CASE CipherLen(parts[k]) > MAX_CIPHERTEXT_SIZE
  <2>1. FailsForCause'
    BY <1>1, <1>2, <1>5, <1>6, OversizedCause DEF Fail, k
  <2> QED BY <1>1, <2>1, FailKeeps
<1>7. CASE CipherLen(parts[k]) <= MAX_CIPHERTEXT_SIZE
  <2>1. Len(pending) > 0
    BY <1>2, <1>4, <1>5, <1>7
  <2>2. stage = "early" /\ Len(pending) < early
    BY <1>3, <1>4, <2>1
  <2>3. Len(pending) = PlainUpTo(starts[k])
    <3>1. stage \in {"start", "early"}
      BY <2>2
    <3>2. Len(pending) = Rank(parts, starts, starts[k])
      BY <3>1, Zenon DEF ControlInv, PlainInv, k
    <3> QED BY <3>2, NamesOfScript
  <2>4. EarlySplit
    BY <1>2, <1>5, <2>2, <2>3, Zenon DEF EarlySplit
  <2>5. EarlySplit'
    <3>1. parts' = parts /\ starts' = starts /\ early' = early
      BY <1>1 DEF Opens, scriptVars
    <3> QED BY <2>4, <3>1, Zenon DEF EarlySplit, PlainUpTo, IsPlaintext, PartAt, PartOf
  <2>6. FailsForCause'
    <3>1. program' = "fw" /\ outcome' = "TooLarge"
      BY <1>1 DEF Opens, scriptVars, Fail
    <3> QED BY <2>5, <3>1 DEF FailsForCause
  <2> QED BY <1>1, <2>6, FailKeeps
<1> QED BY <1>4, <1>5, <1>6, <1>7

LEMMA AbsorbRecordKeeps ==
    ASSUME ControlInv, AbsorbRecord
    PROVE  ControlInv'
<1>1. /\ Opens /\ program = "host" /\ stage = "start" /\ Len(raw) >= HEADER_LEN
      /\ IF RawWhole /\ Opened(Head(raw)) THEN OpenStaged
         ELSE Fail(IF RawWhole THEN "Server" ELSE "Truncated")
  BY DEF AbsorbRecord
<1>2. ~Shaking
  BY <1>1 DEF Shaking
<1>3. CASE RawWhole /\ Opened(Head(raw))
  <2>1. OpenStaged /\ program # "fw"
    BY <1>1, <1>3
  <2> QED BY <1>1, <1>2, <1>3, <2>1, OpenStagedKeeps
<1>4. CASE RawWhole /\ ~Opened(Head(raw))
  <2>1. Fail("Server")
    BY <1>1, <1>4
  <2>2. FailsForCause'
    BY <2>1, NoCause DEF Fail
  <2> QED BY <1>1, <2>1, <2>2, FailKeeps
<1>5. CASE ~RawWhole
  <2>1. Fail("Truncated")
    BY <1>1, <1>5
  <2>2. Len(raw) \in Nat /\ read \in Nat /\ HEADER_LEN \in Nat \ {0}
    BY InvTypes, Sizing
  <2>3. Len(raw) >= 1
    BY <1>1, <2>2
  <2>4. /\ NextIs(Head(raw)) /\ read - Len(raw) = starts[rx_nonce + 3]
        /\ RawLen = CipherLen(parts[rx_nonce + 3])
    BY <1>2, <2>3, HeadPart
  <2>5. /\ rx_nonce + 3 \in 1 .. Len(parts) /\ RawLen \in Nat /\ starts[rx_nonce + 3] \in Nat
        /\ starts[rx_nonce + 4] = starts[rx_nonce + 3] + (HEADER_LEN + RawLen)
    BY <2>4, Zenon DEF NextIs
  <2>6. ~(Len(raw) >= HEADER_LEN + RawLen)
    BY <1>1, <1>5 DEF RawWhole, RawHeader
  <2>7. starts[rx_nonce + 3] < read /\ read < starts[rx_nonce + 4]
    <3>1. /\ read - Len(raw) = starts[rx_nonce + 3] /\ Len(raw) >= 1 /\ Len(raw) \in Nat /\ read \in Nat
          /\ HEADER_LEN \in Nat /\ RawLen \in Nat /\ ~(Len(raw) >= HEADER_LEN + RawLen)
      BY <2>2, <2>3, <2>4, <2>5, <2>6
    <3>2. starts[rx_nonce + 4] = starts[rx_nonce + 3] + (HEADER_LEN + RawLen)
      BY <2>5
    <3>3. ASSUME NEW s, NEW e, NEW q \in Nat, NEW z \in Nat, NEW h \in Nat, NEW l \in Nat,
                 q - z = s, z >= 1, ~(z >= h + l), e = s + (h + l)
          PROVE  s < q /\ q < e
      BY <3>3
    <3> QED BY <3>1, <3>2, <3>3, ZenonT(60)
  <2>8. read = started
    BY <1>1 DEF ControlInv, StartInv
  <2>9. FailsForCause'
    <3>1. started' = started /\ outcome' \in {"Noise", "Truncated"}
      BY <2>1 DEF Fail
    <3> QED BY <1>1, <2>5, <2>7, <2>8, <3>1, MiddleCause
  <2> QED BY <1>1, <2>1, <2>9, FailKeeps
<1> QED BY <1>3, <1>4, <1>5

LEMMA StartHostKeeps ==
    ASSUME ControlInv, StartHost
    PROVE  ControlInv'
<1>1. /\ Opens /\ program = "host" /\ stage = "start" /\ Len(raw) < HEADER_LEN
      /\ hello' = TRUE /\ stage' = "early" /\ raw' = <<>>
      /\ read' = read /\ started' = started /\ at' = at /\ pending' = pending /\ before' = before
      /\ rx_nonce' = rx_nonce /\ outcome' = outcome /\ delivered' = delivered
  BY DEF StartHost
<1>2. program' = program /\ parts' = parts /\ starts' = starts /\ early' = early
  BY <1>1 DEF Opens, scriptVars
<1>3. ~Shaking /\ ~Running /\ ~Shaking' /\ Running'
  BY <1>1 DEF Shaking, Running
<1>4. /\ Len(raw) \in Nat /\ read \in Nat /\ HEADER_LEN \in Nat \ {0} /\ Len(parts) \in Nat
      /\ Laid(parts, starts)
  BY InvTypes, Sizing
<1>5. ControlTypeOK'
  <2>1. stage' \notin {"upgrade", "response"}
        /\ stage' \in {"upgrade", "response", "start", "early", "body"} /\ hello' \in BOOLEAN
    BY <1>1
  <2>2. ControlTypeOK
    BY DEF ControlInv
  <2>3. Len(raw') <= Max({RAW, BUF["host"]})
    BY <1>1, Widest
  <2> QED BY <1>1, <1>2, <2>1, <2>2, <2>3, Zenon DEF ControlTypeOK, Total
<1>6. KindsInv' /\ RawInv'
  <2>1. raw' \in Seq(Nat)
    BY <1>1
  <2>2. LastOf(raw', read)
    BY <1>1, <1>4 DEF LastOf
  <2> QED BY <1>1, <1>2, <2>1, <2>2, Zenon DEF ControlInv, KindsInv, RawInv
<1>7. ShakingInv' /\ StartInv' /\ FullInv' /\ PumpInv'
  <2>1. stage' # "start" /\ program' # "fw"
    BY <1>1, <1>2
  <2> QED BY <1>3, <2>1, Zenon DEF ShakingInv, StartInv, FullInv, PumpInv
<1>8. PlaceInv'
  <2>1. Behind /\ read - Len(raw) = starts[rx_nonce + 3]
    BY <1>3, Zenon DEF ControlInv, PlaceInv, Lost
  <2>2. read = started
    BY <1>1 DEF ControlInv, StartInv
  <2>3. CASE Len(raw) = 0
    <3>1. read' - Len(raw') = starts[rx_nonce + 3]
      BY <1>1, <1>4, <2>1, <2>3
    <3> QED BY <1>1, <1>2, <2>1, <3>1, Zenon DEF PlaceInv, Behind
  <2>4. CASE Len(raw) >= 1
    <3>1. NextIs(Head(raw))
      BY <1>3, <2>4, HeadPart
    <3>2. /\ rx_nonce + 3 \in 1 .. Len(parts) /\ CipherLen(parts[rx_nonce + 3]) \in Nat
          /\ starts[rx_nonce + 3] \in Nat
          /\ starts[rx_nonce + 4] = starts[rx_nonce + 3] + (HEADER_LEN + CipherLen(parts[rx_nonce + 3]))
      BY <3>1, Zenon DEF NextIs
    <3>3. starts[rx_nonce + 3] < read /\ read < starts[rx_nonce + 4]
      BY <1>1, <1>4, <2>1, <2>4, <3>2
    <3>4. rx_nonce + 3 \in DOMAIN parts
      BY <1>4, <3>2, LaidFacts
    <3>5. Lost'
      BY <1>1, <1>2, <1>3, <2>2, <3>3, <3>4, Zenon DEF Lost
    <3> QED BY <1>1, <1>2, <2>1, <3>5, Zenon DEF PlaceInv, Behind
  <2> QED BY <1>4, <2>3, <2>4
<1>9. PlainInv'
  <2>1. stage \in {"start", "early"} /\ stage' # "body"
    BY <1>1
  <2> QED BY <1>1, <1>2, <2>1, Zenon DEF ControlInv, PlainInv
<1>10. FailsForCause'
  BY <1>1, NoCause DEF Opens
<1> QED BY <1>5, <1>6, <1>7, <1>8, <1>9, <1>10 DEF ControlInv

LEMMA PumpRecordKeeps ==
    ASSUME ControlInv, PumpRecord
    PROVE  ControlInv'
<1> DEFINE b == read + 1
           k == rx_nonce + 3
           len == CipherLen(PartAt(b))
<1>1. /\ Opens /\ program = "host" /\ stage \in {"early", "body"} /\ at = "read" /\ read < Available
      /\ Verdict(b) # "record" => Fail(Verdict(b))
      /\ Verdict(b) = "record" =>
            /\ pending' = pending \o Plaintext(b) /\ read' = read + HEADER_LEN + len
            /\ rx_nonce' = rx_nonce + 1 /\ at' = "use"
            /\ started' = started /\ stage' = stage /\ hello' = hello /\ raw' = raw /\ before' = before
            /\ outcome' = outcome /\ delivered' = delivered
  BY Zenon DEF PumpRecord
<1>2. ~Shaking /\ Running
  BY <1>1 DEF Shaking, Running
<1>3. /\ Laid(parts, starts) /\ Len(parts) \in Nat /\ rx_nonce \in Nat /\ read \in Nat /\ Total \in Nat
      /\ Available \in Nat /\ Available <= Total /\ started \in Nat /\ started <= read
      /\ HEADER_LEN \in Nat /\ KindsInv
  BY InvTypes, AvailableBound, Sizing DEF ControlInv
<1>4. Behind /\ raw = <<>> /\ (read - Len(raw) = starts[k] \/ Lost)
  BY <1>1, <1>2, Zenon DEF ControlInv, PlaceInv
<1>5. b \in Nat /\ b <= Total
  BY <1>1, <1>3
<1>6. program' = program /\ parts' = parts /\ starts' = starts /\ early' = early
  BY <1>1 DEF Opens, scriptVars
<1>7. CASE Lost
  <2>1. /\ read = started /\ k \in 1 .. Len(parts) /\ starts[k] < read /\ read < starts[rx_nonce + 4]
    BY <1>3, <1>7, LaidFacts DEF Lost
  <2>2. starts[k] \in Nat /\ starts[rx_nonce + 4] \in Nat
    <3>1. k \in 1 .. Len(parts) + 1 /\ rx_nonce + 4 \in 1 .. Len(parts) + 1
      BY <1>3, <2>1
    <3> QED BY <1>3, <3>1, LaidFacts
  <2>3. starts[k] < b /\ b <= starts[rx_nonce + 4] /\ b # starts[k] + 1
    BY <1>3, <2>1, <2>2
  <2>4. PartOf(b) = k
    BY <1>3, <1>5, <2>1, <2>3, InNextPart
  <2>5. ~Aligned(b)
    BY <2>3, <2>4 DEF Aligned
  <2>6. Verdict(b) = "Noise"
    BY <2>5 DEF Verdict
  <2>7. Fail("Noise")
    BY <1>1, <2>6
  <2>8. FailsForCause'
    <3>1. started' = started /\ outcome' \in {"Noise", "Truncated"}
      BY <2>7 DEF Fail
    <3> QED BY <1>1, <2>1, <3>1, MiddleCause
  <2> QED BY <1>1, <2>7, <2>8, FailKeeps
<1>8. CASE read - Len(raw) = starts[k]
  <2>1. read = starts[k]
    BY <1>3, <1>4, <1>8
  <2>2. NextIs(b)
    BY <1>3, <1>4, <1>5, <2>1, NextPart
  <2>3. /\ k \in 1 .. Len(parts) /\ PartAt(b) = parts[k] /\ Aligned(b)
        /\ Opened(b) <=> parts[k].kind = "Record"
        /\ parts[k].kind \in {"Record", "Error"}
        /\ len \in Nat /\ starts[k] \in Nat /\ starts[rx_nonce + 4] \in Nat
        /\ starts[rx_nonce + 4] = starts[k] + (HEADER_LEN + len)
        /\ starts[rx_nonce + 4] <= Total
        /\ Plaintext(b) = PlainOf(parts, starts, k)
    BY <2>2, Zenon DEF NextIs
  <2>4. Verdict(b) = IF len > MAX_CIPHERTEXT_SIZE THEN "TooLarge"
                     ELSE IF parts[k].kind = "Error" THEN "Server" ELSE "record"
    BY <2>3 DEF Verdict
  <2> HIDE DEF len, b, k
  <2>5. CASE Verdict(b) = "TooLarge"
    <3>1. Fail("TooLarge")
      BY <1>1, <2>5
    <3>2. len > MAX_CIPHERTEXT_SIZE
      BY <2>4, <2>5
    <3>3. CipherLen(parts[k]) > MAX_CIPHERTEXT_SIZE
      BY <2>3, <3>2, Zenon DEF len
    <3>4. FailsForCause'
      BY <1>1, <2>3, <3>1, <3>3, OversizedCause DEF Fail, k
    <3> QED BY <1>1, <3>1, <3>4, FailKeeps
  <2>6. CASE Verdict(b) = "Server"
    <3>1. Fail("Server")
      BY <1>1, <2>6
    <3>2. FailsForCause'
      BY <3>1, NoCause DEF Fail
    <3> QED BY <1>1, <3>1, <3>2, FailKeeps
  <2>7. CASE Verdict(b) = "record"
    <3>1. /\ pending' = pending \o PlainOf(parts, starts, k) /\ read' = read + HEADER_LEN + len
          /\ rx_nonce' = rx_nonce + 1 /\ at' = "use"
          /\ started' = started /\ stage' = stage /\ hello' = hello /\ raw' = raw /\ before' = before
          /\ outcome' = outcome /\ delivered' = delivered
      BY <1>1, <2>3, <2>7, Zenon
    <3>2. parts[k].kind = "Record"
      BY <2>3, <2>4, <2>7
    <3>3. pending' \in Seq(Nat) /\ PlainInv' /\ Behind'
      BY <1>1, <1>2, <2>3, <3>1, <3>2, TakeRecord, Zenon DEF k
    <3>4. read' = starts[rx_nonce + 4]
      BY <1>3, <2>1, <2>3, <3>1
    <3>5. ControlTypeOK'
      <4>1. read' \in 0 .. Total /\ started' \in 0 .. read'
        BY <1>3, <2>1, <2>3, <3>1, <3>4
      <4>2. at' \in {"use", "drain", "read"} /\ program' # "fw"
        BY <1>1, <1>6, <3>1
      <4>3. ControlTypeOK
        BY DEF ControlInv
      <4> QED BY <1>6, <3>1, <4>1, <4>2, <4>3, Zenon DEF ControlTypeOK, Total
    <3>6. KindsInv' /\ RawInv'
      <4>1. rx_nonce' \in Nat
        BY <1>3, <3>1
      <4>2. LastOf(raw', read')
        <5>1. raw' = <<>> /\ read' \in Nat
          BY <1>4, <2>3, <3>1, <3>4
        <5> QED BY <5>1 DEF LastOf
      <4> QED BY <1>3, <1>6, <3>1, <3>3, <4>1, <4>2, Zenon DEF ControlInv, KindsInv, RawInv
    <3>7. ShakingInv' /\ StartInv' /\ FullInv' /\ PumpInv'
      <4>1. ~Shaking' /\ stage' # "start" /\ program' # "fw"
        BY <1>1, <1>6, <3>1 DEF Shaking
      <4> QED BY <4>1, Zenon DEF ShakingInv, StartInv, FullInv, PumpInv
    <3>8. PlaceInv'
      <4>1. rx_nonce' + 3 = rx_nonce + 4
        BY <1>3, <3>1
      <4>2. read' - Len(raw') = starts[rx_nonce + 4]
        BY <1>4, <2>3, <3>1, <3>4
      <4> QED BY <1>4, <1>6, <3>1, <3>3, <4>1, <4>2, Zenon DEF PlaceInv
    <3>9. FailsForCause'
      BY <1>1, <3>1, NoCause DEF Opens
    <3> QED BY <3>3, <3>5, <3>6, <3>7, <3>8, <3>9 DEF ControlInv
  <2> QED BY <2>4, <2>5, <2>6, <2>7
<1> QED BY <1>4, <1>7, <1>8

\* The three steps of the reader leave all but the plaintext and the pump's state alone.
LEMMA UseKeeps ==
    ASSUME ControlInv, Uses, NEW s \in {"early", "body"}, stage' = s, stage = "body" => s = "body",
           read' = read, started' = started, hello' = hello, raw' = raw, rx_nonce' = rx_nonce,
           outcome' = outcome, at' \in {"use", "drain", "read"}, before' \in Int,
           pending' \in Seq(Nat), Len(pending') <= Len(pending), delivered' \in Seq(Nat),
           PlainInv', program = "fw" => at' # "read" /\ PumpInv'
    PROVE  ControlInv'
<1>1. Opens /\ stage \in {"early", "body"}
  BY DEF Uses
<1>2. program' = program /\ parts' = parts /\ starts' = starts /\ early' = early
  BY <1>1 DEF Opens, scriptVars
<1>3. ~Shaking /\ Running /\ ~Shaking' /\ Running' /\ stage' # "start"
  BY <1>1 DEF Shaking, Running
<1>4. ControlTypeOK'
  <2>1. stage \notin {"upgrade", "response"} /\ stage' \notin {"upgrade", "response"}
        /\ stage' \in {"upgrade", "response", "start", "early", "body"}
    BY <1>1
  <2>2. ControlTypeOK
    BY DEF ControlInv
  <2>3. program = "fw" => Len(pending') <= PENDING
    <3>1. program = "fw" => Len(pending) <= PENDING
      BY <2>2 DEF ControlTypeOK
    <3>2. Len(pending) \in Nat /\ PENDING \in Nat /\ Len(pending') \in Nat
      BY InvTypes, Sizing
    <3> QED BY <3>1, <3>2
  <2> QED BY <1>2, <2>1, <2>2, <2>3, Zenon DEF ControlTypeOK, Total
<1>5. KindsInv' /\ RawInv'
  BY <1>2, Zenon DEF ControlInv, KindsInv, RawInv
<1>6. ShakingInv' /\ StartInv'
  BY <1>3, Zenon DEF ShakingInv, StartInv
<1>7. FullInv' /\ PumpInv'
  BY <1>2, Zenon DEF FullInv, PumpInv
<1>8. PlaceInv'
  <2>1. /\ Behind /\ (program = "host" => raw = <<>>)
        /\ (read - Len(raw) = starts[rx_nonce + 3] \/ Lost)
    BY <1>3, Zenon DEF ControlInv, PlaceInv
  <2>2. Behind'
    BY <1>2, <2>1, Zenon DEF Behind
  <2>3. Lost => Lost'
    BY <1>2, <1>3, Zenon DEF Lost
  <2> QED BY <1>2, <2>1, <2>2, <2>3, Zenon DEF PlaceInv
<1>9. FailsForCause'
  BY <1>1, NoCause DEF Opens
<1> QED BY <1>4, <1>5, <1>6, <1>7, <1>8, <1>9 DEF ControlInv

LEMMA SkipEarlyPayloadKeeps ==
    ASSUME ControlInv, SkipEarlyPayload
    PROVE  ControlInv'
<1>1. /\ Uses /\ stage = "early" /\ parse_early_payload # "Incomplete" /\ stage' = "body"
      /\ pending' = IF parse_early_payload = "Absent" THEN pending
                    ELSE SubSeq(pending, early + 1, Len(pending))
      /\ read' = read /\ started' = started /\ at' = at /\ hello' = hello /\ raw' = raw
      /\ before' = before /\ rx_nonce' = rx_nonce /\ outcome' = outcome /\ delivered' = delivered
  BY DEF SkipEarlyPayload
<1>2. parts' = parts /\ starts' = starts /\ early' = early /\ at = "use"
  BY <1>1 DEF Uses, Opens, scriptVars
<1>3. /\ Len(pending) \in Nat /\ pending \in Seq(Nat) /\ delivered \in Seq(Nat) /\ early \in Nat /\ before \in Int
  BY InvTypes
<1>4. /\ delivered = <<>> /\ Ranked(parts, starts, pending, 0)
      /\ Len(pending) = Rank(parts, starts, starts[rx_nonce + 3])
  BY <1>1 DEF ControlInv, PlainInv
<1>5. /\ pending' \in Seq(Nat) /\ early + Len(pending') = Len(pending)
      /\ Ranked(parts, starts, pending', early)
  <2>1. CASE parse_early_payload = "Absent"
    <3>1. early = 0 /\ pending' = pending
      BY <1>1, <2>1 DEF parse_early_payload
    <3>2. early + Len(pending) = Len(pending)
      BY <1>3, <3>1
    <3> QED BY <1>3, <1>4, <3>1, <3>2, Zenon
  <2>2. CASE parse_early_payload # "Absent"
    <3>1. ~(Len(pending) < early)
      BY <1>1, <2>2 DEF parse_early_payload
    <3>2. early <= Len(pending)
      BY <1>3, <3>1
    <3>3. pending' = SubSeq(pending, early + 1, Len(pending))
      BY <1>1, <2>2
    <3>4. /\ Ranked(parts, starts, pending', early) /\ pending' \in Seq(Nat)
          /\ Len(pending') = Len(pending) - early
      BY <1>3, <1>4, <3>2, <3>3, RankedRest, ZenonT(60)
    <3>5. early + Len(pending') = Len(pending)
      BY <1>3, <3>4
    <3> QED BY <3>4, <3>5
  <2> QED BY <2>1, <2>2
<1>6. Len(pending') <= Len(pending)
  <2>1. Len(pending') \in Nat /\ early + Len(pending') = Len(pending)
    BY <1>5
  <2> QED BY <1>3, <2>1
<1>7. PlainInv'
  <2>1. <<>> \o pending' = pending' /\ Len(<<>>) = 0
    BY <1>5
  <2>2. early + 0 + Len(pending') = Rank(parts, starts, starts[rx_nonce + 3])
    BY <1>3, <1>4, <1>5
  <2>3. stage' \notin {"start", "early"}
    BY <1>1
  <2> QED BY <1>1, <1>2, <1>4, <1>5, <2>1, <2>2, <2>3, Zenon DEF PlainInv
<1>8. PumpInv'
  <2>1. at' \notin {"drain", "read"}
    BY <1>1, <1>2
  <2> QED BY <2>1 DEF PumpInv
<1>9. at' \in {"use", "drain", "read"} /\ at' # "read" /\ "body" \in {"early", "body"}
  BY <1>1, <1>2
<1> QED BY <1>1, <1>3, <1>5, <1>6, <1>7, <1>8, <1>9, UseKeeps, Zenon

LEMMA FeedKeeps ==
    ASSUME ControlInv, Feed
    PROVE  ControlInv'
<1>1. /\ Uses /\ stage = "body" /\ delivered' = delivered \o pending /\ pending' = <<>>
      /\ read' = read /\ started' = started /\ stage' = stage /\ at' = at /\ hello' = hello
      /\ raw' = raw /\ before' = before /\ rx_nonce' = rx_nonce /\ outcome' = outcome
  BY DEF Feed
<1>2. parts' = parts /\ starts' = starts /\ early' = early /\ at = "use"
  BY <1>1 DEF Uses, Opens, scriptVars
<1>3. /\ Len(pending) \in Nat /\ pending \in Seq(Nat) /\ delivered \in Seq(Nat) /\ Len(delivered) \in Nat
      /\ early \in Nat /\ before \in Int
  BY InvTypes
<1>4. /\ Ranked(parts, starts, delivered \o pending, early)
      /\ early + Len(delivered) + Len(pending) = Rank(parts, starts, starts[rx_nonce + 3])
  BY <1>1 DEF ControlInv, PlainInv
<1>5. /\ delivered \o pending \in Seq(Nat) /\ Len(delivered \o pending) = Len(delivered) + Len(pending)
      /\ (delivered \o pending) \o <<>> = delivered \o pending /\ Len(<<>>) = 0
  BY <1>3
<1>6. delivered' \in Seq(Nat) /\ pending' \in Seq(Nat) /\ Len(pending') <= Len(pending)
  BY <1>1, <1>3, <1>5
<1>7. PlainInv'
  <2>1. early + Len(delivered \o pending) + 0 = Rank(parts, starts, starts[rx_nonce + 3])
    <3>1. early + Len(delivered \o pending) + 0 = early + Len(delivered) + Len(pending)
      BY <1>3, <1>5
    <3> QED BY <1>4, <3>1, Zenon
  <2>2. stage' \notin {"start", "early"}
    BY <1>1
  <2> QED BY <1>1, <1>2, <1>4, <1>5, <2>1, <2>2, Zenon DEF PlainInv
<1>8. PumpInv'
  <2>1. at' \notin {"drain", "read"}
    BY <1>1, <1>2
  <2> QED BY <2>1 DEF PumpInv
<1>9. at' \in {"use", "drain", "read"} /\ at' # "read" /\ "body" \in {"early", "body"}
  BY <1>1, <1>2
<1> QED BY <1>1, <1>3, <1>6, <1>7, <1>8, <1>9, UseKeeps, Zenon

LEMMA PumpKeeps ==
    ASSUME ControlInv, Pump
    PROVE  ControlInv'
<1>1. /\ Uses
      /\ \/ stage = "early" /\ parse_early_payload = "Incomplete"
         \/ stage = "body" /\ pending = <<>>
      /\ before' = Len(pending)
      /\ at' = IF program = "fw" THEN "drain" ELSE "read"
      /\ read' = read /\ started' = started /\ stage' = stage /\ hello' = hello /\ raw' = raw
      /\ pending' = pending /\ rx_nonce' = rx_nonce /\ outcome' = outcome /\ delivered' = delivered
  BY DEF Pump
<1>2. parts' = parts /\ starts' = starts /\ early' = early
  BY <1>1 DEF Uses, Opens, scriptVars
<1>3. /\ Len(pending) \in Nat /\ pending \in Seq(Nat) /\ delivered \in Seq(Nat) /\ early \in Nat
  BY InvTypes
<1>4. PlainInv'
  BY <1>1, <1>2, Zenon DEF ControlInv, PlainInv
<1>5. program = "fw" => at' # "read" /\ PumpInv'
  <2>1. \/ Len(pending) = 0
        \/ stage = "early" /\ 0 < Len(pending) /\ Len(pending) < early
    <3>1. CASE stage = "early" /\ parse_early_payload = "Incomplete"
      <4>1. Len(pending) < early \/ pending = <<>>
        BY <3>1 DEF parse_early_payload
      <4> QED BY <1>3, <3>1, <4>1
    <3>2. CASE pending = <<>>
      BY <3>2
    <3> QED BY <1>1, <3>1, <3>2
  <2>2. program = "fw" => at' = "drain" /\ at' # "read"
    BY <1>1
  <2> QED BY <1>1, <1>2, <2>1, <2>2, Zenon DEF PumpInv
<1>6. at' \in {"use", "drain", "read"} /\ stage \in {"early", "body"}
  BY <1>1
<1>7. before' \in Int /\ Len(pending') <= Len(pending)
  BY <1>1, <1>3
<1> QED BY <1>1, <1>3, <1>4, <1>5, <1>6, <1>7, UseKeeps, Zenon

LEMMA ControlInvInit == ControlInit => ControlInv
<1>0. SUFFICES ASSUME ControlInit PROVE ControlInv
  OBVIOUS
<1>1. PICK s \in Scripts : parts = s.parts /\ starts = s.starts /\ early = s.early
  BY <1>0 DEF ControlInit
<1>2. Laid(parts, starts) /\ early \in Nat
  BY <1>1, ControlAssumption
<1>3. /\ program \in {"fw", "host"} /\ read = 0 /\ started = 0 /\ stage = "upgrade" /\ at = "read"
      /\ hello = FALSE /\ raw = <<>> /\ pending = <<>> /\ before = 0 /\ rx_nonce = 0
      /\ outcome = "open" /\ delivered = <<>>
  BY <1>0 DEF ControlInit
<1>4. KindsInv
  BY <1>2, <1>3 DEF KindsInv
<1>5. ControlTypeOK
  <2>1. Total \in Nat
    BY <1>4, TotalIs
  <2>2. BUF[program] \in Nat /\ PENDING \in Nat
    BY <1>3, Sizing
  <2>3. read \in 0 .. Total /\ started \in 0 .. read /\ Len(raw) <= BUF[program] /\ Len(pending) <= PENDING
    BY <1>3, <2>1, <2>2
  <2> QED BY <1>3, <2>3 DEF ControlTypeOK
<1>6. RawInv
  BY <1>3 DEF RawInv, LastOf
<1>7. Shaking /\ ~Running
  BY <1>3 DEF Shaking, Running
<1>8. ShakingInv /\ StartInv /\ PlaceInv /\ PlainInv /\ PumpInv /\ FullInv
  BY <1>3, <1>7 DEF ShakingInv, StartInv, PlaceInv, PlainInv, PumpInv, FullInv
<1>9. FailsForCause
  BY <1>3 DEF FailsForCause
<1> QED BY <1>4, <1>5, <1>6, <1>8, <1>9 DEF ControlInv

LEMMA ControlInvNext == ControlInv /\ [ControlNext]_controlVars => ControlInv'
<1>0. SUFFICES ASSUME ControlInv, [ControlNext]_controlVars PROVE ControlInv'
  OBVIOUS
<1>1. CASE UNCHANGED controlVars
  <2>1. /\ program' = program /\ parts' = parts /\ starts' = starts /\ early' = early
        /\ read' = read /\ started' = started /\ stage' = stage /\ at' = at /\ hello' = hello
        /\ raw' = raw /\ pending' = pending /\ before' = before /\ rx_nonce' = rx_nonce
        /\ outcome' = outcome /\ delivered' = delivered
    BY <1>1 DEF controlVars, scriptVars
  <2>2. ControlTypeOK' /\ KindsInv' /\ RawInv' /\ ShakingInv' /\ StartInv'
    BY <1>0, <2>1, Zenon DEF ControlInv, ControlTypeOK, Total, KindsInv, RawInv, ShakingInv, StartInv, Shaking
  <2>3. PumpInv' /\ FullInv'
    BY <1>0, <2>1, Zenon DEF ControlInv, PumpInv, FullInv, Running
  <2>4. PlaceInv' /\ PlainInv'
    BY <1>0, <2>1, Zenon DEF ControlInv, PlaceInv, PlainInv, Behind, Lost, Shaking, Running
  <2>5. FailsForCause'
    <3>1. Oversized' <=> Oversized
      BY <2>1, Zenon DEF Oversized
    <3>2. EarlySplit => EarlySplit'
      BY <2>1, Zenon DEF EarlySplit, PlainUpTo, IsPlaintext, PartAt, PartOf
    <3>3. EndOfPart(started)' <=> EndOfPart(started)
      BY <2>1, Zenon DEF EndOfPart, PartOf
    <3> QED BY <1>0, <2>1, <3>1, <3>2, <3>3, Zenon DEF ControlInv, FailsForCause
  <2> QED BY <2>2, <2>3, <2>4, <2>5 DEF ControlInv
<1>2. CASE ConnectionLost
  BY <1>0, <1>2, ConnectionLostKeeps
<1>3. CASE Handshake
  BY <1>0, <1>3, ReadHandshakeKeeps, HandshakeFails, FinishKeeps DEF Handshake
<1>4. CASE Firmware
  BY <1>0, <1>4, StartKeeps, DrainKeeps, DrainedKeeps, RawFullKeeps, ReadRawKeeps DEF Firmware
<1>5. CASE Host
  BY <1>0, <1>5, AbsorbRecordKeeps, StartHostKeeps, PumpRecordKeeps DEF Host
<1>6. CASE SkipEarlyPayload \/ Feed \/ Pump
  BY <1>0, <1>6, SkipEarlyPayloadKeeps, FeedKeeps, PumpKeeps
<1> QED BY <1>0, <1>1, <1>2, <1>3, <1>4, <1>5, <1>6 DEF ControlNext, Client

\* The invariant of the control connection holds of either program, for every size of the
\* header, the tag and the buffers, and for everything a server sends in the protocol's order.
THEOREM ControlInvariant == ControlSpec => []ControlInv
BY ControlInvInit, ControlInvNext, PTL DEF ControlSpec

\* No buffer of the upgrade, of the Noise handshake, of `raw` or of `pending` overflows,
\* and nothing is read that the server did not send.
THEOREM ControlTypes == ControlSpec => []ControlTypeOK
<1>1. ControlInv => ControlTypeOK
  BY DEF ControlInv
<1> QED BY <1>1, ControlInvariant, PTL

\* HTTP/2 is given what the server sealed for it, byte for byte and in order, however TCP
\* cut the upgrade, the response, the early payload and the records.
THEOREM PlaintextExactHolds == ControlSpec => []PlaintextExact
<1>1. ControlInv => PlaintextExact
  <2>0. SUFFICES ASSUME ControlInv PROVE PlaintextExact
    OBVIOUS
  <2>1. delivered \in Seq(Nat) /\ pending \in Seq(Nat)
    BY <2>0, InvTypes
  <2>2. CASE stage = "body"
    <3>1. Ranked(parts, starts, delivered \o pending, early)
      BY <2>0, <2>2 DEF ControlInv, PlainInv
    <3>2. delivered \o pending \in Seq(Nat)
      BY <2>1
    <3>3. PICK d \in Seq(Nat) : d = delivered \o pending
      BY <3>2
    <3>4. \A i \in DOMAIN d : IsPlaintext(d[i]) /\ PlainUpTo(d[i]) = early + i
      <4>1. DOMAIN d = 1 .. Len(d)
        BY <3>3
      <4>2. \A i \in 1 .. Len(d) : PlainIn(parts, starts, d[i]) /\ Rank(parts, starts, d[i]) = early + i
        BY <3>1, <3>3, Zenon DEF Ranked
      <4> QED BY <4>1, <4>2, NamesOfScript, Zenon
    <3> QED BY <2>2, <3>3, <3>4, Zenon DEF PlaintextExact
  <2>3. CASE stage # "body"
    <3>1. stage \in {"upgrade", "response", "start", "early"}
      BY <2>0, <2>3 DEF ControlInv, ControlTypeOK
    <3>2. delivered = <<>>
      BY <2>0, <3>1 DEF ControlInv, ShakingInv, PlainInv, Shaking
    <3>3. delivered \o <<>> = <<>> /\ DOMAIN <<>> = {}
      BY <3>2
    <3> QED BY <2>3, <3>3, Zenon DEF PlaintextExact
  <2> QED BY <2>2, <2>3
<1> QED BY <1>1, ControlInvariant, PTL

\* A server that keeps to the protocol and to its sizes is never hung up on: the firmware
\* gives up only on a record too long or on an early payload in pieces it cannot gather,
\* and only the host loses its place, when its handshake's last read ended inside a record.
THEOREM FailsForCauseHolds == ControlSpec => []FailsForCause
<1>1. ControlInv => FailsForCause
  BY DEF ControlInv
<1> QED BY <1>1, ControlInvariant, PTL
==============================================================================
