------------------------------- MODULE WgPeer -------------------------------
(***************************************************************************)
(* The life of one WireGuard peer: the current and the previous session,   *)
(* the handshake in flight, and the timers that retire and renew them      *)
(* (tailscale-core/src/wireguard/peer.rs).                                 *)
(*                                                                         *)
(* `Peer` is passive: the caller supplies the time and calls its methods   *)
(* in any order.  The caller modelled here is free to do so, except that   *)
(* it sends an initiation only when `poll` asked for one, possibly some    *)
(* time after it asked, and that it gives a new session an index neither   *)
(* live session has (the hosts take them from a counter).                  *)
(***************************************************************************)
EXTENDS Integers, WgLimits

CONSTANTS
    REKEY_AFTER_TIME, REJECT_AFTER_TIME, REKEY_TIMEOUT, REKEY_ATTEMPT_TIME,
    KEEPALIVE_TIMEOUT, REKEY_AFTER_MESSAGES,
    Indices,   \* the local indices of sessions
    None,      \* an Option that holds nothing
    MAX_TIME   \* bound: the clock stops here

ASSUME TimersAssumption ==
    /\ REKEY_AFTER_TIME \in Nat
    /\ REJECT_AFTER_TIME \in Nat \ {0}
    /\ REKEY_TIMEOUT \in Nat
    /\ REKEY_ATTEMPT_TIME \in Nat \ {0}
    /\ KEEPALIVE_TIMEOUT \in Nat
    /\ REKEY_AFTER_MESSAGES \in Nat
    /\ REJECT_AFTER_MESSAGES \in Nat
    /\ REKEY_AFTER_MESSAGES <= REJECT_AFTER_MESSAGES
    /\ MAX_TIME \in Nat

VARIABLES
    now,                \* the caller's monotonic clock
    current, previous,  \* the sessions, or None
    handshake_sent,     \* when the initiation in flight was sent, or None
    handshake_started,  \* when the current run of attempts began, or None
    todo,               \* the last answer of poll, until the caller acts on it
    attempts, first,    \* history: how many initiations were sent since the last
                        \* session, and when the first of them
    useAge              \* history: the age of the key last handed out

peerVars == <<current, previous, handshake_sent, handshake_started>>
tried == <<attempts, first>>
vars == <<now, peerVars, todo, tried, useAge>>

Actions == {"Idle", "Initiate", "Keepalive"}

Actives ==
    [index : Indices, established : Nat, last_sent : Nat \cup {None},
     last_received : Nat \cup {None}, initiator : BOOLEAN, send_counter : Nat]

ASSUME NoneAssumption == None \notin Nat /\ None \notin Actives

-----------------------------------------------------------------------------
(* The timers.  Time never precedes an event, so saturating_sub is minus.  *)

\* Mutant: a key lives one tick too long.
expired_Late(a) == now - a.established > REJECT_AFTER_TIME

expired(a) == now - a.established >= REJECT_AFTER_TIME

due_for_rekey(a) ==
    /\ a.initiator
    /\ \/ now - a.established >= REKEY_AFTER_TIME
       \/ a.send_counter >= REKEY_AFTER_MESSAGES

\* Data arrived after anything we sent, and long enough ago.
owes_keepalive(a) ==
    /\ a.last_received # None
    /\ a.last_sent # None => a.last_sent < a.last_received
    /\ now - a.last_received >= KEEPALIVE_TIMEOUT

has_session == current # None /\ ~expired(current)

giving_up == now - handshake_started >= REKEY_ATTEMPT_TIME

poll ==
    IF handshake_sent # None
    THEN IF ~giving_up /\ now - handshake_sent >= REKEY_TIMEOUT
         THEN "Initiate" ELSE "Idle"
    ELSE IF ~has_session \/ due_for_rekey(current) THEN "Initiate"
    ELSE IF owes_keepalive(current) THEN "Keepalive" ELSE "Idle"

-----------------------------------------------------------------------------

Init ==
    /\ now = 0
    /\ current = None /\ previous = None
    /\ handshake_sent = None /\ handshake_started = None
    /\ todo = "Idle"
    /\ attempts = 0 /\ first = None
    /\ useAge = 0

Tick ==
    /\ now < MAX_TIME
    /\ now' = now + 1
    /\ UNCHANGED <<peerVars, todo, tried, useAge>>

Poll ==
    /\ todo' = poll
    /\ UNCHANGED <<now, peerVars, tried, useAge>>

\* Mutant: every attempt starts the run of attempts anew.
HandshakeSent_Restart ==
    /\ todo = "Initiate"
    /\ todo' = "Idle"
    /\ handshake_sent' = now
    /\ handshake_started' = now
    /\ attempts' = attempts + 1
    /\ first' = IF attempts = 0 THEN now ELSE first
    /\ UNCHANGED <<now, current, previous, useAge>>

HandshakeSent ==
    /\ todo = "Initiate"
    /\ todo' = "Idle"
    /\ handshake_sent' = now
    /\ handshake_started' = IF handshake_started = None THEN now ELSE handshake_started
    /\ attempts' = attempts + 1
    /\ first' = IF attempts = 0 THEN now ELSE first
    /\ UNCHANGED <<now, current, previous, useAge>>

NewActive(i, initiator) ==
    [index |-> i, established |-> now, last_sent |-> None, last_received |-> None,
     initiator |-> initiator, send_counter |-> 0]

\* Mutant: the key in use is forgotten at once.
install_session_Forget(i, initiator) ==
    /\ current # None => current.index # i
    /\ previous' = None
    /\ current' = NewActive(i, initiator)
    /\ handshake_sent' = None /\ handshake_started' = None
    /\ attempts' = 0 /\ first' = None
    /\ UNCHANGED <<now, todo, useAge>>

\* Mutant: the run of attempts is left open.
install_session_OpenRun(i, initiator) ==
    /\ current # None => current.index # i
    /\ previous # None => previous.index # i
    /\ previous' = current
    /\ current' = NewActive(i, initiator)
    /\ handshake_sent' = None
    /\ attempts' = 0 /\ first' = None
    /\ UNCHANGED <<now, handshake_started, todo, useAge>>

\* A new key retires the current one to the previous place.
install_session(i, initiator) ==
    /\ current # None => current.index # i
    /\ previous # None => previous.index # i
    /\ previous' = current
    /\ current' = NewActive(i, initiator)
    /\ handshake_sent' = None
    /\ handshake_started' = None
    /\ attempts' = 0 /\ first' = None
    /\ UNCHANGED <<now, todo, useAge>>

\* send_session would refuse the current session.
Refused(a) == expired(a) \/ a.send_counter >= REJECT_AFTER_MESSAGES

\* send_session hands out the current session, and the caller encrypts one
\* packet with it: data, or the keepalive that poll asked for.
SendSession ==
    /\ current # None
    /\ ~Refused(current)
    /\ current' = [current EXCEPT !.last_sent = now, !.send_counter = @ + 1]
    /\ useAge' = now - current.established
    /\ todo' = IF todo = "Keepalive" THEN "Idle" ELSE todo
    /\ UNCHANGED <<now, previous, handshake_sent, handshake_started, tried>>

\* session_for_index would pick this session for index i.
Serves(a, i) == a # None /\ a.index = i /\ ~expired(a)

Received(a) == [a EXCEPT !.last_received = now]

session_for_index(i) ==
    /\ \/ /\ Serves(current, i)
          /\ current' = Received(current)
          /\ useAge' = now - current.established
          /\ UNCHANGED previous
       \/ /\ ~Serves(current, i)
          /\ Serves(previous, i)
          /\ previous' = Received(previous)
          /\ useAge' = now - previous.established
          /\ UNCHANGED current
    /\ UNCHANGED <<now, handshake_sent, handshake_started, todo, tried>>

Unexpired(a) == IF a # None /\ expired(a) THEN None ELSE a

expire ==
    /\ current' = Unexpired(current)
    /\ previous' = Unexpired(previous)
    /\ UNCHANGED <<now, handshake_sent, handshake_started, todo, tried, useAge>>

Next ==
    \/ Tick
    \/ Poll
    \/ HandshakeSent
    \/ \E i \in Indices, initiator \in BOOLEAN : install_session(i, initiator)
    \/ SendSession
    \/ \E i \in Indices : session_for_index(i)
    \/ expire

Spec == Init /\ [][Next]_vars

-----------------------------------------------------------------------------

\* Every variable has its type, and a handshake is in flight exactly while a
\* run of attempts is open.
TypeOK ==
    /\ now \in 0 .. MAX_TIME
    /\ current \in Actives \cup {None}
    /\ previous \in Actives \cup {None}
    /\ handshake_sent \in Nat \cup {None}
    /\ handshake_started \in Nat \cup {None}
    /\ handshake_sent = None <=> handshake_started = None
    /\ todo \in Actions
    /\ attempts \in Nat /\ first \in Nat \cup {None}
    /\ useAge \in Nat

\* No key is handed out, to send or to receive, once it is REJECT_AFTER_TIME
\* old, whichever place it is in and however late `expire` is called.
KeyLifetime == useAge < REJECT_AFTER_TIME

\* Initiations sent without an answer are at least REKEY_TIMEOUT apart and stop
\* within REKEY_ATTEMPT_TIME of the first, so their number is bounded, however
\* long the caller waits between asking `poll` and sending.
AttemptsBounded ==
    attempts > 0 => (attempts - 1) * REKEY_TIMEOUT < REKEY_ATTEMPT_TIME

\* A peer that cannot send, its key gone or refused to the initiator it belongs to,
\* is told to initiate, save in two cases: an initiation went out less than
\* REKEY_TIMEOUT ago, or none since the last session was answered and the first of
\* them is REKEY_ATTEMPT_TIME old.  (In the second case `poll` is idle for ever: only
\* a handshake that the other side starts gives the peer a session again.)
QuietOnlyAfterWindow ==
    /\ current # None => Refused(current) /\ current.initiator
    /\ poll # "Initiate"
    => /\ attempts > 0
       /\ \/ now - handshake_sent < REKEY_TIMEOUT
          \/ now - first >= REKEY_ATTEMPT_TIME

\* A packet for index i finds a session.
Usable(i) == Serves(current, i) \/ Serves(previous, i)

\* A key stays usable for the packets in flight under it through the rekey that
\* replaces it: it is lost only to age, or to a second rekey.
RekeyOverlap ==
    [][\A i \in Indices :
          /\ Serves(current, i) =>
                \/ Usable(i)'
                \/ now' - current.established >= REJECT_AFTER_TIME
          /\ Serves(previous, i) =>
                \/ Usable(i)'
                \/ now' - previous.established >= REJECT_AFTER_TIME
                \/ previous' = current /\ current' # current]_vars
=============================================================================
