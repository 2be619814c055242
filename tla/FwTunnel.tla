------------------------------ MODULE FwTunnel ------------------------------
(***************************************************************************)
(* The pool of listeners and workers that carries tailnet TCP connections  *)
(* onto the LAN (lando-fw/src/tunnel.rs), and the supervisor that drops    *)
(* and restarts the workers with every control session                     *)
(* (lando-fw/src/main.rs).                                                 *)
(*                                                                         *)
(* Each listener is one smoltcp socket with no accept queue: it holds at   *)
(* most one connection and must be put back to listening by hand.  The     *)
(* `Tunnel`, with its sockets and `claimed` flags, is built once; the      *)
(* workers live only as long as a control session.                         *)
(***************************************************************************)
EXTENDS Integers

CONSTANTS
    LISTENERS,     \* how many sockets listen (PORTS.len())
    Workers,       \* the worker futures of `serve`
    None,
    MAX_RESTARTS   \* bound: control sessions that end

ASSUME PoolAssumption ==
    /\ LISTENERS \in Nat /\ MAX_RESTARTS \in Nat
    /\ None \notin 1 .. LISTENERS

VARIABLES
    sock,        \* external: the smoltcp state of each listener's socket
    claimed,     \* sockets a worker has taken
    worker,      \* what each worker is doing and for which socket; whether the LAN
                 \* socket has bytes queued, and whether all has been silent
    up,          \* a control session is running, and the workers with it
    restarts,
    reused       \* history: a worker's socket was handed to a later client

workerVars == <<claimed, worker>>
sessionVars == <<up, restarts>>
vars == <<sock, workerVars, sessionVars, reused>>

Slots == 1 .. LISTENERS
TcpStates == {"Listen", "SynReceived", "Established", "CloseWait", "Closed"}
Idle == [at |-> "claim", slot |-> None, queued |-> FALSE, silent |-> FALSE]

\* smoltcp's predicates on a socket.  CloseWait is a FIN with all before it read.
may_recv(i) == sock[i] = "Established"
may_send(i) == sock[i] \in {"Established", "CloseWait"}
is_active(i) == sock[i] \notin {"Closed", "Listen"}

Init ==
    /\ sock = [i \in Slots |-> "Listen"]
    /\ claimed = [i \in Slots |-> FALSE]
    /\ worker = [w \in Workers |-> Idle]
    /\ up = TRUE
    /\ restarts = 0
    /\ reused = FALSE

-----------------------------------------------------------------------------
(* The clients, external: segments reach a socket only while the tasks run *)
(* that decrypt them and poll the interface.                               *)

Segment(i, from, to) ==
    /\ up
    /\ sock[i] \in from
    /\ sock' = [sock EXCEPT ![i] = to]
    /\ UNCHANGED <<workerVars, sessionVars>>

ClientSyn(i) ==
    /\ Segment(i, {"Listen"}, "SynReceived")
    /\ reused' = (reused \/ \E w \in Workers : worker[w].slot = i)

ClientAck(i) == Segment(i, {"SynReceived"}, "Established") /\ UNCHANGED reused

ClientFin(i) == Segment(i, {"Established"}, "CloseWait") /\ UNCHANGED reused

\* A reset returns a half-open socket to listening and closes any other.
ClientRst(i) ==
    /\ \/ Segment(i, {"SynReceived"}, "Listen")
       \/ Segment(i, {"Established", "CloseWait"}, "Closed")
    /\ UNCHANGED reused

-----------------------------------------------------------------------------
(* The workers.                                                            *)

\* Mutant: a socket another worker splices is taken again.
Claimable_Shared == {i \in Slots : may_recv(i) \/ may_send(i)}

\* Mutant: the scan stops before the last listener.
Claimable_Short ==
    {i \in 1 .. LISTENERS - 1 : ~claimed[i] /\ (may_recv(i) \/ may_send(i))}

Claimable == {i \in Slots : ~claimed[i] /\ (may_recv(i) \/ may_send(i))}

\* `claim` scans the listeners in order and takes the first that is ready.
Claim(w) ==
    /\ up
    /\ worker[w].at = "claim"
    /\ \E i \in Claimable :
          /\ \A j \in Claimable : i <= j
          /\ claimed' = [claimed EXCEPT ![i] = TRUE]
          /\ worker' = [worker EXCEPT ![w] =
                [Idle EXCEPT !.at = "dial", !.slot = i]]
    /\ UNCHANGED <<sock, sessionVars, reused>>

\* A step of a worker that touches no tunnel socket.
Becomes(w, from, new) ==
    /\ up
    /\ worker[w].at \in from
    /\ worker' = [worker EXCEPT ![w] = new]
    /\ UNCHANGED <<sock, claimed, sessionVars, reused>>

Goes(w, to) == [worker[w] EXCEPT !.at = to, !.silent = FALSE]

\* Mutant: a failed dial already returns the socket, and the worker does again.
Dialled_Early(w) ==
    /\ up
    /\ worker[w].at = "dial"
    /\ sock' = [sock EXCEPT ![worker[w].slot] = "Listen"]
    /\ claimed' = [claimed EXCEPT ![worker[w].slot] = FALSE]
    /\ worker' = [worker EXCEPT ![w].at = "close"]
    /\ UNCHANGED <<sessionVars, reused>>

\* `splice` dials the LAN host and relays, or gives up on it.
Dialled(w) == \E to \in {"relay", "close"} : Becomes(w, {"dial"}, Goes(w, to))

\* The client's bytes are read, and write_all waits for room in the LAN socket:
\* while it does, `relay` looks at nothing else.
RelayReads(w) ==
    /\ Becomes(w, {"relay"}, Goes(w, "write"))
    /\ may_recv(worker[w].slot)

\* There is room, at the latest when nothing is queued.
WriteDone(w) == Becomes(w, {"write"}, [worker[w] EXCEPT !.at = "relay", !.queued = TRUE])

\* The LAN host sends, and the bytes go to the client.
LanSends(w) == Becomes(w, {"relay"}, Goes(w, "relay"))

\* The LAN host takes what is queued.  One that lives and keeps its window shut
\* never does, and its answers to the keep-alive put off the socket's timeout.
LanTakes(w) ==
    /\ worker[w].queued
    /\ Becomes(w, {"relay", "write", "flush", "close"}, [worker[w] EXCEPT !.queued = FALSE])

\* The LAN host closes or fails: a read ends, or a write does.
LanEnds(w) ==
    \/ Becomes(w, {"relay"}, Goes(w, "flush"))
    \/ Becomes(w, {"write"}, [worker[w] EXCEPT !.at = "close", !.queued = FALSE])

\* No bytes either way for as long as `relay` allows, which then ends.
Quiet(w) == ~worker[w].silent /\ Becomes(w, {"relay"}, [worker[w] EXCEPT !.silent = TRUE])

TimesOut(w) == worker[w].silent /\ Becomes(w, {"relay"}, Goes(w, "close"))

\* Mutant: the client's FIN does not end the relay.
RelayEnds_HalfOpen(w) ==
    Becomes(w, {"relay"}, Goes(w, "close")) /\ ~is_active(worker[w].slot)

\* The tunnel socket is inactive, or the client has finished.
RelayEnds(w) ==
    /\ Becomes(w, {"relay"}, Goes(w, "close"))
    /\ ~is_active(worker[w].slot) \/ ~may_recv(worker[w].slot)

\* The bounded `flush` of the tunnel socket once the LAN host is done.
Flushed(w) == Becomes(w, {"flush"}, Goes(w, "close"))

\* Once the LAN socket has been flushed, which waits for the LAN host to take what
\* is queued, and closed: abort, poll, listen, and the flag is released, all under
\* one lock.
relisten(w) ==
    /\ up
    /\ worker[w].at = "close" /\ ~worker[w].queued
    /\ sock' = [sock EXCEPT ![worker[w].slot] = "Listen"]
    /\ claimed' = [claimed EXCEPT ![worker[w].slot] = FALSE]
    /\ worker' = [worker EXCEPT ![w] = Idle]
    /\ UNCHANGED <<sessionVars, reused>>

-----------------------------------------------------------------------------
(* The supervisor: `select4` returns when the map poll ends, dropping the  *)
(* workers wherever they were; after a delay a new session starts new ones.*)

SessionEnds ==
    /\ up
    /\ restarts < MAX_RESTARTS
    /\ restarts' = restarts + 1
    /\ up' = FALSE
    /\ worker' = [w \in Workers |-> Idle]
    /\ UNCHANGED <<sock, claimed, reused>>

SessionStarts ==
    /\ ~up
    /\ up' = TRUE
    /\ UNCHANGED <<sock, workerVars, restarts, reused>>

-----------------------------------------------------------------------------

WorkerStep(w) ==
    \/ Claim(w) \/ Dialled(w) \/ RelayEnds(w) \/ TimesOut(w) \/ Flushed(w) \/ relisten(w)

LanStep(w) == LanSends(w) \/ LanTakes(w) \/ LanEnds(w)

ClientEnds(i) == ClientFin(i) \/ ClientRst(i)

Next ==
    \/ \E w \in Workers : WorkerStep(w) \/ RelayReads(w) \/ WriteDone(w) \/ Quiet(w) \/ LanStep(w)
    \/ \E i \in Slots : ClientSyn(i) \/ ClientAck(i) \/ ClientEnds(i)
    \/ SessionEnds \/ SessionStarts

\* A worker is polled again and again, and time passes for it; a dial ends by its
\* timeout if by nothing else; a write with nothing queued has room; the
\* supervisor's delay is bounded.  No client and no LAN host need do anything.
Fairness ==
    /\ \A w \in Workers : /\ WF_vars(WorkerStep(w)) /\ WF_vars(Quiet(w))
                          /\ WF_vars(~worker[w].queued /\ WriteDone(w))
    /\ WF_vars(SessionStarts)

Spec == Init /\ [][Next]_vars /\ Fairness

-----------------------------------------------------------------------------

\* Every variable has its type; a worker's slot is one of the listeners.
TypeOK ==
    /\ sock \in [Slots -> TcpStates]
    /\ claimed \in [Slots -> BOOLEAN]
    /\ worker \in [Workers -> [at : {"claim", "dial", "relay", "write", "flush", "close"},
                               slot : Slots \cup {None}, queued : BOOLEAN, silent : BOOLEAN]]
    /\ up \in BOOLEAN
    /\ restarts \in 0 .. MAX_RESTARTS
    /\ reused \in BOOLEAN

Serving(w, i) == worker[w].slot = i

\* No two workers splice the same socket, across control sessions that drop
\* them half-way: the `claimed` flag is what keeps them apart.
OneWorkerPerSocket ==
    \A v, w \in Workers : \A i \in Slots : Serving(v, i) /\ Serving(w, i) => v = w

\* A worker copies bytes only of the connection it claimed: from `claim` to
\* `relisten` its socket never listens for, and is never handed to, a later client.
OwnConnection ==
    /\ ~reused
    /\ \A w \in Workers : \A i \in Slots :
          Serving(w, i) => sock[i] \notin {"Listen", "SynReceived"}

Waiting(i) == sock[i] = "Established" /\ ~claimed[i]

\* A connection that waits for a worker is served in the end, or ended by its
\* client, unless no worker ever comes free again, or lower listeners have
\* connections of their own waiting again and again, which `claim` prefers.
WaitingServed ==
    \A i \in Slots :
        Waiting(i) ~> \/ ~Waiting(i)
                      \/ [](\A w \in Workers : worker[w].at # "claim")
                      \/ []<>(\E j \in Claimable : j < i)

Served(i) == \E w \in Workers : Serving(w, i)

\* The socket's worker waits for a LAN host to take bytes, in write_all or in the
\* LAN socket's flush.
Blocked(i) ==
    \E w \in Workers : Serving(w, i) /\ worker[w].queued /\ worker[w].at \in {"write", "close"}

\* The socket's worker is relaying, and bytes came since it last looked at the clock.
Busy(i) == \E w \in Workers : Serving(w, i) /\ worker[w].at = "relay" /\ ~worker[w].silent

Returned(i) == ~claimed[i] /\ sock[i] = "Listen"

\* A socket a worker serves comes back, unless the control session ends or the
\* worker is left waiting for its LAN host for ever: once the client has finished,
\* whatever the LAN host goes on sending, and otherwise once the bytes stop.  The
\* comment at last_activity promises this "whatever either side believes".
ClaimReturns ==
    \A i \in Slots :
        /\ (Served(i) /\ ~may_recv(i)) ~> (~up \/ Returned(i) \/ []Blocked(i))
        /\ Served(i) ~> (~up \/ Returned(i) \/ []Blocked(i) \/ []<>Busy(i))
=============================================================================
