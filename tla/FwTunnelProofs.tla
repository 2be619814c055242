--------------------------- MODULE FwTunnelProofs ---------------------------
(***************************************************************************)
(* Proofs about FwTunnel, for every number of listeners and workers and    *)
(* however often the control session ends.                                 *)
(***************************************************************************)
EXTENDS FwTunnel, TLAPS

(***************************************************************************)
(* A worker that is past `claim` holds a claimed socket that is out of the *)
(* handshake, so that no client's SYN can reach it.                        *)
(***************************************************************************)
Holds(w) ==
  LET i == worker[w].slot
  IN  /\ worker[w].at # "claim"
      /\ claimed[i]
      /\ sock[i] \notin {"Listen", "SynReceived"}

IInv ==
  /\ TypeOK
  /\ \A w \in Workers : worker[w].slot = None \/ Holds(w)
  /\ \A w \in Workers : worker[w].slot = None => worker[w].at = "claim"
  /\ OneWorkerPerSocket
  /\ ~reused

\* What a worker does between `claim` and `relisten`.
Between(w) ==
  \/ Dialled(w) \/ RelayEnds(w) \/ TimesOut(w) \/ Flushed(w)
  \/ RelayReads(w) \/ WriteDone(w) \/ Quiet(w) \/ LanStep(w)

Phases == {"claim", "dial", "relay", "write", "flush", "close"}

\* Such a step touches only its own worker's record, and keeps its socket.
LEMMA BetweenStep ==
  ASSUME TypeOK, NEW w \in Workers, Between(w)
  PROVE  /\ UNCHANGED <<sock, claimed, up, restarts, reused>>
         /\ worker[w].at # "claim"
         /\ \E new : /\ worker' = [worker EXCEPT ![w] = new]
                     /\ new \in [at : Phases \ {"claim"}, slot : Slots \cup {None},
                                 queued : BOOLEAN, silent : BOOLEAN]
                     /\ new.slot = worker[w].slot
<1>0. worker[w] \in [at : Phases, slot : Slots \cup {None}, queued : BOOLEAN, silent : BOOLEAN]
  BY DEF TypeOK, Phases
<1> DEFINE News == {Goes(w, to) : to \in Phases \ {"claim"}}
                     \cup {[worker[w] EXCEPT !.at = "relay", !.queued = TRUE],
                           [worker[w] EXCEPT !.queued = FALSE],
                           [worker[w] EXCEPT !.at = "close", !.queued = FALSE],
                           [worker[w] EXCEPT !.silent = TRUE]}
<1>1. PICK from \in SUBSET (Phases \ {"claim"}), new \in News : Becomes(w, from, new)
  <2>1. CASE Dialled(w)
    BY <2>1 DEF Dialled, Phases
  <2>2. CASE RelayEnds(w) \/ TimesOut(w) \/ Flushed(w) \/ RelayReads(w)
    BY <2>2 DEF RelayEnds, TimesOut, Flushed, RelayReads, Phases
  <2>3. CASE WriteDone(w) \/ Quiet(w)
    BY <2>3 DEF WriteDone, Quiet, Phases
  <2>4. CASE LanStep(w)
    BY <2>4 DEF LanStep, LanSends, LanTakes, LanEnds, Phases
  <2> QED BY <2>1, <2>2, <2>3, <2>4 DEF Between
<1>2. worker[w].at \in Phases \ {"claim"}
  BY <1>1 DEF Becomes
<1>3. /\ new \in [at : Phases \ {"claim"}, slot : Slots \cup {None},
                  queued : BOOLEAN, silent : BOOLEAN]
      /\ new.slot = worker[w].slot
  <2>1. CASE \E to \in Phases \ {"claim"} : new = Goes(w, to)
    <3>1. PICK to \in Phases \ {"claim"} : new = [worker[w] EXCEPT !.at = to, !.silent = FALSE]
      BY <2>1 DEF Goes
    <3> QED BY <1>0, <3>1
  <2>2. CASE new = [worker[w] EXCEPT !.at = "relay", !.queued = TRUE]
    BY <1>0, <2>2 DEF Phases
  <2>3. CASE new = [worker[w] EXCEPT !.queued = FALSE]
    BY <1>0, <1>2, <2>3
  <2>4. CASE new = [worker[w] EXCEPT !.at = "close", !.queued = FALSE]
    BY <1>0, <2>4 DEF Phases
  <2>5. CASE new = [worker[w] EXCEPT !.silent = TRUE]
    BY <1>0, <1>2, <2>5
  <2> QED BY <1>1, <2>1, <2>2, <2>3, <2>4, <2>5
<1> QED BY <1>1, <1>2, <1>3 DEF Becomes, sessionVars

LEMMA TypeStep == TypeOK /\ [Next]_vars => TypeOK'
<1> SUFFICES ASSUME TypeOK, [Next]_vars PROVE TypeOK'
  OBVIOUS
<1> USE PoolAssumption
<1>1. ASSUME NEW i \in Slots, ClientSyn(i) PROVE TypeOK'
  <2>1. sock' \in [Slots -> TcpStates] /\ reused' \in BOOLEAN
    BY <1>1 DEF TypeOK, ClientSyn, Segment, TcpStates
  <2>2. UNCHANGED <<claimed, worker, up, restarts>>
    BY <1>1 DEF ClientSyn, Segment, workerVars, sessionVars
  <2> QED BY <2>1, <2>2 DEF TypeOK
<1>2. ASSUME NEW i \in Slots, ClientAck(i) \/ ClientEnds(i) PROVE TypeOK'
  <2>1. sock' \in [Slots -> TcpStates]
    BY <1>2 DEF TypeOK, ClientAck, ClientEnds, ClientFin, ClientRst, Segment, TcpStates
  <2>2. UNCHANGED <<claimed, worker, up, restarts, reused>>
    BY <1>2 DEF ClientAck, ClientEnds, ClientFin, ClientRst, Segment, workerVars, sessionVars
  <2> QED BY <2>1, <2>2 DEF TypeOK
<1> DEFINE States == [at : Phases, slot : Slots \cup {None},
                      queued : BOOLEAN, silent : BOOLEAN]
<1>t. worker \in [Workers -> States]
  BY DEF TypeOK, Phases
<1>i. Idle \in States
  BY DEF Idle, Phases
<1>3. ASSUME NEW w \in Workers, Claim(w) PROVE TypeOK'
  <2>1. PICK i \in Slots :
          /\ claimed' = [claimed EXCEPT ![i] = TRUE]
          /\ worker' = [worker EXCEPT ![w] = [Idle EXCEPT !.at = "dial", !.slot = i]]
    BY <1>3 DEF Claim, Claimable
  <2>3. [Idle EXCEPT !.at = "dial", !.slot = i] \in States
    BY DEF Idle, Phases
  <2>4. worker' \in [Workers -> States]
    BY <2>1, <2>3, <1>t
  <2>5. claimed' \in [Slots -> BOOLEAN]
    BY <2>1 DEF TypeOK
  <2>6. UNCHANGED <<sock, up, restarts, reused>>
    BY <1>3 DEF Claim, sessionVars
  <2> QED BY <2>4, <2>5, <2>6 DEF TypeOK, Phases
<1>4. ASSUME NEW w \in Workers, Between(w) PROVE TypeOK'
  <2>1. PICK new : /\ worker' = [worker EXCEPT ![w] = new]
                   /\ new \in [at : Phases \ {"claim"}, slot : Slots \cup {None},
                               queued : BOOLEAN, silent : BOOLEAN]
    BY <1>4, BetweenStep
  <2>2. new \in States
    BY <2>1
  <2>3. worker' \in [Workers -> States]
    BY <2>1, <2>2, <1>t
  <2>4. UNCHANGED <<sock, claimed, up, restarts, reused>>
    BY <1>4, BetweenStep
  <2> QED BY <2>3, <2>4 DEF TypeOK, Phases
<1>6. ASSUME NEW w \in Workers, relisten(w) PROVE TypeOK'
  <2>1. worker' \in [Workers -> States]
    BY <1>6, <1>i, <1>t DEF relisten
  <2>2. sock' \in [Slots -> TcpStates] /\ claimed' \in [Slots -> BOOLEAN]
    BY <1>6 DEF TypeOK, relisten, TcpStates
  <2>3. UNCHANGED <<up, restarts, reused>>
    BY <1>6 DEF relisten, sessionVars
  <2> QED BY <2>1, <2>2, <2>3 DEF TypeOK, Phases
<1>7. CASE SessionEnds
  <2>1. worker' \in [Workers -> States]
    BY <1>7, <1>i DEF SessionEnds
  <2>2. restarts' \in 0 .. MAX_RESTARTS
    <3>1. restarts \in 0 .. MAX_RESTARTS /\ restarts < MAX_RESTARTS /\ restarts' = restarts + 1
      BY <1>7 DEF TypeOK, SessionEnds
    <3> QED BY <3>1
  <2>4. up' \in BOOLEAN
    BY <1>7 DEF SessionEnds
  <2>3. UNCHANGED <<sock, claimed, reused>>
    BY <1>7 DEF SessionEnds
  <2> QED BY <2>1, <2>2, <2>3, <2>4 DEF TypeOK, Phases
<1>9. CASE SessionStarts
  BY <1>9 DEF TypeOK, SessionStarts, workerVars
<1>8. CASE UNCHANGED vars
  BY <1>8 DEF TypeOK, vars, workerVars, sessionVars
<1> QED
  BY <1>1, <1>2, <1>3, <1>4, <1>6, <1>7, <1>8, <1>9 DEF Next, WorkerStep, Between

LEMMA InitIInv == Init => IInv
<1> SUFFICES ASSUME Init PROVE IInv
  OBVIOUS
<1>1. \A w \in Workers : worker[w].slot = None /\ worker[w].at = "claim"
  BY DEF Init, Idle
<1>2. TypeOK
  <2>1. Idle \in [at : Phases, slot : Slots \cup {None}, queued : BOOLEAN, silent : BOOLEAN]
    BY DEF Idle, Phases
  <2>2. worker \in [Workers -> [at : Phases, slot : Slots \cup {None},
                                queued : BOOLEAN, silent : BOOLEAN]]
    BY <2>1 DEF Init
  <2>3. up \in BOOLEAN /\ reused \in BOOLEAN /\ claimed \in [Slots -> BOOLEAN]
    BY Zenon DEF Init
  <2>4. sock \in [Slots -> TcpStates] /\ restarts \in 0 .. MAX_RESTARTS
    BY PoolAssumption DEF Init, TcpStates
  <2> QED BY <2>2, <2>3, <2>4 DEF TypeOK, Phases
<1>3. OneWorkerPerSocket
  BY <1>1, PoolAssumption DEF OneWorkerPerSocket, Serving, Slots
<1> QED BY <1>1, <1>2, <1>3 DEF Init, IInv

LEMMA NextIInv == IInv /\ [Next]_vars => IInv'
<1> SUFFICES ASSUME IInv, [Next]_vars PROVE IInv'
  OBVIOUS
<1> USE PoolAssumption
<1>0. TypeOK'
  BY TypeStep DEF IInv
<1>1. ASSUME NEW i \in Slots, ClientSyn(i) PROVE IInv'
  <2>1. \A w \in Workers : worker[w].slot = i => ~Holds(w)
    BY <1>1 DEF ClientSyn, Segment, Holds
  <2>2. UNCHANGED <<claimed, worker>>
    BY <1>1 DEF ClientSyn, Segment, workerVars
  <2>3. ASSUME NEW w \in Workers, Holds(w), worker[w].slot # None PROVE Holds(w)'
    <3>1. worker[w].slot # i /\ worker[w].slot \in Slots
      BY <2>1, <2>3 DEF IInv, TypeOK
    <3> QED BY <1>1, <2>2, <2>3, <3>1 DEF Holds, ClientSyn, Segment, IInv, TypeOK
  <2>4. \A w \in Workers : worker[w].slot # i
    BY <2>1 DEF IInv, Slots
  <2>5. ~reused'
    BY <1>1, <2>4 DEF IInv, ClientSyn
  <2> QED BY <1>0, <2>2, <2>3, <2>5 DEF IInv, OneWorkerPerSocket, Serving
<1>2. ASSUME NEW i \in Slots, ClientAck(i) \/ ClientEnds(i) PROVE IInv'
  <2>2. UNCHANGED <<claimed, worker, reused>>
    BY <1>2 DEF ClientAck, ClientEnds, ClientFin, ClientRst, Segment, workerVars
  <2>3. ASSUME NEW w \in Workers, Holds(w), worker[w].slot # None PROVE Holds(w)'
    BY <1>2, <2>2, <2>3
    DEF Holds, ClientAck, ClientEnds, ClientFin, ClientRst, Segment, IInv, TypeOK
  <2> QED BY <1>0, <2>2, <2>3 DEF IInv, OneWorkerPerSocket, Serving
<1>3. ASSUME NEW w \in Workers, Claim(w) PROVE IInv'
  <2>1. PICK i \in Claimable :
          /\ claimed' = [claimed EXCEPT ![i] = TRUE]
          /\ worker' = [worker EXCEPT ![w] = [Idle EXCEPT !.at = "dial", !.slot = i]]
    BY <1>3 DEF Claim
  <2>2. /\ i \in Slots /\ ~claimed[i]
        /\ sock[i] \notin {"Listen", "SynReceived"}
        /\ UNCHANGED <<sock, reused>>
    BY <1>3 DEF Claim, Claimable, may_recv, may_send
  <2>3. \A v \in Workers : worker[v].slot # i
    BY <2>2 DEF IInv, Holds, Slots
  <2>4. Holds(w)' /\ worker'[w].slot = i
    BY <2>1, <2>2 DEF Holds, IInv, TypeOK, Idle
  <2>5. \A v \in Workers \ {w} : worker'[v] = worker[v]
    BY <2>1 DEF IInv, TypeOK
  <2>6. ASSUME NEW v \in Workers \ {w}, Holds(v), worker[v].slot # None PROVE Holds(v)'
    BY <2>1, <2>2, <2>5, <2>6 DEF Holds, IInv, TypeOK
  <2>7. OneWorkerPerSocket'
    BY <2>3, <2>4, <2>5 DEF IInv, OneWorkerPerSocket, Serving
  <2>8. i # None
    BY <2>2 DEF Slots
  <2>9. ASSUME NEW v \in Workers
        PROVE  /\ worker'[v].slot = None \/ Holds(v)'
               /\ worker'[v].slot = None => worker'[v].at = "claim"
    BY <2>4, <2>5, <2>6, <2>8 DEF IInv
  <2> QED BY <1>0, <2>2, <2>7, <2>9 DEF IInv
<1>4. ASSUME NEW w \in Workers, Between(w) PROVE IInv'
  <2>1. UNCHANGED <<sock, claimed, reused>> /\ worker[w].at # "claim"
    BY <1>4, BetweenStep DEF IInv
  <2>2. PICK new : /\ worker' = [worker EXCEPT ![w] = new]
                   /\ new \in [at : Phases \ {"claim"}, slot : Slots \cup {None},
                               queued : BOOLEAN, silent : BOOLEAN]
                   /\ new.slot = worker[w].slot
    BY <1>4, BetweenStep DEF IInv
  <2>3. new.at # "claim"
    BY <2>2
  <2>4. \A v \in Workers : /\ worker'[v].slot = worker[v].slot
                           /\ (worker'[v].at = "claim") <=> (worker[v].at = "claim")
    BY <2>1, <2>2, <2>3 DEF IInv, TypeOK
  <2> QED BY <1>0, <2>1, <2>4 DEF IInv, Holds, OneWorkerPerSocket, Serving
<1>5. ASSUME NEW w \in Workers, relisten(w) PROVE IInv'
  <2> DEFINE i == worker[w].slot
  <2>1. /\ i \in Slots
        /\ worker'[w] = Idle
        /\ \A v \in Workers \ {w} : worker'[v] = worker[v] /\ worker[v].slot # i
    BY <1>5 DEF relisten, IInv, TypeOK, OneWorkerPerSocket, Serving
  <2>2. /\ \A j \in Slots \ {i} : sock'[j] = sock[j] /\ claimed'[j] = claimed[j]
        /\ reused' = reused
    BY <1>5, <2>1 DEF relisten, IInv, TypeOK
  <2>3. ASSUME NEW v \in Workers \ {w}, worker[v].slot # None PROVE Holds(v)'
    BY <2>1, <2>2, <2>3 DEF IInv, TypeOK, Holds
  <2>4. worker'[w].slot = None /\ worker'[w].at = "claim"
    BY <2>1 DEF Idle
  <2>5. OneWorkerPerSocket'
    BY <2>1, <2>4 DEF IInv, OneWorkerPerSocket, Serving, Slots
  <2> QED BY <1>0, <2>1, <2>2, <2>3, <2>4, <2>5 DEF IInv
<1>6. CASE SessionEnds
  BY <1>6, <1>0 DEF SessionEnds, IInv, Idle, OneWorkerPerSocket, Serving, Slots
<1>7. CASE SessionStarts \/ UNCHANGED vars
  <2>1. UNCHANGED <<sock, claimed, worker, reused>>
    BY <1>7 DEF SessionStarts, vars, workerVars
  <2> QED BY <1>0, <2>1 DEF IInv, Holds, OneWorkerPerSocket, Serving
<1> QED
  BY <1>1, <1>2, <1>3, <1>4, <1>5, <1>6, <1>7 DEF Next, WorkerStep, Between

LEMMA IInvHolds == Spec => []IInv
BY InitIInv, NextIInv, PTL DEF Spec

(***************************************************************************)
(* Every variable of the pool keeps its type.                              *)
(***************************************************************************)
THEOREM TypeCorrect == Spec => []TypeOK
<1>1. IInv => TypeOK
  BY DEF IInv
<1> QED
  BY <1>1, IInvHolds, PTL

(***************************************************************************)
(* `claim` and `relisten` never let two workers splice one socket, even    *)
(* when the supervisor drops workers half-way.                             *)
(***************************************************************************)
THEOREM WorkersAreApart == Spec => []OneWorkerPerSocket
<1>1. IInv => OneWorkerPerSocket
  BY DEF IInv
<1> QED
  BY <1>1, IInvHolds, PTL

(***************************************************************************)
(* From `claim` to `relisten` a worker's socket carries the connection     *)
(* that was claimed: no later client's SYN reaches it.                     *)
(***************************************************************************)
THEOREM ConnectionIsOwn == Spec => []OwnConnection
<1>1. IInv => OwnConnection
  BY PoolAssumption DEF IInv, OwnConnection, Serving, Holds, Slots
<1> QED
  BY <1>1, IInvHolds, PTL
=============================================================================
