---------------------------- MODULE SpliceProofs ----------------------------
(***************************************************************************)
(* Proofs about Splice, for either program, any buffers, any number of     *)
(* connections, and any bytes on them.                                     *)
(***************************************************************************)
EXTENDS Splice, FiniteSetTheorems, SequenceTheorems, TLAPS

Bytes == [what : {"greeting", "request", "data", "reply"}, connection : Nat, n : Nat]

\* What the client sends on the connection, byte by byte.
Inward == [i \in Nat |-> ClientByte(i)]

\* What it is sent: r answers, and then what the LAN host sends.
Outward(r) ==
  [i \in Nat |-> IF i <= r THEN Reply
                 ELSE [what |-> "data", connection |-> connection, n |-> i - r]]

\* s holds the bytes of f that follow the first `base`.
Run(s, base, f) ==
  /\ s \in Seq(Bytes) /\ base \in Nat
  /\ \A i \in 1 .. Len(s) : s[i] = f[base + i]

(***************************************************************************)
(* Where a connection is: the LAN host has not been dialled for it yet, or *)
(* its bytes are being relayed.  After that it is over.                    *)
(***************************************************************************)
Undialled ==
  IF program = "fw" THEN at \in {"claim", "dial"} /\ sock # "Listen"
  ELSE conn # "Relaying" /\ is_active

Relaying ==
  IF program = "fw" THEN at \in {"loop", "write", "held", "flush"} ELSE conn = "Relaying"

Sockets == {"Listen", "Established", "CloseWait", "FinWait", "LastAck", "Closed"}

Types ==
  /\ program \in {"fw", "host"} /\ target \in {"Forward", "Socks"}
  /\ program = "fw" => target = "Forward"
  /\ sock \in Sockets /\ connection \in Nat /\ clientSent \in Nat
  /\ lan \in [state : {"none", "open", "fin", "reset"}, connection : Nat, sent : Nat, read : Nat]
  /\ lan.connection <= connection /\ lan.read <= lan.sent
  /\ at \in IF program = "fw"
            THEN {"claim", "dial", "loop", "write", "held", "flush", "relisten"}
            ELSE {"poll", "serve", "relisten"}
  /\ conn \in {"Greeting", "Request", "Relaying"}
  /\ inbuf \in Seq(Bytes) /\ held \in Seq(Bytes)
  /\ program = "host" => inbuf = <<>> /\ held = <<>>

(***************************************************************************)
(* A socket that listens has nothing left of its last connection, and the  *)
(* LAN stream belongs to the connection there is.                          *)
(***************************************************************************)
SocketInv ==
  /\ sock = "Listen" => rxq = <<>> /\ txq = <<>> /\ lan.state = "none"
  /\ sock # "Listen" => connection >= 1
  /\ program = "fw" => (sock = "Listen" => at = "claim")
  /\ program = "host" => ((sock = "Listen" \/ (sock = "Closed" /\ at = "relisten")) =>
                             conn # "Relaying")

LanInv ==
  /\ lan.state # "none" =>
       /\ lan.connection = connection
       /\ Relaying \/ (program = "fw" /\ at = "relisten")
  /\ Relaying => lan.state # "none"
  /\ Undialled => lan.connection < connection /\ lanGot = <<>>

(***************************************************************************)
(* From the client to the LAN host: what was received, is being written    *)
(* and has been read is what the client sent, without a gap.               *)
(***************************************************************************)
InInv ==
  /\ Len(rxq) <= clientSent /\ Run(rxq, clientSent - Len(rxq), Inward)
  /\ Run(lanGot, Negotiation, Inward)
  /\ Undialled /\ target = "Forward" => Len(rxq) = clientSent
  /\ Relaying /\ (program = "host" => lan.state # "reset") =>
       Negotiation + Len(lanGot) + Len(inbuf) + Len(rxq) = clientSent
  /\ IF program = "fw" /\ at = "write" THEN Run(inbuf, Negotiation + Len(lanGot), Inward)
     ELSE Relaying => inbuf = <<>>

(***************************************************************************)
(* From the LAN host to the client: r answers, then its bytes.             *)
(***************************************************************************)
OutInv(r) ==
  /\ Run(clientGot, 0, Outward(r)) /\ Run(txq, Len(clientGot), Outward(r))
  /\ Len(clientGot) + Len(txq) <= r + (IF lan.connection = connection THEN lan.read ELSE 0)
  /\ Undialled => Len(clientGot) + Len(txq) = r
  /\ Relaying =>
       /\ Run(held, Len(clientGot) + Len(txq), Outward(r))
       /\ Len(clientGot) + Len(txq) + Len(held) = r + lan.read
  /\ program = "host" \/ at = "flush" => (Relaying => held = <<>>)
  /\ program = "fw" /\ at = "relisten" /\ ending = "lan closed" =>
       /\ Len(clientGot) + Len(txq) = r + lan.read
       /\ sock = "Established" => txq = <<>>

(***************************************************************************)
(* Why a relay ended.                                                      *)
(***************************************************************************)
EndingInv ==
  /\ Undialled => ending = "none"
  /\ lan.state = "open" => ending # "lan closed"
  /\ ending = "lan closed" /\ lan.state = "fin" => lan.read = lan.sent
  /\ program = "fw" /\ at = "flush" => ending \in {"lan closed", "lan error"}
  /\ program = "host" => ending # "client finished"
  /\ at = "relisten" /\ ending = "client finished" =>
       sock \notin {"Established", "FinWait", "Listen"} /\ Len(lanGot) = clientSent

Good(r) == Types /\ SocketInv /\ LanInv /\ InInv /\ OutInv(r) /\ EndingInv

IInv == \E r \in Nat : Good(r)

-----------------------------------------------------------------------------
(* Runs of bytes.                                                          *)

LEMMA RunEmpty ==
  ASSUME NEW f, NEW base \in Nat
  PROVE  Run(<<>>, base, f)
<1>1. <<>> \in Seq(Bytes) /\ Len(<<>>) = 0
  OBVIOUS
<1> QED
  BY <1>1 DEF Run

LEMMA RunAppend ==
  ASSUME NEW f, NEW base, NEW s, Run(s, base, f), NEW x \in Bytes, x = f[base + (Len(s) + 1)]
  PROVE  Run(Append(s, x), base, f) /\ Len(Append(s, x)) = Len(s) + 1
<1>1. s \in Seq(Bytes) /\ base \in Nat /\ \A i \in 1 .. Len(s) : s[i] = f[base + i]
  BY DEF Run
<1> DEFINE t == Append(s, x)
           m == Len(s)
<1>2. /\ t \in Seq(Bytes) /\ Len(t) = m + 1 /\ m \in Nat /\ t[m + 1] = x
      /\ \A i \in 1 .. m : t[i] = s[i]
  BY <1>1
<1> HIDE DEF t
<1>3. \A i \in 1 .. Len(t) : t[i] = f[base + i]
  <2> SUFFICES ASSUME NEW i \in 1 .. Len(t) PROVE t[i] = f[base + i]
    OBVIOUS
  <2>1. i = m + 1 \/ i \in 1 .. m
    BY <1>2
  <2> QED
    BY <1>1, <1>2, <2>1
<1> QED
  BY <1>1, <1>2, <1>3 DEF Run, t

LEMMA RunConcat ==
  ASSUME NEW f, NEW base, NEW s, Run(s, base, f), NEW t, Run(t, base + Len(s), f)
  PROVE  Run(s \o t, base, f) /\ Len(s \o t) = Len(s) + Len(t)
<1> DEFINE u == s \o t
           m == Len(s)
           n == Len(t)
<1>1. /\ s \in Seq(Bytes) /\ base \in Nat /\ \A i \in 1 .. m : s[i] = f[base + i]
  BY DEF Run
<1>2. t \in Seq(Bytes) /\ \A i \in 1 .. n : t[i] = f[(base + m) + i]
  BY DEF Run
<1>3. /\ u \in Seq(Bytes) /\ Len(u) = m + n /\ m \in Nat /\ n \in Nat
      /\ \A i \in 1 .. m : u[i] = s[i]
      /\ \A i \in 1 .. n : u[m + i] = t[i]
  BY <1>1, <1>2
<1> HIDE DEF u, m, n
<1>4. ASSUME NEW i \in 1 .. m + n PROVE u[i] = f[base + i]
  <2>1. CASE i \in 1 .. m
    BY <1>1, <1>3, <2>1
  <2>2. CASE i \notin 1 .. m
    <3> DEFINE j == i - m
    <3>1. j \in 1 .. n /\ m + j = i /\ (base + m) + j = base + i
      BY <1>1, <1>3, <2>2
    <3> HIDE DEF j
    <3>2. u[m + j] = t[j] /\ t[j] = f[(base + m) + j]
      BY <1>2, <1>3, <3>1
    <3> QED
      BY <3>1, <3>2
  <2> QED
    BY <2>1, <2>2
<1>5. Run(u, base, f)
  BY <1>1, <1>3, <1>4 DEF Run
<1> QED
  BY <1>3, <1>5 DEF u, m, n

LEMMA RunSplit ==
  ASSUME NEW f, NEW base, NEW s, Run(s, base, f), NEW k \in 0 .. Len(s)
  PROVE  /\ Run(SubSeq(s, 1, k), base, f) /\ Len(SubSeq(s, 1, k)) = k
         /\ Run(SubSeq(s, k + 1, Len(s)), base + k, f)
         /\ Len(SubSeq(s, k + 1, Len(s))) = Len(s) - k
<1> DEFINE n == Len(s)
           a == SubSeq(s, 1, k)
           b == SubSeq(s, k + 1, n)
<1>1. s \in Seq(Bytes) /\ base \in Nat /\ n \in Nat /\ k \in Nat /\ k <= n
      /\ \A i \in 1 .. n : s[i] = f[base + i]
  BY DEF Run
<1>2. /\ a \in Seq(Bytes) /\ Len(a) = k /\ \A i \in 1 .. k : a[i] = s[i]
  BY <1>1
<1>3. /\ b \in Seq(Bytes) /\ Len(b) = n - k /\ \A i \in 1 .. (n - k) : b[i] = s[k + i]
  BY <1>1
<1> HIDE DEF a, b, n
<1>4. \A i \in 1 .. k : i \in 1 .. n
  BY <1>1
<1>5. Run(a, base, f)
  BY <1>1, <1>2, <1>4 DEF Run
<1>6. ASSUME NEW i \in 1 .. (n - k) PROVE b[i] = f[(base + k) + i]
  <2>1. k + i \in 1 .. n /\ base + (k + i) = (base + k) + i
    BY <1>1
  <2>2. s[k + i] = f[base + (k + i)]
    BY <1>1, <2>1
  <2> QED
    BY <1>3, <2>1, <2>2
<1>7. Run(b, base + k, f)
  BY <1>1, <1>3, <1>6 DEF Run
<1> QED
  BY <1>2, <1>3, <1>5, <1>7 DEF a, b, n

LEMMA RunType ==
  ASSUME NEW f, NEW base, NEW s, Run(s, base, f)
  PROVE  s \in Seq(Bytes) /\ Len(s) \in Nat /\ base \in Nat
BY DEF Run

LEMMA MinTwo ==
  ASSUME NEW a \in Nat, NEW b \in Nat
  PROVE  /\ Min({a, b}) \in Nat /\ Min({a, b}) <= a /\ Min({a, b}) <= b
         /\ Min({a, b}) = a \/ Min({a, b}) = b
<1>1. PICK m \in {a, b} : \A y \in {a, b} : m <= y
  OBVIOUS
<1>2. Min({a, b}) \in {a, b} /\ \A y \in {a, b} : Min({a, b}) <= y
  BY <1>1, Zenon DEF Min
<1> QED
  BY <1>2

(***************************************************************************)
(* What the client sends and is sent on one connection.                    *)
(***************************************************************************)
LEMMA NegotiationType ==
  ASSUME Types
  PROVE  /\ Negotiation \in Nat
         /\ target = "Forward" => Negotiation = 0
         /\ target = "Socks" => Negotiation = GREETING_LEN + REQUEST_LEN
         /\ GREETING_LEN \in Nat /\ REQUEST_LEN \in Nat /\ REQUEST_LEN >= 1 /\ GREETING_LEN >= 1
BY SpliceAssumption DEF Types, Negotiation

LEMMA InwardIs ==
  ASSUME Types, NEW i \in Nat
  PROVE  /\ Inward[i] = ClientByte(i) /\ ClientByte(i) \in Bytes
         /\ i > Negotiation =>
              Inward[i] = [what |-> "data", connection |-> connection, n |-> i - Negotiation]
         /\ Inward[i].what = "request" => i > GREETING_LEN /\ i <= Negotiation
<1>1. Negotiation \in Nat /\ GREETING_LEN \in Nat /\ connection \in Nat
  BY NegotiationType DEF Types
<1>2. Inward[i] = ClientByte(i)
  BY DEF Inward
<1>3. ClientByte(i) \in Bytes
  BY <1>1 DEF ClientByte, Bytes
<1> QED
  BY <1>1, <1>2, <1>3 DEF ClientByte

LEMMA OutwardIs ==
  ASSUME Types, NEW r \in Nat, NEW i \in Nat
  PROVE  /\ i <= r => Outward(r)[i] = Reply
         /\ i > r => Outward(r)[i] =
                       [what |-> "data", connection |-> connection, n |-> i - r]
         /\ Outward(r)[i] \in Bytes
BY DEF Types, Outward, Reply, Bytes

LEMMA SameBytes ==
  ASSUME target' = target, connection' = connection
  PROVE  /\ Negotiation' = Negotiation /\ Inward' = Inward
         /\ \A r : Outward(r)' = Outward(r)
BY DEF Negotiation, Inward, Outward, ClientByte, Reply

-----------------------------------------------------------------------------
(* The client.                                                             *)

\* Where the program is after a segment: on the host the poll may be over.
LEMMA SegmentIs ==
  ASSUME Types, Segment
  PROVE  /\ UNCHANGED <<program, target, lan, inbuf, held, conn>>
         /\ program = "fw" => at' = at
         /\ program = "host" => at = "poll" /\ at' \in {"poll", "serve"}
BY DEF Types, Segment, Polls, kindVars, fwVars

LEMMA ClientSendKeeps ==
  ASSUME NEW r \in Nat, Good(r), ClientSend
  PROVE  Good(r)'
<1>0. Types /\ SocketInv /\ LanInv /\ InInv /\ OutInv(r) /\ EndingInv
  BY DEF Good
<1>1. /\ UNCHANGED <<program, target, lan, inbuf, held, conn>>
      /\ program = "fw" => at' = at
      /\ program = "host" => at = "poll" /\ at' \in {"poll", "serve"}
  BY <1>0, SegmentIs DEF ClientSend
<1>2. /\ sock \in {"Established", "FinWait"} /\ clientSent' = clientSent + 1
      /\ rxq' = Append(rxq, ClientByte(clientSent + 1))
      /\ UNCHANGED <<sock, txq, connection, clientGot, lanGot, ending>>
  BY DEF ClientSend
<1>3. Negotiation' = Negotiation /\ Inward' = Inward /\ Outward(r)' = Outward(r)
  BY <1>1, <1>2, SameBytes
<1>4. Undialled' = Undialled /\ Relaying' = Relaying
  BY <1>0, <1>1, <1>2 DEF Undialled, Relaying, is_active, Types
<1>5. clientSent \in Nat /\ Len(rxq) \in Nat /\ Len(rxq) <= clientSent /\ Negotiation \in Nat
      /\ Len(lanGot) \in Nat /\ inbuf \in Seq(Bytes)
  BY <1>0, RunType, NegotiationType DEF Types, InInv
<1>6. Types'
  BY <1>0, <1>1, <1>2 DEF Types
<1>7. SocketInv' /\ LanInv'
  BY <1>0, <1>1, <1>2, <1>4 DEF SocketInv, LanInv
<1>8. InInv'
  <2>1. clientSent + 1 = (clientSent - Len(rxq)) + (Len(rxq) + 1) /\ clientSent + 1 \in Nat
    BY <1>5
  <2>2. ClientByte(clientSent + 1) \in Bytes /\ ClientByte(clientSent + 1) = Inward[clientSent + 1]
    BY <1>0, <2>1, InwardIs
  <2>3. Run(rxq', clientSent - Len(rxq), Inward) /\ Len(rxq') = Len(rxq) + 1
    BY <1>0, <1>2, <2>1, <2>2, RunAppend DEF InInv
  <2>4. clientSent' - Len(rxq') = clientSent - Len(rxq) /\ Len(rxq') <= clientSent'
    BY <1>2, <1>5, <2>3
  <2>5. Undialled /\ target = "Forward" => Len(rxq') = clientSent'
    BY <1>0, <1>2, <2>3 DEF InInv
  <2>6. Relaying /\ (program = "host" => lan.state # "reset") =>
          Negotiation + Len(lanGot) + Len(inbuf) + Len(rxq') = clientSent'
    BY <1>0, <1>2, <1>5, <2>3 DEF InInv
  <2> QED
    BY <1>0, <1>1, <1>2, <1>3, <1>4, <2>3, <2>4, <2>5, <2>6 DEF InInv, Types
<1>9. OutInv(r)'
  BY <1>0, <1>1, <1>2, <1>3, <1>4 DEF OutInv, Types
<1>10. EndingInv'
  BY <1>0, <1>1, <1>2, <1>4 DEF EndingInv, Types
<1> QED
  BY <1>6, <1>7, <1>8, <1>9, <1>10 DEF Good

LEMMA ClientConnectKeeps ==
  ASSUME NEW r \in Nat, Good(r), ClientConnect
  PROVE  Good(0)'
<1>0. Types /\ SocketInv /\ LanInv /\ InInv /\ OutInv(r) /\ EndingInv
  BY DEF Good
<1>1. /\ UNCHANGED <<program, target, lan, inbuf, held, conn>>
      /\ program = "fw" => at' = at
      /\ program = "host" => at = "poll" /\ at' \in {"poll", "serve"}
  BY <1>0, SegmentIs DEF ClientConnect
<1>2. /\ sock = "Listen" /\ sock' = "Established" /\ connection' = connection + 1
      /\ clientSent' = 0 /\ clientGot' = <<>> /\ lanGot' = <<>> /\ ending' = "none"
      /\ rxq' = rxq /\ txq' = txq
  BY DEF ClientConnect
<1>3. /\ rxq = <<>> /\ txq = <<>> /\ lan.state = "none" /\ (program = "fw" => at = "claim")
      /\ program = "host" => conn # "Relaying"
  BY <1>0, <1>2 DEF SocketInv
<1>4. Undialled' /\ ~Relaying'
  BY <1>0, <1>1, <1>2, <1>3 DEF Undialled, Relaying, is_active, Types
<1>5. Types'
  BY <1>0, <1>1, <1>2 DEF Types, Sockets
<1>6. SocketInv' /\ LanInv'
  BY <1>0, <1>1, <1>2, <1>3, <1>4 DEF SocketInv, LanInv, Types
<1>a. Negotiation' \in Nat /\ Len(<<>>) = 0 /\ 0 \in Nat
  BY <1>0, <1>1, NegotiationType DEF Negotiation
<1>7. /\ Run(<<>>, 0, Inward)' /\ Run(<<>>, Negotiation, Inward)' /\ Run(<<>>, 0, Outward(0))'
  BY <1>a, RunEmpty
<1>8. InInv'
  BY <1>0, <1>1, <1>2, <1>3, <1>4, <1>a, <1>7 DEF InInv, Types
<1>9. OutInv(0)'
  <2>1. Len(clientGot') = 0 /\ Len(txq') = 0 /\ 0 + 0 = 0
    BY <1>2, <1>3, <1>a
  <2>2. lan'.connection # connection'
    BY <1>0, <1>1, <1>2 DEF Types
  <2>3. Run(clientGot', 0, Outward(0)') /\ Run(txq', 0, Outward(0)')
    BY <1>2, <1>3, <1>7, Zenon
  <2>4. program' # "host" => at' = "claim"
    BY <1>0, <1>1, <1>3 DEF Types
  <2>5. Len(clientGot') + Len(txq') <=
          0 + (IF lan'.connection = connection' THEN lan'.read ELSE 0)
    BY <2>1, <2>2
  <2> QED
    BY <1>0, <1>1, <1>4, <2>1, <2>3, <2>4, <2>5 DEF OutInv, Types
<1>10. EndingInv'
  BY <1>0, <1>1, <1>2, <1>3, <1>4 DEF EndingInv, Types
<1> QED
  BY <1>5, <1>6, <1>8, <1>9, <1>10 DEF Good

LEMMA ClientReceiveKeeps ==
  ASSUME NEW r \in Nat, Good(r), ClientReceive
  PROVE  Good(r)'
<1>0. Types /\ SocketInv /\ LanInv /\ InInv /\ OutInv(r) /\ EndingInv
  BY DEF Good
<1>1. /\ UNCHANGED <<program, target, lan, inbuf, held, conn>>
      /\ program = "fw" => at' = at
      /\ program = "host" => at = "poll" /\ at' \in {"poll", "serve"}
  BY <1>0, SegmentIs DEF ClientReceive
<1>2. UNCHANGED <<rxq, connection, clientSent, lanGot, ending>> /\ is_active
  BY DEF ClientReceive
<1>3. Negotiation' = Negotiation /\ Inward' = Inward /\ Outward(r)' = Outward(r)
  BY <1>1, <1>2, SameBytes
<1>4. CASE \E k \in 1 .. Len(txq) : /\ clientGot' = clientGot \o SubSeq(txq, 1, k)
                                    /\ txq' = SubSeq(txq, k + 1, Len(txq))
                                    /\ sock' = sock
  <2>1. PICK k \in 1 .. Len(txq) : /\ clientGot' = clientGot \o SubSeq(txq, 1, k)
                                   /\ txq' = SubSeq(txq, k + 1, Len(txq))
                                   /\ sock' = sock
    BY <1>4
  <2>2. Undialled' = Undialled /\ Relaying' = Relaying
    BY <1>0, <1>1, <1>2, <2>1 DEF Undialled, Relaying, is_active, Types
  <2>3. /\ Run(clientGot, 0, Outward(r)) /\ Run(txq, Len(clientGot), Outward(r))
        /\ Len(clientGot) \in Nat /\ Len(txq) \in Nat
    BY <1>0, RunType DEF OutInv
  <2>4. k \in 0 .. Len(txq) /\ 0 + Len(clientGot) = Len(clientGot)
    BY <2>3
  <2>5. /\ Run(SubSeq(txq, 1, k), Len(clientGot), Outward(r)) /\ Len(SubSeq(txq, 1, k)) = k
        /\ Run(txq', Len(clientGot) + k, Outward(r)) /\ Len(txq') = Len(txq) - k
    BY <2>1, <2>3, <2>4, RunSplit
  <2>6. Run(clientGot', 0, Outward(r)) /\ Len(clientGot') = Len(clientGot) + k
    BY <2>1, <2>3, <2>4, <2>5, RunConcat
  <2>7. Len(clientGot') + Len(txq') = Len(clientGot) + Len(txq)
    BY <2>3, <2>5, <2>6
  <2>8. txq = <<>> => FALSE
    BY <2>3
  <2>9. OutInv(r)'
    BY <1>0, <1>1, <1>2, <1>3, <2>1, <2>2, <2>5, <2>6, <2>7, <2>8 DEF OutInv, Types
  <2>10. Types' /\ LanInv' /\ EndingInv'
    BY <1>0, <1>1, <1>2, <2>1, <2>2 DEF Types, LanInv, EndingInv
  <2>11. SocketInv' /\ InInv'
    BY <1>0, <1>1, <1>2, <1>3, <2>1, <2>2, <2>8 DEF Types, SocketInv, InInv
  <2> QED
    BY <2>9, <2>10, <2>11 DEF Good
<1>5. CASE sock = "LastAck" /\ sock' = "Closed" /\ UNCHANGED <<txq, clientGot>>
  <2>1. (Undialled' => Undialled) /\ Relaying' = Relaying
    BY <1>0, <1>1, <1>2, <1>5 DEF Undialled, Relaying, is_active, Types
  <2>2. Types' /\ LanInv' /\ EndingInv' /\ SocketInv'
    BY <1>0, <1>1, <1>2, <1>5, <2>1 DEF Types, Sockets, LanInv, EndingInv, SocketInv
  <2>3. InInv' /\ OutInv(r)'
    BY <1>0, <1>1, <1>2, <1>3, <1>5, <2>1 DEF Types, OutInv, InInv
  <2> QED
    BY <2>2, <2>3 DEF Good
<1> QED
  BY <1>4, <1>5 DEF ClientReceive

\* The client is done, or gone: only the socket changes.
LEMMA ClientLeavesKeeps ==
  ASSUME NEW r \in Nat, Good(r), ClientFin \/ ClientRst
  PROVE  Good(r)'
<1>0. Types /\ SocketInv /\ LanInv /\ InInv /\ OutInv(r) /\ EndingInv
  BY DEF Good
<1>1. /\ UNCHANGED <<program, target, lan, inbuf, held, conn>>
      /\ program = "fw" => at' = at
      /\ program = "host" => at = "poll" /\ at' \in {"poll", "serve"}
  BY <1>0, SegmentIs DEF ClientFin, ClientRst
<1>2. /\ UNCHANGED <<rxq, txq, connection, clientSent, clientGot, lanGot, ending>>
      /\ is_active /\ sock' \in {"CloseWait", "LastAck", "Closed"}
  BY DEF ClientFin, ClientRst, clientVars, is_active
<1>3. Negotiation' = Negotiation /\ Inward' = Inward /\ Outward(r)' = Outward(r)
  BY <1>1, <1>2, SameBytes
<1>4. (Undialled' => Undialled) /\ Relaying' = Relaying
  BY <1>0, <1>1, <1>2 DEF Undialled, Relaying, is_active, Types
<1>5. Types' /\ LanInv' /\ EndingInv' /\ SocketInv'
  <2>1. Types'
    BY <1>0, <1>1, <1>2 DEF Types, Sockets
  <2>2. LanInv'
    BY <1>0, <1>1, <1>2, <1>4 DEF LanInv
  <2>5. (at' = "relisten" => at = "relisten") /\ (at' = "flush" => program = "host" \/ at = "flush")
    BY <1>0, <1>1 DEF Types
  <2>3. EndingInv'
    <3>1. /\ UNCHANGED <<ending, lan, program, lanGot, clientSent>>
          /\ sock' \notin {"Established", "FinWait", "Listen"}
      BY <1>1, <1>2
    <3> QED BY <1>0, <1>4, <2>5, <3>1 DEF EndingInv
  <2>4. SocketInv'
    BY <1>0, <1>1, <1>2, <1>4 DEF SocketInv, is_active
  <2> QED BY <2>1, <2>2, <2>3, <2>4
<1>6. InInv' /\ OutInv(r)'
  BY <1>0, <1>1, <1>2, <1>3, <1>4 DEF Types, OutInv, InInv
<1> QED
  BY <1>5, <1>6 DEF Good

-----------------------------------------------------------------------------
(* The LAN host.                                                           *)

LEMMA LanHostKeeps ==
  ASSUME NEW r \in Nat, Good(r), LanHost
  PROVE  Good(r)'
<1>0. Types /\ SocketInv /\ LanInv /\ InInv /\ OutInv(r) /\ EndingInv
  BY DEF Good
<1>1. /\ UNCHANGED <<program, target, sock, rxq, txq, connection, clientSent, clientGot, lanGot>>
      /\ UNCHANGED <<at, inbuf, held, conn, ending>>
  BY DEF LanHost, LanSend, LanFin, LanReset, Lan, kindVars, socketVars, clientVars, fwVars
<1>2. /\ lan'.connection = lan.connection /\ lan'.read = lan.read /\ lan.state # "none"
      /\ lan'.state # "none" /\ lan'.sent \in Nat /\ lan.sent <= lan'.sent
      /\ lan' \in [state : {"none", "open", "fin", "reset"}, connection : Nat, sent : Nat, read : Nat]
      /\ lan.state = "reset" => FALSE
      /\ lan'.state # "reset" => lan.state # "reset"
      /\ lan'.state = "open" => lan.state = "open"
      /\ lan'.state = "fin" => lan.state = "open" /\ lan'.sent = lan.sent
  BY <1>0 DEF LanHost, LanSend, LanFin, LanReset, Types
<1>3. Negotiation' = Negotiation /\ Inward' = Inward /\ Outward(r)' = Outward(r)
  BY <1>1, SameBytes
<1>4. Undialled' = Undialled /\ Relaying' = Relaying
  BY <1>0, <1>1 DEF Undialled, Relaying, is_active, Types
<1>5. Types'
  BY <1>0, <1>1, <1>2 DEF Types
<1>6. LanInv' /\ EndingInv' /\ SocketInv'
  BY <1>0, <1>1, <1>2, <1>4 DEF LanInv, EndingInv, SocketInv
<1>7. InInv' /\ OutInv(r)'
  BY <1>0, <1>1, <1>2, <1>3, <1>4 DEF Types, OutInv, InInv
<1> QED
  BY <1>5, <1>6, <1>7 DEF Good

-----------------------------------------------------------------------------
(* A worker of the firmware.                                               *)

LEMMA WorkerIs ==
  ASSUME NEW from, Worker(from), NEW r \in Nat, Good(r)
  PROVE  /\ program = "fw" /\ at = from /\ target = "Forward"
         /\ UNCHANGED <<program, target, connection, clientSent, clientGot, conn>>
         /\ Negotiation = 0 /\ Negotiation' = 0
         /\ Inward' = Inward /\ Outward(r)' = Outward(r)
         /\ Types /\ SocketInv /\ LanInv /\ InInv /\ OutInv(r) /\ EndingInv
         /\ clientSent \in Nat /\ Len(rxq) \in Nat /\ Len(txq) \in Nat /\ Len(clientGot) \in Nat
         /\ Len(lanGot) \in Nat /\ Len(inbuf) \in Nat /\ Len(held) \in Nat
<1>1. Types /\ SocketInv /\ LanInv /\ InInv /\ OutInv(r) /\ EndingInv
  BY DEF Good
<1>2. /\ program = "fw" /\ at = from
      /\ UNCHANGED <<program, target, connection, clientSent, clientGot, conn>>
  BY DEF Worker, kindVars, clientVars
<1>3. target = "Forward" /\ Negotiation = 0
  BY <1>1, <1>2, NegotiationType DEF Types
<1>4. Negotiation' = 0 /\ Inward' = Inward /\ Outward(r)' = Outward(r)
  BY <1>2, <1>3, SameBytes
<1>5. /\ clientSent \in Nat /\ Len(rxq) \in Nat /\ Len(txq) \in Nat /\ Len(clientGot) \in Nat
      /\ Len(lanGot) \in Nat /\ Len(inbuf) \in Nat /\ Len(held) \in Nat
  <2>1. clientSent \in Nat /\ inbuf \in Seq(Bytes) /\ held \in Seq(Bytes)
    BY <1>1 DEF Types
  <2>2. Len(rxq) \in Nat /\ Len(lanGot) \in Nat
    BY <1>1, RunType, Zenon DEF InInv
  <2>3. Len(txq) \in Nat /\ Len(clientGot) \in Nat
    BY <1>1, RunType, Zenon DEF OutInv
  <2> QED
    BY <2>1, <2>2, <2>3
<1> QED
  BY <1>1, <1>2, <1>3, <1>4, <1>5

LEMMA ClaimKeeps ==
  ASSUME NEW r \in Nat, Good(r), Claim
  PROVE  Good(r)'
<1>0. Worker("claim")
  BY DEF Claim
<1>1. /\ program = "fw" /\ at = "claim"
      /\ UNCHANGED <<program, target, connection, clientSent, clientGot, conn>>
      /\ Negotiation' = Negotiation /\ Inward' = Inward /\ Outward(r)' = Outward(r)
      /\ Types /\ SocketInv /\ LanInv /\ InInv /\ OutInv(r) /\ EndingInv
  BY <1>0, WorkerIs
<1>2. /\ sock # "Listen" /\ at' = "dial"
      /\ UNCHANGED <<sock, rxq, txq, lan, lanGot, inbuf, held, ending>>
  BY DEF Claim, socketVars, lanVars, fwVars
<1>3. Undialled' = Undialled /\ ~Relaying /\ ~Relaying'
  BY <1>1, <1>2 DEF Undialled, Relaying
<1>4. Types' /\ SocketInv' /\ LanInv' /\ EndingInv'
  BY <1>1, <1>2, <1>3 DEF Types, SocketInv, LanInv, EndingInv
<1>5. InInv' /\ OutInv(r)'
  BY <1>1, <1>2, <1>3 DEF InInv, OutInv
<1> QED
  BY <1>4, <1>5 DEF Good

LEMMA DialKeeps ==
  ASSUME NEW r \in Nat, Good(r), Dial
  PROVE  Good(r)'
<1>0. Worker("dial")
  BY DEF Dial
<1>1. /\ program = "fw" /\ at = "dial" /\ target = "Forward"
      /\ UNCHANGED <<program, target, connection, clientSent, clientGot, conn>>
      /\ Negotiation = 0 /\ Negotiation' = 0
      /\ Inward' = Inward /\ Outward(r)' = Outward(r)
      /\ Types /\ SocketInv /\ LanInv /\ InInv /\ OutInv(r) /\ EndingInv
      /\ clientSent \in Nat /\ Len(rxq) \in Nat /\ Len(txq) \in Nat /\ Len(clientGot) \in Nat
  BY <1>0, WorkerIs
<1>2. /\ inbuf' = <<>> /\ held' = <<>> /\ UNCHANGED <<sock, rxq, txq, lanGot, ending>>
      /\ \/ at' = "loop" /\ lan' = Dialled
         \/ at' = "relisten" /\ lan' = lan
  BY DEF Dial, socketVars
<1>3. /\ sock # "Listen" /\ Undialled /\ ~Relaying /\ ~Undialled' /\ (Relaying' <=> at' = "loop")
  BY <1>1, <1>2 DEF Undialled, Relaying, SocketInv
<1>4. /\ lanGot = <<>> /\ lan.state = "none" /\ ending = "none" /\ Len(rxq) = clientSent
      /\ Len(clientGot) + Len(txq) = r /\ lan.connection < connection
  BY <1>1, <1>3 DEF LanInv, EndingInv, InInv, OutInv
<1>5. <<>> \in Seq(Bytes) /\ Len(<<>>) = 0
  OBVIOUS
<1>6. Types'
  BY <1>1, <1>2, <1>5 DEF Types, Dialled
<1>7. SocketInv' /\ LanInv' /\ EndingInv'
  BY <1>1, <1>2, <1>3, <1>4 DEF SocketInv, LanInv, EndingInv, Dialled
<1>8. InInv'
  BY <1>1, <1>2, <1>3, <1>4, <1>5 DEF InInv
<1>9. OutInv(r)'
  <2>1. Run(held', Len(clientGot) + Len(txq), Outward(r))
    BY <1>1, <1>2, RunEmpty
  <2>2. CASE at' = "loop" /\ lan' = Dialled
    <3>1. lan'.read = 0 /\ lan'.connection = connection
      BY <2>2 DEF Dialled
    <3> QED
      BY <1>1, <1>2, <1>3, <1>4, <1>5, <2>1, <2>2, <3>1 DEF OutInv
  <2>3. CASE at' = "relisten" /\ lan' = lan
    BY <1>1, <1>2, <1>3, <1>4, <2>3 DEF OutInv
  <2> QED
    BY <1>2, <2>2, <2>3
<1> QED
  BY <1>6, <1>7, <1>8, <1>9 DEF Good

LEMMA RelayTopKeeps ==
  ASSUME NEW r \in Nat, Good(r), RelayTop
  PROVE  Good(r)'
<1> DEFINE n == IF is_active THEN Min({Len(rxq), CHUNK}) ELSE 0
<1>0. Worker("loop")
  BY DEF RelayTop
<1>1. /\ program = "fw" /\ at = "loop" /\ target = "Forward"
      /\ UNCHANGED <<program, target, connection, clientSent, clientGot, conn>>
      /\ Negotiation = 0 /\ Negotiation' = 0
      /\ Inward' = Inward /\ Outward(r)' = Outward(r)
      /\ Types /\ SocketInv /\ LanInv /\ InInv /\ OutInv(r) /\ EndingInv
      /\ clientSent \in Nat /\ Len(rxq) \in Nat /\ Len(txq) \in Nat /\ Len(clientGot) \in Nat
      /\ Len(lanGot) \in Nat
  BY <1>0, WorkerIs
<1>a. inbuf' = SubSeq(rxq, 1, n) /\ rxq' = SubSeq(rxq, n + 1, Len(rxq))
  BY DEF RelayTop
<1>2. /\ UNCHANGED <<sock, txq, lan, lanGot, held>>
      /\ \/ ~is_active /\ at' = "relisten" /\ ending' = "inactive"
         \/ is_active /\ peer_done(n) /\ at' = "relisten" /\ ending' = "client finished"
         \/ /\ is_active /\ ~peer_done(n) /\ ending' = ending
            /\ at' = IF n > 0 THEN "write" ELSE "held"
  BY DEF RelayTop, lanVars
<1>3. n \in Nat /\ n <= Len(rxq) /\ n \in 0 .. Len(rxq)
  <2>1. CHUNK \in Nat
    BY SpliceAssumption
  <2>2. Min({Len(rxq), CHUNK}) \in Nat /\ Min({Len(rxq), CHUNK}) <= Len(rxq)
    BY <1>1, <2>1, MinTwo
  <2> QED
    BY <1>1, <2>2
<1> HIDE DEF n
<1>4. Relaying /\ ~Undialled /\ ~Undialled' /\ (Relaying' <=> at' # "relisten")
  BY <1>1, <1>2 DEF Undialled, Relaying
<1>5. /\ inbuf = <<>> /\ Len(lanGot) + Len(rxq) = clientSent /\ Len(rxq) <= clientSent
      /\ Run(rxq, clientSent - Len(rxq), Inward)
  <2>1. inbuf = <<>> /\ Negotiation + Len(lanGot) + Len(inbuf) + Len(rxq) = clientSent
    BY <1>1, <1>4 DEF InInv
  <2> QED
    BY <1>1, <2>1 DEF InInv
<1>6. /\ Run(inbuf', clientSent - Len(rxq), Inward) /\ Len(inbuf') = n
      /\ Run(rxq', (clientSent - Len(rxq)) + n, Inward) /\ Len(rxq') = Len(rxq) - n
  <2>1. /\ Run(SubSeq(rxq, 1, n), clientSent - Len(rxq), Inward) /\ Len(SubSeq(rxq, 1, n)) = n
        /\ Run(SubSeq(rxq, n + 1, Len(rxq)), (clientSent - Len(rxq)) + n, Inward)
        /\ Len(SubSeq(rxq, n + 1, Len(rxq))) = Len(rxq) - n
    <3>1. n \in 0 .. Len(rxq) /\ Run(rxq, clientSent - Len(rxq), Inward)
      BY <1>3, <1>5
    <3> QED
      BY <3>1, RunSplit
  <2> QED
    BY <1>a, <2>1, Zenon
<1>7. /\ clientSent - Len(rxq) = 0 + Len(lanGot)
      /\ (clientSent - Len(rxq)) + n = clientSent - Len(rxq')
      /\ 0 + Len(lanGot) + Len(inbuf') + Len(rxq') = clientSent /\ Len(rxq') <= clientSent
  BY <1>1, <1>3, <1>5, <1>6
<1>8. inbuf' \in Seq(Bytes) /\ (n = 0 => inbuf' = <<>>)
  <2>1. inbuf' \in Seq(Bytes)
    BY <1>6, RunType
  <2> QED
    BY <1>6, <2>1
<1>9. Types'
  BY <1>1, <1>2, <1>8 DEF Types
<1>10. sock = "Listen" => FALSE
  BY <1>1 DEF SocketInv
<1>11. SocketInv' /\ LanInv'
  BY <1>1, <1>2, <1>4, <1>10 DEF SocketInv, LanInv
<1>12. InInv'
  <2>1. Run(rxq', clientSent - Len(rxq'), Inward) /\ Run(inbuf', 0 + Len(lanGot), Inward)
    BY <1>6, <1>7
  <2>2. at' # "relisten" => (at' = "write" \/ inbuf' = <<>>)
    <3>1. n > 0 \/ n = 0
      BY <1>3
    <3> QED
      BY <1>2, <1>8, <3>1, Zenon
  <2> QED
    BY <1>1, <1>2, <1>4, <1>7, <2>1, <2>2 DEF InInv
<1>13. OutInv(r)'
  BY <1>1, <1>2, <1>4 DEF OutInv
<1>14. EndingInv'
  <2>1. ASSUME is_active, peer_done(n), ending' = "client finished"
        PROVE  sock \notin {"Established", "FinWait", "Listen"} /\ Len(lanGot) = clientSent
    <3>1. Len(rxq) = 0 /\ sock \notin {"Established", "FinWait"}
      BY <2>1 DEF peer_done
    <3>2. Len(lanGot) = clientSent
      BY <1>1, <1>5, <3>1
    <3> QED
      BY <1>10, <3>1, <3>2
  <2> QED
    BY <1>1, <1>2, <1>4, <2>1 DEF EndingInv
<1> QED
  BY <1>9, <1>11, <1>12, <1>13, <1>14 DEF Good

LEMMA WriteLanKeeps ==
  ASSUME NEW r \in Nat, Good(r), WriteLan
  PROVE  Good(r)'
<1>0. Worker("write")
  BY DEF WriteLan
<1>1. /\ program = "fw" /\ at = "write" /\ target = "Forward"
      /\ UNCHANGED <<program, target, connection, clientSent, clientGot, conn>>
      /\ Negotiation = 0 /\ Negotiation' = 0
      /\ Inward' = Inward /\ Outward(r)' = Outward(r)
      /\ Types /\ SocketInv /\ LanInv /\ InInv /\ OutInv(r) /\ EndingInv
      /\ clientSent \in Nat /\ Len(rxq) \in Nat /\ Len(lanGot) \in Nat /\ Len(inbuf) \in Nat
  BY <1>0, WorkerIs
<1>2. /\ inbuf' = <<>> /\ UNCHANGED <<sock, rxq, txq, lan, held>>
      /\ \/ at' = "relisten" /\ ending' = "lan write failed" /\ lanGot' = lanGot
         \/ at' = "held" /\ lanGot' = lanGot \o inbuf /\ ending' = ending
  BY DEF WriteLan, socketVars
<1>3. Relaying /\ ~Undialled /\ ~Undialled' /\ (Relaying' <=> at' = "held")
  BY <1>1, <1>2 DEF Undialled, Relaying
<1>4. /\ 0 + Len(lanGot) + Len(inbuf) + Len(rxq) = clientSent
      /\ Run(lanGot, 0, Inward) /\ Run(inbuf, 0 + Len(lanGot), Inward)
      /\ Len(rxq) <= clientSent /\ Run(rxq, clientSent - Len(rxq), Inward)
  BY <1>1, <1>3 DEF InInv
<1>5. Run(lanGot \o inbuf, 0, Inward) /\ Len(lanGot \o inbuf) = Len(lanGot) + Len(inbuf)
  BY <1>4, RunConcat
<1>6. <<>> \in Seq(Bytes) /\ Len(<<>>) = 0
  OBVIOUS
<1>7. Types'
  BY <1>1, <1>2, <1>6 DEF Types
<1>8. SocketInv' /\ LanInv'
  BY <1>1, <1>2, <1>3 DEF SocketInv, LanInv
<1>9. InInv'
  <2>1. Run(lanGot', 0, Inward)
    BY <1>2, <1>4, <1>5
  <2>2. at' = "held" => 0 + Len(lanGot') + Len(inbuf') + Len(rxq) = clientSent
    BY <1>1, <1>2, <1>4, <1>5, <1>6
  <2>3. at' # "write" /\ rxq' = rxq
    BY <1>2
  <2> QED
    BY <1>1, <1>2, <1>3, <1>4, <2>1, <2>2, <2>3 DEF InInv
<1>10. OutInv(r)'
  BY <1>1, <1>2, <1>3 DEF OutInv
<1>11. EndingInv'
  BY <1>1, <1>2, <1>3 DEF EndingInv
<1> QED
  BY <1>7, <1>8, <1>9, <1>10, <1>11 DEF Good

\* The relay is given up, or its flush is done.
LEMMA RelayEndsKeeps ==
  ASSUME NEW r \in Nat, Good(r), GiveUp \/ Flush
  PROVE  Good(r)'
<1>0. Worker(at)
  BY DEF GiveUp, Flush, Worker
<1>1. /\ program = "fw"
      /\ UNCHANGED <<program, target, connection, clientSent, clientGot, conn>>
      /\ Negotiation' = Negotiation /\ Inward' = Inward /\ Outward(r)' = Outward(r)
      /\ Types /\ SocketInv /\ LanInv /\ InInv /\ OutInv(r) /\ EndingInv
      /\ Len(txq) \in Nat /\ Len(clientGot) \in Nat
  BY <1>0, WorkerIs
<1>2. /\ at' = "relisten" /\ UNCHANGED <<sock, rxq, txq, lan, lanGot, inbuf, held>>
      /\ \/ at = "held" /\ ending' \in {"idle", "lan silent"}
         \/ at = "flush" /\ ending' = ending /\ (~is_active \/ txq = <<>>)
         \/ at = "flush" /\ ending' = "flush gave up"
  BY DEF GiveUp, Flush, Worker, socketVars, lanVars, fwVars
<1>3. Relaying /\ ~Undialled /\ ~Undialled' /\ ~Relaying'
  BY <1>1, <1>2 DEF Undialled, Relaying
<1>4. Types' /\ SocketInv' /\ LanInv' /\ InInv'
  BY <1>1, <1>2, <1>3 DEF Types, SocketInv, LanInv, InInv
<1>5. EndingInv'
  BY <1>1, <1>2, <1>3 DEF EndingInv
<1>6. OutInv(r)'
  <2>1. ASSUME ending' = "lan closed"
        PROVE  Len(clientGot) + Len(txq) = r + lan.read /\ (sock = "Established" => txq = <<>>)
    <3>1. at = "flush" /\ (~is_active \/ txq = <<>>)
      BY <1>2, <2>1
    <3>2. held = <<>> /\ Len(clientGot) + Len(txq) + Len(held) = r + lan.read
      BY <1>1, <1>3, <3>1 DEF OutInv
    <3>3. Len(held) = 0
      BY <3>2
    <3> QED
      BY <1>1, <3>1, <3>2, <3>3 DEF is_active
  <2> QED
    BY <1>1, <1>2, <1>3, <2>1 DEF OutInv
<1> QED
  BY <1>4, <1>5, <1>6 DEF Good

LEMMA SendHeldKeeps ==
  ASSUME NEW r \in Nat, Good(r), SendHeld
  PROVE  Good(r)'
<1> DEFINE k == IF can_send THEN Min({Len(held), TX - Len(txq)}) ELSE 0
           base == Len(clientGot) + Len(txq)
<1>0. Worker("held")
  BY DEF SendHeld
<1>1. /\ program = "fw" /\ at = "held" /\ target = "Forward"
      /\ UNCHANGED <<program, target, connection, clientSent, clientGot, conn>>
      /\ Negotiation = 0 /\ Negotiation' = 0
      /\ Inward' = Inward /\ Outward(r)' = Outward(r)
      /\ Types /\ SocketInv /\ LanInv /\ InInv /\ OutInv(r) /\ EndingInv
      /\ Len(txq) \in Nat /\ Len(clientGot) \in Nat /\ Len(held) \in Nat
  BY <1>0, WorkerIs
<1>a. txq' = txq \o SubSeq(held, 1, k) /\ held' = SubSeq(held, k + 1, Len(held))
  BY DEF SendHeld
<1>2. at' = "loop" /\ UNCHANGED <<sock, rxq, lan, lanGot, inbuf, ending>>
  BY DEF SendHeld, lanVars
<1>3. k \in 0 .. Len(held)
  <2>1. CASE can_send
    <3>1. TX - Len(txq) \in Nat
      BY <1>1, <2>1, SpliceAssumption DEF can_send
    <3>2. Min({Len(held), TX - Len(txq)}) \in Nat /\ Min({Len(held), TX - Len(txq)}) <= Len(held)
      BY <1>1, <3>1, MinTwo
    <3> QED
      BY <1>1, <2>1, <3>2
  <2>2. CASE ~can_send
    BY <1>1, <2>2
  <2> QED
    BY <2>1, <2>2
<1> HIDE DEF k
<1>4. Relaying /\ ~Undialled /\ ~Undialled' /\ Relaying'
  BY <1>1, <1>2 DEF Undialled, Relaying
<1>5. /\ Run(txq, Len(clientGot), Outward(r)) /\ Run(held, base, Outward(r))
      /\ base + Len(held) = r + lan.read
  BY <1>1, <1>4 DEF OutInv
<1> HIDE DEF base
<1>6. /\ Run(SubSeq(held, 1, k), base, Outward(r)) /\ Len(SubSeq(held, 1, k)) = k
      /\ Run(SubSeq(held, k + 1, Len(held)), base + k, Outward(r))
      /\ Len(SubSeq(held, k + 1, Len(held))) = Len(held) - k
  BY <1>3, <1>5, RunSplit
<1>7. /\ Run(txq \o SubSeq(held, 1, k), Len(clientGot), Outward(r))
      /\ Len(txq \o SubSeq(held, 1, k)) = Len(txq) + k
  <2> DEFINE t == SubSeq(held, 1, k)
  <2>1. Run(t, Len(clientGot) + Len(txq), Outward(r)) /\ Len(t) = k
    BY <1>6 DEF base
  <2> HIDE DEF t
  <2>2. Run(txq \o t, Len(clientGot), Outward(r)) /\ Len(txq \o t) = Len(txq) + Len(t)
    BY <1>5, <2>1, RunConcat
  <2> QED
    BY <2>1, <2>2 DEF t
<1>8. /\ Run(txq', Len(clientGot), Outward(r)) /\ Len(txq') = Len(txq) + k
      /\ Run(held', base + k, Outward(r)) /\ Len(held') = Len(held) - k
  BY <1>a, <1>6, <1>7, Zenon
<1>9. /\ base + k = Len(clientGot) + Len(txq')
      /\ Len(clientGot) + Len(txq') + Len(held') = r + lan.read
      /\ Len(clientGot) + Len(txq') <= r + lan.read
  BY <1>1, <1>3, <1>5, <1>8 DEF base
<1>10. /\ lan.connection = connection /\ sock # "Listen"
  BY <1>1, <1>4 DEF LanInv, SocketInv
<1>11. held' \in Seq(Bytes)
  BY <1>8, RunType
<1>12. Types'
  BY <1>1, <1>2, <1>11 DEF Types
<1>13. SocketInv' /\ LanInv'
  BY <1>1, <1>2, <1>4, <1>10 DEF SocketInv, LanInv
<1>14. InInv' /\ EndingInv'
  BY <1>1, <1>2, <1>4 DEF InInv, EndingInv
<1>15. OutInv(r)'
  <2>1. Run(clientGot, 0, Outward(r))
    BY <1>1 DEF OutInv
  <2>2. Run(held', Len(clientGot) + Len(txq'), Outward(r))
    BY <1>8, <1>9
  <2> QED
    BY <1>1, <1>2, <1>4, <1>8, <1>9, <1>10, <2>1, <2>2 DEF OutInv
<1> QED
  BY <1>12, <1>13, <1>14, <1>15 DEF Good

(***************************************************************************)
(* What is read from the LAN continues what the client is sent.            *)
(***************************************************************************)
LEMMA LanBytesRun ==
  ASSUME Types, lan.connection = connection, NEW r \in Nat, NEW n \in Nat
  PROVE  Run(LanBytes(n), r + lan.read, Outward(r)) /\ Len(LanBytes(n)) = n
<1> DEFINE b == LanBytes(n)
           Byte(i) == [what |-> "data", connection |-> connection, n |-> lan.read + i]
<1>1. lan.read \in Nat /\ connection \in Nat
  BY DEF Types
<1>2. b = [i \in 1 .. n |-> Byte(i)]
  BY DEF LanBytes
<1>3. \A i \in 1 .. n : Byte(i) \in Bytes
  BY <1>1 DEF Bytes
<1> HIDE DEF b, Byte
<1>4. b \in Seq(Bytes) /\ Len(b) = n /\ \A i \in 1 .. n : b[i] = Byte(i)
  BY <1>2, <1>3
<1>5. ASSUME NEW i \in 1 .. n PROVE b[i] = Outward(r)[(r + lan.read) + i]
  <2> DEFINE j == (r + lan.read) + i
  <2>1. j \in Nat /\ j > r /\ j - r = lan.read + i
    BY <1>1
  <2> HIDE DEF j
  <2>2. Outward(r)[j] = [what |-> "data", connection |-> connection, n |-> j - r]
    BY <2>1, OutwardIs
  <2> QED
    BY <1>4, <2>1, <2>2 DEF j, Byte
<1> QED
  BY <1>1, <1>4, <1>5 DEF Run, b

LEMMA ReadLanKeeps ==
  ASSUME NEW r \in Nat, Good(r), ReadLan
  PROVE  Good(r)'
<1>0. Worker("held")
  BY DEF ReadLan
<1>1. /\ program = "fw" /\ at = "held" /\ target = "Forward"
      /\ UNCHANGED <<program, target, connection, clientSent, clientGot, conn>>
      /\ Negotiation = 0 /\ Negotiation' = 0
      /\ Inward' = Inward /\ Outward(r)' = Outward(r)
      /\ Types /\ SocketInv /\ LanInv /\ InInv /\ OutInv(r) /\ EndingInv
      /\ Len(txq) \in Nat /\ Len(clientGot) \in Nat
  BY <1>0, WorkerIs
<1>2. UNCHANGED <<sock, rxq, txq, lanGot, inbuf>> /\ held = <<>> /\ at' \in {"loop", "flush"}
  BY DEF ReadLan, socketVars
<1>3. Relaying /\ ~Undialled /\ ~Undialled' /\ Relaying'
  BY <1>1, <1>2 DEF Undialled, Relaying
<1>4. /\ lan.connection = connection /\ sock # "Listen" /\ lan.state # "none"
      /\ lan.read \in Nat /\ lan.sent \in Nat /\ lan.read <= lan.sent
  BY <1>1, <1>3 DEF LanInv, SocketInv, Types
<1>5. Len(clientGot) + Len(txq) = r + lan.read
  <2>1. Len(clientGot) + Len(txq) + Len(held) = r + lan.read /\ Len(held) = 0
    BY <1>1, <1>2, <1>3 DEF OutInv
  <2> QED
    BY <1>1, <2>1
<1>6. CASE \E n \in 1 .. Min({Unread, HELD}) :
             /\ held' = LanBytes(n) /\ lan' = [lan EXCEPT !.read = @ + n]
             /\ Unread > 0 /\ at' = "loop" /\ ending' = ending
  <2>1. PICK n \in 1 .. Min({Unread, HELD}) :
             /\ held' = LanBytes(n) /\ lan' = [lan EXCEPT !.read = @ + n]
             /\ Unread > 0 /\ at' = "loop" /\ ending' = ending
    BY <1>6
  <2>2. Unread \in Nat /\ HELD \in Nat /\ Unread = lan.sent - lan.read
    BY <1>4, SpliceAssumption DEF Unread
  <2>3. n \in Nat /\ n >= 1 /\ n <= Unread
    <3>1. Min({Unread, HELD}) \in Nat /\ Min({Unread, HELD}) <= Unread
      BY <2>2, MinTwo
    <3> QED
      BY <2>2, <3>1
  <2>4. /\ lan'.read = lan.read + n /\ lan'.sent = lan.sent /\ lan'.connection = lan.connection
        /\ lan'.state = lan.state /\ lan'.read <= lan'.sent
        /\ lan' \in [state : {"none", "open", "fin", "reset"}, connection : Nat, sent : Nat, read : Nat]
    <3>1. lan \in [state : {"none", "open", "fin", "reset"}, connection : Nat, sent : Nat, read : Nat]
      BY <1>1 DEF Types
    <3>2. lan.read + n \in Nat /\ lan.read + n <= lan.sent
      BY <1>4, <2>2, <2>3
    <3>3. lan' = [lan EXCEPT !.read = lan.read + n]
      BY <2>1
    <3> QED
      BY <3>1, <3>2, <3>3
  <2>5. Run(held', Len(clientGot) + Len(txq), Outward(r)) /\ Len(held') = n
    BY <1>1, <1>4, <1>5, <2>1, <2>3, LanBytesRun
  <2>6. held' \in Seq(Bytes)
    BY <2>5, RunType
  <2>7. Types'
    BY <1>1, <1>2, <2>1, <2>4, <2>6 DEF Types
  <2>8. SocketInv' /\ LanInv' /\ InInv'
    BY <1>1, <1>2, <1>3, <1>4, <2>1, <2>4 DEF SocketInv, LanInv, InInv
  <2>9. EndingInv'
    <3>1. lan.read # lan.sent
      BY <1>4, <2>2, <2>3
    <3>2. ending = "lan closed" /\ lan.state = "fin" => FALSE
      BY <1>1, <3>1 DEF EndingInv
    <3> QED
      BY <1>1, <1>2, <1>3, <2>1, <2>4, <3>2 DEF EndingInv
  <2>10. OutInv(r)'
    <3>1. /\ Len(clientGot) + Len(txq) <= r + lan'.read
          /\ Len(clientGot) + Len(txq) + Len(held') = r + lan'.read
      BY <1>1, <1>4, <1>5, <2>3, <2>4, <2>5
    <3>2. Run(clientGot, 0, Outward(r)) /\ Run(txq, Len(clientGot), Outward(r))
      BY <1>1 DEF OutInv
    <3> QED
      BY <1>1, <1>2, <1>3, <1>4, <2>1, <2>4, <2>5, <3>1, <3>2 DEF OutInv
  <2> QED
    BY <2>7, <2>8, <2>9, <2>10 DEF Good
<1>7. CASE at' = "loop" /\ UNCHANGED <<lan, held, ending>>
  <2>1. Types' /\ SocketInv' /\ LanInv' /\ InInv'
    BY <1>1, <1>2, <1>3, <1>7 DEF Types, SocketInv, LanInv, InInv
  <2>2. OutInv(r)' /\ EndingInv'
    BY <1>1, <1>2, <1>3, <1>7 DEF OutInv, EndingInv
  <2> QED
    BY <2>1, <2>2 DEF Good
<1>8. CASE /\ lan.state = "reset" \/ (lan.state = "fin" /\ Unread = 0)
           /\ at' = "flush" /\ UNCHANGED <<lan, held>>
           /\ ending' = IF lan.state = "fin" THEN "lan closed" ELSE "lan error"
  <2>1. Types' /\ SocketInv' /\ LanInv' /\ InInv'
    BY <1>1, <1>2, <1>3, <1>8 DEF Types, SocketInv, LanInv, InInv
  <2>2. OutInv(r)'
    BY <1>1, <1>2, <1>3, <1>8 DEF OutInv
  <2>3. lan.state = "fin" => lan.read = lan.sent
    <3>1. lan.state = "fin" => Unread = 0
      BY <1>8
    <3> QED
      BY <1>4, <3>1 DEF Unread
  <2>4. EndingInv'
    BY <1>1, <1>2, <1>3, <1>8, <2>3 DEF EndingInv
  <2> QED
    BY <2>1, <2>2, <2>4 DEF Good
<1> QED
  BY <1>6, <1>7, <1>8 DEF ReadLan

LEMMA RelistenKeeps ==
  ASSUME NEW r \in Nat, Good(r), Relisten
  PROVE  Good(r)'
<1>0. Worker("relisten")
  BY DEF Relisten
<1>1. /\ program = "fw" /\ at = "relisten"
      /\ UNCHANGED <<program, target, connection, clientSent, clientGot, conn>>
      /\ Negotiation' = Negotiation
      /\ Inward' = Inward /\ Outward(r)' = Outward(r)
      /\ Types /\ SocketInv /\ LanInv /\ InInv /\ OutInv(r) /\ EndingInv
      /\ Len(txq) \in Nat /\ Len(clientGot) \in Nat /\ clientSent \in Nat
  BY <1>0, WorkerIs
<1>2. /\ sock' = "Listen" /\ rxq' = <<>> /\ txq' = <<>> /\ lan' = Dropped /\ at' = "claim"
      /\ UNCHANGED <<lanGot, inbuf, held, ending>>
  BY DEF Relisten, fwVars
<1>3. ~Undialled' /\ ~Relaying'
  BY <1>1, <1>2 DEF Undialled, Relaying
<1>4. /\ lan'.state = "none" /\ lan'.connection = lan.connection /\ lan'.read = lan.read
      /\ lan'.sent = lan.sent
      /\ lan' \in [state : {"none", "open", "fin", "reset"}, connection : Nat, sent : Nat, read : Nat]
  BY <1>1, <1>2 DEF Dropped, Types
<1>5. Types'
  BY <1>1, <1>2, <1>4 DEF Types, Sockets
<1>6. SocketInv' /\ LanInv' /\ EndingInv'
  BY <1>1, <1>2, <1>3, <1>4 DEF SocketInv, LanInv, EndingInv
<1>7. Len(<<>>) = 0 /\ Run(<<>>, clientSent, Inward) /\ Run(<<>>, Len(clientGot), Outward(r))
  BY <1>1, RunEmpty
<1>8. InInv'
  BY <1>1, <1>2, <1>3, <1>7 DEF InInv
<1>9. OutInv(r)'
  <2>1. Len(clientGot) + 0 <= r + (IF lan'.connection = connection THEN lan'.read ELSE 0)
    <3> DEFINE q == IF lan.connection = connection THEN lan.read ELSE 0
    <3>1. q \in Nat
      BY <1>1 DEF Types
    <3>2. Len(clientGot) + Len(txq) <= r + q
      BY <1>1 DEF OutInv
    <3> HIDE DEF q
    <3>3. Len(clientGot) + 0 <= r + q
      BY <1>1, <3>1, <3>2
    <3> QED
      BY <1>4, <3>3 DEF q
  <2>2. Run(clientGot', 0, Outward(r)') /\ Run(txq', Len(clientGot'), Outward(r)') /\ Len(txq') = 0
    BY <1>1, <1>2, <1>7 DEF OutInv
  <2>3. Len(clientGot') + Len(txq') <=
          r + (IF lan'.connection = connection' THEN lan'.read ELSE 0)
    BY <1>1, <2>1, <2>2
  <2> QED
    BY <1>1, <1>2, <1>3, <2>2, <2>3 DEF OutInv
<1> QED
  BY <1>5, <1>6, <1>8, <1>9 DEF Good

-----------------------------------------------------------------------------
(* The host.                                                               *)

LEMMA TurnIs ==
  ASSUME NEW from, NEW to, Turn(from, to), NEW r \in Nat, Good(r)
  PROVE  /\ program = "host" /\ at = from /\ at' = to
         /\ UNCHANGED <<program, target, connection, clientSent, clientGot, inbuf, held>>
         /\ Negotiation' = Negotiation /\ Negotiation \in Nat
         /\ Inward' = Inward /\ \A s : Outward(s)' = Outward(s)
         /\ Types /\ SocketInv /\ LanInv /\ InInv /\ OutInv(r) /\ EndingInv
         /\ clientSent \in Nat /\ Len(rxq) \in Nat /\ Len(txq) \in Nat /\ Len(clientGot) \in Nat
         /\ Len(lanGot) \in Nat /\ inbuf = <<>> /\ held = <<>>
<1>1. Types /\ SocketInv /\ LanInv /\ InInv /\ OutInv(r) /\ EndingInv
  BY DEF Good
<1>2. /\ program = "host" /\ at = from /\ at' = to
      /\ UNCHANGED <<program, target, connection, clientSent, clientGot, inbuf, held>>
  BY DEF Turn, kindVars, clientVars, fwVars
<1>3. Negotiation' = Negotiation /\ Inward' = Inward /\ \A s : Outward(s)' = Outward(s)
  BY <1>2, SameBytes
<1>4. Negotiation \in Nat
  BY <1>1, NegotiationType
<1>5. clientSent \in Nat /\ inbuf = <<>> /\ held = <<>>
  BY <1>1, <1>2 DEF Types
<1>6. Len(rxq) \in Nat /\ Len(lanGot) \in Nat
  BY <1>1, RunType, Zenon DEF InInv
<1>7. Len(txq) \in Nat /\ Len(clientGot) \in Nat
  BY <1>1, RunType, Zenon DEF OutInv
<1> QED
  BY <1>1, <1>2, <1>3, <1>4, <1>5, <1>6, <1>7

LEMMA TickKeeps ==
  ASSUME NEW r \in Nat, Good(r), Tick
  PROVE  Good(r)'
<1>0. Turn("poll", "serve")
  BY DEF Tick
<1>1. /\ program = "host" /\ at' = "serve"
      /\ UNCHANGED <<program, target, connection, clientSent, clientGot, inbuf, held>>
      /\ Negotiation' = Negotiation
      /\ Inward' = Inward /\ Outward(r)' = Outward(r)
      /\ Types /\ SocketInv /\ LanInv /\ InInv /\ OutInv(r) /\ EndingInv
  BY <1>0, TurnIs
<1>2. UNCHANGED <<sock, rxq, txq, lan, lanGot, conn, ending>>
  BY DEF Tick, socketVars, lanVars
<1>3. (Undialled' <=> Undialled) /\ (Relaying' <=> Relaying)
  BY <1>1, <1>2 DEF Undialled, Relaying, is_active
<1>4. Types' /\ SocketInv' /\ LanInv' /\ EndingInv'
  BY <1>1, <1>2, <1>3 DEF Types, SocketInv, LanInv, EndingInv
<1>5. InInv' /\ OutInv(r)'
  BY <1>1, <1>2, <1>3 DEF InInv, OutInv
<1> QED
  BY <1>4, <1>5 DEF Good

LEMMA ServeInactiveKeeps ==
  ASSUME NEW r \in Nat, Good(r), ServeInactive
  PROVE  Good(r)'
<1>0. Turn("serve", "relisten")
  BY DEF ServeInactive
<1>1. /\ program = "host" /\ at' = "relisten"
      /\ UNCHANGED <<program, target, connection, clientSent, clientGot, inbuf, held>>
      /\ Negotiation' = Negotiation
      /\ Inward' = Inward /\ Outward(r)' = Outward(r)
      /\ Types /\ SocketInv /\ LanInv /\ InInv /\ OutInv(r) /\ EndingInv
  BY <1>0, TurnIs
<1>2. ~is_active /\ conn' = "Greeting" /\ lan' = Dropped /\ UNCHANGED <<sock, rxq, txq, lanGot, ending>>
  BY DEF ServeInactive, socketVars
<1>3. ~Undialled' /\ ~Relaying'
  BY <1>1, <1>2 DEF Undialled, Relaying, is_active
<1>4. /\ lan'.state = "none" /\ lan'.connection = lan.connection /\ lan'.read = lan.read
      /\ lan'.sent = lan.sent
      /\ lan' \in [state : {"none", "open", "fin", "reset"}, connection : Nat, sent : Nat, read : Nat]
  BY <1>1, <1>2 DEF Dropped, Types
<1>5. Types' /\ SocketInv' /\ LanInv' /\ EndingInv'
  BY <1>1, <1>2, <1>3, <1>4 DEF Types, SocketInv, LanInv, EndingInv
<1>6. InInv' /\ OutInv(r)'
  BY <1>1, <1>2, <1>3, <1>4 DEF InInv, OutInv
<1> QED
  BY <1>5, <1>6 DEF Good

LEMMA RelistenHostKeeps ==
  ASSUME NEW r \in Nat, Good(r), RelistenHost
  PROVE  Good(r)'
<1>0. Turn("relisten", "poll")
  BY DEF RelistenHost
<1>1. /\ program = "host" /\ at = "relisten" /\ at' = "poll"
      /\ UNCHANGED <<program, target, connection, clientSent, clientGot, inbuf, held>>
      /\ Negotiation' = Negotiation
      /\ Inward' = Inward /\ Outward(r)' = Outward(r)
      /\ Types /\ SocketInv /\ LanInv /\ InInv /\ OutInv(r) /\ EndingInv
      /\ clientSent \in Nat /\ Len(txq) \in Nat /\ Len(clientGot) \in Nat
  BY <1>0, TurnIs
<1>2. UNCHANGED <<lan, lanGot, conn, ending>>
  BY DEF RelistenHost, lanVars
<1>3. CASE UNCHANGED <<sock, rxq, txq>>
  <2>1. (Undialled' <=> Undialled) /\ (Relaying' <=> Relaying)
    BY <1>1, <1>2, <1>3 DEF Undialled, Relaying, is_active
  <2>2. Types' /\ SocketInv' /\ LanInv' /\ EndingInv'
    BY <1>1, <1>2, <1>3, <2>1 DEF Types, SocketInv, LanInv, EndingInv
  <2>3. InInv' /\ OutInv(r)'
    BY <1>1, <1>2, <1>3, <2>1 DEF InInv, OutInv
  <2> QED
    BY <2>2, <2>3 DEF Good
<1>4. CASE sock = "Closed" /\ sock' = "Listen" /\ rxq' = <<>> /\ txq' = <<>>
  <2>1. conn # "Relaying" /\ ~Relaying
    BY <1>1, <1>4 DEF SocketInv, Relaying
  <2>2. ~Undialled' /\ ~Relaying' /\ lan.state = "none"
    BY <1>1, <1>2, <1>4, <2>1 DEF Undialled, Relaying, is_active, LanInv
  <2>3. Types' /\ SocketInv' /\ LanInv' /\ EndingInv'
    BY <1>1, <1>2, <1>4, <2>1, <2>2 DEF Types, Sockets, SocketInv, LanInv, EndingInv
  <2>4. Len(<<>>) = 0 /\ Run(<<>>, clientSent, Inward) /\ Run(<<>>, Len(clientGot), Outward(r))
    BY <1>1, RunEmpty
  <2>5. InInv'
    BY <1>1, <1>2, <1>4, <2>2, <2>4 DEF InInv
  <2>6. OutInv(r)'
    <3> DEFINE q == IF lan.connection = connection THEN lan.read ELSE 0
    <3>1. q \in Nat
      BY <1>1 DEF Types
    <3>2. Len(clientGot) + Len(txq) <= r + q
      BY <1>1 DEF OutInv
    <3> HIDE DEF q
    <3>3. Len(clientGot) + 0 <= r + q
      BY <1>1, <3>1, <3>2
    <3>4. Run(clientGot', 0, Outward(r)') /\ Run(txq', Len(clientGot'), Outward(r)') /\ Len(txq') = 0
      BY <1>1, <1>4, <2>4 DEF OutInv
    <3>5. Len(clientGot') + Len(txq') <=
            r + (IF lan'.connection = connection' THEN lan'.read ELSE 0)
      BY <1>1, <1>2, <3>3, <3>4 DEF q
    <3> QED
      BY <1>1, <1>2, <2>2, <3>4, <3>5 DEF OutInv
  <2> QED
    BY <2>3, <2>5, <2>6 DEF Good
<1> QED
  BY <1>3, <1>4 DEF RelistenHost, is_open, socketVars

\* Where the host is after it dialled for a connection.
LEMMA HostDials ==
  ASSUME NEW r \in Nat, Good(r), NEW s \in Nat, Turn("serve", "relisten"),
         conn # "Relaying", is_active, conn' = "Relaying", lan' = Dialled,
         UNCHANGED <<sock, lanGot, ending>>,
         Run(rxq', clientSent - Len(rxq'), Inward), Negotiation + Len(rxq') = clientSent,
         Run(clientGot, 0, Outward(s)), Run(txq', Len(clientGot), Outward(s)),
         Len(clientGot) + Len(txq') = s
  PROVE  Good(s)'
<1>1. /\ program = "host" /\ at' = "relisten"
      /\ UNCHANGED <<program, target, connection, clientSent, clientGot, inbuf, held>>
      /\ Negotiation' = Negotiation /\ Negotiation \in Nat
      /\ Inward' = Inward /\ Outward(s)' = Outward(s)
      /\ Types /\ SocketInv /\ LanInv /\ InInv /\ OutInv(r) /\ EndingInv
      /\ inbuf = <<>> /\ held = <<>> /\ clientSent \in Nat
  BY TurnIs
<1>2. Undialled /\ ~Undialled' /\ Relaying'
  BY <1>1 DEF Undialled, Relaying
<1>3. lanGot = <<>> /\ ending = "none" /\ Len(<<>>) = 0
  BY <1>1, <1>2 DEF LanInv, EndingInv
<1>4. /\ lan'.state = "open" /\ lan'.connection = connection /\ lan'.read = 0 /\ lan'.sent = 0
      /\ lan' \in [state : {"none", "open", "fin", "reset"}, connection : Nat, sent : Nat, read : Nat]
  BY <1>1 DEF Dialled, Types
<1>5. Types'
  BY <1>1, <1>4 DEF Types
<1>6. SocketInv' /\ LanInv' /\ EndingInv'
  BY <1>1, <1>2, <1>3, <1>4 DEF SocketInv, LanInv, EndingInv, is_active
<1>7. InInv'
  <2>1. Len(rxq') \in Nat
    BY RunType
  <2>2. Len(rxq') <= clientSent /\ Negotiation + 0 + 0 + Len(rxq') = clientSent
    BY <1>1, <2>1
  <2>3. Run(lanGot, Negotiation, Inward)
    BY <1>1 DEF InInv
  <2> QED
    BY <1>1, <1>2, <1>3, <2>2, <2>3 DEF InInv
<1>8. OutInv(s)'
  <2>1. Len(txq') \in Nat /\ Len(clientGot) \in Nat
    BY RunType
  <2>2. Run(<<>>, Len(clientGot) + Len(txq'), Outward(s))
    BY <2>1, RunEmpty
  <2>3. /\ Len(clientGot) + Len(txq') + 0 = s + 0
        /\ Len(clientGot) + Len(txq') <= s + 0
    BY <2>1
  <2> QED
    BY <1>1, <1>2, <1>3, <1>4, <2>2, <2>3 DEF OutInv
<1> QED
  BY <1>5, <1>6, <1>7, <1>8 DEF Good

\* And when it has not dialled: the socket may close, and bytes of the negotiation
\* may have been taken and answered.
LEMMA HostWaits ==
  ASSUME NEW r \in Nat, Good(r), NEW s \in Nat, Turn("serve", "relisten"),
         conn # "Relaying", is_active, conn' \in {"Greeting", "Request"},
         sock' \in {sock, Close(sock)}, UNCHANGED <<lan, lanGot, ending>>,
         Len(rxq') <= clientSent, Run(rxq', clientSent - Len(rxq'), Inward),
         target = "Forward" => rxq' = rxq,
         Run(clientGot, 0, Outward(s)), Run(txq', Len(clientGot), Outward(s)),
         Len(clientGot) + Len(txq') = s
  PROVE  Good(s)'
<1>1. /\ program = "host" /\ at' = "relisten"
      /\ UNCHANGED <<program, target, connection, clientSent, clientGot, inbuf, held>>
      /\ Negotiation' = Negotiation
      /\ Inward' = Inward /\ Outward(s)' = Outward(s)
      /\ Types /\ SocketInv /\ LanInv /\ InInv /\ OutInv(r) /\ EndingInv
  BY TurnIs
<1>2. sock' \in Sockets /\ sock' \notin {"Listen", "Closed"}
  BY <1>1 DEF Close, is_active, Types, Sockets
<1>3. Undialled /\ Undialled' /\ ~Relaying /\ ~Relaying'
  BY <1>1, <1>2 DEF Undialled, Relaying, is_active
<1>4. Types'
  BY <1>1, <1>2 DEF Types
<1>5. SocketInv' /\ LanInv' /\ EndingInv'
  BY <1>1, <1>2, <1>3 DEF SocketInv, LanInv, EndingInv, is_active
<1>6. InInv'
  BY <1>1, <1>3 DEF InInv
<1>7. OutInv(s)'
  <2>1. lan.read \in Nat
    BY <1>1 DEF Types
  <2>2. Len(clientGot) + Len(txq') <= s + (IF lan.connection = connection THEN lan.read ELSE 0)
    BY <2>1
  <2> QED
    BY <1>1, <1>3, <2>2 DEF OutInv
<1> QED
  BY <1>4, <1>5, <1>6, <1>7 DEF Good

\* What was sent before the last answer is the same with one answer more.
LEMMA RunBefore ==
  ASSUME Types, NEW r \in Nat, NEW base, NEW s, Run(s, base, Outward(r)), base + Len(s) <= r
  PROVE  Run(s, base, Outward(r + 1))
<1>1. /\ s \in Seq(Bytes) /\ base \in Nat /\ Len(s) \in Nat /\ r + 1 \in Nat
      /\ \A i \in 1 .. Len(s) : s[i] = Outward(r)[base + i]
  BY DEF Run
<1>2. ASSUME NEW i \in 1 .. Len(s) PROVE s[i] = Outward(r + 1)[base + i]
  <2>1. base + i \in Nat /\ base + i <= r /\ base + i <= r + 1
    BY <1>1
  <2>2. Outward(r)[base + i] = Reply /\ Outward(r + 1)[base + i] = Reply
    BY <1>1, <2>1, OutwardIs
  <2> QED
    BY <1>1, <2>2
<1> QED
  BY <1>1, <1>2 DEF Run

LEMMA AnsweredRun ==
  ASSUME Types, NEW r \in Nat, Run(clientGot, 0, Outward(r)), Run(txq, Len(clientGot), Outward(r)),
         Len(clientGot) + Len(txq) = r
  PROVE  \E s \in Nat : /\ Run(clientGot, 0, Outward(s)) /\ Run(Answered, Len(clientGot), Outward(s))
                        /\ Len(clientGot) + Len(Answered) = s
<1>1. Len(clientGot) \in Nat /\ Len(txq) \in Nat
  BY RunType
<1>2. CASE ~may_send
  BY <1>2 DEF Answered
<1>3. CASE may_send
  <2>1. Answered = Append(txq, Reply)
    BY <1>3 DEF Answered
  <2>2. /\ r + 1 \in Nat /\ 0 + Len(clientGot) <= r /\ Len(clientGot) + Len(txq) <= r
        /\ Len(clientGot) + (Len(txq) + 1) = r + 1
    BY <1>1
  <2>3. Run(clientGot, 0, Outward(r + 1)) /\ Run(txq, Len(clientGot), Outward(r + 1))
    BY <2>2, RunBefore
  <2>4. r + 1 <= r + 1
    BY <2>2
  <2>5. Outward(r + 1)[r + 1] = Reply /\ Outward(r + 1)[r + 1] \in Bytes
    BY <2>2, <2>4, OutwardIs
  <2>6. /\ Reply \in Bytes /\ Reply = Outward(r + 1)[Len(clientGot) + (Len(txq) + 1)]
    BY <2>2, <2>5
  <2>7. /\ Run(Append(txq, Reply), Len(clientGot), Outward(r + 1))
        /\ Len(Append(txq, Reply)) = Len(txq) + 1
    BY <2>3, <2>6, RunAppend
  <2>8. Len(clientGot) + Len(Append(txq, Reply)) = r + 1
    BY <2>2, <2>7
  <2> QED
    BY <2>1, <2>2, <2>3, <2>7, <2>8
<1> QED
  BY <1>2, <1>3

\* What holds before the host serves a connection it has not dialled for.
LEMMA UndialledIs ==
  ASSUME NEW r \in Nat, Good(r), Turn("serve", "relisten"), conn # "Relaying", is_active
  PROVE  /\ Run(clientGot, 0, Outward(r)) /\ Run(txq, Len(clientGot), Outward(r))
         /\ Len(clientGot) + Len(txq) = r
         /\ Len(rxq) <= clientSent /\ Run(rxq, clientSent - Len(rxq), Inward)
         /\ target = "Forward" => Negotiation + Len(rxq) = clientSent
         /\ Types /\ clientSent \in Nat /\ Len(rxq) \in Nat
<1>1. /\ program = "host" /\ Types /\ InInv /\ OutInv(r) /\ clientSent \in Nat /\ Len(rxq) \in Nat
  BY TurnIs
<1>2. Undialled
  BY <1>1 DEF Undialled
<1>3. target = "Forward" => Negotiation = 0 /\ Len(rxq) = clientSent
  BY <1>1, <1>2, NegotiationType DEF InInv
<1>4. target = "Forward" => Negotiation + Len(rxq) = clientSent
  BY <1>1, <1>3
<1> QED
  BY <1>1, <1>2, <1>4 DEF InInv, OutInv

LEMMA ServeForwardKeeps ==
  ASSUME NEW r \in Nat, Good(r), ServeForward
  PROVE  Good(r)'
<1>1. /\ Turn("serve", "relisten") /\ is_active /\ conn \in {"Greeting", "Request"}
      /\ target = "Forward" /\ UNCHANGED <<rxq, txq, lanGot, ending>>
      /\ \/ conn' = "Relaying" /\ lan' = Dialled /\ sock' = sock
         \/ sock' = Close(sock) /\ conn' = conn /\ lan' = lan
  BY DEF ServeForward, Serves
<1>2. /\ Run(clientGot, 0, Outward(r)) /\ Run(txq, Len(clientGot), Outward(r))
      /\ Len(clientGot) + Len(txq) = r
      /\ Len(rxq) <= clientSent /\ Run(rxq, clientSent - Len(rxq), Inward)
      /\ target = "Forward" => Negotiation + Len(rxq) = clientSent
  BY <1>1, UndialledIs
<1>3. CASE conn' = "Relaying" /\ lan' = Dialled /\ sock' = sock
  BY <1>1, <1>2, <1>3, HostDials
<1>4. CASE sock' = Close(sock) /\ conn' = conn /\ lan' = lan
  BY <1>1, <1>2, <1>4, HostWaits
<1> QED
  BY <1>1, <1>3, <1>4

\* Taking n bytes off the receive buffer.
LEMMA Consumes ==
  ASSUME NEW n \in Nat, n <= Len(rxq), clientSent \in Nat, Len(rxq) \in Nat,
         Len(rxq) <= clientSent, Run(rxq, clientSent - Len(rxq), Inward),
         rxq' = SubSeq(rxq, n + 1, Len(rxq))
  PROVE  /\ Len(rxq') = Len(rxq) - n /\ Len(rxq') <= clientSent
         /\ Run(rxq', clientSent - Len(rxq'), Inward)
<1>1. n \in 0 .. Len(rxq)
  OBVIOUS
<1>a. /\ Run(SubSeq(rxq, n + 1, Len(rxq)), (clientSent - Len(rxq)) + n, Inward)
      /\ Len(SubSeq(rxq, n + 1, Len(rxq))) = Len(rxq) - n
  BY <1>1, RunSplit
<1>2. Run(rxq', (clientSent - Len(rxq)) + n, Inward) /\ Len(rxq') = Len(rxq) - n
  BY <1>a, Zenon
<1>3. ASSUME NEW a \in Nat, NEW b \in Nat, NEW c, n <= b, b <= a, c = b - n
      PROVE  (a - b) + n = a - c /\ c <= a
  BY <1>3
<1>4. (clientSent - Len(rxq)) + n = clientSent - Len(rxq') /\ Len(rxq') <= clientSent
  BY <1>2, <1>3, Zenon
<1> QED
  BY <1>2, <1>4, Zenon

LEMMA ServeGreetingKeeps ==
  ASSUME NEW r \in Nat, Good(r), ServeGreeting
  PROVE  \E s \in Nat : Good(s)'
<1>1. /\ Turn("serve", "relisten") /\ is_active /\ conn = "Greeting"
      /\ target = "Socks" /\ UNCHANGED <<sock, lan, lanGot, ending>>
  BY DEF ServeGreeting, Serves, lanVars
<1>2. /\ Run(clientGot, 0, Outward(r)) /\ Run(txq, Len(clientGot), Outward(r))
      /\ Len(clientGot) + Len(txq) = r
      /\ Len(rxq) <= clientSent /\ Run(rxq, clientSent - Len(rxq), Inward)
      /\ Types /\ clientSent \in Nat /\ Len(rxq) \in Nat
  BY <1>1, UndialledIs
<1>3. CASE Greeted
  <2>1. /\ rxq' = SubSeq(rxq, Min({Len(rxq), GREETING_LEN}) + 1, Len(rxq))
        /\ txq' = Answered /\ conn' \in {"Greeting", "Request"}
    BY <1>1, <1>3 DEF ServeGreeting
  <2>2. GREETING_LEN \in Nat
    BY <1>2, NegotiationType
  <2>3. Min({Len(rxq), GREETING_LEN}) \in Nat /\ Min({Len(rxq), GREETING_LEN}) <= Len(rxq)
    BY <1>2, <2>2, MinTwo
  <2>4. Len(rxq') <= clientSent /\ Run(rxq', clientSent - Len(rxq'), Inward)
    BY <1>2, <2>1, <2>3, Consumes
  <2>5. PICK s \in Nat : /\ Run(clientGot, 0, Outward(s)) /\ Run(Answered, Len(clientGot), Outward(s))
                         /\ Len(clientGot) + Len(Answered) = s
    BY <1>2, AnsweredRun
  <2>6. Run(txq', Len(clientGot), Outward(s)) /\ Len(clientGot) + Len(txq') = s
    BY <2>1, <2>5
  <2>7. Good(s)'
    BY <1>1, <2>1, <2>4, <2>5, <2>6, HostWaits
  <2> QED
    BY <2>7
<1>4. CASE ~Greeted
  <2>1. UNCHANGED <<rxq, txq, conn>>
    BY <1>4 DEF ServeGreeting
  <2>2. Good(r)'
    BY <1>1, <1>2, <2>1, HostWaits
  <2> QED
    BY <2>2
<1> QED
  BY <1>3, <1>4

\* The request is received right after the greeting, and nothing of it is missing.
LEMMA RequestPlace ==
  ASSUME Types, target = "Socks", Whole("request", REQUEST_LEN), clientSent \in Nat,
         Len(rxq) \in Nat, Len(rxq) <= clientSent, Run(rxq, clientSent - Len(rxq), Inward)
  PROVE  /\ REQUEST_LEN \in Nat /\ REQUEST_LEN <= Len(rxq)
         /\ Negotiation + (Len(rxq) - REQUEST_LEN) = clientSent
<1> DEFINE base == clientSent - Len(rxq)
<1>1. /\ Negotiation = GREETING_LEN + REQUEST_LEN /\ GREETING_LEN \in Nat /\ REQUEST_LEN \in Nat
      /\ REQUEST_LEN >= 1
  BY NegotiationType
<1>2. Len(rxq) >= REQUEST_LEN /\ \A i \in 1 .. REQUEST_LEN : rxq[i].what = "request"
  BY DEF Whole
<1>3. \A i \in 1 .. Len(rxq) : rxq[i] = Inward[base + i]
  BY DEF Run
<1>4. base \in Nat
  OBVIOUS
<1> HIDE DEF base
<1>5. ASSUME NEW i \in 1 .. REQUEST_LEN
      PROVE  base + i > GREETING_LEN /\ base + i <= Negotiation
  <2>1. base + i \in Nat /\ i \in 1 .. Len(rxq)
    BY <1>1, <1>2, <1>4
  <2>2. Inward[base + i].what = "request"
    BY <1>2, <1>3, <2>1
  <2> QED
    BY <2>1, <2>2, InwardIs
<1>6. 1 \in 1 .. REQUEST_LEN /\ REQUEST_LEN \in 1 .. REQUEST_LEN
  BY <1>1
<1>7. base + 1 > GREETING_LEN /\ base + REQUEST_LEN <= Negotiation
  BY <1>5, <1>6
<1>8. base = GREETING_LEN
  BY <1>1, <1>4, <1>7
<1> QED
  BY <1>1, <1>2, <1>8 DEF base

LEMMA ServeRequestKeeps ==
  ASSUME NEW r \in Nat, Good(r), ServeRequest
  PROVE  \E s \in Nat : Good(s)'
<1>1. /\ Turn("serve", "relisten") /\ is_active /\ conn = "Request"
      /\ target = "Socks" /\ UNCHANGED <<lanGot, ending>>
  BY DEF ServeRequest, Serves
<1>2. /\ Run(clientGot, 0, Outward(r)) /\ Run(txq, Len(clientGot), Outward(r))
      /\ Len(clientGot) + Len(txq) = r
      /\ Len(rxq) <= clientSent /\ Run(rxq, clientSent - Len(rxq), Inward)
      /\ Types /\ clientSent \in Nat /\ Len(rxq) \in Nat
  BY <1>1, UndialledIs
<1>3. CASE Whole("request", REQUEST_LEN)
  <2>1. /\ rxq' = SubSeq(rxq, REQUEST_LEN + 1, Len(rxq)) /\ txq' = Answered
        /\ \/ conn' = "Relaying" /\ lan' = Dialled /\ sock' = sock
           \/ conn' = conn /\ lan' = lan /\ sock' \in {sock, Close(sock)}
    BY <1>1, <1>3 DEF ServeRequest
  <2>2. /\ REQUEST_LEN \in Nat /\ REQUEST_LEN <= Len(rxq)
        /\ Negotiation + (Len(rxq) - REQUEST_LEN) = clientSent
    BY <1>1, <1>2, <1>3, RequestPlace
  <2>3. /\ Len(rxq') = Len(rxq) - REQUEST_LEN /\ Len(rxq') <= clientSent
        /\ Run(rxq', clientSent - Len(rxq'), Inward)
    BY <1>2, <2>1, <2>2, Consumes
  <2>4. Negotiation + Len(rxq') = clientSent
    BY <2>2, <2>3
  <2>5. PICK s \in Nat : /\ Run(clientGot, 0, Outward(s)) /\ Run(Answered, Len(clientGot), Outward(s))
                         /\ Len(clientGot) + Len(Answered) = s
    BY <1>2, AnsweredRun
  <2>6. Run(txq', Len(clientGot), Outward(s)) /\ Len(clientGot) + Len(txq') = s
    BY <2>1, <2>5
  <2>7. CASE conn' = "Relaying" /\ lan' = Dialled /\ sock' = sock
    <3>1. Good(s)'
      BY <1>1, <2>3, <2>4, <2>5, <2>6, <2>7, HostDials
    <3> QED
      BY <3>1
  <2>8. CASE conn' = conn /\ lan' = lan /\ sock' \in {sock, Close(sock)}
    <3>1. Good(s)'
      BY <1>1, <2>3, <2>5, <2>6, <2>8, HostWaits
    <3> QED
      BY <3>1
  <2> QED
    BY <2>1, <2>7, <2>8
<1>4. CASE ~Whole("request", REQUEST_LEN)
  <2>1. UNCHANGED <<sock, rxq, txq, conn, lan>>
    BY <1>4 DEF ServeRequest
  <2>2. Good(r)'
    BY <1>1, <1>2, <2>1, HostWaits
  <2> QED
    BY <2>2
<1> QED
  BY <1>3, <1>4

\* What the LAN host takes of the receive buffer.
LEMMA ToLanKeeps ==
  ASSUME NEW r \in Nat, Good(r), ServeRelaying
  PROVE  /\ Len(rxq') <= clientSent /\ Run(rxq', clientSent - Len(rxq'), Inward)
         /\ Run(lanGot', Negotiation, Inward)
         /\ lan.state # "reset" => Negotiation + Len(lanGot') + 0 + Len(rxq') = clientSent
<1>0. Turn("serve", "relisten") /\ conn = "Relaying" /\ ToLan
  BY DEF ServeRelaying, Serves
<1>1. /\ program = "host" /\ Negotiation \in Nat /\ InInv /\ clientSent \in Nat
      /\ Len(rxq) \in Nat /\ Len(lanGot) \in Nat /\ inbuf = <<>>
  BY <1>0, TurnIs
<1>2. Relaying
  BY <1>0, <1>1 DEF Relaying
<1>3. /\ Len(rxq) <= clientSent /\ Run(rxq, clientSent - Len(rxq), Inward)
      /\ Run(lanGot, Negotiation, Inward)
      /\ lan.state # "reset" => Negotiation + Len(lanGot) + Len(inbuf) + Len(rxq) = clientSent
  BY <1>1, <1>2 DEF InInv
<1>4. lan.state # "reset" => Negotiation + Len(lanGot) + 0 + Len(rxq) = clientSent
  <2>1. Len(inbuf) = 0
    BY <1>1
  <2> QED
    BY <1>3, <2>1
<1>5. CASE rxq' = rxq /\ lanGot' = lanGot
  BY <1>3, <1>4, <1>5
<1>6. CASE rxq' = <<>> /\ lan.state = "reset" /\ lanGot' = lanGot
  <2>1. Len(<<>>) = 0 /\ clientSent - 0 = clientSent /\ Run(<<>>, clientSent, Inward)
    BY <1>1, RunEmpty
  <2> QED
    BY <1>1, <1>3, <1>6, <2>1
<1>7. CASE lan.state # "reset" /\ \E k \in 0 .. Len(rxq) :
             /\ lanGot' = lanGot \o SubSeq(rxq, 1, k)
             /\ rxq' = SubSeq(rxq, k + 1, Len(rxq))
  <2>1. PICK k \in 0 .. Len(rxq) :
             /\ lanGot' = lanGot \o SubSeq(rxq, 1, k)
             /\ rxq' = SubSeq(rxq, k + 1, Len(rxq))
    BY <1>7
  <2>2. k \in Nat /\ k <= Len(rxq)
    BY <1>1
  <2>3. /\ Len(rxq') = Len(rxq) - k /\ Len(rxq') <= clientSent
        /\ Run(rxq', clientSent - Len(rxq'), Inward)
    BY <1>1, <1>3, <2>1, <2>2, Consumes
  <2> DEFINE t == SubSeq(rxq, 1, k)
  <2>4. Run(t, clientSent - Len(rxq), Inward) /\ Len(t) = k
    BY <1>3, RunSplit
  <2>5. lanGot' = lanGot \o t
    BY <2>1
  <2> HIDE DEF t
  <2>6. clientSent - Len(rxq) = Negotiation + Len(lanGot)
    BY <1>1, <1>4, <1>7
  <2>7. Run(t, Negotiation + Len(lanGot), Inward)
    BY <2>4, <2>6
  <2>8. Run(lanGot \o t, Negotiation, Inward) /\ Len(lanGot \o t) = Len(lanGot) + Len(t)
    BY <1>3, <2>7, RunConcat
  <2>9. Run(lanGot', Negotiation, Inward) /\ Len(lanGot') = Len(lanGot) + k
    BY <2>4, <2>5, <2>8
  <2>10. Negotiation + Len(lanGot') + 0 + Len(rxq') = clientSent
    <3>1. Negotiation + Len(lanGot) + 0 + Len(rxq) = clientSent
      BY <1>4, <1>7
    <3>2. /\ Negotiation \in Nat /\ clientSent \in Nat /\ Len(rxq) \in Nat /\ Len(lanGot) \in Nat
          /\ Len(rxq') = Len(rxq) - k /\ Len(lanGot') = Len(lanGot) + k
      BY <1>1, <2>3, <2>9
    <3> QED
      BY <2>2, <3>1, <3>2
  <2> QED
    BY <2>3, <2>9, <2>10
<1> QED
  BY <1>0, <1>5, <1>6, <1>7 DEF ToLan

\* And what is read from it.
LEMMA FromLanKeeps ==
  ASSUME NEW r \in Nat, Good(r), ServeRelaying
  PROVE  /\ lan'.connection = lan.connection /\ lan'.state = lan.state /\ lan'.sent = lan.sent
         /\ lan' \in [state : {"none", "open", "fin", "reset"}, connection : Nat, sent : Nat, read : Nat]
         /\ lan'.read <= lan'.sent
         /\ Run(txq', Len(clientGot), Outward(r))
         /\ Len(clientGot) + Len(txq') = r + lan'.read
         /\ \/ ending' = ending /\ (ending = "lan closed" /\ lan.state = "fin" => lan' = lan)
            \/ /\ lan' = lan /\ lan.state \in {"fin", "reset"} /\ ending' \in {"lan closed", "lan error"}
               /\ lan.state = "fin" => lan.read = lan.sent
         /\ sock' \in {sock, Close(sock)}
<1>0. Turn("serve", "relisten") /\ conn = "Relaying" /\ FromLan
  BY DEF ServeRelaying, Serves
<1>1. /\ program = "host" /\ Types /\ LanInv /\ OutInv(r) /\ EndingInv
      /\ Len(txq) \in Nat /\ Len(clientGot) \in Nat /\ held = <<>>
  BY <1>0, TurnIs
<1>2. Relaying
  BY <1>0, <1>1 DEF Relaying
<1>3. /\ lan.connection = connection /\ lan.read \in Nat /\ lan.sent \in Nat /\ lan.read <= lan.sent
      /\ lan \in [state : {"none", "open", "fin", "reset"}, connection : Nat, sent : Nat, read : Nat]
  BY <1>1, <1>2 DEF LanInv, Types
<1>4. Run(txq, Len(clientGot), Outward(r)) /\ Len(clientGot) + Len(txq) = r + lan.read
  <2>1. /\ Run(txq, Len(clientGot), Outward(r)) /\ Len(clientGot) + Len(txq) + Len(held) = r + lan.read
    BY <1>1, <1>2 DEF OutInv
  <2>2. Len(held) = 0
    BY <1>1
  <2> QED
    BY <1>1, <2>1, <2>2
<1>5. CASE UNCHANGED <<sock, txq, lan, ending>>
  BY <1>3, <1>4, <1>5
<1>6. CASE /\ Unread > 0 /\ can_send /\ UNCHANGED <<sock, ending>>
           /\ \E n \in 1 .. Min({Unread, TX - Len(txq)}) :
                txq' = txq \o LanBytes(n) /\ lan' = [lan EXCEPT !.read = @ + n]
  <2>1. PICK n \in 1 .. Min({Unread, TX - Len(txq)}) :
                txq' = txq \o LanBytes(n) /\ lan' = [lan EXCEPT !.read = @ + n]
    BY <1>6
  <2>2. Unread \in Nat /\ TX - Len(txq) \in Nat /\ Unread = lan.sent - lan.read
    <3>1. Len(txq) < TX /\ TX \in Nat /\ Unread = lan.sent - lan.read
      BY <1>6, SpliceAssumption DEF can_send, Unread
    <3>2. Len(txq) \in Nat
      BY <1>1
    <3> QED
      BY <1>3, <3>1, <3>2
  <2>3. n \in Nat /\ n >= 1 /\ n <= Unread
    <3>1. Min({Unread, TX - Len(txq)}) \in Nat /\ Min({Unread, TX - Len(txq)}) <= Unread
      BY <2>2, MinTwo
    <3> QED
      BY <2>2, <3>1
  <2>4. /\ lan'.read = lan.read + n /\ lan'.sent = lan.sent /\ lan'.connection = lan.connection
        /\ lan'.state = lan.state /\ lan'.read <= lan'.sent
        /\ lan' \in [state : {"none", "open", "fin", "reset"}, connection : Nat, sent : Nat, read : Nat]
    <3>1. lan.read + n \in Nat /\ lan.read + n <= lan.sent
      BY <1>3, <2>2, <2>3
    <3>2. lan' = [lan EXCEPT !.read = lan.read + n]
      BY <2>1
    <3> QED
      BY <1>3, <3>1, <3>2
  <2> DEFINE t == LanBytes(n)
  <2>5. Run(t, Len(clientGot) + Len(txq), Outward(r)) /\ Len(t) = n
    BY <1>1, <1>3, <1>4, <2>3, LanBytesRun
  <2>6. txq' = txq \o t
    BY <2>1
  <2> HIDE DEF t
  <2>7. Run(txq', Len(clientGot), Outward(r)) /\ Len(txq') = Len(txq) + n
    <3>1. Run(txq \o t, Len(clientGot), Outward(r)) /\ Len(txq \o t) = Len(txq) + Len(t)
      BY <1>4, <2>5, RunConcat
    <3> QED
      BY <2>5, <2>6, <3>1, Zenon
  <2>8. Len(clientGot) + Len(txq') = r + lan'.read
    BY <1>1, <1>3, <1>4, <2>3, <2>4, <2>7
  <2>9. lan.read # lan.sent
    BY <1>3, <2>2, <2>3
  <2>10. ~(ending = "lan closed" /\ lan.state = "fin")
    BY <1>1, <2>9 DEF EndingInv
  <2> QED
    BY <1>6, <2>4, <2>7, <2>8, <2>10
<1>7. CASE /\ lan.state = "reset" \/ (lan.state = "fin" /\ Unread = 0)
           /\ sock' = Close(sock) /\ UNCHANGED <<txq, lan>>
           /\ ending' = IF lan.state = "fin" THEN "lan closed" ELSE "lan error"
  <2>1. lan.state = "fin" => lan.read = lan.sent
    <3>1. lan.state = "fin" => Unread = 0
      BY <1>7
    <3> QED
      BY <1>3, <3>1 DEF Unread
  <2> QED
    BY <1>3, <1>4, <1>7, <2>1
<1> QED
  BY <1>0, <1>5, <1>6, <1>7 DEF FromLan

LEMMA ServeRelayingKeeps ==
  ASSUME NEW r \in Nat, Good(r), ServeRelaying
  PROVE  Good(r)'
<1>0. Turn("serve", "relisten") /\ is_active /\ conn = "Relaying" /\ conn' = conn
  BY DEF ServeRelaying, Serves
<1>1. /\ program = "host" /\ at' = "relisten"
      /\ UNCHANGED <<program, target, connection, clientSent, clientGot, inbuf, held>>
      /\ Negotiation' = Negotiation
      /\ Inward' = Inward /\ Outward(r)' = Outward(r)
      /\ Types /\ SocketInv /\ LanInv /\ InInv /\ OutInv(r) /\ EndingInv
      /\ inbuf = <<>> /\ held = <<>>
  BY <1>0, TurnIs
<1>2. /\ Len(rxq') <= clientSent /\ Run(rxq', clientSent - Len(rxq'), Inward)
      /\ Run(lanGot', Negotiation, Inward)
      /\ lan.state # "reset" => Negotiation + Len(lanGot') + 0 + Len(rxq') = clientSent
  BY ToLanKeeps
<1>3. /\ lan'.connection = lan.connection /\ lan'.state = lan.state /\ lan'.sent = lan.sent
      /\ lan' \in [state : {"none", "open", "fin", "reset"}, connection : Nat, sent : Nat, read : Nat]
      /\ lan'.read <= lan'.sent
      /\ Run(txq', Len(clientGot), Outward(r))
      /\ Len(clientGot) + Len(txq') = r + lan'.read
      /\ \/ ending' = ending /\ (ending = "lan closed" /\ lan.state = "fin" => lan' = lan)
         \/ /\ lan' = lan /\ lan.state \in {"fin", "reset"} /\ ending' \in {"lan closed", "lan error"}
            /\ lan.state = "fin" => lan.read = lan.sent
      /\ sock' \in {sock, Close(sock)}
  BY FromLanKeeps
<1>4. sock' \in Sockets /\ sock' \notin {"Listen", "Closed"} /\ sock # "Listen"
  BY <1>0, <1>1, <1>3 DEF Close, is_active, Types, Sockets
<1>5. Relaying /\ Relaying' /\ ~Undialled' /\ lan.connection = connection /\ lan.state # "none"
  BY <1>0, <1>1 DEF Relaying, Undialled, LanInv
<1>6. Types'
  BY <1>0, <1>1, <1>3, <1>4 DEF Types
<1>7. SocketInv' /\ LanInv'
  BY <1>0, <1>1, <1>3, <1>4, <1>5 DEF SocketInv, LanInv
<1>8. EndingInv'
  BY <1>1, <1>3, <1>5 DEF EndingInv
<1>9. InInv'
  <2>1. Len(inbuf') = 0 /\ inbuf' = <<>>
    BY <1>1
  <2> QED
    BY <1>1, <1>2, <1>3, <1>5, <2>1 DEF InInv
<1>10. OutInv(r)'
  <2>1. Len(clientGot) \in Nat /\ Len(txq') \in Nat
    BY <1>1, <1>3, RunType DEF OutInv
  <2>2. Len(<<>>) = 0 /\ Run(<<>>, Len(clientGot) + Len(txq'), Outward(r))
    BY <2>1, RunEmpty
  <2>3. /\ Len(clientGot) + Len(txq') + 0 = r + lan'.read
        /\ Len(clientGot) + Len(txq') <= r + lan'.read
    <3>1. Len(clientGot) + Len(txq') = r + lan'.read
      BY <1>3
    <3> QED
      BY <2>1, <3>1
  <2>4. Run(clientGot, 0, Outward(r))
    BY <1>1 DEF OutInv
  <2> QED
    BY <1>1, <1>3, <1>5, <2>2, <2>3, <2>4 DEF OutInv
<1> QED
  BY <1>6, <1>7, <1>8, <1>9, <1>10 DEF Good

-----------------------------------------------------------------------------
(* The invariant.                                                          *)

LEMMA Starts == Init => Good(0)
<1> SUFFICES ASSUME Init PROVE Good(0)
  OBVIOUS
<1>1. <<>> \in Seq(Bytes) /\ Len(<<>>) = 0
  OBVIOUS
<1>2. Types
  BY <1>1 DEF Init, Types, NoLan, Sockets
<1>3. ~Undialled /\ ~Relaying
  BY DEF Init, Undialled, Relaying, is_active
<1>4. SocketInv /\ LanInv /\ EndingInv
  BY <1>3 DEF Init, SocketInv, LanInv, EndingInv, NoLan
<1>5. Negotiation \in Nat
  BY <1>2, NegotiationType
<1>6. Run(<<>>, 0, Inward) /\ Run(<<>>, Negotiation, Inward) /\ Run(<<>>, 0, Outward(0))
  BY <1>5, RunEmpty
<1>7. InInv
  BY <1>1, <1>3, <1>6 DEF Init, InInv
<1>8. OutInv(0)
  <2>1. Len(clientGot) = 0 /\ Len(txq) = 0 /\ 0 + 0 = 0
    BY <1>1 DEF Init
  <2>2. Len(clientGot) + Len(txq) <= 0 + (IF lan.connection = connection THEN lan.read ELSE 0)
    BY <2>1 DEF Init, NoLan
  <2>3. Run(clientGot, 0, Outward(0)) /\ Run(txq, Len(clientGot), Outward(0))
    BY <1>6, <2>1 DEF Init
  <2>4. ~(program = "fw" /\ at = "relisten")
    BY DEF Init
  <2> QED
    BY <1>3, <2>2, <2>3, <2>4 DEF OutInv
<1> QED
  BY <1>2, <1>4, <1>7, <1>8 DEF Good

LEMMA StutterKeeps ==
  ASSUME NEW r \in Nat, Good(r), UNCHANGED vars
  PROVE  Good(r)'
<1>1. /\ UNCHANGED <<program, target, sock, rxq, txq, connection, clientSent, clientGot, lan>>
      /\ UNCHANGED <<lanGot, at, inbuf, held, conn, ending>>
  BY DEF vars, kindVars, socketVars, clientVars, lanVars, fwVars
<1>2. Negotiation' = Negotiation /\ Inward' = Inward /\ Outward(r)' = Outward(r)
  BY <1>1, SameBytes
<1>3. (Undialled' <=> Undialled) /\ (Relaying' <=> Relaying)
  BY <1>1 DEF Undialled, Relaying, is_active
<1>4. Types /\ SocketInv /\ LanInv /\ InInv /\ OutInv(r) /\ EndingInv
  BY DEF Good
<1>5. Types' /\ SocketInv' /\ LanInv' /\ EndingInv'
  <2>1. Types' /\ SocketInv'
    BY <1>1, <1>4 DEF Types, SocketInv
  <2>2. LanInv' /\ EndingInv'
    BY <1>1, <1>3, <1>4 DEF LanInv, EndingInv
  <2> QED BY <2>1, <2>2
<1>6. InInv' /\ OutInv(r)'
  BY <1>1, <1>2, <1>3, <1>4 DEF InInv, OutInv
<1> QED
  BY <1>5, <1>6 DEF Good

LEMMA StepKeeps ==
  ASSUME NEW r \in Nat, Good(r), [Next]_vars
  PROVE  \E s \in Nat : Good(s)'
<1>1. CASE ClientConnect
  <2>1. Good(0)' /\ 0 \in Nat
    BY <1>1, ClientConnectKeeps
  <2> QED
    BY <2>1
<1>2. CASE ServeGreeting \/ ServeRequest
  BY <1>2, ServeGreetingKeeps, ServeRequestKeeps
<1>3. CASE FwStep \/ GiveUp
  <2>1. Good(r)'
    BY <1>3, ClaimKeeps, DialKeeps, RelayTopKeeps, WriteLanKeeps, SendHeldKeeps, ReadLanKeeps,
       RelayEndsKeeps, RelistenKeeps, Zenon DEF FwStep
  <2> QED
    BY <2>1
<1>4. CASE Tick \/ ServeInactive \/ ServeForward \/ ServeRelaying \/ RelistenHost
  <2>1. Good(r)'
    BY <1>4, TickKeeps, ServeInactiveKeeps, ServeForwardKeeps, ServeRelayingKeeps,
       RelistenHostKeeps, Zenon
  <2> QED
    BY <2>1
<1>5. CASE ClientSend \/ ClientReceive \/ ClientFin \/ ClientRst \/ LanHost \/ UNCHANGED vars
  <2>1. Good(r)'
    BY <1>5, ClientSendKeeps, ClientReceiveKeeps, ClientLeavesKeeps, LanHostKeeps,
       StutterKeeps, Zenon
  <2> QED
    BY <2>1
<1> QED
  BY <1>1, <1>2, <1>3, <1>4, <1>5, Zenon DEF Next, HostStep, Serve, Client

(***************************************************************************)
(* In every reachable state of either program there is a number of answers *)
(* such that what is on its way, in either direction, is exactly what was  *)
(* sent and not yet received, of this connection alone.                    *)
(***************************************************************************)
THEOREM Invariant == Spec => []IInv
<1>1. Init => IInv
  BY Starts DEF IInv
<1>2. IInv /\ [Next]_vars => IInv'
  <2> SUFFICES ASSUME IInv, [Next]_vars PROVE IInv'
    OBVIOUS
  <2>1. PICK r \in Nat : Good(r)
    BY DEF IInv
  <2>2. PICK s \in Nat : Good(s)'
    BY <2>1, StepKeeps
  <2> QED
    BY <2>2 DEF IInv
<1> QED
  BY <1>1, <1>2, PTL DEF Spec

(***************************************************************************)
(* When a worker takes its client for finished, the LAN host has all the   *)
(* client sent: `relay` ends on a FIN only with nothing left to read.      *)
(***************************************************************************)
THEOREM RequestCompleteHolds == Spec => []RequestComplete
<1>1. IInv => RequestComplete
  BY DEF IInv, Good, EndingInv, RequestComplete
<1> QED
  BY <1>1, Invariant, PTL

-----------------------------------------------------------------------------
(* What the client has of the LAN host's bytes.                            *)

LEMMA DataOfRun ==
  ASSUME Types, NEW r \in Nat, NEW s, Run(s, 0, Outward(r))
  PROVE  LET m == IF Len(s) <= r THEN Len(s) ELSE r
         IN  /\ DataOf(s) = SubSeq(s, m + 1, Len(s)) /\ m \in Nat /\ m <= Len(s)
             /\ Run(DataOf(s), m, Outward(r)) /\ Len(DataOf(s)) = Len(s) - m
<1> DEFINE m == IF Len(s) <= r THEN Len(s) ELSE r
           answers == {i \in DOMAIN s : ~IsData(s[i])}
<1>1. s \in Seq(Bytes) /\ Len(s) \in Nat /\ \A i \in 1 .. Len(s) : s[i] = Outward(r)[0 + i]
  BY DEF Run
<1>2. m \in Nat /\ m <= Len(s) /\ m <= r /\ \A i \in 1 .. Len(s) : i > m => i > r
  BY <1>1
<1>3. DOMAIN s = 1 .. Len(s)
  BY <1>1
<1> HIDE DEF m
<1>4. ASSUME NEW i \in 1 .. Len(s) PROVE ~IsData(s[i]) <=> i <= m
  <2>1. i \in Nat /\ 0 + i = i /\ s[i] = Outward(r)[i]
    BY <1>1
  <2>2. i <= r => s[i] = Reply
    BY <2>1, OutwardIs
  <2>3. i > r => s[i] = [what |-> "data", connection |-> connection, n |-> i - r]
    BY <2>1, OutwardIs
  <2>4. i <= r => ~IsData(s[i])
    BY <2>2 DEF Reply, IsData
  <2>5. i > r => IsData(s[i])
    BY <2>3 DEF IsData
  <2>6. (i <= m => i <= r) /\ (~(i <= m) => i > r)
    BY <1>2, <2>1
  <2> QED
    BY <2>4, <2>5, <2>6, Zenon
<1>5. answers = 1 .. m
  <2>1. \A i : i \in 1 .. m <=> i \in 1 .. Len(s) /\ i <= m
    BY <1>1, <1>2
  <2> QED
    BY <1>3, <1>4, <2>1, Zenon
<1>6. Cardinality(answers) = m
  <2>1. Cardinality(1 .. m) = IF 1 > m THEN 0 ELSE m - 1 + 1
    BY <1>2, FS_Interval
  <2>2. (IF 1 > m THEN 0 ELSE m - 1 + 1) = m
    BY <1>2
  <2> QED
    BY <1>5, <2>1, <2>2, Zenon
<1>7. DataOf(s) = SubSeq(s, m + 1, Len(s))
  BY <1>6 DEF DataOf
<1>8. m \in 0 .. Len(s) /\ 0 + m = m
  BY <1>1, <1>2
<1>9. Run(SubSeq(s, m + 1, Len(s)), 0 + m, Outward(r)) /\ Len(SubSeq(s, m + 1, Len(s))) = Len(s) - m
  BY <1>8, RunSplit
<1>10. /\ DataOf(s) = SubSeq(s, m + 1, Len(s)) /\ m \in Nat /\ m <= Len(s)
       /\ Run(DataOf(s), m, Outward(r)) /\ Len(DataOf(s)) = Len(s) - m
  BY <1>2, <1>7, <1>8, <1>9
<1> QED
  BY <1>10 DEF m

\* And how many.
LEMMA DataOfLength ==
  ASSUME Types, NEW r \in Nat, NEW s, Run(s, 0, Outward(r)), NEW k \in Nat, Len(s) = r + k
  PROVE  Len(DataOf(s)) = k
<1> DEFINE m == IF Len(s) <= r THEN Len(s) ELSE r
<1>1. Len(DataOf(s)) = Len(s) - m
  BY DataOfRun
<1>2. m = r
  OBVIOUS
<1> HIDE DEF m
<1> QED
  BY <1>1, <1>2

(***************************************************************************)
(* When the LAN host ended its stream and a client that is still there     *)
(* sees the end of the connection, it has everything that was sent, unless *)
(* the fifty polls of `flush` were not enough.                             *)
(***************************************************************************)
THEOREM ResponseCompleteHolds == Spec => []ResponseComplete
<1>1. ASSUME IInv PROVE ResponseComplete
  <2>0. SUFFICES ASSUME ending = "lan closed", lan.state = "fin",
                      IF program = "fw" THEN at = "relisten" /\ sock = "Established"
                      ELSE sock = "FinWait" /\ txq = <<>>
               PROVE  Len(DataOf(clientGot)) = lan.sent
    BY DEF ResponseComplete
  <2>1. PICK r \in Nat : Types /\ LanInv /\ OutInv(r) /\ EndingInv
    BY <1>1 DEF IInv, Good
  <2>2. lan.read = lan.sent /\ lan.sent \in Nat
    BY <2>0, <2>1 DEF EndingInv, Types
  <2>3. Run(clientGot, 0, Outward(r)) /\ Len(clientGot) \in Nat
    BY <2>1, RunType DEF OutInv
  <2>n. Len(clientGot) \in Nat /\ lan.read \in Nat
    BY <2>2, <2>3
  <2>4. Len(clientGot) = r + lan.read
    <3>1. CASE program = "fw"
      <4>1. Len(clientGot) + Len(txq) = r + lan.read /\ txq = <<>>
        BY <2>0, <2>1, <3>1 DEF OutInv
      <4>2. Len(txq) = 0
        BY <4>1
      <4>3. Len(clientGot) + 0 = r + lan.read
        BY <4>1, <4>2, Zenon
      <4> QED
        BY <2>n, <4>3
    <3>2. CASE program # "fw"
      <4>1. program = "host" /\ txq = <<>> /\ Relaying
        BY <2>0, <2>1, <3>2 DEF LanInv, Types
      <4>2. held = <<>> /\ Len(clientGot) + Len(txq) + Len(held) = r + lan.read
        BY <2>1, <4>1 DEF OutInv
      <4>3. Len(txq) = 0 /\ Len(held) = 0
        BY <4>1, <4>2
      <4>4. Len(clientGot) + 0 + 0 = r + lan.read
        BY <4>2, <4>3, Zenon
      <4> QED
        BY <2>n, <4>4
    <3> QED
      BY <3>1, <3>2
  <2> QED
    BY <2>1, <2>2, <2>3, <2>4, DataOfLength
<1> QED
  BY <1>1, Invariant, PTL

-----------------------------------------------------------------------------
(* Either program implements BytePipe.                                     *)

\* How far each end has come, and the two functions of the refinement.
ClientData == Max({clientSent - Negotiation, 0})
LanData == IF lan.connection = connection THEN lan.sent ELSE 0
PipeSent == [e \in {"client", "lan"} |-> IF e = "client" THEN ClientData ELSE LanData]
PipeGot == [e \in {"client", "lan"} |-> IF e = "client" THEN DataOf(clientGot) ELSE lanGot]

\* The first n bytes of an end.
FirstBytes(n) == [i \in 1 .. n |-> [what |-> "data", connection |-> connection, n |-> i]]

\* What BytePipe does, in these terms.
PipeStep ==
  \/ UNCHANGED <<connection, PipeSent, PipeGot>>
  \/ /\ connection' = connection + 1
     /\ PipeSent' = [e \in {"client", "lan"} |-> 0]
     /\ PipeGot' = [e \in {"client", "lan"} |-> <<>>]
  \/ \E e \in {"client", "lan"} :
       /\ connection > 0 /\ UNCHANGED <<connection, PipeGot>>
       /\ PipeSent' = [PipeSent EXCEPT ![e] = @ + 1]
  \/ \E e \in {"client", "lan"} :
       /\ UNCHANGED <<connection, PipeSent>>
       /\ \E n \in Len(PipeGot[e]) + 1 .. PipeSent[IF e = "client" THEN "lan" ELSE "client"] :
             PipeGot' = [PipeGot EXCEPT ![e] = FirstBytes(n)]

LEMMA PipeStepIs == PipeStep => [Pipe!Next]_<<connection, PipeSent, PipeGot>>
BY DEF PipeStep, PipeSent, PipeGot, ClientData, LanData, FirstBytes, Pipe!Next, Pipe!Connect,
   Pipe!Send, Pipe!Receive, Pipe!Ends, Pipe!Other, Pipe!Data

\* Each of its steps, from how far the two ends are.
LEMMA PipeStutters ==
  ASSUME connection' = connection, ClientData' = ClientData, LanData' = LanData,
         DataOf(clientGot') = DataOf(clientGot), lanGot' = lanGot
  PROVE  PipeStep
BY Zenon DEF PipeStep, PipeSent, PipeGot

LEMMA PipeSends ==
  ASSUME connection' = connection, connection > 0, clientGot' = clientGot, lanGot' = lanGot,
         \/ ClientData' = ClientData + 1 /\ LanData' = LanData
         \/ ClientData' = ClientData /\ LanData' = LanData + 1
  PROVE  PipeStep
<1>1. PipeGot' = PipeGot
  BY DEF PipeGot
<1>2. CASE ClientData' = ClientData + 1 /\ LanData' = LanData
  <2>1. PipeSent' = [PipeSent EXCEPT !["client"] = @ + 1]
    BY <1>2 DEF PipeSent
  <2> QED
    BY <1>1, <2>1 DEF PipeStep
<1>3. CASE ClientData' = ClientData /\ LanData' = LanData + 1
  <2>1. PipeSent' = [PipeSent EXCEPT !["lan"] = @ + 1]
    BY <1>3 DEF PipeSent
  <2> QED
    BY <1>1, <2>1 DEF PipeStep
<1> QED
  BY <1>2, <1>3

LEMMA LanReceives ==
  ASSUME connection' = connection, ClientData' = ClientData, LanData' = LanData,
         clientGot' = clientGot, ClientData \in Nat,
         NEW m \in Nat, NEW n \in Nat, m <= n, n <= ClientData, Len(lanGot) = m,
         lanGot = FirstBytes(m), lanGot' = FirstBytes(n)
  PROVE  PipeStep
<1>1. CASE n = m
  BY <1>1, PipeStutters
<1>2. CASE n # m
  <2>1. PipeSent' = PipeSent /\ PipeSent["client"] = ClientData /\ PipeGot["lan"] = lanGot
    BY DEF PipeSent, PipeGot
  <2>2. PipeGot' = [PipeGot EXCEPT !["lan"] = FirstBytes(n)]
    BY DEF PipeGot
  <2>3. n \in m + 1 .. ClientData
    BY <1>2
  <2>4. n \in Len(PipeGot["lan"]) + 1 .. PipeSent[IF "lan" = "client" THEN "lan" ELSE "client"]
    BY <2>1, <2>3
  <2> QED
    BY <2>1, <2>2, <2>4, Zenon DEF PipeStep
<1> QED
  BY <1>1, <1>2

LEMMA ClientReceives ==
  ASSUME connection' = connection, ClientData' = ClientData, LanData' = LanData,
         lanGot' = lanGot, LanData \in Nat,
         NEW m \in Nat, NEW n \in Nat, m <= n, n <= LanData, Len(DataOf(clientGot)) = m,
         DataOf(clientGot) = FirstBytes(m), DataOf(clientGot') = FirstBytes(n)
  PROVE  PipeStep
<1>1. CASE n = m
  BY <1>1, PipeStutters
<1>2. CASE n # m
  <2>1. PipeSent' = PipeSent /\ PipeSent["lan"] = LanData /\ PipeGot["client"] = DataOf(clientGot)
    BY DEF PipeSent, PipeGot
  <2>2. PipeGot' = [PipeGot EXCEPT !["client"] = FirstBytes(n)]
    BY DEF PipeGot
  <2>3. n \in m + 1 .. LanData
    BY <1>2
  <2>4. n \in Len(PipeGot["client"]) + 1 .. PipeSent[IF "client" = "client" THEN "lan" ELSE "client"]
    BY <2>1, <2>3
  <2> QED
    BY <2>1, <2>2, <2>4, Zenon DEF PipeStep
<1> QED
  BY <1>1, <1>2

\* A run that begins with an end's first byte.
LEMMA RunFirst ==
  ASSUME NEW f, NEW base, NEW s, Run(s, base, f),
         \A i \in 1 .. Len(s) :
            f[base + i] = [what |-> "data", connection |-> connection, n |-> i]
  PROVE  s = FirstBytes(Len(s))
<1>1. s \in Seq(Bytes) /\ Len(s) \in Nat /\ \A i \in 1 .. Len(s) : s[i] = f[base + i]
  BY DEF Run
<1>2. s = [i \in 1 .. Len(s) |-> s[i]]
  BY <1>1
<1>3. \A i \in 1 .. Len(s) : s[i] = [what |-> "data", connection |-> connection, n |-> i]
  BY <1>1
<1> QED
  BY <1>2, <1>3, Zenon DEF FirstBytes

\* What the LAN host has, and the client.
LanHas == lanGot = FirstBytes(Len(lanGot)) /\ Len(lanGot) \in Nat

LEMMA LanGotIs == Types /\ InInv => LanHas
<1> SUFFICES ASSUME Types, InInv PROVE lanGot = FirstBytes(Len(lanGot)) /\ Len(lanGot) \in Nat
  BY DEF LanHas
<1>1. Run(lanGot, Negotiation, Inward) /\ Negotiation \in Nat
  BY NegotiationType DEF InInv
<1>2. Len(lanGot) \in Nat
  BY <1>1, RunType
<1>3. ASSUME NEW i \in 1 .. Len(lanGot)
      PROVE  Inward[Negotiation + i] = [what |-> "data", connection |-> connection, n |-> i]
  <2>1. Negotiation + i \in Nat /\ Negotiation + i > Negotiation /\ (Negotiation + i) - Negotiation = i
    BY <1>1, <1>2
  <2> QED
    BY <2>1, InwardIs
<1> QED
  BY <1>1, <1>2, <1>3, RunFirst

ClientHas(r) ==
  /\ DataOf(clientGot) = FirstBytes(Len(DataOf(clientGot)))
  /\ Len(DataOf(clientGot)) = IF Len(clientGot) <= r THEN 0 ELSE Len(clientGot) - r
  /\ Len(DataOf(clientGot)) \in Nat /\ Len(DataOf(clientGot)) <= LanData
  /\ Len(clientGot) \in Nat

ClientHasData == \A r \in Nat : Types /\ OutInv(r) => ClientHas(r)

LEMMA ClientGotIs == ClientHasData
<1> SUFFICES ASSUME NEW r \in Nat, Types, OutInv(r) PROVE ClientHas(r)
  BY DEF ClientHasData
<1> DEFINE m == IF Len(clientGot) <= r THEN Len(clientGot) ELSE r
           d == DataOf(clientGot)
           c == Len(clientGot)
<1>1. Run(clientGot, 0, Outward(r)) /\ c \in Nat /\ Len(txq) \in Nat
  BY RunType DEF OutInv
<1>2. Run(d, m, Outward(r)) /\ Len(d) = c - m
  BY <1>1, DataOfRun
<1>a. m = IF c <= r THEN c ELSE r
  OBVIOUS
<1> HIDE DEF m, d, c
<1>3. m \in Nat /\ Len(d) = (IF c <= r THEN 0 ELSE c - r) /\ Len(d) \in Nat
  BY <1>1, <1>2, <1>a
<1>4. ASSUME NEW i \in 1 .. Len(d)
      PROVE  Outward(r)[m + i] = [what |-> "data", connection |-> connection, n |-> i]
  <2>1. m + i \in Nat /\ m + i > r /\ (m + i) - r = i
    BY <1>1, <1>3, <1>a
  <2> QED
    BY <2>1, OutwardIs
<1>5. d = FirstBytes(Len(d))
  BY <1>2, <1>4, RunFirst
<1>6. Len(d) <= LanData
  <2> DEFINE q == IF lan.connection = connection THEN lan.read ELSE 0
  <2>1. q \in Nat /\ LanData \in Nat /\ q <= LanData
    BY DEF Types, LanData
  <2>2. c + Len(txq) <= r + q
    BY DEF OutInv, c
  <2> HIDE DEF q
  <2>3. c <= r + q
    BY <1>1, <2>1, <2>2
  <2> QED
    BY <1>1, <1>3, <2>1, <2>3
<1> QED
  BY <1>1, <1>3, <1>5, <1>6 DEF ClientHas, d, c

LEMMA ClientDataIs ==
  Types => /\ ClientData = IF clientSent <= Negotiation THEN 0 ELSE clientSent - Negotiation
           /\ ClientData \in Nat
<1> SUFFICES ASSUME Types
             PROVE  /\ ClientData = IF clientSent <= Negotiation THEN 0 ELSE clientSent - Negotiation
                    /\ ClientData \in Nat
  OBVIOUS
<1> DEFINE a == clientSent - Negotiation
<1>1. clientSent \in Nat /\ Negotiation \in Nat
  BY NegotiationType DEF Types
<1>2. a \in Int
  BY <1>1
<1>3. PICK m \in {a, 0} : \A y \in {a, 0} : m >= y
  BY <1>2
<1>4. Max({a, 0}) \in {a, 0} /\ \A y \in {a, 0} : Max({a, 0}) >= y
  BY <1>3, Zenon DEF Max
<1> QED
  BY <1>1, <1>2, <1>4 DEF ClientData

\* A step that sends and delivers nothing; it may dial, for a connection that has
\* not been dialled for, or drop the LAN stream.
LEMMA PipeQuiet ==
  ASSUME Types, UNCHANGED <<target, connection, clientSent, clientGot, lanGot>>,
         \/ lan'.connection = lan.connection /\ lan'.sent = lan.sent
         \/ lan' = Dialled /\ lan.connection < connection
  PROVE  PipeStep
<1>1. ClientData' = ClientData
  BY DEF ClientData, Negotiation
<1>2. LanData' = LanData
  <2>1. CASE lan'.connection = lan.connection /\ lan'.sent = lan.sent
    BY <2>1 DEF LanData
  <2>2. CASE lan' = Dialled /\ lan.connection < connection
    <3>1. lan.connection # connection
      BY <2>2 DEF Types
    <3> QED
      BY <2>2, <3>1 DEF LanData, Dialled
  <2> QED
    BY <2>1, <2>2
<1> QED
  BY <1>1, <1>2, PipeStutters

LEMMA SegmentPipe ==
  ASSUME Types, SocketInv, ClientFin \/ ClientRst
  PROVE  PipeStep
<1>1. UNCHANGED <<target, lan>>
  BY SegmentIs DEF ClientFin, ClientRst
<1>2. UNCHANGED <<connection, clientSent, clientGot, lanGot>>
  BY DEF ClientFin, ClientRst, clientVars
<1> QED
  BY <1>1, <1>2, PipeQuiet

LEMMA DataOfNothing == DataOf(<<>>) = <<>>
<1>1. DOMAIN <<>> = {} /\ Len(<<>>) = 0
  OBVIOUS
<1>2. {i \in DOMAIN <<>> : ~IsData(<<>>[i])} = {}
  BY <1>1
<1>3. Cardinality({}) = 0
  BY FS_EmptySet
<1>4. SubSeq(<<>>, 0 + 1, 0) = <<>>
  OBVIOUS
<1> QED
  BY <1>1, <1>2, <1>3, <1>4 DEF DataOf

LEMMA ConnectPipe ==
  ASSUME Types, ClientConnect
  PROVE  PipeStep
<1>1. target' = target /\ lan' = lan
  BY SegmentIs DEF ClientConnect
<1>2. connection' = connection + 1 /\ clientSent' = 0 /\ clientGot' = <<>> /\ lanGot' = <<>>
  BY DEF ClientConnect
<1>3. LanData' = 0
  BY <1>1, <1>2 DEF LanData, Types
<1>4. Types'
  BY <1>1, <1>2, SegmentIs DEF ClientConnect, Types, Sockets
<1>5. ClientData' = 0
  <2>1. Negotiation' \in Nat
    BY <1>1, NegotiationType DEF Negotiation
  <2>2. ClientData' = IF clientSent' <= Negotiation' THEN 0 ELSE clientSent' - Negotiation'
    <3>1. (Types => ClientData = IF clientSent <= Negotiation THEN 0 ELSE clientSent - Negotiation)'
      BY ClientDataIs, PTL
    <3> QED
      BY <1>4, <3>1
  <2> QED
    BY <1>2, <2>1, <2>2
<1>6. DataOf(<<>>) = <<>>
  BY DataOfNothing
<1>7. PipeSent' = [e \in {"client", "lan"} |-> 0]
  BY <1>3, <1>5 DEF PipeSent
<1>8. PipeGot' = [e \in {"client", "lan"} |-> <<>>]
  BY <1>2, <1>6 DEF PipeGot
<1> QED
  BY <1>2, <1>7, <1>8 DEF PipeStep

LEMMA SendPipe ==
  ASSUME NEW r \in Nat, Good(r), Good(r)', ClientSend
  PROVE  PipeStep
<1>1. Types /\ SocketInv /\ Types'
  BY DEF Good
<1>2. target' = target /\ lan' = lan
  BY <1>1, SegmentIs DEF ClientSend
<1>3. /\ UNCHANGED <<connection, clientGot, lanGot>> /\ clientSent' = clientSent + 1
      /\ sock \in {"Established", "FinWait"}
  BY DEF ClientSend
<1>4. LanData' = LanData /\ Negotiation' = Negotiation /\ connection > 0
  BY <1>1, <1>2, <1>3 DEF LanData, Negotiation, SocketInv, Types
<1>5. ClientData = IF clientSent <= Negotiation THEN 0 ELSE clientSent - Negotiation
  BY <1>1, ClientDataIs
<1>6. ClientData' = IF clientSent' <= Negotiation' THEN 0 ELSE clientSent' - Negotiation'
  <2>1. (Types => ClientData = IF clientSent <= Negotiation THEN 0 ELSE clientSent - Negotiation)'
    BY ClientDataIs, PTL
  <2> QED
    BY <1>1, <2>1
<1>7. ClientData' = ClientData \/ ClientData' = ClientData + 1
  <2>1. clientSent \in Nat /\ Negotiation \in Nat
    BY <1>1, NegotiationType DEF Types
  <2> QED
    BY <1>3, <1>4, <1>5, <1>6, <2>1
<1> QED
  BY <1>2, <1>3, <1>4, <1>7, PipeSends, PipeStutters

LEMMA LanHostPipe ==
  ASSUME NEW r \in Nat, Good(r), LanHost
  PROVE  PipeStep
<1>1. Types /\ SocketInv /\ LanInv
  BY DEF Good
<1>2. UNCHANGED <<target, connection, clientSent, clientGot, lanGot>>
  BY DEF LanHost, LanSend, LanFin, LanReset, Lan, kindVars, clientVars
<1>3. CASE LanFin \/ LanReset
  <2>1. lan'.connection = lan.connection /\ lan'.sent = lan.sent
    BY <1>1, <1>3 DEF LanFin, LanReset, Types
  <2> QED
    BY <1>1, <1>2, <2>1, PipeQuiet
<1>4. CASE LanSend
  <2>1. lan'.connection = lan.connection /\ lan'.sent = lan.sent + 1 /\ lan.state = "open"
    BY <1>1, <1>4 DEF LanSend, Types
  <2>2. lan.connection = connection /\ connection > 0
    BY <1>1, <2>1 DEF LanInv, SocketInv, Types
  <2>3. LanData' = LanData + 1
    BY <1>2, <2>1, <2>2 DEF LanData
  <2>4. ClientData' = ClientData
    BY <1>2 DEF ClientData, Negotiation
  <2> QED
    BY <1>2, <2>2, <2>3, <2>4, PipeSends
<1> QED
  BY <1>3, <1>4 DEF LanHost

LEMMA ReceivePipe ==
  ASSUME NEW r \in Nat, Good(r), Good(r)', ClientReceive
  PROVE  PipeStep
<1>1. Types /\ OutInv(r) /\ Types' /\ OutInv(r)'
  BY DEF Good
<1>2. UNCHANGED <<target, lan, connection, clientSent, lanGot>>
  BY <1>1, SegmentIs DEF ClientReceive
<1>3. ClientData' = ClientData /\ LanData' = LanData
  BY <1>2 DEF ClientData, LanData, Negotiation
<1> DEFINE d == Len(DataOf(clientGot))
           e == Len(DataOf(clientGot'))
<1>4. /\ DataOf(clientGot) = FirstBytes(d) /\ d \in Nat
      /\ d = IF Len(clientGot) <= r THEN 0 ELSE Len(clientGot) - r
      /\ Len(clientGot) \in Nat
  BY <1>1, ClientGotIs, Zenon DEF ClientHasData, ClientHas
<1>5. /\ DataOf(clientGot') = [i \in 1 .. e |->
                                 [what |-> "data", connection |-> connection', n |-> i]]
      /\ e = IF Len(clientGot') <= r THEN 0 ELSE Len(clientGot') - r
      /\ e \in Nat /\ e <= LanData' /\ Len(clientGot') \in Nat
  <2>1. ClientHasData'
    BY ClientGotIs, PTL
  <2>2. ClientHas(r)'
    BY <1>1, <2>1 DEF ClientHasData
  <2> QED
    BY <2>2, Zenon DEF ClientHas, FirstBytes
<1>6. DataOf(clientGot') = FirstBytes(e)
  BY <1>2, <1>5 DEF FirstBytes
<1>7. Len(clientGot) <= Len(clientGot')
  <2>1. CASE clientGot' = clientGot
    BY <1>4, <2>1
  <2>2. CASE \E k \in 1 .. Len(txq) : clientGot' = clientGot \o SubSeq(txq, 1, k)
    <3>1. PICK k \in 1 .. Len(txq) : clientGot' = clientGot \o SubSeq(txq, 1, k)
      BY <2>2
    <3>2. clientGot \in Seq(Bytes) /\ txq \in Seq(Bytes)
      BY <1>1, RunType DEF OutInv
    <3>3. SubSeq(txq, 1, k) \in Seq(Bytes)
      BY <3>2
    <3>4. Len(clientGot') = Len(clientGot) + Len(SubSeq(txq, 1, k)) /\ Len(SubSeq(txq, 1, k)) \in Nat
      BY <3>1, <3>2, <3>3
    <3> QED
      BY <1>4, <3>4
  <2> QED
    BY <2>1, <2>2 DEF ClientReceive
<1> HIDE DEF d, e
<1>8. d <= e
  BY <1>4, <1>5, <1>7
<1>9. LanData \in Nat /\ e <= LanData
  BY <1>1, <1>3, <1>5 DEF LanData, Types
<1>10. Len(DataOf(clientGot)) = d
  BY DEF d
<1> QED
  BY <1>2, <1>3, <1>4, <1>5, <1>6, <1>8, <1>9, <1>10, ClientReceives

\* The LAN host is given bytes by a relay that still has everything else.
LEMMA DeliverPipe ==
  ASSUME NEW r \in Nat, Good(r), Good(r)', UNCHANGED <<target, connection, clientSent, clientGot>>,
         lan'.connection = lan.connection, lan'.sent = lan.sent,
         \/ lanGot' = lanGot
         \/ /\ Relaying' /\ (program' = "host" => lan'.state # "reset")
            /\ Len(lanGot) <= Len(lanGot')
  PROVE  PipeStep
<1>1. Types /\ InInv /\ Types' /\ InInv'
  BY DEF Good
<1>2. CASE lanGot' = lanGot
  BY <1>1, <1>2, PipeQuiet
<1>3. CASE /\ Relaying' /\ (program' = "host" => lan'.state # "reset")
           /\ Len(lanGot) <= Len(lanGot')
  <2>1. LanHas
    BY <1>1, LanGotIs
  <2>2. LanHas'
    <3>1. (Types /\ InInv => LanHas)'
      BY LanGotIs, PTL
    <3> QED
      BY <1>1, <3>1
  <2>3. /\ lanGot' = FirstBytes(Len(lanGot')) /\ Len(lanGot') \in Nat
        /\ lanGot = FirstBytes(Len(lanGot)) /\ Len(lanGot) \in Nat
    BY <2>1, <2>2 DEF LanHas, FirstBytes
  <2>4. ClientData' = ClientData /\ LanData' = LanData /\ Negotiation' = Negotiation
    BY DEF ClientData, LanData, Negotiation
  <2>5. Negotiation + Len(lanGot') + Len(inbuf') + Len(rxq') = clientSent
    BY <1>1, <1>3, <2>4 DEF InInv
  <2>6. Len(inbuf') \in Nat /\ Len(rxq') \in Nat /\ clientSent \in Nat
    BY <1>1, RunType DEF Types, InInv
  <2>7. Negotiation \in Nat
    BY <1>1, NegotiationType
  <2>8. ClientData = (IF clientSent <= Negotiation THEN 0 ELSE clientSent - Negotiation)
        /\ ClientData \in Nat
    BY <1>1, ClientDataIs
  <2>9. Len(lanGot') <= ClientData
    BY <2>3, <2>5, <2>6, <2>7, <2>8
  <2> QED
    BY <1>3, <2>3, <2>4, <2>8, <2>9, LanReceives
<1> QED
  BY <1>2, <1>3

LEMMA WritePipe ==
  ASSUME NEW r \in Nat, Good(r), Good(r)', WriteLan
  PROVE  PipeStep
<1>0. Worker("write")
  BY DEF WriteLan
<1>1. /\ program = "fw"
      /\ UNCHANGED <<program, target, connection, clientSent, clientGot>>
      /\ Types /\ InInv /\ Len(lanGot) \in Nat /\ Len(inbuf) \in Nat
  BY <1>0, WorkerIs
<1>2. /\ lan' = lan
      /\ \/ lanGot' = lanGot
         \/ at' = "held" /\ lanGot' = lanGot \o inbuf
  BY DEF WriteLan
<1>3. lanGot' = lanGot \/ (Relaying' /\ program' # "host" /\ Len(lanGot) <= Len(lanGot'))
  <2>1. ASSUME lanGot' = lanGot \o inbuf PROVE Len(lanGot) <= Len(lanGot')
    <3>1. lanGot \in Seq(Bytes) /\ inbuf \in Seq(Bytes)
      BY <1>1, RunType DEF InInv, Types
    <3>2. Len(lanGot') = Len(lanGot) + Len(inbuf)
      BY <2>1, <3>1
    <3> QED
      BY <1>1, <3>2
  <2>2. at' = "held" => Relaying' /\ program' # "host"
    BY <1>1 DEF Relaying
  <2> QED
    BY <1>2, <2>1, <2>2
<1> QED
  BY <1>1, <1>2, <1>3, DeliverPipe

LEMMA RelayingPipe ==
  ASSUME NEW r \in Nat, Good(r), Good(r)', ServeRelaying
  PROVE  PipeStep
<1>0. Turn("serve", "relisten") /\ conn = "Relaying" /\ conn' = conn /\ ToLan
  BY DEF ServeRelaying, Serves
<1>1. /\ program = "host"
      /\ UNCHANGED <<program, target, connection, clientSent, clientGot>>
      /\ InInv /\ Len(lanGot) \in Nat
  BY <1>0, TurnIs
<1>2. lan'.connection = lan.connection /\ lan'.state = lan.state /\ lan'.sent = lan.sent
  BY FromLanKeeps
<1>3. Relaying'
  BY <1>0, <1>1 DEF Relaying
<1>4. \/ lanGot' = lanGot
      \/ lan.state # "reset" /\ Len(lanGot) <= Len(lanGot')
  <2>1. ASSUME NEW k \in 0 .. Len(rxq), lanGot' = lanGot \o SubSeq(rxq, 1, k)
        PROVE  Len(lanGot) <= Len(lanGot')
    <3>1. lanGot \in Seq(Bytes) /\ rxq \in Seq(Bytes)
      BY <1>1, RunType DEF InInv
    <3>2. SubSeq(rxq, 1, k) \in Seq(Bytes)
      BY <3>1
    <3>3. Len(lanGot') = Len(lanGot) + Len(SubSeq(rxq, 1, k)) /\ Len(SubSeq(rxq, 1, k)) \in Nat
      BY <2>1, <3>1, <3>2
    <3> QED
      BY <1>1, <3>3
  <2> QED
    BY <1>0, <2>1 DEF ToLan
<1> QED
  BY <1>1, <1>2, <1>3, <1>4, DeliverPipe

\* Nothing is delivered to the LAN host, or sent, by the other steps of a worker.
LEMMA WorkerPipe ==
  ASSUME NEW r \in Nat, Good(r),
         Claim \/ Dial \/ RelayTop \/ SendHeld \/ ReadLan \/ Flush \/ Relisten \/ GiveUp
  PROVE  PipeStep
<1>0. Worker(at)
  BY DEF Claim, Dial, RelayTop, SendHeld, ReadLan, Flush, Relisten, GiveUp, Worker
<1>1. /\ program = "fw" /\ UNCHANGED <<target, connection, clientSent, clientGot>>
      /\ Types /\ SocketInv /\ LanInv
  BY <1>0, WorkerIs
<1>2. lanGot' = lanGot
  BY DEF Claim, Dial, RelayTop, SendHeld, ReadLan, Flush, Relisten, GiveUp, lanVars
<1>3. CASE Dial
  <2>1. at = "dial" /\ (lan' = Dialled \/ lan' = lan)
    BY <1>3 DEF Dial, Worker
  <2>2. Undialled
    BY <1>1, <2>1 DEF Undialled, SocketInv
  <2>3. lan.connection < connection
    BY <1>1, <2>2 DEF LanInv
  <2> QED
    BY <1>1, <1>2, <2>1, <2>3, PipeQuiet
<1>4. CASE ReadLan \/ Relisten
  <2>1. lan'.connection = lan.connection /\ lan'.sent = lan.sent
    BY <1>1, <1>4 DEF ReadLan, Relisten, Dropped, Types
  <2> QED
    BY <1>1, <1>2, <2>1, PipeQuiet
<1>5. CASE Claim \/ RelayTop \/ SendHeld \/ Flush \/ GiveUp
  <2>1. lan' = lan
    BY <1>5 DEF Claim, RelayTop, SendHeld, Flush, GiveUp, lanVars
  <2> QED
    BY <1>1, <1>2, <2>1, PipeQuiet
<1> QED
  BY <1>3, <1>4, <1>5

\* Nor of the host.
LEMMA HostPipe ==
  ASSUME NEW r \in Nat, Good(r),
         Tick \/ ServeInactive \/ ServeForward \/ ServeGreeting \/ ServeRequest \/ RelistenHost
  PROVE  PipeStep
<1>0. Turn(at, at')
  BY DEF Tick, ServeInactive, ServeForward, ServeGreeting, ServeRequest, RelistenHost, Serves, Turn
<1>1. /\ program = "host" /\ UNCHANGED <<target, connection, clientSent, clientGot>>
      /\ Types /\ LanInv
  BY <1>0, TurnIs
<1>2. lanGot' = lanGot
  BY DEF Tick, ServeInactive, ServeForward, ServeGreeting, ServeRequest, RelistenHost, lanVars
<1>3. CASE ServeForward \/ ServeRequest
  <2>1. is_active /\ conn # "Relaying" /\ (lan' = Dialled \/ lan' = lan)
    BY <1>3 DEF ServeForward, ServeRequest, Serves
  <2>2. Undialled
    BY <1>1, <2>1 DEF Undialled
  <2>3. lan.connection < connection
    BY <1>1, <2>2 DEF LanInv
  <2> QED
    BY <1>1, <1>2, <2>1, <2>3, PipeQuiet
<1>4. CASE Tick \/ ServeInactive \/ ServeGreeting \/ RelistenHost
  <2>1. lan'.connection = lan.connection /\ lan'.sent = lan.sent
    BY <1>1, <1>4 DEF Tick, ServeInactive, ServeGreeting, RelistenHost, Dropped, lanVars, Types
  <2> QED
    BY <1>1, <1>2, <2>1, PipeQuiet
<1> QED
  BY <1>3, <1>4

LEMMA StepPipe ==
  ASSUME NEW r \in Nat, Good(r), [Next]_vars
  PROVE  PipeStep
<1>0. Types /\ SocketInv
  BY DEF Good
<1>1. CASE ClientConnect \/ ClientFin \/ ClientRst \/ LanHost
  BY <1>0, <1>1, ConnectPipe, SegmentPipe, LanHostPipe, Zenon
<1>2. CASE ClientSend \/ ClientReceive
  <2>1. Good(r)'
    BY <1>2, ClientSendKeeps, ClientReceiveKeeps, Zenon
  <2> QED
    BY <1>2, <2>1, SendPipe, ReceivePipe, Zenon
<1>3. CASE WriteLan \/ ServeRelaying
  <2>1. Good(r)'
    BY <1>3, WriteLanKeeps, ServeRelayingKeeps, Zenon
  <2> QED
    BY <1>3, <2>1, WritePipe, RelayingPipe, Zenon
<1>4. CASE Claim \/ Dial \/ RelayTop \/ SendHeld \/ ReadLan \/ Flush \/ Relisten \/ GiveUp
  BY <1>4, WorkerPipe
<1>5. CASE Tick \/ ServeInactive \/ ServeForward \/ ServeGreeting \/ ServeRequest \/ RelistenHost
  BY <1>5, HostPipe
<1>6. CASE UNCHANGED vars
  <2>1. UNCHANGED <<target, connection, clientSent, clientGot, lan, lanGot>>
    BY <1>6 DEF vars, kindVars, clientVars, lanVars
  <2> QED
    BY <1>0, <2>1, PipeQuiet
<1> QED
  BY <1>1, <1>2, <1>3, <1>4, <1>5, <1>6, Zenon DEF Next, FwStep, HostStep, Serve, Client

(***************************************************************************)
(* Either program is a byte pipe: through every short write, held byte,    *)
(* negotiation, reset and reused socket, each end of a connection receives *)
(* a prefix of what the other sent on it, and only that.                   *)
(***************************************************************************)
THEOREM PipeImplemented == Spec => ImplementsPipe
<1>1. Init => Pipe!Init
  <2> SUFFICES ASSUME Init PROVE Pipe!Init
    OBVIOUS
  <2>1. Types
    BY Starts DEF Good
  <2>2. ClientData = 0
    BY <2>1, ClientDataIs, NegotiationType DEF Init
  <2>3. LanData = 0 /\ connection = 0 /\ clientGot = <<>> /\ lanGot = <<>>
    BY DEF Init, LanData, NoLan
  <2>4. PipeSent = [e \in {"client", "lan"} |-> 0]
    BY <2>2, <2>3 DEF PipeSent
  <2>5. PipeGot = [e \in {"client", "lan"} |-> <<>>]
    BY <2>3, DataOfNothing DEF PipeGot
  <2> QED
    BY <2>3, <2>4, <2>5 DEF PipeSent, PipeGot, ClientData, LanData, Pipe!Init, Pipe!Ends
<1>2. IInv /\ [Next]_vars => PipeStep
  BY StepPipe DEF IInv
<1> QED
  BY <1>1, <1>2, Invariant, PipeStepIs, PTL DEF Spec, ImplementsPipe, Pipe!Spec, PipeSent, PipeGot, ClientData, LanData
=============================================================================
