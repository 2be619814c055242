------------------------------- MODULE Splice -------------------------------
(***************************************************************************)
(* How either program carries the bytes of a tunnel socket to a LAN host   *)
(* and back, one connection after another: `splice`, `relay` and `flush`   *)
(* of a firmware worker (lando-fw/src/tunnel.rs), and `serve` of the host  *)
(* with its SOCKS negotiation (lando-host/src/tunnel.rs).                  *)
(*                                                                         *)
(* The tunnel's TCP socket is smoltcp's, external, reduced to the states   *)
(* the code tells apart, with its two buffers; the client and the LAN host *)
(* are external too.  A byte is its number on its connection.              *)
(***************************************************************************)
EXTENDS Integers, Sequences, FiniteSets, FiniteSetsExt

CONSTANTS
    RX, TX,           \* the socket's buffers
    CHUNK,            \* what the firmware's relay receives at once
    HELD,             \* what it reads from the LAN at once
    GREETING_LEN,     \* of the SOCKS client's greeting
    REQUEST_LEN,      \* and of its request
    MAX_CONNECTIONS,  \* bound: connections opened
    MAX_CLIENT,       \* bound: bytes the client sends beside the negotiation
    MAX_LAN           \* bound: bytes the LAN host sends

ASSUME SpliceAssumption ==
    /\ RX \in Nat /\ TX \in Nat /\ CHUNK \in Nat \ {0} /\ HELD \in Nat \ {0}
    /\ GREETING_LEN \in 1 .. RX /\ REQUEST_LEN \in 1 .. RX /\ TX >= 2
    /\ MAX_CONNECTIONS \in Nat /\ MAX_CLIENT \in Nat /\ MAX_LAN \in Nat

VARIABLES
    program,     \* which of the two this is: "fw" or "host"
    target,      \* what the port does: "Forward" or, on the host, "Socks"
    sock,        \* external: the socket's state
    rxq, txq,    \* external: its buffers
    connection,  \* history: the number of its latest connection
    clientSent,  \* history: bytes the client sent on it
    clientGot,   \* history: and received
    lan,         \* external: the LAN stream, and the connection it was dialled for
    lanGot,      \* history: what the LAN host received since the client connected
    at,          \* where the worker is, or the host's turn of drain_stack
    inbuf,       \* the firmware: bytes on their way to the LAN
    held,        \* and bytes the tunnel socket has not accepted yet
    heard_from_lan,
    conn,        \* the host: Conn of this socket
    ending       \* history: why the relay of this connection ended

kindVars == <<program, target>>
socketVars == <<sock, rxq, txq>>
clientVars == <<connection, clientSent, clientGot>>
lanVars == <<lan, lanGot>>
fwVars == <<inbuf, held, heard_from_lan>>
vars == <<kindVars, socketVars, clientVars, lanVars, at, fwVars, conn, ending>>

NoLan == [state |-> "none", connection |-> 0, sent |-> 0, read |-> 0]

\* smoltcp's predicates.  Closed stands for TimeWait too.
is_active == sock \notin {"Listen", "Closed"}
is_open == sock # "Closed"
may_recv == sock \in {"Established", "FinWait"} \/ rxq # <<>>
may_send == sock \in {"Established", "CloseWait"}
can_send == may_send /\ Len(txq) < TX

Close(s) ==
    CASE s = "Established" -> "FinWait"
      [] s = "CloseWait"   -> "LastAck"
      [] OTHER             -> s

Init ==
    /\ program \in {"fw", "host"}
    /\ target \in IF program = "fw" THEN {"Forward"} ELSE {"Forward", "Socks"}
    /\ sock = "Listen" /\ rxq = <<>> /\ txq = <<>>
    /\ connection = 0 /\ clientSent = 0 /\ clientGot = <<>>
    /\ lan = NoLan /\ lanGot = <<>>
    /\ at = IF program = "fw" THEN "claim" ELSE "poll"
    /\ inbuf = <<>> /\ held = <<>> /\ heard_from_lan = FALSE
    /\ conn = "Greeting" /\ ending = "none"

-----------------------------------------------------------------------------
(* The client, external.  Its segments are processed when the stack is     *)
(* polled: by any worker at any time on the firmware, at the start of      *)
(* drain_stack on the host, any number of them before the sockets are      *)
(* served.                                                                 *)

Polls == IF program = "fw" THEN UNCHANGED at ELSE at = "poll" /\ at' \in {"poll", "serve"}

Segment == Polls /\ UNCHANGED <<kindVars, lan, fwVars, conn>>

Negotiation == IF target = "Socks" THEN GREETING_LEN + REQUEST_LEN ELSE 0

\* The n-th byte the client sends.
ClientByte(n) ==
    [what |-> IF n > Negotiation THEN "data" ELSE IF n > GREETING_LEN THEN "request" ELSE "greeting",
     connection |-> connection,
     n |-> IF n > Negotiation THEN n - Negotiation ELSE n]

ClientConnect ==
    /\ Segment
    /\ sock = "Listen" /\ connection < MAX_CONNECTIONS
    /\ sock' = "Established"
    /\ connection' = connection + 1 /\ clientSent' = 0 /\ clientGot' = <<>> /\ lanGot' = <<>>
    /\ ending' = "none"
    /\ UNCHANGED <<rxq, txq>>

ClientSend ==
    /\ Segment
    /\ sock \in {"Established", "FinWait"} /\ Len(rxq) < RX
    /\ clientSent < Negotiation + MAX_CLIENT
    /\ clientSent' = clientSent + 1
    /\ rxq' = Append(rxq, ClientByte(clientSent + 1))
    /\ UNCHANGED <<sock, txq, connection, clientGot, lanGot, ending>>

\* It receives and acknowledges, and when all it has left to acknowledge is our
\* FIN, the connection is over.
ClientReceive ==
    /\ Segment
    /\ is_active
    /\ \/ /\ txq # <<>>
          /\ \E k \in 1 .. Len(txq) :
                /\ clientGot' = clientGot \o SubSeq(txq, 1, k)
                /\ txq' = SubSeq(txq, k + 1, Len(txq))
          /\ UNCHANGED sock
       \/ /\ sock = "LastAck" /\ txq = <<>>
          /\ sock' = "Closed"
          /\ UNCHANGED <<txq, clientGot>>
    /\ UNCHANGED <<rxq, connection, clientSent, lanGot, ending>>

ClientFin ==
    /\ Segment
    /\ sock \in {"Established", "FinWait"}
    /\ sock' = IF sock = "Established" THEN "CloseWait"
               ELSE IF txq = <<>> THEN "Closed" ELSE "LastAck"
    /\ UNCHANGED <<rxq, txq, clientVars, lanGot, ending>>

ClientRst ==
    /\ Segment
    /\ is_active
    /\ sock' = "Closed"
    /\ UNCHANGED <<rxq, txq, clientVars, lanGot, ending>>

-----------------------------------------------------------------------------
(* The LAN host, external.                                                 *)

Lan == UNCHANGED <<kindVars, socketVars, clientVars, lanGot, at, fwVars, conn, ending>>

LanSend ==
    /\ Lan
    /\ lan.state = "open" /\ lan.sent < MAX_LAN
    /\ lan' = [lan EXCEPT !.sent = @ + 1]

LanFin ==
    /\ Lan
    /\ lan.state = "open"
    /\ lan' = [lan EXCEPT !.state = "fin"]

LanReset ==
    /\ Lan
    /\ lan.state \in {"open", "fin"}
    /\ lan' = [lan EXCEPT !.state = "reset"]

Dialled == [state |-> "open", connection |-> connection, sent |-> 0, read |-> 0]

Dropped == [lan EXCEPT !.state = "none"]

Unread == lan.sent - lan.read
LanBytes(n) == [i \in 1 .. n |->
                   [what |-> "data", connection |-> lan.connection, n |-> lan.read + i]]

-----------------------------------------------------------------------------
(* A worker of the firmware.                                               *)

Worker(from) == program = "fw" /\ at = from /\ UNCHANGED <<kindVars, clientVars, conn>>

Claim ==
    /\ Worker("claim")
    /\ sock # "Listen" /\ (may_recv \/ may_send)
    /\ at' = "dial"
    /\ UNCHANGED <<socketVars, lanVars, fwVars, ending>>

\* `splice` dials; a dial that fails ends it.
Dial ==
    /\ Worker("dial")
    /\ \/ at' = "loop" /\ lan' = Dialled
       \/ at' = "relisten" /\ UNCHANGED lan
    /\ inbuf' = <<>> /\ held' = <<>> /\ heard_from_lan' = FALSE
    /\ UNCHANGED <<socketVars, lanGot, ending>>

\* Mutant: a FIN is the end although bytes came with it.
peer_done_Early(n) == sock = "CloseWait"

\* The client has finished and nothing of it is left to receive.
peer_done(n) == sock \notin {"Established", "FinWait"} /\ Len(rxq) = n /\ n = 0

\* The top of the loop: under one lock, what the client sent is received and the
\* socket is looked at.
RelayTop ==
    LET n == IF is_active THEN Min({Len(rxq), CHUNK}) ELSE 0
    IN  /\ Worker("loop")
        /\ inbuf' = SubSeq(rxq, 1, n)
        /\ rxq' = SubSeq(rxq, n + 1, Len(rxq))
        /\ \/ ~is_active /\ at' = "relisten" /\ ending' = "inactive"
           \/ is_active /\ peer_done(n) /\ at' = "relisten" /\ ending' = "client finished"
           \/ /\ is_active /\ ~peer_done(n)
              /\ at' = IF n > 0 THEN "write" ELSE "held"
              /\ UNCHANGED ending
        /\ UNCHANGED <<sock, txq, lanVars, held, heard_from_lan>>

\* write_all: the LAN host accepts everything, or the stream has failed.
WriteLan ==
    /\ Worker("write")
    /\ IF lan.state = "reset"
       THEN at' = "relisten" /\ ending' = "lan write failed" /\ UNCHANGED lanGot
       ELSE at' = "held" /\ lanGot' = lanGot \o inbuf /\ UNCHANGED ending
    /\ inbuf' = <<>>
    /\ UNCHANGED <<socketVars, lan, held, heard_from_lan>>

\* Nothing was heard of the LAN host for six seconds, or of anyone for IDLE_LIMIT.
GiveUp ==
    /\ Worker("held")
    /\ \E why \in {"idle"} \cup (IF heard_from_lan THEN {} ELSE {"lan silent"}) : ending' = why
    /\ at' = "relisten"
    /\ UNCHANGED <<socketVars, lanVars, fwVars>>

\* Held bytes go first, as far as the socket has room.
SendHeld ==
    /\ Worker("held") /\ held # <<>>
    /\ LET k == IF can_send THEN Min({Len(held), TX - Len(txq)}) ELSE 0
       IN  /\ txq' = txq \o SubSeq(held, 1, k)
           /\ held' = SubSeq(held, k + 1, Len(held))
    /\ at' = "loop"
    /\ UNCHANGED <<sock, rxq, lanVars, inbuf, heard_from_lan, ending>>

\* The LAN is read, for at most 10 ms.
ReadLan ==
    /\ Worker("held") /\ held = <<>>
    /\ \/ /\ lan.state # "reset" /\ Unread > 0
          /\ \E n \in 1 .. Min({Unread, HELD}) :
                /\ held' = LanBytes(n)
                /\ lan' = [lan EXCEPT !.read = @ + n]
          /\ heard_from_lan' = TRUE
          /\ at' = "loop"
          /\ UNCHANGED ending
       \/ /\ lan.state = "open" /\ Unread = 0
          /\ at' = "loop"
          /\ UNCHANGED <<lan, held, heard_from_lan, ending>>
       \/ /\ lan.state = "reset" \/ (lan.state = "fin" /\ Unread = 0)
          /\ at' = "flush"
          /\ ending' = IF lan.state = "fin" THEN "lan closed" ELSE "lan error"
          /\ UNCHANGED <<lan, held, heard_from_lan>>
    /\ UNCHANGED <<socketVars, lanGot, inbuf>>

\* Mutant: the socket is torn down with what it has queued.
Flush_Skip ==
    /\ Worker("flush")
    /\ at' = "relisten"
    /\ UNCHANGED <<socketVars, lanVars, fwVars, ending>>

\* Fifty polls at most.
Flush ==
    /\ Worker("flush")
    /\ at' = "relisten"
    /\ \/ (~is_active \/ txq = <<>>) /\ UNCHANGED ending
       \/ is_active /\ txq # <<>> /\ ending' = "flush gave up"
    /\ UNCHANGED <<socketVars, lanVars, fwVars>>

\* The LAN stream is flushed and closed, the socket aborted and put back.
Relisten ==
    /\ Worker("relisten")
    /\ sock' = "Listen" /\ rxq' = <<>> /\ txq' = <<>>
    /\ lan' = Dropped
    /\ at' = "claim"
    /\ UNCHANGED <<lanGot, fwVars, ending>>

FwStep == Claim \/ Dial \/ RelayTop \/ WriteLan \/ SendHeld \/ ReadLan \/ Flush \/ Relisten

-----------------------------------------------------------------------------
(* The host: a turn of drain_stack is poll, serve, poll, relisten.         *)

Turn(from, to) ==
    /\ program = "host" /\ at = from /\ at' = to
    /\ UNCHANGED <<kindVars, clientVars, fwVars>>

\* A tick, with no packet for the stack.
Tick == Turn("poll", "serve") /\ UNCHANGED <<socketVars, lanVars, conn, ending>>

\* Mutant: a closed socket keeps its LAN stream.
ServeInactive_Keeps ==
    /\ Turn("serve", "relisten")
    /\ ~is_active
    /\ UNCHANGED <<socketVars, lanVars, conn, ending>>

\* A closed tunnel socket drops its LAN stream with it.
ServeInactive ==
    /\ Turn("serve", "relisten")
    /\ ~is_active
    /\ conn' = "Greeting" /\ lan' = Dropped
    /\ UNCHANGED <<socketVars, lanGot, ending>>

Serves(state) == Turn("serve", "relisten") /\ is_active /\ conn \in state

\* A forwarded port dials at once, and again while a failed one is closing.
ServeForward ==
    /\ Serves({"Greeting", "Request"}) /\ target = "Forward"
    /\ \/ conn' = "Relaying" /\ lan' = Dialled /\ UNCHANGED sock
       \/ sock' = Close(sock) /\ UNCHANGED <<conn, lan>>
    /\ UNCHANGED <<rxq, txq, lanGot, ending>>

\* A whole message of that kind is at the start of the receive buffer.
Whole(what, len) == Len(rxq) >= len /\ \A i \in 1 .. len : rxq[i].what = what

\* Mutant: what there is of the greeting is consumed.
Greeted_Prefix == rxq # <<>> /\ rxq[1].what = "greeting"

Greeted == Whole("greeting", GREETING_LEN)

\* send_slice of an answer; it fails on a socket that may not send.
Reply == [what |-> "reply", connection |-> connection, n |-> 0]
Answered == IF may_send THEN Append(txq, Reply) ELSE txq

ServeGreeting ==
    /\ Serves({"Greeting"}) /\ target = "Socks"
    /\ IF Greeted
       THEN /\ rxq' = SubSeq(rxq, Min({Len(rxq), GREETING_LEN}) + 1, Len(rxq))
            /\ txq' = Answered
            /\ conn' = IF may_send THEN "Request" ELSE conn
       ELSE UNCHANGED <<rxq, txq, conn>>
    /\ UNCHANGED <<sock, lanVars, ending>>

\* The request is consumed and dialled; the answer says how that went.
ServeRequest ==
    /\ Serves({"Request"}) /\ target = "Socks"
    /\ IF Whole("request", REQUEST_LEN)
       THEN /\ rxq' = SubSeq(rxq, REQUEST_LEN + 1, Len(rxq))
            /\ txq' = Answered
            /\ \/ /\ conn' = IF may_send THEN "Relaying" ELSE conn
                  /\ lan' = IF may_send THEN Dialled ELSE lan
                  /\ UNCHANGED sock
               \/ sock' = Close(sock) /\ UNCHANGED <<conn, lan>>
       ELSE UNCHANGED <<sock, rxq, txq, conn, lan>>
    /\ UNCHANGED <<lanGot, ending>>

\* The LAN takes what it will of the bytes received, none if the write would
\* block; a failed stream takes none and they are dropped.
ToLan ==
    IF rxq = <<>> THEN UNCHANGED <<rxq, lanGot>>
    ELSE IF lan.state = "reset" THEN rxq' = <<>> /\ UNCHANGED lanGot
    ELSE \E k \in 0 .. Len(rxq) :
            /\ lanGot' = lanGot \o SubSeq(rxq, 1, k)
            /\ rxq' = SubSeq(rxq, k + 1, Len(rxq))

\* No more is read from the LAN than the socket has room for.
FromLan ==
    \/ ~can_send /\ UNCHANGED <<sock, txq, lan, ending>>
    \/ /\ can_send /\ lan.state # "reset" /\ Unread > 0
       /\ \E n \in 1 .. Min({Unread, TX - Len(txq)}) :
             /\ txq' = txq \o LanBytes(n)
             /\ lan' = [lan EXCEPT !.read = @ + n]
       /\ UNCHANGED <<sock, ending>>
    \/ can_send /\ lan.state = "open" /\ Unread = 0 /\ UNCHANGED <<sock, txq, lan, ending>>
    \/ /\ can_send /\ (lan.state = "reset" \/ (lan.state = "fin" /\ Unread = 0))
       /\ sock' = Close(sock)
       /\ ending' = IF lan.state = "fin" THEN "lan closed" ELSE "lan error"
       /\ UNCHANGED <<txq, lan>>

ServeRelaying == Serves({"Relaying"}) /\ ToLan /\ FromLan /\ UNCHANGED conn

Serve == ServeInactive \/ ServeForward \/ ServeGreeting \/ ServeRequest \/ ServeRelaying

\* The closed socket listens again.
RelistenHost ==
    /\ Turn("relisten", "poll")
    /\ IF is_open THEN UNCHANGED socketVars
       ELSE sock' = "Listen" /\ rxq' = <<>> /\ txq' = <<>>
    /\ UNCHANGED <<lanVars, conn, ending>>

HostStep == Tick \/ Serve \/ RelistenHost

-----------------------------------------------------------------------------

Client == ClientConnect \/ ClientSend \/ ClientReceive \/ ClientFin \/ ClientRst
LanHost == LanSend \/ LanFin \/ LanReset

Next == FwStep \/ GiveUp \/ HostStep \/ Client \/ LanHost

\* External: a write to the LAN that does not block.
LanTakes == ServeRelaying /\ lanGot' # lanGot

\* The executor polls the worker, and the host's loop ticks, again and again; a
\* client and a LAN host that are still there receive what is sent to them.
Fairness ==
    WF_vars(FwStep) /\ WF_vars(HostStep) /\ SF_vars(ClientReceive) /\ SF_vars(LanTakes)

Spec == Init /\ [][Next]_vars /\ Fairness

-----------------------------------------------------------------------------
(* Properties.                                                             *)

IsData(b) == b.what = "data"

\* What follows the answers to a negotiation.
DataOf(s) == SubSeq(s, Cardinality({i \in DOMAIN s : ~IsData(s[i])}) + 1, Len(s))

\* Both programs are byte pipes: on each connection the LAN host receives a prefix
\* of what the client sent after the negotiation and the client, once that is
\* answered, a prefix of what the LAN host sent, through every short write, held
\* byte and reused socket.
Pipe == INSTANCE BytePipe WITH
            sent <- [e \in {"client", "lan"} |->
                        IF e = "client" THEN Max({clientSent - Negotiation, 0})
                        ELSE IF lan.connection = connection THEN lan.sent ELSE 0],
            got <- [e \in {"client", "lan"} |-> IF e = "client" THEN DataOf(clientGot) ELSE lanGot]

ImplementsPipe == Pipe!Spec

\* When the firmware takes a connection for finished by its client, the LAN host
\* has all the client sent: a FIN that overtakes the reading loses nothing.
RequestComplete ==
    at = "relisten" /\ ending = "client finished" => Len(lanGot) = clientSent

\* When the LAN host ended its stream and a client that is still there sees the end
\* of the connection, it has everything the LAN host sent, unless the firmware's
\* flush gave up on it.
ResponseComplete ==
    LET over == IF program = "fw" THEN at = "relisten" /\ sock = "Established"
                ELSE sock = "FinWait" /\ txq = <<>>
    IN  ending = "lan closed" /\ lan.state = "fin" /\ over =>
            Len(DataOf(clientGot)) = lan.sent

\* While both streams are up, nothing stays behind: a negotiation that was sent is
\* answered by a dial, and every byte sent reaches the other end.  On the host this
\* outlasts the client's own FIN.
Flows ==
    <>[](/\ sock = "Established" \/ (program = "host" /\ sock = "CloseWait")
         /\ clientSent >= Negotiation
         =>
            \/ lan.state \in {"fin", "reset"}
            \/ /\ lan.state = "open"
               /\ Len(DataOf(clientGot)) = lan.sent
               /\ Len(lanGot) = clientSent - Negotiation)
=============================================================================
