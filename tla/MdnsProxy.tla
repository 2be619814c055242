------------------------------ MODULE MdnsProxy ------------------------------
(***************************************************************************)
(* The firmware's mDNS proxy (lando-fw/src/mdns.rs): it takes one query of *)
(* a tailnet client from the tunnel's UDP socket, asks it again on the LAN *)
(* and relays what arrives within a window.                                *)
(*                                                                         *)
(* Answers cannot be matched to queries (responders may leave the id out), *)
(* so what keeps them apart is only the order of things: what the LAN      *)
(* socket already holds is discarded before a query is asked.  A message   *)
(* is its questions, each with its QU bit; a query's number stands for     *)
(* its client and its id.                                                  *)
(***************************************************************************)
EXTENDS Integers, Sequences, FiniteSetsExt

CONSTANTS
    MDNS_QUEUE,    \* queries the tunnel's socket holds
    LAN_QUEUE,     \* datagrams the LAN socket holds, 12 in the source
    STALE_LIMIT,   \* datagrams discarded at most, 64
    QuestionLists, \* what clients ask: sequences of [qu, malformed]
    MAX_QUERIES,   \* bound: queries the clients send
    MAX_RESTARTS   \* bound: control sessions that end

ASSUME MdnsAssumption ==
    /\ MDNS_QUEUE \in Nat \ {0} /\ LAN_QUEUE \in Nat \ {0}
    /\ STALE_LIMIT \in Nat /\ STALE_LIMIT > LAN_QUEUE
    /\ QuestionLists \subseteq Seq([qu : BOOLEAN, malformed : BOOLEAN])
    /\ MAX_QUERIES \in Nat /\ MAX_RESTARTS \in Nat

VARIABLES
    asked,     \* history: the questions of every query a client sent
    queue,     \* the tunnel's socket: numbers of queries
    lanq,      \* the LAN socket: datagrams
    onLan,     \* the queries that were multicast, as they were sent
    at,        \* "take", "stale", "send" or "gather"
    query,     \* the number of the query in hand
    stale,     \* datagrams discarded for it
    last,      \* history: the answer relayed last
    taken,     \* history: queries taken so far
    restarts

inputVars == <<asked, queue>>
lanVars == <<lanq, onLan>>
proxyVars == <<at, query, stale, last, taken>>
mdnsVars == <<inputVars, lanVars, proxyVars, restarts>>

Nothing == [answers |-> 0, arrived |-> 0, query |-> 0, taken |-> 0, questions |-> <<>>]

MdnsInit ==
    /\ asked = <<>> /\ queue = <<>> /\ lanq = <<>> /\ onLan = <<>>
    /\ at = "take" /\ query = 0 /\ stale = 0 /\ last = Nothing /\ taken = 0
    /\ restarts = 0

-----------------------------------------------------------------------------
(* Messages.                                                               *)

\* The walk gets past the first i questions: none is cut short, none has a
\* compressed name.
Walked(qs, i) == \A j \in 1 .. i : ~qs[j].malformed

\* The questions are rewritten in place, as far as they can be walked.
rewrite_question_class(qs, set) ==
    [i \in 1 .. Len(qs) |-> IF Walked(qs, i) THEN [qs[i] EXCEPT !.qu = set] ELSE qs[i]]

request_unicast_replies(qs) == rewrite_question_class(qs, TRUE)

\* Mutant: the echoed questions are handed over as they came.
restore_multicast_questions_Skip(qs) == qs

restore_multicast_questions(qs) == rewrite_question_class(qs, FALSE)

WellFormed(qs) == Walked(qs, Len(qs))

-----------------------------------------------------------------------------
(* The clients and the LAN, external.                                      *)

\* A full socket drops the query.
ClientAsks(qs) ==
    /\ Len(asked) < MAX_QUERIES
    /\ asked' = Append(asked, qs)
    /\ queue' = IF Len(queue) < MDNS_QUEUE THEN Append(queue, Len(asked) + 1) ELSE queue
    /\ UNCHANGED <<lanVars, proxyVars, restarts>>

\* While a session runs the LAN socket exists; what does not fit is lost.
Arrives(datagram) ==
    /\ Len(lanq) < LAN_QUEUE
    /\ lanq' = Append(lanq, datagram)
    /\ UNCHANGED <<inputVars, onLan, proxyVars, restarts>>

\* A name after the first may be a pointer into the first, which skip_name refuses.
Compressed(qs) ==
    [i \in 1 .. Len(qs) |-> IF i > 1 THEN [qs[i] EXCEPT !.malformed = TRUE] ELSE qs[i]]

\* A responder answers a query whenever it likes, and more than once; it echoes
\* the questions, as they were or compressed, or leaves them out.
LanAnswers(i) ==
    \E qs \in {onLan[i].questions, Compressed(onLan[i].questions), <<>>} :
        Arrives([kind |-> "response", answers |-> onLan[i].query, questions |-> qs,
                 arrived |-> taken])

\* Someone else's query, or a datagram larger than the buffer.
LanStray ==
    \E kind \in {"query", "oversize"} :
        Arrives([kind |-> kind, answers |-> 0, questions |-> <<>>, arrived |-> taken])

-----------------------------------------------------------------------------
(* The proxy.                                                              *)

TakeQuery ==
    /\ at = "take" /\ queue # <<>>
    /\ query' = Head(queue)
    /\ queue' = Tail(queue)
    /\ at' = "stale" /\ stale' = 0
    /\ taken' = taken + 1
    /\ UNCHANGED <<asked, lanVars, last, restarts>>

\* Mutant: the discarding goes on for as long as there is something to discard.
StaleLeft_Always == lanq # <<>>

\* Mutant: one late answer is discarded, not all of them.
StaleLeft_One == stale < 1 /\ lanq # <<>>

\* A queued datagram wins the race against the timer.
StaleLeft == stale < STALE_LIMIT /\ lanq # <<>>

DiscardStale ==
    /\ at = "stale" /\ StaleLeft
    /\ lanq' = Tail(lanq)
    /\ stale' = Min({stale + 1, STALE_LIMIT})
    /\ UNCHANGED <<inputVars, onLan, at, query, last, taken, restarts>>

DiscardedStale ==
    /\ at = "stale" /\ ~StaleLeft
    /\ at' = "send"
    /\ UNCHANGED <<inputVars, lanVars, query, stale, last, taken, restarts>>

\* A query that cannot be walked is dropped, and so is one the LAN does not take.
SendQuery ==
    LET qs == asked[query]
    IN  /\ at = "send"
        /\ \/ /\ WellFormed(qs)
              /\ onLan' = Append(onLan, [query |-> query,
                                         questions |-> request_unicast_replies(qs)])
              /\ at' = "gather"
              /\ UNCHANGED query
           \/ at' = "take" /\ query' = 0 /\ UNCHANGED onLan
        /\ UNCHANGED <<inputVars, lanq, stale, last, taken, restarts>>

\* What is no response is skipped; a response goes to the client with its own id.
\* A datagram that cannot be received ends the window.
Gather ==
    /\ at = "gather" /\ lanq # <<>>
    /\ lanq' = Tail(lanq)
    /\ LET d == Head(lanq)
       IN  /\ last' = IF d.kind # "response" THEN last
                      ELSE [answers |-> d.answers, arrived |-> d.arrived,
                            query |-> query, taken |-> taken,
                            questions |-> restore_multicast_questions(d.questions)]
           /\ at' = IF d.kind = "oversize" THEN "take" ELSE "gather"
           /\ query' = IF d.kind = "oversize" THEN 0 ELSE query
    /\ UNCHANGED <<inputVars, onLan, stale, taken, restarts>>

\* The window closes.
GatherEnds ==
    /\ at = "gather"
    /\ at' = "take" /\ query' = 0
    /\ UNCHANGED <<inputVars, lanVars, stale, last, taken, restarts>>

\* The supervisor drops the future with its LAN socket, and starts a new one.
ProxyRestarts ==
    /\ restarts < MAX_RESTARTS
    /\ restarts' = restarts + 1
    /\ lanq' = <<>> /\ onLan' = <<>>
    /\ at' = "take" /\ query' = 0 /\ stale' = 0
    /\ UNCHANGED <<inputVars, last, taken>>

-----------------------------------------------------------------------------

Step == TakeQuery \/ DiscardStale \/ DiscardedStale \/ SendQuery

MdnsNext ==
    \/ Step \/ Gather \/ GatherEnds \/ ProxyRestarts
    \/ \E qs \in QuestionLists : ClientAsks(qs)
    \/ \E i \in 1 .. Len(onLan) : LanAnswers(i)
    \/ LanStray

\* The future is polled, and the window's deadline passes.  The LAN owes nothing
\* and may send for ever.
MdnsSpec == MdnsInit /\ [][MdnsNext]_mdnsVars /\ WF_mdnsVars(Step) /\ WF_mdnsVars(GatherEnds)

-----------------------------------------------------------------------------
(* Properties.                                                             *)

\* A late answer is not served against a later query: an answer that waited in the
\* LAN socket when a query was taken is never relayed for it, however many waited
\* and whatever arrived meanwhile.
NotStale == last.arrived = last.taken

\* An answer relayed to the query it answers shows the client its own questions,
\* bit for bit, unless the client itself had set the QU bit or the responder
\* compressed the names: `serve` ignores that such questions cannot be walked, and
\* from the first of them on the bit stays set.
QuestionsAsAsked ==
    last.answers # 0 /\ last.answers = last.query /\ WellFormed(last.questions) =>
        LET qs == asked[last.query]
        IN  (\A i \in 1 .. Len(qs) : ~qs[i].qu) => last.questions \in {qs, <<>>}

\* No query waits for ever, whatever the LAN sends: neither the discarding nor the
\* window can be kept open by arriving datagrams.
QueriesTaken == []<>(queue = <<>>)
=============================================================================
