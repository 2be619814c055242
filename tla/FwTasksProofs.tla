--------------------------- MODULE FwTasksProofs ----------------------------
(***************************************************************************)
(* Proofs about two parts of the firmware that share no state: MdnsProxy,  *)
(* for sockets of any size and any questions, and FwLifecycle, for any     *)
(* back-off and any number of resets.                                      *)
(***************************************************************************)
EXTENDS FwLifecycle, MdnsProxy, SequenceTheorems, FiniteSetTheorems, TLAPS

Questions == [qu : BOOLEAN, malformed : BOOLEAN]
Datagrams == [kind : {"response", "query", "oversize"}, answers : Nat,
              questions : Seq(Questions), arrived : Nat]
Relayed == [answers : Nat, arrived : Nat, query : Nat, taken : Nat, questions : Seq(Questions)]

(***************************************************************************)
(* Every variable has its type, and a query in hand or waiting was asked.  *)
(***************************************************************************)
Types ==
  /\ asked \in Seq(Seq(Questions))
  /\ queue \in Seq(Nat)
  /\ \A i \in 1 .. Len(queue) : queue[i] \in 1 .. Len(asked)
  /\ lanq \in Seq(Datagrams) /\ Len(lanq) <= LAN_QUEUE
  /\ onLan \in Seq([query : Nat, questions : Seq(Questions)])
  /\ at \in {"take", "stale", "send", "gather"}
  /\ query \in 0 .. Len(asked) /\ (at # "take" => query > 0)
  /\ stale \in 0 .. STALE_LIMIT /\ taken \in Nat /\ last \in Relayed

(***************************************************************************)
(* While late answers are discarded, all that can be left of them are at   *)
(* the front of the queue, one fewer for every datagram discarded.  The    *)
(* limit is larger than the queue, so none is left when the query is sent. *)
(***************************************************************************)
AnswersFresh ==
  /\ at = "stale" =>
       \A i \in 1 .. Len(lanq) : i + stale > LAN_QUEUE => lanq[i].arrived = taken
  /\ at \in {"send", "gather"} => \A i \in 1 .. Len(lanq) : lanq[i].arrived = taken
  /\ NotStale

(***************************************************************************)
(* What is sent on the LAN has the questions of a query that could be      *)
(* walked, every QU bit set; so has what comes back, or it has them        *)
(* compressed, or has none.                                                *)
(***************************************************************************)
Echoes(queries, number, qs) ==
  /\ number \in 1 .. Len(queries)
  /\ WellFormed(queries[number])
  /\ LET asked_so == request_unicast_replies(queries[number])
     IN  qs \in {<<>>, asked_so, Compressed(asked_so)}

Sends(queries, number, qs) ==
  /\ number \in 1 .. Len(queries)
  /\ WellFormed(queries[number])
  /\ qs = request_unicast_replies(queries[number])

Echoed ==
  /\ \A i \in 1 .. Len(onLan) : Sends(asked, onLan[i].query, onLan[i].questions)
  /\ \A i \in 1 .. Len(lanq) :
       lanq[i].kind = "response" => Echoes(asked, lanq[i].answers, lanq[i].questions)
  /\ last.answers # 0 =>
       \E qs \in Seq(Questions) : /\ Echoes(asked, last.answers, qs)
                                  /\ last.questions = restore_multicast_questions(qs)

MdnsInv == Types /\ AnswersFresh /\ Echoed

(***************************************************************************)
(* Both rewrites give a message with as many questions.                    *)
(***************************************************************************)
LEMMA RewriteType ==
  ASSUME NEW qs \in Seq(Questions), NEW set \in BOOLEAN
  PROVE  /\ rewrite_question_class(qs, set) \in Seq(Questions)
         /\ Len(rewrite_question_class(qs, set)) = Len(qs)
<1> DEFINE Rewritten(i) == IF Walked(qs, i) THEN [qs[i] EXCEPT !.qu = set] ELSE qs[i]
<1>1. ASSUME NEW i \in 1 .. Len(qs)
      PROVE  Rewritten(i) \in Questions
  <2>1. qs[i] \in Questions
    BY ElementOfSeq
  <2>2. [qs[i] EXCEPT !.qu = set] \in Questions
    BY <2>1, Zenon DEF Questions
  <2> QED
    BY <2>1, <2>2
<1>2. rewrite_question_class(qs, set) = [i \in 1 .. Len(qs) |-> Rewritten(i)]
  BY DEF rewrite_question_class
<1>3. Len(qs) \in Nat
  OBVIOUS
<1> HIDE DEF Rewritten
<1> QED
  BY <1>1, <1>2, <1>3

(***************************************************************************)
(* A question rewritten, and one rewritten back.                           *)
(***************************************************************************)
LEMMA QuestionRewrite ==
  ASSUME NEW q \in Questions
  PROVE  /\ [q EXCEPT !.qu = TRUE].malformed = q.malformed
         /\ ~q.qu => [[q EXCEPT !.qu = TRUE] EXCEPT !.qu = FALSE] = q
<1>1. [q EXCEPT !.qu = TRUE].malformed = q.malformed
  BY DEF Questions
<1>2. ASSUME ~q.qu PROVE [[q EXCEPT !.qu = TRUE] EXCEPT !.qu = FALSE] = q
  <2> DEFINE r == [[q EXCEPT !.qu = TRUE] EXCEPT !.qu = FALSE]
  <2>1. q = [x \in {"qu", "malformed"} |-> q[x]] /\ r = [x \in {"qu", "malformed"} |-> r[x]]
    BY DEF Questions
  <2>2. r.malformed = q.malformed
    BY DEF Questions
  <2>3. r.qu = FALSE /\ q.qu = FALSE
    BY <1>2, Zenon DEF Questions
  <2> HIDE DEF r
  <2> QED
    BY <2>1, <2>2, <2>3
<1> QED
  BY <1>1, <1>2

LEMMA RequestWalks ==
  ASSUME NEW qs \in Seq(Questions), WellFormed(qs)
  PROVE  /\ request_unicast_replies(qs) \in Seq(Questions)
         /\ WellFormed(request_unicast_replies(qs))
<1> DEFINE rs == request_unicast_replies(qs)
<1>1. rs \in Seq(Questions) /\ Len(rs) = Len(qs)
  BY RewriteType DEF request_unicast_replies
<1>2. \A i \in 1 .. Len(qs) : rs[i] = [qs[i] EXCEPT !.qu = TRUE]
  BY DEF request_unicast_replies, rewrite_question_class, WellFormed, Walked
<1>3. \A i \in 1 .. Len(qs) : ~rs[i].malformed
  BY <1>2, QuestionRewrite, ElementOfSeq, Zenon DEF WellFormed, Walked
<1> HIDE DEF rs
<1>4. WellFormed(rs)
  BY <1>1, <1>3 DEF WellFormed, Walked
<1> QED
  BY <1>1, <1>4 DEF rs

(***************************************************************************)
(* A query that could be walked and asked for multicast answers comes back *)
(* as it was: the second rewrite undoes the first.                         *)
(***************************************************************************)
LEMMA RestoreUndoes ==
  ASSUME NEW qs \in Seq(Questions), WellFormed(qs), \A i \in 1 .. Len(qs) : ~qs[i].qu
  PROVE  restore_multicast_questions(request_unicast_replies(qs)) = qs
<1> DEFINE rs == request_unicast_replies(qs)
           ts == restore_multicast_questions(rs)
<1>1. rs \in Seq(Questions) /\ Len(rs) = Len(qs)
  BY RewriteType DEF request_unicast_replies
<1>2. \A i \in 1 .. Len(qs) : rs[i] = [qs[i] EXCEPT !.qu = TRUE]
  BY DEF request_unicast_replies, rewrite_question_class, WellFormed, Walked
<1>3. \A i \in 1 .. Len(qs) : ~rs[i].malformed
  BY <1>2, QuestionRewrite, ElementOfSeq, Zenon DEF WellFormed, Walked
<1> HIDE DEF rs
<1>4. ts \in Seq(Questions) /\ Len(ts) = Len(qs)
  BY <1>1, RewriteType DEF restore_multicast_questions
<1>5. \A i \in 1 .. Len(qs) : ts[i] = [rs[i] EXCEPT !.qu = FALSE]
  BY <1>1, <1>3 DEF restore_multicast_questions, rewrite_question_class, Walked
<1>6. ASSUME NEW i \in 1 .. Len(qs) PROVE ts[i] = qs[i]
  <2>1. ts[i] = [[qs[i] EXCEPT !.qu = TRUE] EXCEPT !.qu = FALSE]
    BY <1>2, <1>5, Zenon
  <2>2. qs[i] \in Questions /\ ~qs[i].qu
    BY ElementOfSeq
  <2> QED
    BY <2>1, <2>2, QuestionRewrite, Zenon
<1> HIDE DEF ts
<1>7. ts = qs
  BY <1>4, <1>6, SeqEqual
<1> QED
  BY <1>7 DEF ts, rs

(***************************************************************************)
(* Compressed questions are questions, and still cannot be walked when the *)
(* second rewrite is done, unless there is only one, which is as it was.   *)
(***************************************************************************)
LEMMA CompressedType ==
  ASSUME NEW qs \in Seq(Questions)
  PROVE  Compressed(qs) \in Seq(Questions) /\ Len(Compressed(qs)) = Len(qs)
<1> DEFINE Squeezed(i) == IF i > 1 THEN [qs[i] EXCEPT !.malformed = TRUE] ELSE qs[i]
<1>1. ASSUME NEW i \in 1 .. Len(qs)
      PROVE  Squeezed(i) \in Questions
  <2>1. qs[i] \in Questions
    BY ElementOfSeq
  <2>2. [qs[i] EXCEPT !.malformed = TRUE] \in Questions
    BY <2>1, Zenon DEF Questions
  <2> QED
    BY <2>1, <2>2
<1>2. Compressed(qs) = [i \in 1 .. Len(qs) |-> Squeezed(i)]
  BY DEF Compressed
<1>3. Len(qs) \in Nat
  OBVIOUS
<1> HIDE DEF Squeezed
<1> QED
  BY <1>1, <1>2, <1>3

LEMMA CompressedStays ==
  ASSUME NEW qs \in Seq(Questions), WellFormed(restore_multicast_questions(Compressed(qs)))
  PROVE  Compressed(qs) = qs
<1> DEFINE cs == Compressed(qs)
           ts == restore_multicast_questions(cs)
<1>1. cs \in Seq(Questions) /\ Len(cs) = Len(qs) /\ Len(qs) \in Nat
  BY CompressedType
<1>2. \A i \in 1 .. Len(qs) :
        cs[i] = IF i > 1 THEN [qs[i] EXCEPT !.malformed = TRUE] ELSE qs[i]
  BY DEF Compressed
<1> HIDE DEF cs
<1>4. /\ ts \in Seq(Questions) /\ Len(ts) = Len(qs)
      /\ \A i \in 1 .. Len(qs) : ts[i] = IF Walked(cs, i) THEN [cs[i] EXCEPT !.qu = FALSE] ELSE cs[i]
  BY <1>1, RewriteType DEF restore_multicast_questions, rewrite_question_class
<1>5. \A i \in 1 .. Len(qs) : ~ts[i].malformed
  BY <1>4 DEF WellFormed, Walked, cs, ts
<1> HIDE DEF ts
<1>6. ASSUME NEW i \in 1 .. Len(qs) PROVE cs[i] = qs[i]
  <2>1. ASSUME i > 1 PROVE FALSE
    <3>1. cs[i] = [qs[i] EXCEPT !.malformed = TRUE] /\ qs[i] \in Questions
      BY <1>2, <2>1, ElementOfSeq
    <3>2. cs[i].malformed
      BY <3>1, Zenon DEF Questions
    <3>3. ~Walked(cs, i)
      BY <3>2 DEF Walked
    <3> QED
      BY <1>4, <1>5, <3>2, <3>3, Zenon
  <2> QED
    BY <1>2, <2>1, Zenon
<1>7. cs = qs
  BY <1>1, <1>6, SeqEqual
<1> QED
  BY <1>7 DEF cs

(***************************************************************************)
(* A longer history of queries leaves what was asked where it was.         *)
(***************************************************************************)
LEMMA EchoesKept ==
  ASSUME NEW queries \in Seq(Seq(Questions)), NEW more \in Seq(Questions),
         NEW number \in 1 .. Len(queries), NEW qs
  PROVE  /\ Echoes(queries, number, qs) => Echoes(Append(queries, more), number, qs)
         /\ Sends(queries, number, qs) => Sends(Append(queries, more), number, qs)
<1>1. Len(queries) \in Nat
  OBVIOUS
<1>2. Len(Append(queries, more)) = Len(queries) + 1 /\ Append(queries, more)[number] = queries[number]
  BY <1>1
<1> QED
  BY <1>1, <1>2 DEF Echoes, Sends

(***************************************************************************)
(* A datagram that is read leaves the ones behind it, one place nearer.    *)
(***************************************************************************)
LEMMA QueueRead ==
  ASSUME NEW q \in Seq(Datagrams), q # <<>>
  PROVE  /\ Head(q) = q[1] /\ 1 \in 1 .. Len(q)
         /\ Len(Tail(q)) = Len(q) - 1
         /\ \A i \in 1 .. Len(Tail(q)) : i + 1 \in 1 .. Len(q) /\ Tail(q)[i] = q[i + 1]
<1>1. Len(q) \in Nat \ {0}
  BY EmptySeq
<1>2. Len(Tail(q)) = Len(q) - 1 /\ \A i \in 1 .. Len(Tail(q)) : Tail(q)[i] = q[i + 1]
  BY HeadTailProperties
<1> QED
  BY <1>1, <1>2

(***************************************************************************)
(* A datagram that arrives is the last.                                    *)
(***************************************************************************)
LEMMA QueueArrival ==
  ASSUME NEW q \in Seq(Datagrams), NEW d
  PROVE  /\ Len(q) \in Nat /\ Len(Append(q, d)) = Len(q) + 1
         /\ \A i \in 1 .. Len(q) : Append(q, d)[i] = q[i]
         /\ Append(q, d)[Len(q) + 1] = d
<1>1. Len(q) \in Nat
  OBVIOUS
<1> QED
  BY <1>1

(***************************************************************************)
(* The proxy starts with nothing anywhere.                                 *)
(***************************************************************************)
LEMMA MdnsStarts == MdnsInit => MdnsInv
<1> SUFFICES ASSUME MdnsInit PROVE MdnsInv
  OBVIOUS
<1>1. Nothing \in Relayed
  BY EmptySeq DEF Nothing, Relayed
<1>2. Types
  BY <1>1, MdnsAssumption, EmptySeq DEF MdnsInit, Types
<1>3. AnswersFresh
  BY DEF MdnsInit, AnswersFresh, NotStale, Nothing
<1>4. Echoed
  BY DEF MdnsInit, Echoed, Nothing
<1> QED
  BY <1>2, <1>3, <1>4 DEF MdnsInv

(***************************************************************************)
(* The count of discarded datagrams goes up by one below the limit.        *)
(***************************************************************************)
LEMMA DiscardCounts ==
  ASSUME stale \in Nat, DiscardStale
  PROVE  stale' = stale + 1 /\ stale' <= STALE_LIMIT
<1> USE MdnsAssumption
<1>1. stale < STALE_LIMIT /\ stale' = Min({stale + 1, STALE_LIMIT})
  BY DEF DiscardStale, StaleLeft
<1>2. stale + 1 \in {stale + 1, STALE_LIMIT} /\ \A y \in {stale + 1, STALE_LIMIT} : stale + 1 <= y
  BY <1>1
<1>3. \A x \in {stale + 1, STALE_LIMIT} :
         (\A y \in {stale + 1, STALE_LIMIT} : x <= y) => x = stale + 1
  BY <1>1
<1>4. Min({stale + 1, STALE_LIMIT}) = stale + 1
  BY <1>2, <1>3, Zenon DEF Min
<1> QED
  BY <1>1, <1>4

(***************************************************************************)
(* Every step keeps the types.                                             *)
(***************************************************************************)
LEMMA TypesStep == MdnsInv /\ [MdnsNext]_mdnsVars => Types'
<1> SUFFICES ASSUME MdnsInv, [MdnsNext]_mdnsVars PROVE Types'
  OBVIOUS
<1> USE MdnsAssumption DEF MdnsInv
<1>1. CASE TakeQuery
  <2>1. Head(queue) \in 1 .. Len(asked) /\ Tail(queue) \in Seq(Nat)
        /\ \A i \in 1 .. Len(Tail(queue)) : Tail(queue)[i] \in 1 .. Len(asked)
    BY <1>1 DEF TakeQuery, Types
  <2> QED
    BY <1>1, <2>1 DEF TakeQuery, Types, lanVars
<1>2. CASE DiscardStale
  <2>1. stale' = stale + 1 /\ stale' \in 0 .. STALE_LIMIT
    BY <1>2, DiscardCounts DEF Types
  <2>2. lanq' \in Seq(Datagrams) /\ Len(lanq') <= LAN_QUEUE
    BY <1>2, HeadTailProperties DEF DiscardStale, StaleLeft, Types
  <2> QED
    BY <1>2, <2>1, <2>2 DEF DiscardStale, Types, inputVars
<1>3. CASE DiscardedStale
  BY <1>3 DEF DiscardedStale, Types, inputVars, lanVars
<1>4. CASE SendQuery
  <2>1. asked[query] \in Seq(Questions)
    BY <1>4, ElementOfSeq DEF SendQuery, Types
  <2>2. request_unicast_replies(asked[query]) \in Seq(Questions)
    BY <2>1, RewriteType DEF request_unicast_replies
  <2>3. [query |-> query, questions |-> request_unicast_replies(asked[query])]
          \in [query : Nat, questions : Seq(Questions)]
    BY <2>2 DEF Types
  <2>4. onLan' \in Seq([query : Nat, questions : Seq(Questions)])
    <3>1. onLan \in Seq([query : Nat, questions : Seq(Questions)])
      BY DEF Types
    <3>2. Append(onLan, [query |-> query, questions |-> request_unicast_replies(asked[query])])
            \in Seq([query : Nat, questions : Seq(Questions)])
      BY <2>3, <3>1, AppendProperties
    <3> QED
      BY <1>4, <3>1, <3>2 DEF SendQuery
  <2>5. /\ query' \in 0 .. Len(asked) /\ at' \in {"take", "gather"}
        /\ at' # "take" => query' > 0
    BY <1>4 DEF SendQuery, Types
  <2> QED
    BY <1>4, <2>4, <2>5 DEF SendQuery, Types, inputVars
<1>5. CASE Gather
  <2>1. Head(lanq) \in Datagrams /\ Tail(lanq) \in Seq(Datagrams) /\ Len(Tail(lanq)) < Len(lanq)
    BY <1>5, HeadTailProperties DEF Gather, Types
  <2>2. restore_multicast_questions(Head(lanq).questions) \in Seq(Questions)
    BY <2>1, RewriteType DEF restore_multicast_questions, Datagrams
  <2>3. [answers |-> Head(lanq).answers, arrived |-> Head(lanq).arrived, query |-> query,
         taken |-> taken, questions |-> restore_multicast_questions(Head(lanq).questions)]
          \in Relayed
    <3>1. Head(lanq).answers \in Nat /\ Head(lanq).arrived \in Nat
      BY <2>1 DEF Datagrams
    <3>2. query \in Nat /\ taken \in Nat
      BY DEF Types
    <3> QED
      BY <2>2, <3>1, <3>2 DEF Relayed
  <2>4. last' \in Relayed
    BY <1>5, <2>3 DEF Gather, Types
  <2>5. /\ query' \in 0 .. Len(asked) /\ at' \in {"take", "gather"}
        /\ at' # "take" => query' > 0
    BY <1>5 DEF Gather, Types
  <2> QED
    BY <1>5, <2>1, <2>4, <2>5 DEF Gather, Types, inputVars
<1>6. CASE GatherEnds
  BY <1>6 DEF GatherEnds, Types, inputVars, lanVars
<1>7. CASE ProxyRestarts
  BY <1>7, EmptySeq DEF ProxyRestarts, Types, inputVars
<1>8. ASSUME NEW qs \in QuestionLists, ClientAsks(qs) PROVE Types'
  <2>1. qs \in Seq(Questions)
    BY DEF Questions
  <2>2. asked' \in Seq(Seq(Questions)) /\ Len(asked') = Len(asked) + 1
    BY <1>8, <2>1 DEF ClientAsks, Types
  <2>3. queue' \in Seq(Nat) /\ \A i \in 1 .. Len(queue') : queue'[i] \in 1 .. Len(asked')
    <3>1. queue \in Seq(Nat) /\ \A i \in 1 .. Len(queue) : queue[i] \in 1 .. Len(asked')
      <4>1. /\ queue \in Seq(Nat) /\ Len(asked) \in Nat
            /\ \A i \in 1 .. Len(queue) : queue[i] \in 1 .. Len(asked)
        BY DEF Types
      <4>2. \A k \in 1 .. Len(asked) : k \in 1 .. Len(asked')
        BY <2>2, <4>1
      <4> QED
        BY <4>1, <4>2, Zenon
    <3>2. CASE queue' = queue
      BY <3>1, <3>2
    <3>3. CASE queue' = Append(queue, Len(asked) + 1)
      <4>1. Len(asked) + 1 \in Nat /\ Len(asked) + 1 \in 1 .. Len(asked')
        BY <2>2 DEF Types
      <4> QED
        BY <3>1, <3>3, <4>1
    <3> QED
      BY <1>8, <3>2, <3>3 DEF ClientAsks
  <2> QED
    BY <1>8, <2>2, <2>3 DEF ClientAsks, Types, lanVars, proxyVars
<1>9. ASSUME NEW d \in Datagrams, Arrives(d) PROVE Types'
  BY <1>9 DEF Arrives, Types, inputVars, proxyVars
<1>10. ASSUME NEW i \in 1 .. Len(onLan), LanAnswers(i) PROVE Types'
  <2>1. PICK qs \in {onLan[i].questions, Compressed(onLan[i].questions), <<>>} :
          Arrives([kind |-> "response", answers |-> onLan[i].query, questions |-> qs,
                   arrived |-> taken])
    BY <1>10 DEF LanAnswers
  <2>2. onLan[i].query \in Nat /\ onLan[i].questions \in Seq(Questions)
    <3>1. onLan \in Seq([query : Nat, questions : Seq(Questions)])
      BY DEF Types
    <3>2. onLan[i] \in [query : Nat, questions : Seq(Questions)]
      BY <3>1, ElementOfSeq
    <3> QED
      BY <3>2
  <2>3. qs \in Seq(Questions)
    BY <2>2, EmptySeq, CompressedType
  <2> QED
    BY <1>9, <2>1, <2>2, <2>3 DEF Datagrams, Types
<1>11. CASE LanStray
  BY <1>9, <1>11, EmptySeq DEF LanStray, Datagrams, Types
<1>12. CASE UNCHANGED mdnsVars
  BY <1>12 DEF mdnsVars, inputVars, lanVars, proxyVars, Types
<1> QED
  BY <1>1, <1>2, <1>3, <1>4, <1>5, <1>6, <1>7, <1>8, <1>10, <1>11, <1>12 DEF MdnsNext, Step

(***************************************************************************)
(* Every step keeps what is left of late answers at the front.             *)
(***************************************************************************)
LEMMA FreshStep == MdnsInv /\ [MdnsNext]_mdnsVars => AnswersFresh'
<1> SUFFICES ASSUME MdnsInv, [MdnsNext]_mdnsVars PROVE AnswersFresh'
  OBVIOUS
<1> USE MdnsAssumption DEF MdnsInv
<1>1. CASE TakeQuery
  BY <1>1 DEF TakeQuery, Types, AnswersFresh, NotStale, lanVars
<1>2. CASE DiscardStale
  <2>1. stale' = stale + 1
    BY <1>2, DiscardCounts DEF Types
  <2>2. \A i \in 1 .. Len(lanq') : i + 1 \in 1 .. Len(lanq) /\ lanq'[i] = lanq[i + 1]
    BY <1>2, QueueRead DEF DiscardStale, StaleLeft, Types
  <2>3. \A i \in 1 .. Len(lanq') : i + stale' > LAN_QUEUE => lanq'[i].arrived = taken
    BY <1>2, <2>1, <2>2 DEF DiscardStale, Types, AnswersFresh
  <2> QED
    BY <1>2, <2>3 DEF DiscardStale, AnswersFresh, NotStale
<1>3. CASE DiscardedStale
  <2>1. \A i \in 1 .. Len(lanq) : i + stale > LAN_QUEUE
    BY <1>3 DEF DiscardedStale, StaleLeft, Types
  <2> QED
    BY <1>3, <2>1 DEF DiscardedStale, Types, AnswersFresh, NotStale, lanVars
<1>4. CASE SendQuery
  BY <1>4 DEF SendQuery, AnswersFresh, NotStale
<1>5. CASE Gather
  <2>1. /\ Head(lanq) = lanq[1] /\ 1 \in 1 .. Len(lanq)
        /\ \A i \in 1 .. Len(lanq') : i + 1 \in 1 .. Len(lanq) /\ lanq'[i] = lanq[i + 1]
    BY <1>5, QueueRead DEF Gather, Types
  <2>2. \A i \in 1 .. Len(lanq) : lanq[i].arrived = taken
    BY <1>5 DEF Gather, AnswersFresh
  <2>3. \A i \in 1 .. Len(lanq') : lanq'[i].arrived = taken
    BY <2>1, <2>2
  <2>4. Head(lanq).arrived = taken
    BY <2>1, <2>2
  <2>5. NotStale'
    BY <1>5, <2>4 DEF Gather, AnswersFresh, NotStale
  <2> QED
    BY <1>5, <2>3, <2>5 DEF Gather, AnswersFresh
<1>6. CASE GatherEnds
  BY <1>6 DEF GatherEnds, AnswersFresh, NotStale
<1>7. CASE ProxyRestarts
  BY <1>7 DEF ProxyRestarts, AnswersFresh, NotStale
<1>8. ASSUME NEW qs \in QuestionLists, ClientAsks(qs) PROVE AnswersFresh'
  BY <1>8 DEF ClientAsks, AnswersFresh, NotStale, lanVars, proxyVars
<1>9. ASSUME NEW d, d.arrived = taken, Arrives(d) PROVE AnswersFresh'
  <2>1. /\ Len(lanq) \in Nat /\ Len(lanq') = Len(lanq) + 1
        /\ \A i \in 1 .. Len(lanq) : lanq'[i] = lanq[i]
        /\ lanq'[Len(lanq) + 1] = d
    BY <1>9, QueueArrival DEF Arrives, Types
  <2> QED
    BY <1>9, <2>1 DEF Arrives, Types, AnswersFresh, NotStale, proxyVars
<1>10. ASSUME NEW i \in 1 .. Len(onLan), LanAnswers(i) PROVE AnswersFresh'
  BY <1>9, <1>10 DEF LanAnswers
<1>11. CASE LanStray
  BY <1>9, <1>11 DEF LanStray
<1>12. CASE UNCHANGED mdnsVars
  BY <1>12 DEF mdnsVars, inputVars, lanVars, proxyVars, AnswersFresh, NotStale
<1> QED
  BY <1>1, <1>2, <1>3, <1>4, <1>5, <1>6, <1>7, <1>8, <1>10, <1>11, <1>12 DEF MdnsNext, Step

(***************************************************************************)
(* Every step keeps what is on the LAN tied to the query it echoes.        *)
(***************************************************************************)
LEMMA EchoedStep == MdnsInv /\ [MdnsNext]_mdnsVars => Echoed'
<1> SUFFICES ASSUME MdnsInv, [MdnsNext]_mdnsVars PROVE Echoed'
  OBVIOUS
<1> USE DEF MdnsInv
<1>1. CASE TakeQuery
  BY <1>1 DEF TakeQuery, Echoed, lanVars
<1>2. CASE DiscardStale
  <2>1. \A i \in 1 .. Len(lanq') : i + 1 \in 1 .. Len(lanq) /\ lanq'[i] = lanq[i + 1]
    BY <1>2, QueueRead DEF DiscardStale, StaleLeft, Types
  <2>2. \A i \in 1 .. Len(lanq') :
          lanq'[i].kind = "response" => Echoes(asked, lanq'[i].answers, lanq'[i].questions)
    BY <2>1 DEF Echoed
  <2> QED
    BY <1>2, <2>2 DEF DiscardStale, Echoed, inputVars
<1>3. CASE DiscardedStale
  BY <1>3 DEF DiscardedStale, Echoed, inputVars, lanVars
<1>4. CASE SendQuery
  <2>1. CASE onLan' = onLan
    BY <1>4, <2>1 DEF SendQuery, Echoed, inputVars
  <2>2. CASE /\ WellFormed(asked[query])
             /\ onLan' = Append(onLan, [query |-> query,
                                        questions |-> request_unicast_replies(asked[query])])
    <3>1. Sends(asked, query, request_unicast_replies(asked[query]))
      BY <1>4, <2>2 DEF SendQuery, Types, Sends
    <3>2. \A i \in 1 .. Len(onLan') : Sends(asked, onLan'[i].query, onLan'[i].questions)
      BY <2>2, <3>1 DEF Types, Echoed
    <3> QED
      BY <1>4, <3>2 DEF SendQuery, Echoed, inputVars
  <2> QED
    BY <1>4, <2>1, <2>2 DEF SendQuery
<1>5. CASE Gather
  <2>1. /\ Head(lanq) = lanq[1] /\ 1 \in 1 .. Len(lanq) /\ Head(lanq) \in Datagrams
        /\ \A i \in 1 .. Len(lanq') : i + 1 \in 1 .. Len(lanq) /\ lanq'[i] = lanq[i + 1]
    BY <1>5, QueueRead, ElementOfSeq DEF Gather, Types
  <2>2. \A i \in 1 .. Len(lanq') :
          lanq'[i].kind = "response" => Echoes(asked, lanq'[i].answers, lanq'[i].questions)
    BY <2>1 DEF Echoed
  <2>3. Head(lanq).kind = "response" =>
          Echoes(asked, Head(lanq).answers, Head(lanq).questions)
    BY <2>1 DEF Echoed
  <2>4. Head(lanq).questions \in Seq(Questions)
    BY <2>1 DEF Datagrams
  <2>5. last'.answers # 0 =>
          \E qs \in Seq(Questions) : /\ Echoes(asked, last'.answers, qs)
                                     /\ last'.questions = restore_multicast_questions(qs)
    BY <1>5, <2>3, <2>4 DEF Gather, Echoed
  <2> QED
    BY <1>5, <2>2, <2>5 DEF Gather, Echoed, inputVars
<1>6. CASE GatherEnds
  BY <1>6 DEF GatherEnds, Echoed, inputVars, lanVars
<1>7. CASE ProxyRestarts
  BY <1>7 DEF ProxyRestarts, Echoed, inputVars
<1>8. ASSUME NEW qs \in QuestionLists, ClientAsks(qs) PROVE Echoed'
  <2>1. qs \in Seq(Questions)
    BY MdnsAssumption DEF Questions
  <2>2. asked' = Append(asked, qs) /\ asked \in Seq(Seq(Questions))
    BY <1>8 DEF ClientAsks, Types
  <2>3. \A number, es : /\ Echoes(asked, number, es) => Echoes(asked', number, es)
                        /\ Sends(asked, number, es) => Sends(asked', number, es)
    BY <2>1, <2>2, EchoesKept DEF Echoes, Sends
  <2> QED
    BY <1>8, <2>3 DEF ClientAsks, Echoed, lanVars, proxyVars
<1>9. ASSUME NEW d, d.kind = "response" => Echoes(asked, d.answers, d.questions), Arrives(d)
      PROVE  Echoed'
  <2>1. /\ Len(lanq) \in Nat /\ Len(lanq') = Len(lanq) + 1
        /\ \A i \in 1 .. Len(lanq) : lanq'[i] = lanq[i]
        /\ lanq'[Len(lanq) + 1] = d
    BY <1>9, QueueArrival DEF Arrives, Types
  <2>2. \A i \in 1 .. Len(lanq') :
          lanq'[i].kind = "response" => Echoes(asked, lanq'[i].answers, lanq'[i].questions)
    BY <1>9, <2>1 DEF Echoed
  <2> QED
    BY <1>9, <2>2 DEF Arrives, Echoed, inputVars, proxyVars
<1>10. ASSUME NEW i \in 1 .. Len(onLan), LanAnswers(i) PROVE Echoed'
  <2>1. PICK qs \in {onLan[i].questions, Compressed(onLan[i].questions), <<>>} :
          Arrives([kind |-> "response", answers |-> onLan[i].query, questions |-> qs,
                   arrived |-> taken])
    BY <1>10 DEF LanAnswers
  <2>2. Echoes(asked, onLan[i].query, qs)
    BY DEF Echoed, Echoes, Sends
  <2> QED
    BY <1>9, <2>1, <2>2
<1>11. CASE LanStray
  BY <1>9, <1>11 DEF LanStray
<1>12. CASE UNCHANGED mdnsVars
  BY <1>12 DEF mdnsVars, inputVars, lanVars, proxyVars, Echoed
<1> QED
  BY <1>1, <1>2, <1>3, <1>4, <1>5, <1>6, <1>7, <1>8, <1>10, <1>11, <1>12 DEF MdnsNext, Step

(***************************************************************************)
(* The three parts together are inductive.                                 *)
(***************************************************************************)
LEMMA MdnsInvariant == MdnsSpec => []MdnsInv
<1>1. MdnsInit => MdnsInv
  BY MdnsStarts
<1>2. MdnsInv /\ [MdnsNext]_mdnsVars => MdnsInv'
  BY TypesStep, FreshStep, EchoedStep DEF MdnsInv
<1> QED
  BY <1>1, <1>2, PTL DEF MdnsSpec

(***************************************************************************)
(* No answer that waited in the LAN socket when a query was taken is       *)
(* relayed for it, for any queue shorter than the discarding limit: serve  *)
(* of lando-fw/src/mdns.rs, with 12 and 64 there.                          *)
(***************************************************************************)
THEOREM LateAnswersDiscarded == MdnsSpec => []NotStale
<1>1. MdnsInv => NotStale
  BY DEF MdnsInv, AnswersFresh
<1> QED
  BY <1>1, MdnsInvariant, PTL

(***************************************************************************)
(* A client that asked for multicast answers is shown its own questions:   *)
(* restore_multicast_questions of tailscale-core/src/mdns.rs undoes        *)
(* request_unicast_replies, for any questions, unless the responder        *)
(* compressed their names.                                                 *)
(***************************************************************************)
THEOREM QuestionsRestored == MdnsSpec => []QuestionsAsAsked
<1>1. MdnsInv => QuestionsAsAsked
  <2> SUFFICES ASSUME MdnsInv, last.answers # 0, last.answers = last.query,
                      WellFormed(last.questions),
                      \A i \in 1 .. Len(asked[last.query]) : ~asked[last.query][i].qu
               PROVE  last.questions \in {asked[last.query], <<>>}
    BY DEF QuestionsAsAsked
  <2>1. PICK qs \in Seq(Questions) : /\ Echoes(asked, last.query, qs)
                                     /\ last.questions = restore_multicast_questions(qs)
    BY DEF MdnsInv, Echoed
  <2>2. asked[last.query] \in Seq(Questions) /\ WellFormed(asked[last.query])
    BY <2>1, ElementOfSeq DEF MdnsInv, Types, Echoes
  <2>3. CASE qs = <<>>
    <3>1. Len(qs) = 0
      BY <2>3
    <3>2. /\ restore_multicast_questions(qs) \in Seq(Questions)
          /\ Len(restore_multicast_questions(qs)) = 0
      BY <3>1, RewriteType DEF restore_multicast_questions
    <3> QED
      BY <2>1, <3>2, EmptySeq
  <2> DEFINE rs == request_unicast_replies(asked[last.query])
  <2>4. CASE qs = rs
    BY <2>1, <2>2, <2>4, RestoreUndoes
  <2>5. CASE qs = Compressed(rs)
    <3>1. rs \in Seq(Questions) /\ WellFormed(rs)
      BY <2>2, RequestWalks
    <3>2. Compressed(rs) = rs
      BY <2>1, <2>5, <3>1, CompressedStays
    <3> QED
      BY <2>4, <2>5, <3>2
  <2> QED
    BY <2>1, <2>3, <2>4, <2>5 DEF Echoes
<1> QED
  BY <1>1, MdnsInvariant, PTL

-----------------------------------------------------------------------------
(* The device's life.                                                      *)

SameKeys(c, d) == c.machine_key = d.machine_key /\ c.node_key = d.node_key

(***************************************************************************)
(* The sector, the console's copy and the running configuration: typed,    *)
(* with both keys or neither, and with the same keys wherever two of them  *)
(* exist.  The console's copy has no keys while the sector is empty.       *)
(***************************************************************************)
CopiesAgree ==
  /\ flash \in Configs \cup {None} /\ cfg \in Configs \cup {None} /\ pending \in Configs
  /\ flash # None => (flash.machine_key = None <=> flash.node_key = None)
  /\ cfg # None => flash # None /\ SameKeys(cfg, flash) /\ flash.node_key # None
  /\ pc # "boot" => SameKeys(pending, IF flash = None THEN DefaultConfig ELSE flash)

(***************************************************************************)
(* The stored settings are the ones last saved.                            *)
(***************************************************************************)
StoredIsWanted == wanted = IF flash = None THEN None ELSE SettingsOf(flash)

(***************************************************************************)
(* The key the control server has seen is stored.                          *)
(***************************************************************************)
PresentedIsStored ==
  presented # {} => /\ flash # None /\ flash.node_key # None
                    /\ presented = {flash.node_key}

(***************************************************************************)
(* The program joins a network only with a configuration.                  *)
(***************************************************************************)
Running == {"join", "dhcp", "bad_key", "connect", "register", "session", "delay"}

RunsConfigured == pc \in Running => cfg # None

StartedAsSaved == pc # "boot" /\ applied # None => cfg # None /\ SettingsOf(cfg) = applied

Kept == CopiesAgree /\ StoredIsWanted /\ PresentedIsStored /\ RunsConfigured /\ StartedAsSaved

(***************************************************************************)
(* All of it until the sector is cleared or power is lost in a save.       *)
(***************************************************************************)
LifecycleInv == causes = {} => Kept

-----------------------------------------------------------------------------
(* Lemmas about the operators and groups of actions.                       *)

(***************************************************************************)
(* New settings or new keys on a configuration.                            *)
(***************************************************************************)
LEMMA ConfigTypes ==
  /\ DefaultConfig \in Configs
  /\ DefaultConfig.machine_key = None /\ DefaultConfig.node_key = None
  /\ \A c \in Configs : c # None
BY NoneAssumption DEF Configs, DefaultConfig, Options, NodeKeys

LEMMA WithSettings ==
  ASSUME NEW c \in Configs, NEW x \in Settings
  PROVE  LET d == [c EXCEPT !.ready = x.ready, !.opts = x.opts]
         IN  d \in Configs /\ SameKeys(d, c)
<1>1. x.ready \in BOOLEAN /\ x.opts \in Options
  BY DEF Settings
<1>2. [c EXCEPT !.ready = x.ready, !.opts = x.opts] \in Configs
  BY <1>1, Zenon DEF Configs
<1>3. SameKeys([c EXCEPT !.ready = x.ready, !.opts = x.opts], c)
  BY DEF Configs, SameKeys
<1> QED
  BY <1>2, <1>3

LEMMA WithKeys ==
  ASSUME NEW c \in Configs, NEW k \in Nat
  PROVE  LET d == [c EXCEPT !.machine_key = k, !.node_key = k]
         IN  /\ d \in Configs /\ d.machine_key = k /\ d.node_key = k
             /\ SettingsOf(d) = SettingsOf(c)
<1> DEFINE d == [c EXCEPT !.machine_key = k, !.node_key = k]
<1>1. d \in Configs
  BY Zenon DEF Configs, NodeKeys
<1>2. d.machine_key = k /\ d.node_key = k /\ d.ready = c.ready /\ d.opts = c.opts
  BY DEF Configs
<1> HIDE DEF d
<1>3. SettingsOf(d) = SettingsOf(c)
  BY <1>2, Zenon DEF SettingsOf
<1> QED
  BY <1>1, <1>2, <1>3 DEF d

(***************************************************************************)
(* The first key drawn is 1: a device that lacks a key has presented none. *)
(***************************************************************************)
LEMMA FirstKey ==
  ASSUME presented = {}, flash.machine_key = None, flash.node_key = None
  PROVE  Fresh = 1
<1>1. {k \in presented \cup {flash.node_key, flash.machine_key} : k \in Nat} \cup {0} = {0}
  BY LifecycleAssumption
<1>2. 0 \in {0} /\ \A y \in {0} : 0 >= y
  OBVIOUS
<1>3. Max({0}) = 0
  BY <1>2, Zenon DEF Max
<1> QED
  BY <1>1, <1>3 DEF Fresh

(***************************************************************************)
(* A reset that leaves the sector alone.                                   *)
(***************************************************************************)
LEMMA ResetKeeps ==
  ASSUME Kept, Reset, UNCHANGED <<flash, wanted, presented>>
  PROVE  Kept'
<1>1. pc' = "boot" /\ cfg' = None /\ pending' = DefaultConfig
  BY DEF Reset
<1>2. CopiesAgree'
  BY <1>1, ConfigTypes DEF Kept, CopiesAgree
<1> QED
  BY <1>1, <1>2 DEF Kept, StoredIsWanted, PresentedIsStored, RunsConfigured, Running,
     StartedAsSaved

(***************************************************************************)
(* A step of the supervisor, or of the world around it.                    *)
(***************************************************************************)
LEMMA RunKeeps ==
  ASSUME Kept, UNCHANGED <<flash, cfg, pending, wanted, applied, presented>>,
         pc' = pc \/ (pc \in Running /\ pc' \in Running)
  PROVE  Kept'
<1>1. pc = "boot" <=> pc' = "boot"
  BY DEF Running
<1>2. CopiesAgree'
  BY <1>1 DEF Kept, CopiesAgree
<1> QED
  BY <1>1, <1>2 DEF Kept, StoredIsWanted, PresentedIsStored, RunsConfigured, StartedAsSaved

-----------------------------------------------------------------------------
(* The inductive invariant.                                                *)

LEMMA LifecycleStarts == Init => LifecycleInv
<1> SUFFICES ASSUME Init PROVE Kept
  BY DEF LifecycleInv
<1>1. /\ pc = "boot" /\ cfg = None /\ pending = DefaultConfig /\ applied = None
      /\ presented = {} /\ StoredIsWanted
  BY DEF Init, StoredIsWanted
<1>2. /\ flash \in Configs \cup {None}
      /\ flash # None => (flash.machine_key = None <=> flash.node_key = None)
  <2>1. CASE flash = None
    BY <2>1
  <2>2. CASE flash \in [ready : {TRUE}, opts : {"Own"}, machine_key : {None}, node_key : {None}]
    <3>1. flash \in Configs
      BY <2>2, Zenon DEF Configs, Options, NodeKeys
    <3> QED BY <2>2, <3>1
  <2>3. CASE flash \in [ready : {TRUE}, opts : {"Own"}, machine_key : {1}, node_key : {1}]
    <3>1. flash \in [ready : BOOLEAN, opts : Options, machine_key : {1}, node_key : {1}]
      BY <2>3, Zenon DEF Options
    <3>2. {1} \subseteq NodeKeys
      BY DEF NodeKeys
    <3>3. flash \in Configs
      BY <3>1, <3>2, Zenon DEF Configs
    <3> QED BY <2>3, <3>3
  <2> QED BY <2>1, <2>2, <2>3 DEF Init
<1>3. CopiesAgree
  BY <1>1, <1>2, ConfigTypes DEF CopiesAgree
<1> QED
  BY <1>1, <1>3 DEF Kept, PresentedIsStored, RunsConfigured, Running, StartedAsSaved

LEMMA BootKeeps ==
  ASSUME Kept, Boot, causes' = {}, causes = {}
  PROVE  Kept'
<1>1. CASE BootsAsStored
  <2>1. /\ cfg' = flash /\ pending' = (IF flash = None THEN DefaultConfig ELSE flash)
        /\ applied' = wanted /\ UNCHANGED <<flash, wanted, presented>> /\ ~KeyMissing
        /\ flash = None => pc' = "unprovisioned"
    BY <1>1 DEF BootsAsStored, StartsWith
  <2>2. CopiesAgree'
    BY <2>1, ConfigTypes DEF Kept, CopiesAgree, KeyMissing, SameKeys
  <2> QED BY <2>1, <2>2 DEF Kept, StoredIsWanted, PresentedIsStored, RunsConfigured, Running,
             StartedAsSaved
<1>2. CASE GeneratesKeys
  <2> DEFINE c == [flash EXCEPT !.machine_key = Fresh, !.node_key = Fresh]
  <2>1. flash \in Configs /\ flash # None /\ UNCHANGED <<wanted, presented>>
    BY <1>2 DEF GeneratesKeys, KeyMissing, Kept, CopiesAgree
  <2>2. flash.machine_key = None /\ flash.node_key = None /\ presented = {}
    BY <1>2 DEF GeneratesKeys, KeyMissing, Kept, CopiesAgree, PresentedIsStored
  <2>3. Fresh \in Nat /\ Fresh # None
    BY <2>2, FirstKey, LifecycleAssumption
  <2>4. /\ c \in Configs /\ c # None /\ c.machine_key = Fresh /\ c.node_key = Fresh
        /\ SettingsOf(c) = SettingsOf(flash)
    BY <2>1, <2>3, WithKeys, ConfigTypes
  <2>5. \/ flash' = c /\ StartsWith(c, c)
        \/ Outage({"BootSave"})
        \/ Reset /\ flash' = flash
    BY <1>2, Zenon DEF GeneratesKeys
  <2>6. ~Outage({"BootSave"})
    BY DEF Outage
  <2> HIDE DEF c
  <2>7. CASE flash' = c /\ StartsWith(c, c)
    <3>1. cfg' = c /\ pending' = c /\ flash' = c /\ applied' = wanted
      BY <2>7 DEF StartsWith
    <3>2. CopiesAgree'
      BY <2>3, <2>4, <3>1 DEF CopiesAgree, SameKeys
    <3> QED BY <2>1, <2>2, <2>4, <3>1, <3>2 DEF Kept, StoredIsWanted, PresentedIsStored,
               RunsConfigured, StartedAsSaved
  <2>8. CASE Reset /\ flash' = flash
    BY <2>1, <2>8, ResetKeeps
  <2> QED BY <2>5, <2>6, <2>7, <2>8
<1> QED
  BY <1>1, <1>2 DEF Boot

LEMMA SaveKeeps ==
  ASSUME Kept, NEW c \in Staged, save(c), causes' = {}, causes = {}
  PROVE  Kept'
<1>1. c \in Configs /\ c # None /\ SameKeys(c, pending)
  BY WithSettings, ConfigTypes DEF Staged, Kept, CopiesAgree
<1>2. pc # "boot" /\ UNCHANGED <<applied, presented>>
  BY DEF save
<1>3. \/ flash' = c /\ wanted' = SettingsOf(c) /\ UNCHANGED <<pc, cfg, pending>>
      \/ Outage({"ConsoleSave"})
      \/ Outage({}) /\ UNCHANGED <<flash, wanted>>
  BY DEF save, ramVars
<1>4. ~Outage({"ConsoleSave"})
  BY DEF Outage
<1>5. CASE flash' = c /\ wanted' = SettingsOf(c) /\ UNCHANGED <<pc, cfg, pending>>
  <2>1. SameKeys(c, IF flash = None THEN DefaultConfig ELSE flash)
    BY <1>1, <1>2 DEF Kept, CopiesAgree, SameKeys
  <2>2. flash # None => SameKeys(c, flash)
    BY <2>1
  <2>3. c.machine_key = None <=> c.node_key = None
    BY <2>1, ConfigTypes DEF Kept, CopiesAgree, SameKeys
  <2>4. CopiesAgree'
    BY <1>1, <1>5, <2>2, <2>3 DEF Kept, CopiesAgree, SameKeys
  <2>5. PresentedIsStored'
    BY <1>1, <1>2, <1>5, <2>2 DEF Kept, PresentedIsStored, SameKeys
  <2> QED BY <1>1, <1>2, <1>5, <2>4, <2>5 DEF Kept, StoredIsWanted, RunsConfigured,
             StartedAsSaved
<1>6. CASE Outage({}) /\ UNCHANGED <<flash, wanted>>
  BY <1>2, <1>6, ResetKeeps DEF Outage
<1> QED
  BY <1>3, <1>4, <1>5, <1>6

LEMMA RegisterKeeps ==
  ASSUME Kept, Register
  PROVE  Kept'
<1>1. /\ pc = "register" /\ pc' \in {"session", "delay"}
      /\ presented' \in {presented, presented \cup {cfg.node_key}}
      /\ UNCHANGED <<flash, cfg, pending, wanted, applied>>
  BY DEF Register, Connected
<1>2. cfg # None /\ flash # None /\ cfg.node_key = flash.node_key /\ flash.node_key # None
  BY <1>1 DEF Kept, RunsConfigured, Running, CopiesAgree, SameKeys
<1>3. presented \subseteq {flash.node_key}
  BY DEF Kept, PresentedIsStored
<1>4. PresentedIsStored'
  BY <1>1, <1>2, <1>3 DEF PresentedIsStored
<1>5. CopiesAgree'
  BY <1>1 DEF Kept, CopiesAgree
<1> QED
  BY <1>1, <1>2, <1>4, <1>5 DEF Kept, StoredIsWanted, RunsConfigured, StartedAsSaved

LEMMA LifecycleStep == LifecycleInv /\ [Next]_vars => LifecycleInv'
<1> SUFFICES ASSUME LifecycleInv, [Next]_vars, causes' = {} PROVE Kept'
  BY DEF LifecycleInv
<1>1. causes \subseteq causes'
  BY DEF Next, Boot, Network, BootsAsStored, GeneratesKeys, Outage, Join, Lease, NoLease, Connect,
     Register, Retry, SessionEnds, save, clear, PowerLoss, ApChanges, ServerChanges, vars, historyVars
<1>2. causes = {} /\ Kept
  BY <1>1 DEF LifecycleInv
<1> USE DEF ramVars, historyVars
<1>3. CASE Join \/ Lease \/ Connect \/ SessionEnds
  <2>1. /\ UNCHANGED <<flash, cfg, pending, wanted, applied, presented>>
        /\ pc \in Running /\ pc' \in Running
    BY <1>3 DEF Join, Lease, Connect, SessionEnds, Running
  <2> QED BY <1>2, <2>1, RunKeeps
<1>4. CASE NoLease
  BY <1>2, <1>4, ResetKeeps DEF NoLease
<1>5. CASE Retry
  <2>1. CASE Reset
    BY <1>2, <1>5, <2>1, ResetKeeps DEF Retry
  <2>2. CASE ~Reset
    <3>1. /\ UNCHANGED <<flash, cfg, pending, wanted, applied, presented>>
          /\ pc \in Running /\ pc' \in Running
      BY <1>5, <2>2 DEF Retry, Running
    <3> QED BY <1>2, <3>1, RunKeeps
  <2> QED BY <2>1, <2>2
<1>6. CASE clear
  BY <1>6 DEF clear
<1>7. CASE PowerLoss
  BY <1>2, <1>7, ResetKeeps DEF PowerLoss, Outage
<1>8. ASSUME UNCHANGED <<flash, pc, cfg, pending, wanted, applied, presented>>
      PROVE  Kept'
  BY <1>2, <1>8, RunKeeps
<1>9. ASSUME \/ \E to \in {"Down", "NoLeases", "Serves"} : ApChanges(to)
             \/ \E to \in {"Down", "Refuses", "Serves"} : ServerChanges(to)
             \/ UNCHANGED vars
      PROVE  Kept'
  BY <1>8, <1>9 DEF ApChanges, ServerChanges, vars
<1> QED
  BY <1>2, <1>3, <1>4, <1>5, <1>6, <1>7, <1>9, BootKeeps, SaveKeeps, RegisterKeeps
  DEF Next, Network

LEMMA LifecycleInvariant == Spec => []LifecycleInv
BY LifecycleStarts, LifecycleStep, PTL DEF Spec

-----------------------------------------------------------------------------

(***************************************************************************)
(* Unless the sector is cleared or power is lost in a save, the control    *)
(* server only ever sees one node key, whatever the console stages and     *)
(* saves and however often the device starts: the keys generated at boot   *)
(* are in the console's copy before it can save, and a save that panics    *)
(* leaves the sector as it was.                                            *)
(***************************************************************************)
THEOREM IdentityKeptHolds == Spec => []IdentityKept
<1>1. LifecycleInv => IdentityKept
  <2> SUFFICES ASSUME causes = {}, Kept PROVE Cardinality(presented) <= 1
    BY DEF LifecycleInv, IdentityKept
  <2>1. CASE presented = {}
    BY <2>1, FS_EmptySet
  <2>2. CASE presented # {}
    <3>1. presented = {flash.node_key}
      BY <2>2 DEF Kept, PresentedIsStored
    <3>2. Cardinality(presented) = 1
      BY <3>1, FS_Singleton
    <3> QED BY <3>2
  <2> QED BY <2>1, <2>2
<1> QED
  BY <1>1, LifecycleInvariant, PTL

(***************************************************************************)
(* Unless the sector is cleared or power is lost in a save, the device     *)
(* starts with the settings last saved: neither the save of the generated  *)
(* keys nor one that does not fit loses them.                              *)
(***************************************************************************)
THEOREM SettingsKeptHolds == Spec => []SettingsKept
<1>1. LifecycleInv => SettingsKept
  BY DEF LifecycleInv, Kept, StartedAsSaved, SettingsKept
<1> QED
  BY <1>1, LifecycleInvariant, PTL
=============================================================================
