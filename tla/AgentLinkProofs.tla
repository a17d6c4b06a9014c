-------------------------- MODULE AgentLinkProofs ---------------------------
(***************************************************************************)
(* Proofs about the messages of a client, for any sizes and any number of  *)
(* messages.                                                               *)
(*                                                                         *)
(* The argument.  Tasks, requests and answers are three queues, each in    *)
(* the order of sending, each wholly ahead of the one behind it, and all   *)
(* of them behind the message answered last (Ordered).  Every step moves   *)
(* the head of one queue to the tail of the next, or drops messages.       *)
(***************************************************************************)
EXTENDS AgentLink, TLAPS

\* A queue in the order of sending, of messages sent after message l, up to h.
Rising(s, l, h) ==
  /\ \A i \in 1 .. Len(s) : l < s[i].id /\ s[i].id <= h
  /\ \A i, j \in 1 .. Len(s) : i < j => s[i].id < s[j].id

\* Queue s is ahead of queue t.
Ahead(s, t) == \A i \in 1 .. Len(s), j \in 1 .. Len(t) : s[i].id < t[j].id

Ordered ==
  /\ last <= sent
  /\ Rising(answers, last, sent) /\ Rising(requests, last, sent) /\ Rising(tasks, last, sent)
  /\ Ahead(answers, requests) /\ Ahead(answers, tasks) /\ Ahead(requests, tasks)

Inductive == TypeOK /\ Ordered

-----------------------------------------------------------------------------
\* Taking the oldest message out of a queue.
LEMMA TailFacts ==
  ASSUME NEW s \in Seq(Message), s # <<>>
  PROVE  /\ Tail(s) \in Seq(Message)
         /\ Head(s) \in Message /\ Head(s) = s[1] /\ 1 \in 1 .. Len(s)
         /\ Len(Tail(s)) = Len(s) - 1
         /\ \A i \in 1 .. Len(Tail(s)) : Tail(s)[i] = s[i + 1] /\ i + 1 \in 1 .. Len(s)
  OBVIOUS

\* Adding a message behind a queue.
LEMMA AppendFacts ==
  ASSUME NEW s \in Seq(Message), NEW m \in Message
  PROVE  /\ Append(s, m) \in Seq(Message)
         /\ Len(Append(s, m)) = Len(s) + 1
         /\ Append(s, m)[Len(s) + 1] = m
         /\ \A i \in 1 .. Len(s) : Append(s, m)[i] = s[i]
  OBVIOUS

\* Dropping messages from some message on.
LEMMA PrefixFacts ==
  ASSUME NEW s \in Seq(Message), NEW n \in 0 .. Len(s)
  PROVE  /\ SubSeq(s, 1, n) \in Seq(Message)
         /\ Len(SubSeq(s, 1, n)) = n
         /\ \A i \in 1 .. n : SubSeq(s, 1, n)[i] = s[i] /\ i \in 1 .. Len(s)
  OBVIOUS

\* What these do to the order.
LEMMA TailOrdered ==
  ASSUME NEW s \in Seq(Message), s # <<>>, NEW l \in Nat, NEW h \in Nat, Rising(s, l, h)
  PROVE  /\ Rising(Tail(s), l, h) /\ Rising(Tail(s), Head(s).id, h)
         /\ l < Head(s).id /\ Head(s).id <= h
         /\ \A t \in Seq(Message) : Ahead(s, t) =>
              Ahead(Tail(s), t) /\ \A j \in 1 .. Len(t) : Head(s).id < t[j].id
         /\ \A t \in Seq(Message) : Ahead(t, s) =>
              Ahead(t, Tail(s)) /\ \A j \in 1 .. Len(t) : t[j].id < Head(s).id
         /\ \A j \in 1 .. Len(Tail(s)) : Head(s).id < Tail(s)[j].id
<1>1. \A i \in 1 .. Len(Tail(s)) : Tail(s)[i] = s[i + 1] /\ i + 1 \in 1 .. Len(s)
  BY TailFacts
<1>2. Head(s) = s[1] /\ 1 \in 1 .. Len(s) /\ Len(Tail(s)) = Len(s) - 1 /\ Len(s) \in Nat
  BY TailFacts
<1>3. l < Head(s).id /\ Head(s).id <= h
  BY <1>2 DEF Rising
<1>4. \A j \in 1 .. Len(Tail(s)) : Head(s).id < Tail(s)[j].id
  BY <1>1, <1>2 DEF Rising
<1>5. Rising(Tail(s), l, h) /\ Rising(Tail(s), Head(s).id, h)
  BY <1>1, <1>4 DEF Rising
<1> QED
  BY <1>1, <1>2, <1>3, <1>4, <1>5 DEF Ahead

LEMMA AppendOrdered ==
  ASSUME NEW s \in Seq(Message), NEW m \in Message, NEW l \in Nat, NEW h \in Nat,
         Rising(s, l, h), l < m.id, m.id <= h, \A i \in 1 .. Len(s) : s[i].id < m.id
  PROVE  /\ Rising(Append(s, m), l, h)
         /\ \A t \in Seq(Message) : Ahead(s, t) /\ (\A j \in 1 .. Len(t) : m.id < t[j].id) =>
              Ahead(Append(s, m), t)
         /\ \A t \in Seq(Message) : Ahead(t, s) /\ (\A j \in 1 .. Len(t) : t[j].id < m.id) =>
              Ahead(t, Append(s, m))
<1>1. /\ Len(Append(s, m)) = Len(s) + 1 /\ Len(s) \in Nat
      /\ Append(s, m)[Len(s) + 1] = m
      /\ \A i \in 1 .. Len(s) : Append(s, m)[i] = s[i]
  BY AppendFacts
<1>2. \A i \in 1 .. Len(Append(s, m)) : i \in 1 .. Len(s) \/ i = Len(s) + 1
  BY <1>1
<1>3. Rising(Append(s, m), l, h)
  BY <1>1, <1>2 DEF Rising
<1> QED
  BY <1>1, <1>2, <1>3 DEF Ahead

\* Sending one more message keeps what was ordered ordered.
LEMMA RisingWider ==
  ASSUME NEW s \in Seq(Message), NEW l \in Nat, NEW h \in Nat, Rising(s, l, h)
  PROVE  Rising(s, l, h + 1) /\ \A i \in 1 .. Len(s) : s[i].id < h + 1
<1>1. \A i \in 1 .. Len(s) : s[i] \in Message
  OBVIOUS
<1>2. \A i \in 1 .. Len(s) : s[i].id \in Nat
  BY <1>1, LinkAssumption DEF Message
<1>3. \A i \in 1 .. Len(s) : s[i].id <= h
  BY DEF Rising
<1>4. \A i \in 1 .. Len(s) : s[i].id < h + 1 /\ s[i].id <= h + 1
  BY <1>2, <1>3
<1> QED
  BY <1>4 DEF Rising

LEMMA InitInductive == Init => Inductive
<1> SUFFICES ASSUME Init PROVE Inductive
  OBVIOUS
<1>1. channel \in BOOLEAN /\ seen \in BOOLEAN
  BY Zenon DEF Init
<1>2. TypeOK
  BY <1>1, LinkAssumption DEF Init, TypeOK
<1>3. Ordered
  BY DEF Init, Ordered, Rising, Ahead
<1> QED
  BY <1>2, <1>3 DEF Inductive

LEMMA StepInductive == Inductive /\ [Next]_vars => Inductive'
<1> SUFFICES ASSUME Inductive, [Next]_vars PROVE Inductive'
  OBVIOUS
<1>0. TypeOK /\ Ordered
  BY DEF Inductive
<1>t. /\ tasks \in Seq(Message) /\ requests \in Seq(Message) /\ answers \in Seq(Message)
      /\ last \in Nat /\ sent \in Nat /\ last \in 0 .. MaxMessages /\ sent \in 0 .. MaxMessages
  BY <1>0, LinkAssumption DEF TypeOK
<1>1. CASE UNCHANGED <<sent, tasks, requests, answers, last>> /\ TypeOK'
  BY <1>0, <1>1 DEF Inductive, Ordered
<1>2. ASSUME NEW z \in Size, MainSends(z) \/ SendMessage(z)
      PROVE  Inductive'
  <2> DEFINE m == [id |-> sent + 1, size |-> z]
  <2>1. /\ sent < MaxMessages /\ sent' = sent + 1
        /\ tasks' = Append(tasks, m)
        /\ UNCHANGED <<server, requests, answers, last, conn, channel, main>>
    BY <1>2 DEF MainSends, SendMessage, Write, clientVars
  <2>2. seen' \in BOOLEAN
    BY <1>0, <1>2, Zenon DEF MainSends, SendMessage, clientVars, TypeOK
  <2>3. m \in Message /\ m.id = sent + 1
    BY <1>t, <2>1, LinkAssumption DEF Message
  <2>4. TypeOK'
    <3>1. tasks' \in Seq(Message) /\ sent' \in 0 .. MaxMessages
      BY <2>1, <2>3, <1>t, AppendFacts, LinkAssumption
    <3>2. channel' \in BOOLEAN
      BY <1>0, <2>1, Zenon DEF TypeOK
    <3>3. /\ conn' \in {"connecting", "refused", "open", "closed"}
          /\ main' \in {"sleeping", "reading", "dead"}
          /\ server' \in {"up", "gone"}
          /\ requests' \in Seq(Message) /\ answers' \in Seq(Message)
          /\ last' \in 0 .. MaxMessages
      BY <1>0, <1>t, <2>1 DEF TypeOK
    <3> QED
      BY <2>2, <3>1, <3>2, <3>3 DEF TypeOK
  <2>5. /\ Rising(answers, last, sent + 1) /\ Rising(requests, last, sent + 1)
        /\ Rising(tasks, last, sent + 1)
    BY <1>0, <1>t, RisingWider DEF Ordered
  <2>6. /\ \A i \in 1 .. Len(answers) : answers[i].id < m.id
        /\ \A i \in 1 .. Len(requests) : requests[i].id < m.id
        /\ \A i \in 1 .. Len(tasks) : tasks[i].id < m.id
    BY <1>0, <1>t, <2>3, RisingWider DEF Ordered
  <2> HIDE DEF m
  <2>7. /\ Rising(Append(tasks, m), last, sent + 1)
        /\ Ahead(answers, Append(tasks, m)) /\ Ahead(requests, Append(tasks, m))
    <3>1. sent + 1 \in Nat /\ last < m.id /\ m.id <= sent + 1
      BY <1>0, <1>t, <2>3 DEF Ordered
    <3>2. Ahead(answers, tasks) /\ Ahead(requests, tasks)
      BY <1>0 DEF Ordered
    <3> QED
      BY <1>t, <2>3, <2>5, <2>6, <3>1, <3>2, AppendOrdered
  <2>8. Ordered'
    BY <1>0, <1>t, <2>1, <2>5, <2>7 DEF Ordered
  <2> QED
    BY <2>4, <2>8 DEF Inductive
<1>3. CASE RunTask
  <2> DEFINE m == Head(tasks)
  <2>1. /\ tasks # <<>> /\ tasks' = Tail(tasks)
        /\ requests' = Append(requests, m) \/ requests' = requests
        /\ UNCHANGED <<clientVars, server, sent, answers, last>>
    BY <1>3 DEF RunTask
  <2>2. m \in Message /\ Tail(tasks) \in Seq(Message)
    BY <1>t, <2>1, TailFacts
  <2>3. TypeOK'
    BY <1>0, <1>t, <2>1, <2>2, AppendFacts DEF TypeOK, clientVars
  <2>4. /\ Rising(Tail(tasks), last, sent) /\ last < m.id /\ m.id <= sent
        /\ Ahead(answers, Tail(tasks)) /\ Ahead(requests, Tail(tasks))
        /\ \A i \in 1 .. Len(answers) : answers[i].id < m.id
        /\ \A i \in 1 .. Len(requests) : requests[i].id < m.id
        /\ \A i \in 1 .. Len(Tail(tasks)) : m.id < Tail(tasks)[i].id
    BY <1>0, <1>t, <2>1, TailOrdered DEF Ordered
  <2>5. /\ Rising(Append(requests, m), last, sent)
        /\ Ahead(Append(requests, m), Tail(tasks))
        /\ Ahead(answers, Append(requests, m))
    <3> HIDE DEF m
    <3>1. Rising(requests, last, sent) /\ Ahead(requests, Tail(tasks)) /\ Ahead(answers, requests)
      BY <1>0, <2>4 DEF Ordered
    <3> QED
      BY <1>t, <2>2, <2>4, <3>1, AppendOrdered
  <2> HIDE DEF m
  <2>6. Ordered'
    BY <1>0, <2>1, <2>4, <2>5 DEF Ordered
  <2> QED
    BY <2>3, <2>6 DEF Inductive
<1>4. CASE Serve
  <2> DEFINE m == [id |-> Head(requests).id, size |-> Head(requests).size + AnswerPrefix]
  <2>1. /\ requests # <<>> /\ requests' = Tail(requests)
        /\ answers' = Append(answers, m) \/ answers' = answers
        /\ UNCHANGED <<clientVars, server, sent, tasks, last>>
    BY <1>4 DEF Serve
  <2>2. Head(requests) \in Message /\ Tail(requests) \in Seq(Message)
    BY <1>t, <2>1, TailFacts
  <2>3. m \in Message /\ m.id = Head(requests).id
    BY <2>2 DEF Message, AnswerPrefix
  <2>4. TypeOK'
    BY <1>0, <1>t, <2>1, <2>2, <2>3, AppendFacts DEF TypeOK, clientVars
  <2>5. /\ Rising(Tail(requests), last, sent) /\ last < m.id /\ m.id <= sent
        /\ Ahead(answers, Tail(requests)) /\ Ahead(Tail(requests), tasks)
        /\ \A i \in 1 .. Len(answers) : answers[i].id < m.id
        /\ \A i \in 1 .. Len(tasks) : m.id < tasks[i].id
        /\ \A i \in 1 .. Len(Tail(requests)) : m.id < Tail(requests)[i].id
    BY <1>0, <1>t, <2>1, <2>3, TailOrdered DEF Ordered
  <2>6. /\ Rising(Append(answers, m), last, sent)
        /\ Ahead(Append(answers, m), Tail(requests))
        /\ Ahead(Append(answers, m), tasks)
    <3> HIDE DEF m
    <3>1. Rising(answers, last, sent) /\ Ahead(answers, Tail(requests)) /\ Ahead(answers, tasks)
      BY <1>0, <2>5 DEF Ordered
    <3> QED
      BY <1>t, <2>2, <2>3, <2>5, <3>1, AppendOrdered
  <2> HIDE DEF m
  <2>7. Ordered'
    BY <1>0, <2>1, <2>5, <2>6 DEF Ordered
  <2> QED
    BY <2>4, <2>7 DEF Inductive
<1>5. CASE ServerExit
  <2>1. PICK n \in 0 .. Len(answers) : answers' = SubSeq(answers, 1, n)
    BY <1>5 DEF ServerExit
  <2>2. /\ requests' = <<>> /\ server' = "gone"
        /\ UNCHANGED <<clientVars, sent, tasks, last>>
    BY <1>5 DEF ServerExit
  <2>3. TypeOK'
    BY <1>0, <1>t, <2>1, <2>2, PrefixFacts DEF TypeOK, clientVars
  <2>4. Len(answers') = n /\ \A i \in 1 .. n : answers'[i] = answers[i] /\ i \in 1 .. Len(answers)
    BY <1>t, <2>1, PrefixFacts
  <2>5. Rising(answers', last, sent) /\ Ahead(answers', tasks)
    BY <1>0, <2>4 DEF Ordered, Rising, Ahead
  <2>6. Ordered'
    BY <1>0, <2>2, <2>5 DEF Ordered, Rising, Ahead
  <2> QED
    BY <2>3, <2>6 DEF Inductive
<1>6. CASE Receive
  <2>1. /\ answers # <<>> /\ answers' = Tail(answers)
        /\ last' = Head(answers).id \/ last' = last
        /\ UNCHANGED <<clientVars, server, sent, tasks, requests>>
    BY <1>6 DEF Receive
  <2>2. Head(answers) \in Message /\ Tail(answers) \in Seq(Message)
    BY <1>t, <2>1, TailFacts
  <2>3. TypeOK'
    BY <1>0, <1>t, <2>1, <2>2 DEF TypeOK, clientVars, Message
  <2>4. /\ Rising(Tail(answers), last, sent) /\ Rising(Tail(answers), Head(answers).id, sent)
        /\ last < Head(answers).id /\ Head(answers).id <= sent
        /\ Ahead(Tail(answers), requests) /\ Ahead(Tail(answers), tasks)
        /\ \A i \in 1 .. Len(requests) : Head(answers).id < requests[i].id
        /\ \A i \in 1 .. Len(tasks) : Head(answers).id < tasks[i].id
    BY <1>0, <1>t, <2>1, TailOrdered DEF Ordered
  <2>5. Rising(requests, Head(answers).id, sent) /\ Rising(tasks, Head(answers).id, sent)
    BY <1>0, <2>4 DEF Ordered, Rising
  <2>6. Ordered'
    BY <1>0, <2>1, <2>4, <2>5 DEF Ordered
  <2> QED
    BY <2>3, <2>6 DEF Inductive
<1>7. CASE UNCHANGED vars
  BY <1>0, <1>1, <1>7 DEF vars, clientVars, TypeOK
<1>8. CASE ConnectSucceeds \/ ConnectFails \/ SetChannel \/ WakeUp \/ MainFails \/ Closed
  <2>1. UNCHANGED <<server, sent, tasks, requests, answers, last>>
    BY <1>8 DEF ConnectSucceeds, ConnectFails, SetChannel, WakeUp, MainFails, Closed
  <2>2. channel' \in BOOLEAN /\ seen' \in BOOLEAN
    BY <1>0, <1>8, Zenon
    DEF TypeOK, ConnectSucceeds, ConnectFails, SetChannel, WakeUp, MainFails, Closed
  <2>3. /\ conn' \in {"connecting", "refused", "open", "closed"}
        /\ main' \in {"sleeping", "reading", "dead"}
    BY <1>0, <1>8
    DEF TypeOK, ConnectSucceeds, ConnectFails, SetChannel, WakeUp, MainFails, Closed
  <2>4. TypeOK'
    BY <1>0, <2>1, <2>2, <2>3 DEF TypeOK
  <2> QED
    BY <1>1, <2>1, <2>4
<1> QED
  BY <1>2, <1>3, <1>4, <1>5, <1>6, <1>7, <1>8 DEF Next, ClientNext

THEOREM Invariance == SafetySpec => []Inductive
  BY InitInductive, StepInductive, PTL DEF SafetySpec

-----------------------------------------------------------------------------
\* Every variable of the link keeps its type.
THEOREM TypeCorrect == SafetySpec => []TypeOK
<1>1. Inductive => TypeOK
  BY DEF Inductive
<1> QED
  BY <1>1, Invariance, PTL

-----------------------------------------------------------------------------
\* Nothing that is on its way overtakes (tasks of the client's event loop,
\* requests and answers in the streams): seen as one queue they are in the order
\* of sending, behind what was answered.
LEMMA OneQueue ==
  ASSUME NEW s \in Seq(Message), NEW t \in Seq(Message), NEW l \in Nat, NEW h \in Nat,
         Rising(s, l, h), Rising(t, l, h), Ahead(s, t)
  PROVE  s \o t \in Seq(Message) /\ Rising(s \o t, l, h)
<1>1. /\ s \o t \in Seq(Message)
      /\ Len(s \o t) = Len(s) + Len(t) /\ Len(s) \in Nat /\ Len(t) \in Nat
      /\ \A i \in 1 .. Len(s) : (s \o t)[i] = s[i]
      /\ \A i \in 1 .. Len(t) : (s \o t)[Len(s) + i] = t[i]
  OBVIOUS
<1>2. \A i \in 1 .. Len(s \o t) :
        \/ i \in 1 .. Len(s) /\ (s \o t)[i] = s[i]
        \/ i > Len(s) /\ i - Len(s) \in 1 .. Len(t) /\ (s \o t)[i] = t[i - Len(s)]
  <2> SUFFICES ASSUME NEW i \in 1 .. Len(s \o t), i \notin 1 .. Len(s)
               PROVE  i > Len(s) /\ i - Len(s) \in 1 .. Len(t) /\ (s \o t)[i] = t[i - Len(s)]
    BY <1>1
  <2>1. i > Len(s) /\ i - Len(s) \in 1 .. Len(t) /\ Len(s) + (i - Len(s)) = i
    BY <1>1
  <2> QED
    BY <1>1, <2>1
<1>3. \A i \in 1 .. Len(s \o t) : l < (s \o t)[i].id /\ (s \o t)[i].id <= h
  BY <1>2 DEF Rising
<1>4. ASSUME NEW i \in 1 .. Len(s \o t), NEW j \in 1 .. Len(s \o t), i < j
      PROVE  (s \o t)[i].id < (s \o t)[j].id
  <2>1. CASE j \in 1 .. Len(s)
    <3>1. i \in 1 .. Len(s)
      BY <1>1, <1>4, <2>1
    <3> QED
      BY <1>1, <1>4, <2>1, <3>1 DEF Rising
  <2>2. CASE j \notin 1 .. Len(s) /\ i \in 1 .. Len(s)
    BY <1>2, <1>1, <2>2 DEF Ahead
  <2>3. CASE j \notin 1 .. Len(s) /\ i \notin 1 .. Len(s)
    <3>1. i - Len(s) < j - Len(s)
      BY <1>1, <1>4
    <3> QED
      BY <1>2, <2>3, <3>1 DEF Rising
  <2> QED
    BY <2>1, <2>2, <2>3
<1> QED
  BY <1>1, <1>3, <1>4 DEF Rising

\* What is nearer to its answer was sent earlier, and nothing answered is still on
\* its way, however many messages there are and whatever their sizes.
THEOREM NothingOvertakes == SafetySpec => []InOrder
<1>1. ASSUME Inductive PROVE InOrder
  <2>1. TypeOK /\ Ordered
    BY <1>1 DEF Inductive
  <2>2. /\ tasks \in Seq(Message) /\ requests \in Seq(Message) /\ answers \in Seq(Message)
        /\ last \in Nat /\ sent \in Nat
    BY <2>1, LinkAssumption DEF TypeOK
  <2> DEFINE front == answers \o requests
  <2>3. front \in Seq(Message) /\ Rising(front, last, sent)
    BY <2>1, <2>2, OneQueue DEF Ordered
  <2>4. Ahead(front, tasks)
    <3>1. \A i \in 1 .. Len(front) :
            \/ i \in 1 .. Len(answers) /\ front[i] = answers[i]
            \/ i - Len(answers) \in 1 .. Len(requests)
               /\ front[i] = requests[i - Len(answers)]
      <4> SUFFICES ASSUME NEW i \in 1 .. Len(front), i \notin 1 .. Len(answers)
                   PROVE  /\ i - Len(answers) \in 1 .. Len(requests)
                          /\ front[i] = requests[i - Len(answers)]
        BY <2>2
      <4> QED
        BY <2>2
    <3> QED
      BY <2>1, <3>1 DEF Ordered, Ahead
  <2>5. Rising(front \o tasks, last, sent)
    <3> HIDE DEF front
    <3> QED
      BY <2>1, <2>2, <2>3, <2>4, OneQueue DEF Ordered
  <2> QED
    BY <2>5 DEF InOrder, OnTheWay, Rising
<1> QED
  BY <1>1, Invariance, PTL

-----------------------------------------------------------------------------
\* Answers come in order, once at most, only to what was sent, and not after the
\* end of the connection: for any sizes of messages, those included that one of
\* the codecs rejects, whenever the server ends.
THEOREM Refinement == SafetySpec => Echo!Spec
<1>1. Init => Echo!Init
  BY Zenon DEF Init, Echo!Init
<1>2. Inductive /\ [Next]_vars => [Echo!Next]_(Echo!echoVars)
  <2> SUFFICES ASSUME Inductive, [Next]_vars
               PROVE  Echo!Next \/ UNCHANGED Echo!echoVars
    OBVIOUS
  <2>1. TypeOK /\ Ordered
    BY DEF Inductive
  <2>2. /\ tasks \in Seq(Message) /\ requests \in Seq(Message) /\ answers \in Seq(Message)
        /\ last \in Nat /\ sent \in Nat
    BY <2>1, LinkAssumption DEF TypeOK
  <2>3. ASSUME NEW z \in Size, MainSends(z) \/ SendMessage(z)
        PROVE  Echo!Next
    <3>1. sent' = sent + 1 /\ last' = last /\ conn' = conn
      BY <2>3 DEF MainSends, SendMessage, Write, clientVars
    <3> QED
      BY <3>1 DEF Echo!Next, Echo!Ask
  <2>4. CASE Receive
    <3>1. /\ answers # <<>> /\ conn = "open" /\ conn' = conn /\ sent' = sent
          /\ last' = Head(answers).id \/ last' = last
      BY <2>4 DEF Receive, clientVars
    <3>2. last < Head(answers).id /\ Head(answers).id <= sent
      BY <2>1, <2>2, <3>1, TailOrdered DEF Ordered
    <3>3. Head(answers).id \in 1 .. sent
      <4>1. Head(answers) \in Message
        BY <2>2, <3>1, TailFacts
      <4>2. Head(answers).id \in 1 .. MaxMessages
        BY <4>1 DEF Message
      <4> QED
        BY <2>2, <3>2, <4>2, LinkAssumption
    <3>4. CASE last' = Head(answers).id
      BY <3>1, <3>2, <3>3, <3>4 DEF Echo!Next, Echo!Answer
    <3>5. CASE last' = last
      BY <3>1, <3>5 DEF Echo!echoVars
    <3> QED
      BY <3>1, <3>4, <3>5
  <2>5. CASE Closed
    BY <2>5 DEF Closed, Echo!Next, Echo!End
  <2>6. CASE ConnectSucceeds \/ ConnectFails
    BY <2>6 DEF ConnectSucceeds, ConnectFails, Echo!echoVars
  <2>7. CASE SetChannel \/ WakeUp \/ MainFails \/ RunTask \/ Serve \/ ServerExit
    <3>1. sent' = sent /\ last' = last /\ conn' = conn
      BY <2>7 DEF SetChannel, WakeUp, MainFails, RunTask, Serve, ServerExit, clientVars
    <3> QED
      BY <3>1 DEF Echo!echoVars
  <2>8. CASE UNCHANGED vars
    BY <2>8 DEF vars, clientVars, Echo!echoVars
  <2> QED
    BY <2>3, <2>4, <2>5, <2>6, <2>7, <2>8 DEF Next, ClientNext
<1> QED
  BY <1>1, <1>2, Invariance, PTL DEF SafetySpec, Echo!Spec
=============================================================================
