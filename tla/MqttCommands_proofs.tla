--------------------------- MODULE MqttCommands_proofs ---------------------------
(***************************************************************************)
(* Proofs of the safety properties of MqttCommands and of its refinement   *)
(* of LossyLine, for every number of commands and of failures.             *)
(***************************************************************************)
EXTENDS MqttCommands, Integers, TLAPS

USE DebugAssumption, BoundsAssumption

-----------------------------------------------------------------------------
(* The invariant. *)

\* The commands whose publication was tried.
Tried == IF pc \in {"test", "publish"} THEN Len(asked) - 1 ELSE Len(asked)

\* A handler at work has a command, and only tried ones are answered.
TriedInv ==
    /\ pc \in {"test", "publish", "answer"} => asked # <<>>
    /\ answered <= Tried /\ shown <= Tried
    /\ lost \subseteq 1 .. Tried /\ shown \notin lost

IsCommand(m) == m.topic = "watchman_command_json"

\* A queue has its commands in their order, with their own texts, and none
\* of those that are done with.
GoodQueue(q) ==
    /\ \A i, j \in DOMAIN q :
         i < j /\ IsCommand(q[i]) /\ IsCommand(q[j]) => q[i].number < q[j].number
    /\ \A i \in DOMAIN q : IsCommand(q[i]) =>
         /\ q[i].number > shown /\ q[i].number <= Tried /\ q[i].number \notin lost
         /\ q[i].start = (asked[q[i].number] = "StartMulticastStreaming")

\* What the broker has is older than what the library has.
QueuesInv ==
    /\ GoodQueue(out) /\ GoodQueue(broker)
    /\ \A i \in DOMAIN broker : IsCommand(broker[i])
    /\ \A i \in DOMAIN broker, j \in DOMAIN out :
         IsCommand(out[j]) => broker[i].number < out[j].number

\* Every tried command is somewhere.
TriedAccounted == \A n \in 1 .. Tried : n \in OnTheWay \/ n \in lost \/ n <= shown

IInv == TypeOK /\ TriedInv /\ QueuesInv /\ TriedAccounted /\ DoesAsTold

-----------------------------------------------------------------------------
(* Queues. *)

\* A command is in a queue if a message of the queue has its number.
LEMMA InQueueDef ==
    ASSUME NEW q, NEW n
    PROVE  n \in InQueue(q) <=> \E i \in DOMAIN q : IsCommand(q[i]) /\ q[i].number = n
BY DEF InQueue, IsCommand

\* What a message at the end of a queue adds to its commands.
LEMMA InQueueAppend ==
    ASSUME NEW q \in Queues, NEW m \in Messages
    PROVE  InQueue(Append(q, m)) =
             InQueue(q) \cup (IF IsCommand(m) THEN {m.number} ELSE {})
<1> DEFINE a == Append(q, m)
<1>1. /\ DOMAIN a = 1 .. Len(q) + 1 /\ DOMAIN q = 1 .. Len(q) /\ Len(q) \in Nat
      /\ a[Len(q) + 1] = m
      /\ \A i \in DOMAIN q : a[i] = q[i]
  BY DEF Queues
<1>2. ASSUME NEW n \in InQueue(a)
      PROVE  n \in InQueue(q) \cup (IF IsCommand(m) THEN {m.number} ELSE {})
  <2>1. PICK i \in DOMAIN a : IsCommand(a[i]) /\ a[i].number = n
    BY <1>2, InQueueDef
  <2> QED BY <2>1, <1>1, InQueueDef
<1>3. ASSUME NEW n \in InQueue(q) PROVE n \in InQueue(a)
  <2>1. PICK i \in DOMAIN q : IsCommand(q[i]) /\ q[i].number = n
    BY <1>3, InQueueDef
  <2>2. i \in DOMAIN a /\ a[i] = q[i]
    BY <1>1
  <2> QED BY <2>1, <2>2, InQueueDef
<1>4. IsCommand(m) => m.number \in InQueue(a)
  <2>1. Len(q) + 1 \in DOMAIN a /\ a[Len(q) + 1] = m
    BY <1>1
  <2> QED BY <2>1, InQueueDef
<1> QED BY <1>2, <1>3, <1>4

\* What the rest of a queue has.
LEMMA InQueueTail ==
    ASSUME NEW q \in Queues, q # <<>>
    PROVE  InQueue(q) =
             InQueue(Tail(q)) \cup (IF IsCommand(Head(q)) THEN {Head(q).number} ELSE {})
<1> DEFINE t == Tail(q)
<1>1. /\ DOMAIN t = 1 .. Len(q) - 1 /\ DOMAIN q = 1 .. Len(q) /\ Len(q) \in Nat \ {0}
      /\ Head(q) = q[1]
      /\ \A i \in DOMAIN t : t[i] = q[i + 1]
  BY DEF Queues
<1>2. ASSUME NEW n \in InQueue(q)
      PROVE  n \in InQueue(t) \cup (IF IsCommand(Head(q)) THEN {Head(q).number} ELSE {})
  <2>1. PICK i \in DOMAIN q : IsCommand(q[i]) /\ q[i].number = n
    BY <1>2, InQueueDef
  <2>2. CASE i = 1
    BY <2>1, <2>2, <1>1
  <2>3. CASE i # 1
    <3>1. i - 1 \in DOMAIN t /\ t[i - 1] = q[i]
      BY <2>3, <1>1
    <3> QED BY <3>1, <2>1, InQueueDef
  <2> QED BY <2>2, <2>3
<1>3. ASSUME NEW n \in InQueue(t) PROVE n \in InQueue(q)
  <2>1. PICK i \in DOMAIN t : IsCommand(t[i]) /\ t[i].number = n
    BY <1>3, InQueueDef
  <2>2. i + 1 \in DOMAIN q /\ q[i + 1] = t[i]
    BY <1>1
  <2> QED BY <2>1, <2>2, InQueueDef
<1>4. IsCommand(Head(q)) => Head(q).number \in InQueue(q)
  <2>1. 1 \in DOMAIN q
    BY <1>1
  <2> QED BY <2>1, <1>1, InQueueDef
<1> QED BY <1>2, <1>3, <1>4

\* An empty queue has nothing.
LEMMA InQueueEmpty == InQueue(<<>>) = {}
BY InQueueDef

\* The numbers in a queue of messages are those of commands.
LEMMA InQueueType == ASSUME NEW q \in Queues PROVE InQueue(q) \subseteq Nat \ {0}
<1> SUFFICES ASSUME NEW n \in InQueue(q) PROVE n \in Nat \ {0}
  OBVIOUS
<1>1. PICK i \in DOMAIN q : IsCommand(q[i]) /\ q[i].number = n
  BY InQueueDef
<1>2. q[i] \in Messages
  BY DEF Queues
<1> QED BY <1>1, <1>2 DEF Messages

\* The rest of a queue is as good, and so is a queue with one more command
\* that is newer than all.
LEMMA GoodTail ==
    ASSUME NEW q \in Queues, q # <<>>, GoodQueue(q)
    PROVE  /\ Tail(q) \in Queues /\ Head(q) \in Messages
           /\ GoodQueue(Tail(q))
           /\ IsCommand(Head(q)) => \A n \in InQueue(Tail(q)) : n > Head(q).number
<1> DEFINE t == Tail(q)
<1>1. /\ DOMAIN t = 1 .. Len(q) - 1 /\ DOMAIN q = 1 .. Len(q) /\ Len(q) \in Nat \ {0}
      /\ Head(q) = q[1] /\ t \in Queues /\ q[1] \in Messages
      /\ \A i \in DOMAIN t : i + 1 \in DOMAIN q /\ t[i] = q[i + 1]
  BY DEF Queues
<1>2. GoodQueue(t)
  <2>1. ASSUME NEW i \in DOMAIN t, NEW j \in DOMAIN t,
               i < j, IsCommand(t[i]), IsCommand(t[j])
        PROVE  t[i].number < t[j].number
    <3>1. i + 1 < j + 1
      BY <2>1, <1>1
    <3> QED BY <3>1, <2>1, <1>1 DEF GoodQueue
  <2>2. ASSUME NEW i \in DOMAIN t, IsCommand(t[i])
        PROVE  /\ t[i].number > shown /\ t[i].number <= Tried /\ t[i].number \notin lost
               /\ t[i].start = (asked[t[i].number] = "StartMulticastStreaming")
    <3>1. i + 1 \in DOMAIN q /\ t[i] = q[i + 1]
      BY <1>1
    <3> QED BY <3>1, <2>2, Zenon DEF GoodQueue
  <2> QED BY <2>1, <2>2 DEF GoodQueue
<1>3. ASSUME IsCommand(Head(q)), NEW n \in InQueue(t)
      PROVE  n > Head(q).number
  <2>1. PICK i \in DOMAIN t : IsCommand(t[i]) /\ t[i].number = n
    BY InQueueDef
  <2>2. 1 < i + 1 /\ 1 \in DOMAIN q /\ i + 1 \in DOMAIN q
    BY <1>1
  <2>3. q[1].number < q[i + 1].number
    BY <2>1, <2>2, <1>1, <1>3 DEF GoodQueue
  <2>4. q[1].number \in Nat /\ q[i + 1].number \in Nat
    <3>1. q[1] \in Messages /\ q[i + 1] \in Messages
      BY <2>2 DEF Queues
    <3> QED BY <3>1 DEF Messages
  <2> QED BY <2>1, <2>3, <2>4, <1>1
<1> QED BY <1>1, <1>2, <1>3

\* What is in the queues of the library and the broker.
LEMMA OnTheWayFacts ==
    ASSUME IInv
    PROVE  /\ out \in Queues /\ broker \in Queues
           /\ Tried \in Int /\ shown \in Nat /\ Len(asked) \in Nat
           /\ \A n \in OnTheWay : n \in Nat \ {0} /\ n > shown /\ n <= Tried /\ n \notin lost
           /\ \A n \in InQueue(broker), m \in InQueue(out) : n < m
<1>1. out \in Queues /\ broker \in Queues /\ shown \in Nat /\ Len(asked) \in Nat
  BY DEF IInv, TypeOK
<1>2. Tried \in Int
  BY <1>1 DEF Tried
<1>3. ASSUME NEW q \in {out, broker}, NEW n \in InQueue(q)
      PROVE  n \in Nat \ {0} /\ n > shown /\ n <= Tried /\ n \notin lost
  <2>1. PICK i \in DOMAIN q : IsCommand(q[i]) /\ q[i].number = n
    BY InQueueDef
  <2>2. GoodQueue(q)
    BY DEF IInv, QueuesInv
  <2>3. n > shown /\ n <= Tried /\ n \notin lost
    BY <2>1, <2>2 DEF GoodQueue
  <2> QED BY <2>3, <1>1, InQueueType
<1>4. ASSUME NEW n \in InQueue(broker), NEW m \in InQueue(out) PROVE n < m
  <2>1. PICK i \in DOMAIN broker : IsCommand(broker[i]) /\ broker[i].number = n
    BY InQueueDef
  <2>2. PICK j \in DOMAIN out : IsCommand(out[j]) /\ out[j].number = m
    BY InQueueDef
  <2> QED BY <2>1, <2>2 DEF IInv, QueuesInv
<1> QED BY <1>1, <1>2, <1>3, <1>4 DEF OnTheWay

\* A step that leaves the queues and what is known of their commands.
LEMMA QueuesKept ==
    ASSUME IInv, UNCHANGED <<out, broker, shown>>,
           Tried' \in Int, Tried' >= Tried,
           lost' \cap OnTheWay = {},
           \A n \in 1 .. Tried : asked'[n] = asked[n]
    PROVE  QueuesInv'
<1>1. ASSUME NEW q \in {out, broker}, NEW i \in DOMAIN q, IsCommand(q[i])
      PROVE  /\ q[i].number > shown /\ q[i].number <= Tried' /\ q[i].number \notin lost'
             /\ q[i].start = (asked'[q[i].number] = "StartMulticastStreaming")
  <2>1. q[i].number \in OnTheWay
    BY <1>1, InQueueDef DEF OnTheWay
  <2>2. /\ q[i].number \in Nat \ {0} /\ q[i].number > shown /\ q[i].number <= Tried
        /\ Tried \in Int
    BY <2>1, OnTheWayFacts
  <2>3. asked'[q[i].number] = asked[q[i].number]
    BY <2>2
  <2>4. q[i].start = (asked[q[i].number] = "StartMulticastStreaming")
    BY <1>1, Zenon DEF IInv, QueuesInv, GoodQueue
  <2>5. q[i].start = (asked'[q[i].number] = "StartMulticastStreaming")
    BY <2>3, <2>4, Zenon
  <2> QED BY <2>1, <2>2, <2>5
<1>2. ASSUME NEW q \in {out, broker}
      PROVE  \A i, j \in DOMAIN q :
               i < j /\ IsCommand(q[i]) /\ IsCommand(q[j]) => q[i].number < q[j].number
  BY DEF IInv, QueuesInv, GoodQueue
<1>3. GoodQueue(out)'
  BY <1>1, <1>2, Zenon DEF GoodQueue
<1>4. GoodQueue(broker)'
  BY <1>1, <1>2, Zenon DEF GoodQueue
<1> QED BY <1>3, <1>4 DEF QueuesInv, IInv

-----------------------------------------------------------------------------
(* Init and the steps. *)

LEMMA InitIInv == Init => IInv
<1> SUFFICES ASSUME Init PROVE IInv
  OBVIOUS
<1>1. TypeOK
  <2>1. out \in Queues /\ broker \in Queues /\ asked \in Seq(Commands)
    BY DEF Init, Queues
  <2>2. link \in BOOLEAN /\ multicast \in BOOLEAN
    BY Zenon DEF Init
  <2>3. failures \in 0 .. MaxFailures /\ answered \in Nat /\ shown \in Nat /\ lost \subseteq Nat
    BY DEF Init
  <2>4. /\ pc \in {"down", "idle", "test", "publish", "answer"}
        /\ mosq \in {"none", "new", "looping"}
    BY Zenon DEF Init
  <2> QED BY <2>1, <2>2, <2>3, <2>4, Zenon DEF TypeOK
<1>2. TriedInv /\ QueuesInv /\ DoesAsTold
  BY DEF Init, TriedInv, Tried, QueuesInv, GoodQueue, DoesAsTold
<1>3. TriedAccounted
  BY DEF Init, TriedAccounted, Tried
<1> QED BY <1>1, <1>2, <1>3 DEF IInv

\* A step that does nothing to the commands: the process starts, the handler
\* answers or the connection breaks.
LEMMA QuietStep ==
    ASSUME IInv, TypeOK', UNCHANGED <<out, broker, shown, asked, lost, multicast>>,
           Tried' = Tried, answered' <= Tried,
           pc' \in {"test", "publish", "answer"} => asked # <<>>
    PROVE  IInv'
<1>1. Tried \in Int /\ \A n \in OnTheWay : n \notin lost
  BY OnTheWayFacts
<1>2. QueuesInv'
  BY <1>1, QueuesKept
<1>3. TriedInv'
  BY DEF IInv, TriedInv
<1>4. OnTheWay' = OnTheWay
  BY DEF OnTheWay, InQueue
<1>5. TriedAccounted'
  BY <1>4 DEF IInv, TriedAccounted
<1>6. DoesAsTold'
  BY Zenon DEF IInv, DoesAsTold
<1> QED BY <1>2, <1>3, <1>5, <1>6 DEF IInv

LEMMA InitMqttCommsStep == ASSUME IInv, InitMqttComms PROVE IInv'
<1>1. TypeOK'
  <2>1. /\ pc' = "idle" /\ mosq' \in {"none", "looping"} /\ link' \in BOOLEAN
        /\ UNCHANGED <<asked, answered, out, broker, multicast, shown, failures, lost>>
    BY Zenon DEF InitMqttComms, brokerVars
  <2> QED BY <2>1, Zenon DEF IInv, TypeOK
<1>2. Tried' = Tried /\ answered' <= Tried
  BY DEF InitMqttComms, Tried, IInv, TriedInv
<1> QED BY <1>1, <1>2, QuietStep DEF InitMqttComms, brokerVars

LEMMA AnswerStep == ASSUME IInv, Answer PROVE IInv'
<1>1. TypeOK'
  <2>1. Len(asked) \in Nat
    BY DEF IInv, TypeOK
  <2>2. /\ pc' = "idle" /\ answered' \in Nat
        /\ UNCHANGED <<asked, mosq, link, out, broker, multicast, shown, failures, lost>>
    BY <2>1 DEF Answer, clientVars, brokerVars
  <2> QED BY <2>2, Zenon DEF IInv, TypeOK
<1>2. Tried' = Tried /\ answered' <= Tried
  BY DEF Answer, Tried, IInv, TypeOK
<1> QED BY <1>1, <1>2, QuietStep DEF Answer, clientVars, brokerVars

LEMMA DisconnectedStep == ASSUME IInv, Disconnected PROVE IInv'
<1>1. TypeOK'
  <2>1. failures' \in 0 .. MaxFailures
    BY DEF Disconnected, IInv, TypeOK
  <2>2. link' \in BOOLEAN
    BY Zenon DEF Disconnected
  <2>3. UNCHANGED <<pc, asked, answered, mosq, out, broker, multicast, shown, lost>>
    BY DEF Disconnected, handlerVars, brokerVars
  <2> QED BY <2>1, <2>2, <2>3, Zenon DEF IInv, TypeOK
<1>2. Tried' = Tried /\ answered' <= Tried
  BY DEF Disconnected, handlerVars, Tried, IInv, TriedInv
<1> QED BY <1>1, <1>2, QuietStep DEF Disconnected, handlerVars, brokerVars, IInv, TriedInv

\* A handler that begins gives a command that is not tried yet.
LEMMA ReceiveStep == ASSUME IInv, NEW c \in Commands, Receive(c) PROVE IInv'
<1>1. /\ asked \in Seq(Commands) /\ asked' = Append(asked, c) /\ pc = "idle"
      /\ pc' \in {"test", "publish"}
      /\ UNCHANGED <<answered, mosq, link, out, broker, multicast, shown, failures, lost>>
  BY DEF IInv, TypeOK, Receive, clientVars, brokerVars
<1>2. /\ asked' \in Seq(Commands) /\ Len(asked) \in Nat /\ Len(asked') = Len(asked) + 1
      /\ \A n \in 1 .. Len(asked) : asked'[n] = asked[n]
      /\ asked' # <<>>
  BY <1>1
<1>3. TypeOK'
  BY <1>1, <1>2, Zenon DEF IInv, TypeOK
<1>4. Tried = Len(asked) /\ Tried' = Tried
  BY <1>1, <1>2 DEF Tried
<1>5. TriedInv'
  BY <1>1, <1>2, <1>4 DEF IInv, TriedInv
<1>6. QueuesInv'
  <2>1. \A n \in OnTheWay : n \notin lost
    BY OnTheWayFacts
  <2> QED BY <2>1, <1>1, <1>2, <1>4, QueuesKept
<1>7. OnTheWay' = OnTheWay
  BY <1>1 DEF OnTheWay, InQueue
<1>8. TriedAccounted'
  BY <1>1, <1>4, <1>7 DEF IInv, TriedAccounted
<1>9. DoesAsTold'
  <2>1. shown # 0 => shown \in 1 .. Len(asked)
    BY <1>2 DEF IInv, DoesAsTold, TypeOK
  <2>2. shown # 0 => asked'[shown] = asked[shown]
    BY <2>1, <1>2
  <2>3. shown # 0 => /\ shown \notin lost
                     /\ multicast = (asked[shown] = "StartMulticastStreaming")
    BY Zenon DEF IInv, DoesAsTold
  <2>4. shown # 0 => multicast' = (asked'[shown'] = "StartMulticastStreaming")
    BY <2>2, <2>3, <1>1, Zenon
  <2>5. shown' # 0 => shown' <= Len(asked')
    BY <2>1, <1>1, <1>2
  <2> QED BY <2>3, <2>4, <2>5, <1>1, Zenon DEF DoesAsTold
<1> QED BY <1>3, <1>5, <1>6, <1>8, <1>9 DEF IInv

\* A message goes to the end of the library's queue.
LEMMA AppendOut ==
    ASSUME IInv, NEW m \in Messages, out' = Append(out, m),
           UNCHANGED <<broker, shown, asked, lost>>,
           Tried' \in Int, Tried' >= Tried,
           IsCommand(m) => /\ m.number > Tried /\ m.number <= Tried'
                           /\ m.start = (asked[m.number] = "StartMulticastStreaming")
    PROVE  /\ QueuesInv'
           /\ OnTheWay' = OnTheWay \cup (IF IsCommand(m) THEN {m.number} ELSE {})
<1> DEFINE L == Len(out)
<1>1. /\ L \in Nat /\ DOMAIN out' = 1 .. L + 1 /\ DOMAIN out = 1 .. L
      /\ out'[L + 1] = m
      /\ \A i \in DOMAIN out : out'[i] = out[i]
  BY OnTheWayFacts DEF Queues
<1> HIDE DEF L
<1>2. m.number \in Nat /\ Tried \in Int /\ shown \in Nat /\ shown <= Tried
  BY OnTheWayFacts DEF Messages, IInv, TriedInv
<1>3. ASSUME NEW i \in DOMAIN out', IsCommand(out'[i])
      PROVE  \/ i = L + 1 /\ out'[i] = m /\ IsCommand(m)
             \/ /\ i \in DOMAIN out /\ out'[i] = out[i] /\ IsCommand(out[i])
                /\ out[i].number \in OnTheWay
  <2>1. i = L + 1 \/ i \in DOMAIN out
    BY <1>1
  <2>2. CASE i = L + 1
    BY <2>2, <1>3, <1>1
  <2>3. CASE i \in DOMAIN out
    <3>1. out'[i] = out[i] /\ IsCommand(out[i])
      BY <2>3, <1>3, <1>1
    <3> QED BY <3>1, <2>3, InQueueDef DEF OnTheWay
  <2> QED BY <2>1, <2>2, <2>3
<1>4. m.number > Tried /\ IsCommand(m) => m.number \notin lost
  BY <1>2 DEF IInv, TriedInv
<1>5. ASSUME NEW i \in DOMAIN out', IsCommand(out'[i])
      PROVE  /\ out'[i].number > shown /\ out'[i].number <= Tried' /\ out'[i].number \notin lost
             /\ out'[i].start = (asked[out'[i].number] = "StartMulticastStreaming")
  <2>1. CASE i = L + 1 /\ out'[i] = m /\ IsCommand(m)
    <3>1. /\ m.number > Tried /\ m.number <= Tried'
          /\ m.start = (asked[m.number] = "StartMulticastStreaming")
      BY <2>1, Zenon
    <3>2. m.number > shown
      BY <3>1, <1>2
    <3> QED BY <3>1, <3>2, <1>4, <2>1, Zenon
  <2>2. CASE i \in DOMAIN out /\ out'[i] = out[i] /\ IsCommand(out[i])
             /\ out[i].number \in OnTheWay
    <3>1. out[i].start = (asked[out[i].number] = "StartMulticastStreaming")
      BY <2>2, Zenon DEF IInv, QueuesInv, GoodQueue
    <3>2. out[i].number > shown /\ out[i].number <= Tried' /\ out[i].number \notin lost
      BY <2>2, <1>2, OnTheWayFacts
    <3> QED BY <3>1, <3>2, <2>2, Zenon
  <2> QED BY <1>5, <1>3, <2>1, <2>2
<1>6. ASSUME NEW i \in DOMAIN out', NEW j \in DOMAIN out',
             i < j, IsCommand(out'[i]), IsCommand(out'[j])
      PROVE  out'[i].number < out'[j].number
  <2>1. i \in DOMAIN out /\ out'[i] = out[i] /\ out[i].number \in OnTheWay
    BY <1>6, <1>3, <1>1
  <2>2. CASE j = L + 1 /\ out'[j] = m /\ IsCommand(m)
    BY <2>1, <2>2, <1>2, OnTheWayFacts
  <2>3. CASE j \in DOMAIN out /\ out'[j] = out[j]
    BY <2>1, <2>3, <1>6 DEF IInv, QueuesInv, GoodQueue
  <2> QED BY <1>6, <1>3, <2>2, <2>3
<1>7. GoodQueue(out)'
  BY <1>5, <1>6, Zenon DEF GoodQueue
<1>8. GoodQueue(broker)'
  <2>1. \A i \in DOMAIN broker : IsCommand(broker[i]) => broker[i].number \in OnTheWay
    BY InQueueDef DEF OnTheWay
  <2>2. \A i \in DOMAIN broker : IsCommand(broker[i]) => broker[i].number <= Tried'
    BY <2>1, <1>2, OnTheWayFacts
  <2> QED BY <2>2, Zenon DEF GoodQueue, IInv, QueuesInv
<1>9. ASSUME NEW i \in DOMAIN broker, NEW j \in DOMAIN out', IsCommand(out'[j])
      PROVE  broker[i].number < out'[j].number
  <2>1. broker[i].number \in OnTheWay
    BY InQueueDef DEF OnTheWay, IInv, QueuesInv
  <2>2. CASE j = L + 1 /\ out'[j] = m /\ IsCommand(m)
    BY <2>1, <2>2, <1>2, OnTheWayFacts
  <2>3. CASE j \in DOMAIN out /\ out'[j] = out[j]
    BY <2>3, <1>9 DEF IInv, QueuesInv
  <2> QED BY <1>9, <1>3, <2>2, <2>3
<1>10. QueuesInv'
  BY <1>7, <1>8, <1>9 DEF QueuesInv, IInv
<1>11. OnTheWay' = OnTheWay \cup (IF IsCommand(m) THEN {m.number} ELSE {})
  <2>1. InQueue(Append(out, m)) = InQueue(out) \cup (IF IsCommand(m) THEN {m.number} ELSE {})
    BY OnTheWayFacts, InQueueAppend
  <2>2. InQueue(out)' = InQueue(Append(out, m)) /\ InQueue(broker)' = InQueue(broker)
    BY DEF InQueue
  <2> QED BY <2>1, <2>2 DEF OnTheWay
<1> QED BY <1>10, <1>11

LEMMA SendMqttMsgTestStep == ASSUME IInv, SendMqttMsgTest PROVE IInv'
<1> DEFINE m == [topic |-> "Test", number |-> Len(asked), start |-> Msg(asked[Len(asked)])]
<1>1. /\ pc = "test" /\ pc' = "publish" /\ out' = IF link THEN Append(out, m) ELSE out
      /\ UNCHANGED <<asked, answered, mosq, link, broker, multicast, shown, failures, lost>>
  BY DEF SendMqttMsgTest, Publish, brokerVars
<1>2. asked \in Seq(Commands) /\ asked # <<>> /\ Len(asked) \in Nat \ {0}
  BY <1>1 DEF IInv, TypeOK, TriedInv
<1>3. m \in Messages /\ ~IsCommand(m)
  <2>1. Msg(asked[Len(asked)]) \in BOOLEAN
    BY Zenon DEF Msg
  <2> QED BY <2>1, <1>2 DEF Messages, Topics, IsCommand
<1>4. Tried' = Tried /\ Tried \in Int
  BY <1>1, <1>2 DEF Tried
<1> HIDE DEF m
<1>5. TypeOK'
  <2>1. out' \in Queues
    BY <1>1, <1>3 DEF IInv, TypeOK, Queues
  <2> QED BY <2>1, <1>1, Zenon DEF IInv, TypeOK
<1>6. QueuesInv' /\ OnTheWay' = OnTheWay
  <2>1. CASE link
    <3>1. out' = Append(out, m) /\ UNCHANGED <<broker, shown, asked, lost>>
      BY <2>1, <1>1
    <3>2. Tried' \in Int /\ Tried' >= Tried
      BY <1>4
    <3> QED BY <3>1, <3>2, <1>3, AppendOut
  <2>2. CASE ~link
    <3>1. QueuesInv'
      BY <2>2, <1>1, <1>4, OnTheWayFacts, QueuesKept
    <3> QED BY <3>1, <2>2, <1>1 DEF OnTheWay, InQueue
  <2> QED BY <2>1, <2>2
<1>7. TriedInv'
  BY <1>1, <1>2, <1>4 DEF IInv, TriedInv
<1>8. TriedAccounted'
  BY <1>1, <1>4, <1>6 DEF IInv, TriedAccounted
<1>9. DoesAsTold'
  BY <1>1, Zenon DEF IInv, DoesAsTold
<1> QED BY <1>5, <1>6, <1>7, <1>8, <1>9 DEF IInv

\* The command is tried; without a connection it is lost at once.
LEMMA SendMqttMsgStep == ASSUME IInv, SendMqttMsg PROVE IInv'
<1> DEFINE m == [topic |-> "watchman_command_json", number |-> Len(asked),
                 start |-> Msg(asked[Len(asked)])]
<1>1. /\ pc = "publish" /\ pc' = "answer" /\ out' = IF link THEN Append(out, m) ELSE out
      /\ lost' = IF link THEN lost ELSE lost \cup {Len(asked)}
      /\ UNCHANGED <<asked, answered, mosq, link, broker, multicast, shown, failures>>
  BY DEF SendMqttMsg, Publish, brokerVars
<1>2. asked \in Seq(Commands) /\ asked # <<>> /\ Len(asked) \in Nat \ {0}
  BY <1>1 DEF IInv, TypeOK, TriedInv
<1>3. /\ m \in Messages /\ IsCommand(m) /\ m.number = Len(asked)
      /\ m.start = (asked[m.number] = "StartMulticastStreaming")
  <2>1. Msg(asked[Len(asked)]) \in BOOLEAN
    BY Zenon DEF Msg
  <2>2. m \in Messages /\ IsCommand(m) /\ m.number = Len(asked)
    BY <2>1, <1>2 DEF Messages, Topics, IsCommand
  <2>3. m.start = (asked[Len(asked)] = "StartMulticastStreaming")
    BY Zenon DEF Msg
  <2> QED BY <2>2, <2>3, Zenon
<1>4. Tried = Len(asked) - 1 /\ Tried' = Len(asked) /\ Tried \in Int
  BY <1>1, <1>2 DEF Tried
<1> HIDE DEF m
<1>5. TypeOK'
  <2>0. out \in Queues /\ lost \subseteq Nat /\ Append(out, m) \in Queues
    BY <1>3 DEF IInv, TypeOK, Queues
  <2>1. out' \in Queues /\ lost' \subseteq Nat
    BY <2>0, <1>1, <1>2
  <2> QED BY <2>1, <1>1, Zenon DEF IInv, TypeOK
<1>6. QueuesInv' /\ OnTheWay' = OnTheWay \cup (IF link THEN {Len(asked)} ELSE {})
  <2>1. CASE link
    <3>1. m.number > Tried /\ m.number <= Tried' /\ Tried' \in Int /\ Tried' >= Tried
      BY <1>2, <1>3, <1>4
    <3>2. IsCommand(m) => /\ m.number > Tried /\ m.number <= Tried'
                          /\ m.start = (asked[m.number] = "StartMulticastStreaming")
      BY <3>1, <1>3, Zenon
    <3>3. out' = Append(out, m) /\ UNCHANGED <<broker, shown, asked, lost>>
      BY <2>1, <1>1
    <3>4. QueuesInv' /\ OnTheWay' = OnTheWay \cup (IF IsCommand(m) THEN {m.number} ELSE {})
      BY <3>1, <3>2, <3>3, <1>3, AppendOut
    <3> QED BY <3>4, <2>1, <1>3
  <2>2. CASE ~link
    <3>1. lost' \cap OnTheWay = {}
      BY <2>2, <1>1, <1>2, <1>4, OnTheWayFacts
    <3>2. Tried' \in Int /\ Tried' >= Tried
      BY <1>2, <1>4
    <3>3. QueuesInv'
      BY <2>2, <1>1, <3>1, <3>2, QueuesKept
    <3> QED BY <3>3, <2>2, <1>1 DEF OnTheWay, InQueue
  <2> QED BY <2>1, <2>2
<1>7. TriedInv'
  <2>1. /\ answered \in Nat /\ shown \in Nat /\ answered <= Tried /\ shown <= Tried
        /\ lost \subseteq 1 .. Tried /\ shown \notin lost
    BY DEF IInv, TriedInv, TypeOK
  <2>2. lost' \subseteq 1 .. Tried' /\ shown \notin lost'
    <3>1. /\ 1 .. Tried \subseteq 1 .. Tried' /\ Len(asked) \in 1 .. Tried'
          /\ shown # Len(asked)
      BY <2>1, <1>2, <1>4
    <3>2. lost' \subseteq lost \cup {Len(asked)}
      BY <1>1, Zenon
    <3> HIDE <1>1, <1>4
    <3> QED BY <3>1, <3>2, <2>1
  <2>3. answered <= Tried' /\ shown <= Tried'
    BY <2>1, <1>2, <1>4
  <2> QED BY <2>2, <2>3, <1>1, <1>2 DEF TriedInv
<1>8. TriedAccounted'
  <2> SUFFICES ASSUME NEW n \in 1 .. Tried'
               PROVE  n \in OnTheWay' \/ n \in lost' \/ n <= shown'
    BY DEF TriedAccounted
  <2>1. CASE n = Len(asked)
    BY <2>1, <1>1, <1>6
  <2>2. CASE n \in 1 .. Tried
    BY <2>2, <1>1, <1>6 DEF IInv, TriedAccounted
  <2> QED BY <2>1, <2>2, <1>2, <1>4
<1>9. DoesAsTold'
  <2>1. shown # 0 => shown \notin lost'
    BY <1>1, <1>2, <1>4, <1>7, OnTheWayFacts DEF IInv, TriedInv
  <2> QED BY <2>1, <1>1, Zenon DEF IInv, DoesAsTold
<1> QED BY <1>5, <1>6, <1>7, <1>8, <1>9 DEF IInv

\* A queue whose commands stay as good as they are.
LEMMA GoodKept ==
    ASSUME IInv, NEW q \in {out, broker}, UNCHANGED <<shown, asked>>,
           Tried' \in Int, Tried' >= Tried,
           \A n \in InQueue(q) : n \notin lost'
    PROVE  /\ \A i, j \in DOMAIN q :
                i < j /\ IsCommand(q[i]) /\ IsCommand(q[j]) => q[i].number < q[j].number
           /\ \A i \in DOMAIN q : IsCommand(q[i]) =>
                /\ q[i].number > shown' /\ q[i].number <= Tried' /\ q[i].number \notin lost'
                /\ q[i].start = (asked'[q[i].number] = "StartMulticastStreaming")
<1>1. GoodQueue(q)
  BY DEF IInv, QueuesInv
<1>2. ASSUME NEW i \in DOMAIN q, IsCommand(q[i])
      PROVE  q[i].number <= Tried' /\ q[i].number \notin lost'
  <2>1. q[i].number \in InQueue(q)
    BY <1>2, InQueueDef
  <2>2. q[i].number \in Nat /\ q[i].number <= Tried /\ Tried \in Int
    BY <2>1, OnTheWayFacts DEF OnTheWay
  <2> QED BY <2>1, <2>2
<1> QED BY <1>1, <1>2, Zenon DEF GoodQueue

\* All that the library has queued is lost, and what is just being given.
LEMMA DropOut ==
    ASSUME IInv, out' = <<>>, UNCHANGED <<broker, shown, asked, multicast>>,
           Tried' \in Int, Tried' >= Tried,
           lost' = lost \cup InQueue(out) \cup (Tried + 1 .. Tried')
    PROVE  /\ QueuesInv' /\ TriedAccounted' /\ DoesAsTold'
           /\ lost' \subseteq 1 .. Tried' /\ shown \notin lost'
<1>1. /\ Tried \in Int /\ shown \in Nat /\ shown <= Tried
      /\ lost \subseteq 1 .. Tried /\ shown \notin lost
  BY OnTheWayFacts DEF IInv, TriedInv
<1>2. \A n \in InQueue(out) : n \in 1 .. Tried /\ n > shown
  BY <1>1, OnTheWayFacts DEF OnTheWay
<1>3. lost' \subseteq 1 .. Tried' /\ shown \notin lost'
  <2>1. 1 .. Tried \subseteq 1 .. Tried' /\ Tried + 1 .. Tried' \subseteq 1 .. Tried'
    BY <1>1
  <2>2. shown \notin InQueue(out) /\ shown \notin Tried + 1 .. Tried'
    BY <1>1, <1>2
  <2> QED BY <2>1, <2>2, <1>1, <1>2
<1>4. \A n \in InQueue(broker) : n \notin lost'
  <2> SUFFICES ASSUME NEW n \in InQueue(broker) PROVE n \notin lost'
    OBVIOUS
  <2>1. n \in Nat /\ n <= Tried /\ n \notin lost /\ \A m \in InQueue(out) : n < m
    BY OnTheWayFacts DEF OnTheWay
  <2>2. n \notin InQueue(out) /\ n \notin Tried + 1 .. Tried'
    BY <2>1, <1>1, <1>2
  <2> QED BY <2>1, <2>2
<1>5. GoodQueue(broker)'
  BY <1>4, GoodKept DEF GoodQueue
<1>6. QueuesInv'
  <2>1. GoodQueue(out)'
    BY DEF GoodQueue
  <2> QED BY <2>1, <1>5 DEF QueuesInv, IInv
<1>7. OnTheWay' = InQueue(broker)
  BY InQueueEmpty DEF OnTheWay, InQueue
<1>8. TriedAccounted'
  <2> SUFFICES ASSUME NEW n \in 1 .. Tried' PROVE n \in OnTheWay' \/ n \in lost' \/ n <= shown'
    BY DEF TriedAccounted
  <2>1. CASE n \in 1 .. Tried
    BY <2>1, <1>7 DEF IInv, TriedAccounted, OnTheWay
  <2>2. CASE n \in Tried + 1 .. Tried'
    BY <2>2
  <2> QED BY <2>1, <2>2, <1>1
<1>9. DoesAsTold'
  BY <1>3, Zenon DEF IInv, DoesAsTold
<1> QED BY <1>3, <1>6, <1>8, <1>9

LEMMA KilledStep == ASSUME IInv, Killed PROVE IInv'
<1>1. /\ pc' = "down" /\ mosq' = "none" /\ link' = FALSE /\ out' = <<>>
      /\ lost' = lost \cup InQueue(out)
                    \cup (IF pc \in {"test", "publish"} THEN {Len(asked)} ELSE {})
      /\ failures' = failures + 1 /\ failures < MaxFailures
      /\ UNCHANGED <<asked, answered, broker, multicast, shown>>
  BY DEF Killed, brokerVars
<1>2. /\ Len(asked) \in Nat /\ failures \in 0 .. MaxFailures /\ Tried' = Len(asked)
      /\ Tried \in Int /\ Tried' >= Tried
  BY <1>1 DEF IInv, TypeOK, Tried
<1>3. (IF pc \in {"test", "publish"} THEN {Len(asked)} ELSE {}) = Tried + 1 .. Tried'
  <2>1. CASE pc \in {"test", "publish"}
    <3>1. Tried = Len(asked) - 1
      BY <2>1 DEF Tried
    <3> QED BY <3>1, <2>1, <1>2
  <2>2. CASE pc \notin {"test", "publish"}
    <3>1. Tried = Len(asked)
      BY <2>2 DEF Tried
    <3> QED BY <3>1, <2>2, <1>2
  <2> QED BY <2>1, <2>2
<1>4. /\ QueuesInv' /\ TriedAccounted' /\ DoesAsTold'
      /\ lost' \subseteq 1 .. Tried' /\ shown \notin lost'
  <2>1. lost' = lost \cup InQueue(out) \cup (Tried + 1 .. Tried')
    BY <1>1, <1>3
  <2> QED BY <2>1, <1>1, <1>2, DropOut
<1>5. TriedInv'
  <2>1. answered <= Tried /\ shown <= Tried /\ answered \in Nat /\ shown \in Nat
    BY DEF IInv, TriedInv, TypeOK
  <2> QED BY <2>1, <1>1, <1>2, <1>4 DEF TriedInv
<1>6. TypeOK'
  <2>1. failures' \in 0 .. MaxFailures /\ lost' \subseteq Nat /\ <<>> \in Queues
    BY <1>1, <1>2, <1>4 DEF Queues
  <2> QED BY <2>1, <1>1, Zenon DEF IInv, TypeOK
<1> QED BY <1>4, <1>5, <1>6 DEF IInv

LEMMA ReconnectStep == ASSUME IInv, Reconnect PROVE IInv'
<1>1. /\ link' = TRUE /\ out' = <<>> /\ lost' = lost \cup InQueue(out)
      /\ UNCHANGED <<pc, asked, answered, mosq, broker, multicast, shown, failures>>
  BY DEF Reconnect, handlerVars, brokerVars
<1>2. Tried \in Int /\ Tried' = Tried
  BY <1>1, OnTheWayFacts DEF Tried
<1>3. /\ QueuesInv' /\ TriedAccounted' /\ DoesAsTold'
      /\ lost' \subseteq 1 .. Tried' /\ shown \notin lost'
  <2>1. Tried + 1 .. Tried' = {} /\ Tried' >= Tried /\ Tried' \in Int
    BY <1>2
  <2>2. lost' = lost \cup InQueue(out) \cup (Tried + 1 .. Tried')
    BY <2>1, <1>1
  <2> QED BY <2>1, <2>2, <1>1, DropOut
<1>4. TriedInv'
  BY <1>1, <1>2, <1>3 DEF IInv, TriedInv
<1>5. TypeOK'
  <2>1. lost' \subseteq Nat /\ <<>> \in Queues
    BY <1>2, <1>3 DEF Queues
  <2> QED BY <2>1, <1>1, Zenon DEF IInv, TypeOK
<1> QED BY <1>3, <1>4, <1>5 DEF IInv

\* All that the broker has is lost.
LEMMA BrokerForgetsStep == ASSUME IInv, BrokerForgets PROVE IInv'
<1>1. /\ broker' = <<>> /\ lost' = lost \cup InQueue(broker)
      /\ failures' = failures + 1 /\ failures < MaxFailures
      /\ UNCHANGED <<pc, asked, answered, mosq, link, out, multicast, shown>>
  BY DEF BrokerForgets, handlerVars, clientVars
<1>2. /\ Tried \in Int /\ Tried' = Tried /\ shown \in Nat /\ shown <= Tried
      /\ lost \subseteq 1 .. Tried /\ shown \notin lost
  BY <1>1, OnTheWayFacts DEF Tried, IInv, TriedInv
<1>3. \A n \in InQueue(broker) : n \in 1 .. Tried /\ n > shown
  BY <1>2, OnTheWayFacts DEF OnTheWay
<1>4. lost' \subseteq 1 .. Tried /\ shown \notin lost'
  <2>1. shown \notin InQueue(broker)
    BY <1>2, <1>3
  <2> QED BY <2>1, <1>1, <1>2, <1>3
<1>5. QueuesInv'
  <2>1. \A n \in InQueue(out) : n \notin lost'
    <3> SUFFICES ASSUME NEW n \in InQueue(out) PROVE n \notin lost'
      OBVIOUS
    <3>1. n \in Nat /\ n \notin lost /\ \A m \in InQueue(broker) : m < n
      BY OnTheWayFacts DEF OnTheWay
    <3>2. n \notin InQueue(broker)
      BY <3>1
    <3> QED BY <3>1, <3>2, <1>1
  <2>2. Tried' \in Int /\ Tried' >= Tried
    BY <1>2
  <2>3. GoodQueue(out)'
    BY <2>1, <2>2, <1>1, GoodKept DEF GoodQueue
  <2>4. GoodQueue(broker)' /\ DOMAIN broker' = {}
    BY <1>1 DEF GoodQueue
  <2> QED BY <2>3, <2>4 DEF QueuesInv
<1>6. OnTheWay' = InQueue(out)
  BY <1>1, InQueueEmpty DEF OnTheWay, InQueue
<1>7. TriedAccounted'
  BY <1>1, <1>2, <1>6 DEF IInv, TriedAccounted, OnTheWay
<1>8. TriedInv'
  BY <1>1, <1>2, <1>4 DEF IInv, TriedInv
<1>9. DoesAsTold'
  BY <1>1, <1>4, Zenon DEF IInv, DoesAsTold
<1>10. TypeOK'
  <2>1. lost' \subseteq Nat /\ <<>> \in Queues /\ failures' \in 0 .. MaxFailures
    BY <1>1, <1>2, <1>4 DEF Queues, IInv, TypeOK
  <2> QED BY <2>1, <1>1, Zenon DEF IInv, TypeOK
<1> QED BY <1>5, <1>7, <1>8, <1>9, <1>10 DEF IInv

\* The oldest message of the library goes to the broker, or to nobody.
LEMMA TransmitStep == ASSUME IInv, Transmit PROVE IInv'
<1> DEFINE h == Head(out)
<1> DEFINE L == Len(broker)
<1>1. /\ out # <<>> /\ out' = Tail(out)
      /\ broker' = IF IsCommand(h) THEN Append(broker, h) ELSE broker
      /\ UNCHANGED <<pc, asked, answered, mosq, link, multicast, shown, failures, lost>>
  BY DEF Transmit, handlerVars, IsCommand
<1>2. /\ out \in Queues /\ broker \in Queues /\ GoodQueue(out) /\ GoodQueue(broker)
      /\ Tried' = Tried
  BY <1>1, OnTheWayFacts DEF Tried, IInv, QueuesInv
<1>3. /\ Tail(out) \in Queues /\ h \in Messages /\ GoodQueue(Tail(out))
      /\ IsCommand(h) => \A n \in InQueue(Tail(out)) : n > h.number
  BY <1>1, <1>2, GoodTail
<1>4. /\ InQueue(out) = InQueue(Tail(out)) \cup (IF IsCommand(h) THEN {h.number} ELSE {})
      /\ InQueue(Append(broker, h)) =
           InQueue(broker) \cup (IF IsCommand(h) THEN {h.number} ELSE {})
  BY <1>1, <1>2, <1>3, InQueueTail, InQueueAppend
<1>5. OnTheWay' = OnTheWay
  <2>1. InQueue(out)' = InQueue(Tail(out))
    BY <1>1 DEF InQueue
  <2>2. CASE IsCommand(h)
    <3>1. InQueue(broker)' = InQueue(Append(broker, h))
      BY <2>2, <1>1 DEF InQueue
    <3> QED BY <3>1, <2>1, <2>2, <1>4 DEF OnTheWay
  <2>3. CASE ~IsCommand(h)
    <3>1. InQueue(broker)' = InQueue(broker)
      BY <2>3, <1>1 DEF InQueue
    <3> QED BY <3>1, <2>1, <2>3, <1>4 DEF OnTheWay
  <2> QED BY <2>2, <2>3
<1>6. GoodQueue(out)'
  BY <1>1, <1>2, <1>3, Zenon DEF GoodQueue
<1>7. /\ DOMAIN broker = 1 .. L /\ L \in Nat
      /\ \A i \in DOMAIN broker : IsCommand(broker[i]) /\ broker[i].number \in InQueue(broker)
  BY <1>2, InQueueDef DEF IInv, QueuesInv, Queues
<1>8. IsCommand(h) =>
        /\ DOMAIN broker' = 1 .. L + 1 /\ broker'[L + 1] = h
        /\ \A i \in DOMAIN broker : broker'[i] = broker[i]
        /\ h.number \in InQueue(out)
  BY <1>1, <1>2, <1>3, <1>4 DEF Queues
<1> HIDE DEF L
<1>9. \A i \in DOMAIN broker' : IsCommand(broker'[i])
  BY <1>1, <1>7, <1>8
<1>10. GoodQueue(broker)'
  <2>1. CASE ~IsCommand(h)
    BY <2>1, <1>1, <1>2, Zenon DEF GoodQueue
  <2>2. CASE IsCommand(h)
    <3>1. ASSUME NEW i \in DOMAIN broker', NEW j \in DOMAIN broker', i < j
          PROVE  broker'[i].number < broker'[j].number
      <4>1. i \in DOMAIN broker /\ broker'[i] = broker[i]
        BY <3>1, <2>2, <1>7, <1>8
      <4>2. CASE j \in DOMAIN broker
        BY <4>1, <4>2, <3>1, <2>2, <1>2, <1>7, <1>8 DEF GoodQueue
      <4>3. CASE j = L + 1
        <5>1. broker[i].number < h.number
          BY <4>1, <2>2, <1>7, <1>8, OnTheWayFacts
        <5> QED BY <5>1, <4>1, <4>3, <2>2, <1>8
      <4> QED BY <4>2, <4>3, <2>2, <1>7, <1>8
    <3>2. 1 \in DOMAIN out /\ h = out[1]
      BY <1>1, <1>2 DEF Queues
    <3>3. ASSUME NEW i \in DOMAIN broker'
          PROVE  /\ broker'[i].number > shown /\ broker'[i].number <= Tried
                 /\ broker'[i].number \notin lost
                 /\ broker'[i].start = (asked[broker'[i].number] = "StartMulticastStreaming")
      <4>1. CASE i \in DOMAIN broker
        <5>1. broker'[i] = broker[i] /\ IsCommand(broker[i])
          BY <4>1, <2>2, <1>7, <1>8
        <5> QED BY <5>1, <4>1, <1>2, Zenon DEF GoodQueue
      <4>2. CASE i = L + 1
        <5>1. broker'[i] = out[1] /\ IsCommand(out[1])
          BY <4>2, <3>2, <2>2, <1>8
        <5> QED BY <5>1, <3>2, <1>2, Zenon DEF GoodQueue
      <4> QED BY <4>1, <4>2, <2>2, <1>7, <1>8
    <3> QED BY <3>1, <3>3, <1>1, <1>2, Zenon DEF GoodQueue
  <2> QED BY <2>1, <2>2
<1>11. ASSUME NEW i \in DOMAIN broker', NEW j \in DOMAIN out', IsCommand(out'[j])
       PROVE  broker'[i].number < out'[j].number
  <2>1. out'[j].number \in InQueue(Tail(out))
    BY <1>1, <1>11, InQueueDef
  <2>2. out'[j].number \in InQueue(out)
    BY <2>1, <1>4
  <2>3. CASE i \in DOMAIN broker
    <3>1. broker'[i] = broker[i]
      BY <2>3, <1>1, <1>8
    <3> QED BY <3>1, <2>2, <2>3, <1>7, OnTheWayFacts
  <2>4. CASE i \notin DOMAIN broker
    <3>1. IsCommand(h) /\ i = L + 1
      BY <2>4, <1>1, <1>7, <1>8
    <3>2. h.number < out'[j].number
      <4>1. h.number \in Nat /\ out'[j].number \in Nat
        BY <2>1, <1>3, InQueueType DEF Messages
      <4> QED BY <4>1, <3>1, <2>1, <1>3
    <3> QED BY <3>1, <3>2, <1>8
  <2> QED BY <2>3, <2>4
<1>12. QueuesInv'
  BY <1>6, <1>9, <1>10, <1>11 DEF QueuesInv
<1>13. TriedInv' /\ TriedAccounted'
  BY <1>1, <1>2, <1>5 DEF IInv, TriedInv, TriedAccounted
<1>14. DoesAsTold'
  BY <1>1, Zenon DEF IInv, DoesAsTold
<1>15. TypeOK'
  <2>1. broker' \in Queues
    BY <1>1, <1>2, <1>3 DEF Queues
  <2> QED BY <2>1, <1>1, <1>3, Zenon DEF IInv, TypeOK
<1> QED BY <1>12, <1>13, <1>14, <1>15 DEF IInv

\* The oldest command arrives; every other one on the way is newer.
LEMMA DeliverStep == ASSUME IInv, Deliver PROVE IInv'
<1> DEFINE h == Head(broker)
<1>1. /\ broker # <<>> /\ broker' = Tail(broker) /\ multicast' = h.start
      /\ shown' = h.number
      /\ UNCHANGED <<pc, asked, answered, mosq, link, out, failures, lost>>
  BY DEF Deliver, handlerVars, clientVars
<1>2. /\ out \in Queues /\ broker \in Queues /\ GoodQueue(out) /\ GoodQueue(broker)
      /\ Tried' = Tried /\ Tried \in Int
  BY <1>1, OnTheWayFacts DEF Tried, IInv, QueuesInv
<1>3. 1 \in DOMAIN broker /\ h = broker[1] /\ IsCommand(h)
  BY <1>1, <1>2 DEF Queues, IInv, QueuesInv
<1>4. /\ Tail(broker) \in Queues /\ h \in Messages /\ GoodQueue(Tail(broker))
      /\ \A n \in InQueue(Tail(broker)) : n > h.number
  BY <1>1, <1>2, <1>3, GoodTail
<1>5. InQueue(broker) = InQueue(Tail(broker)) \cup {h.number}
  BY <1>1, <1>2, <1>3, InQueueTail
<1>6. /\ h.number \in Nat \ {0} /\ h.number > shown /\ h.number <= Tried /\ h.number \notin lost
      /\ \A n \in InQueue(out) : n > h.number
      /\ shown \in Nat
  BY <1>5, OnTheWayFacts DEF OnTheWay
<1>7. h.start = (asked[h.number] = "StartMulticastStreaming")
  BY <1>2, <1>3, Zenon DEF GoodQueue
<1>8. \A n \in InQueue(out)' \cup InQueue(broker)' : n > h.number
  BY <1>1, <1>4, <1>6 DEF InQueue
<1>9. ASSUME NEW q \in {out, Tail(broker)}, GoodQueue(q), NEW i \in DOMAIN q, IsCommand(q[i])
      PROVE  /\ q[i].number > h.number /\ q[i].number <= Tried /\ q[i].number \notin lost
             /\ q[i].start = (asked[q[i].number] = "StartMulticastStreaming")
  <2>1. q[i].number \in InQueue(q)
    BY <1>9, InQueueDef
  <2>2. q[i].number > h.number
    BY <2>1, <1>4, <1>6
  <2> QED BY <2>2, <1>9, Zenon DEF GoodQueue
<1>10. GoodQueue(out)'
  <2>1. \A i, j \in DOMAIN out :
          i < j /\ IsCommand(out[i]) /\ IsCommand(out[j]) => out[i].number < out[j].number
    BY <1>2 DEF GoodQueue
  <2> QED BY <2>1, <1>1, <1>2, <1>9, Zenon DEF GoodQueue
<1>11. GoodQueue(broker)'
  <2> DEFINE t == Tail(broker)
  <2>1. \A i, j \in DOMAIN t :
          i < j /\ IsCommand(t[i]) /\ IsCommand(t[j]) => t[i].number < t[j].number
    BY <1>4 DEF GoodQueue
  <2>2. \A i \in DOMAIN t : IsCommand(t[i]) =>
          /\ t[i].number > h.number /\ t[i].number <= Tried /\ t[i].number \notin lost
          /\ t[i].start = (asked[t[i].number] = "StartMulticastStreaming")
    BY <1>4, <1>9, Zenon
  <2> HIDE DEF t
  <2>3. broker' = t
    BY <1>1 DEF t
  <2> QED BY <2>1, <2>2, <2>3, <1>1, <1>2, Zenon DEF GoodQueue
<1>12. \A i \in DOMAIN broker' : i + 1 \in DOMAIN broker /\ broker'[i] = broker[i + 1]
  BY <1>1, <1>2 DEF Queues
<1>13. QueuesInv'
  BY <1>1, <1>10, <1>11, <1>12 DEF IInv, QueuesInv
<1>14. TriedInv'
  <2>1. shown' <= Tried /\ shown' \notin lost
    BY <1>1, <1>6
  <2> QED BY <2>1, <1>1, <1>2 DEF IInv, TriedInv
<1>15. TriedAccounted'
  <2> SUFFICES ASSUME NEW n \in 1 .. Tried PROVE n \in OnTheWay' \/ n \in lost \/ n <= h.number
    BY <1>1, <1>2 DEF TriedAccounted
  <2>1. n \in InQueue(out) \/ n \in InQueue(broker) \/ n \in lost \/ n <= shown
    BY DEF IInv, TriedAccounted, OnTheWay
  <2>2. CASE n \in InQueue(out)
    BY <2>2, <1>1 DEF OnTheWay, InQueue
  <2>3. CASE n \in InQueue(broker)
    <3>1. n \in InQueue(Tail(broker)) \/ n = h.number
      BY <2>3, <1>5
    <3>2. InQueue(broker)' = InQueue(Tail(broker))
      BY <1>1 DEF InQueue
    <3> QED BY <3>1, <3>2, <1>6 DEF OnTheWay
  <2>4. CASE n <= shown
    BY <2>4, <1>6
  <2> QED BY <2>1, <2>2, <2>3, <2>4
<1>16. DoesAsTold'
  <2>1. h.number <= Len(asked)
    BY <1>6, OnTheWayFacts DEF Tried
  <2> QED BY <2>1, <1>1, <1>6, <1>7, Zenon DEF DoesAsTold
<1>17. TypeOK'
  <2>1. multicast' \in BOOLEAN /\ shown' \in Nat
    BY <1>1, <1>4, <1>6 DEF Messages
  <2> QED BY <2>1, <1>1, <1>4, Zenon DEF IInv, TypeOK
<1> QED BY <1>13, <1>14, <1>15, <1>16, <1>17 DEF IInv

LEMMA Stutter == ASSUME IInv, UNCHANGED vars PROVE IInv'
<1>1. UNCHANGED <<pc, mosq, link, out, broker, multicast, failures, asked, answered, shown, lost>>
  BY DEF vars, handlerVars, clientVars, brokerVars
<1>2. Tried' = Tried /\ Tried \in Int
  BY <1>1, OnTheWayFacts DEF Tried
<1>3. TypeOK'
  BY <1>1, Zenon DEF IInv, TypeOK
<1> QED BY <1>1, <1>2, <1>3, QuietStep DEF IInv, TriedInv

\* The commands on the way are newer than what arrived, are not lost and
\* follow those of the client's texts: at all times.
LEMMA Invariance == Spec => []IInv
<1>1. IInv /\ [Next]_vars => IInv'
  <2> SUFFICES ASSUME IInv, [Next]_vars PROVE IInv'
    OBVIOUS
  <2>1. CASE InitMqttComms
    BY <2>1, InitMqttCommsStep
  <2>2. CASE StartMulticastStreaming \/ StopMulticastStreaming
    BY <2>2, ReceiveStep DEF StartMulticastStreaming, StopMulticastStreaming, Commands
  <2>3. CASE Handler
    BY <2>3, SendMqttMsgTestStep, SendMqttMsgStep, AnswerStep DEF Handler
  <2>4. CASE Killed \/ Disconnected \/ BrokerForgets
    BY <2>4, KilledStep, DisconnectedStep, BrokerForgetsStep
  <2>5. CASE Reconnect \/ Transmit \/ Deliver
    BY <2>5, ReconnectStep, TransmitStep, DeliverStep
  <2>6. CASE UNCHANGED vars
    BY <2>6, Stutter
  <2> QED BY <2>1, <2>2, <2>3, <2>4, <2>5, <2>6 DEF Next
<1> QED BY InitIInv, <1>1, PTL DEF Spec

-----------------------------------------------------------------------------
(* The properties. *)

\* The types of the variables.
THEOREM TypeCorrect == Spec => []TypeOK
<1>1. IInv => TypeOK
  BY DEF IInv
<1> QED BY <1>1, Invariance, PTL

\* A command that was answered with OK is on the way, arrived or lost.
THEOREM AccountedHolds == Spec => []Accounted
<1>1. IInv => Accounted
  <2> SUFFICES ASSUME IInv, NEW n \in 1 .. answered
               PROVE  n \in OnTheWay \/ n \in lost \/ n <= shown
    BY DEF Accounted
  <2>1. n \in 1 .. Tried
    BY OnTheWayFacts DEF IInv, TriedInv, TypeOK
  <2> QED BY <2>1 DEF IInv, TriedAccounted
<1> QED BY <1>1, Invariance, PTL

\* What is on the way is newer than what arrived.
THEOREM NeverStaleHolds == Spec => []NeverStale
<1>1. IInv => NeverStale
  BY OnTheWayFacts DEF NeverStale
<1> QED BY <1>1, Invariance, PTL

\* The multicast is as the last command that arrived says.
THEOREM DoesAsToldHolds == Spec => []DoesAsTold
<1>1. IInv => DoesAsTold
  BY DEF IInv
<1> QED BY <1>1, Invariance, PTL

\* With nothing on the way the last command decides, unless it was lost.
THEOREM LastWordCountsHolds == Spec => []LastWordCounts
<1>1. IInv => LastWordCounts
  <2> SUFFICES ASSUME IInv, OnTheWay = {}, pc \in {"idle", "down"}, asked # <<>>,
                      Len(asked) \notin lost
               PROVE  multicast = (asked[Len(asked)] = "StartMulticastStreaming")
    BY DEF LastWordCounts
  <2>1. Tried = Len(asked) /\ Len(asked) \in Nat \ {0} /\ shown \in Nat
    BY DEF Tried, IInv, TypeOK
  <2>2. Len(asked) <= shown
    BY <2>1 DEF IInv, TriedAccounted
  <2>3. shown = Len(asked) /\ shown # 0
    BY <2>1, <2>2 DEF IInv, TriedInv
  <2> QED BY <2>3, Zenon DEF IInv, DoesAsTold
<1> QED BY <1>1, Invariance, PTL

\* A queue without its head has lost that command and no other.
LEMMA TailOfSorted ==
    ASSUME IInv, broker # <<>>
    PROVE  /\ Head(broker).number \in InQueue(broker)
           /\ InQueue(Tail(broker)) = InQueue(broker) \ {Head(broker).number}
           /\ \A n \in OnTheWay : Head(broker).number <= n
           /\ Head(broker).number \notin InQueue(out)
<1>1. 1 \in DOMAIN broker /\ Head(broker) = broker[1] /\ IsCommand(Head(broker))
  BY OnTheWayFacts DEF Queues, IInv, QueuesInv
<1>2. InQueue(broker) = InQueue(Tail(broker)) \cup {Head(broker).number}
  BY <1>1, OnTheWayFacts, InQueueTail
<1>3. \A n \in InQueue(Tail(broker)) : n > Head(broker).number
  BY <1>1, OnTheWayFacts, GoodTail DEF IInv, QueuesInv
<1>4. /\ Head(broker).number \in Nat
      /\ \A m \in InQueue(out) : m \in Nat /\ Head(broker).number < m
      /\ \A n \in InQueue(Tail(broker)) : n \in Nat
  BY <1>2, OnTheWayFacts DEF OnTheWay
<1> QED BY <1>2, <1>3, <1>4 DEF OnTheWay

\* Every step of the commands is one of the abstract line, or none.
LEMMA LineStep == ASSUME IInv, [Next]_vars, IInv' PROVE [Line!Next]_(Line!vars)
<1> DEFINE given == IF pc \in {"test", "publish"} THEN Len(asked) - 1 ELSE Len(asked)
<1>1. given = Tried /\ given' = Tried' /\ Len(asked) \in Nat /\ Tried \in Int /\ Tried' \in Int
  BY OnTheWayFacts DEF Tried, IInv, TypeOK
<1> HIDE DEF given
<1>2. CASE UNCHANGED <<Tried, OnTheWay, shown>>
  BY <1>1, <1>2 DEF Line!vars, given
<1>3. CASE Tried' = Tried + 1 /\ OnTheWay' = OnTheWay \cup {Tried + 1} /\ UNCHANGED shown
  BY <1>1, <1>3 DEF Line!Next, Line!Give, given
<1>4. CASE Tried' \in {Tried, Tried + 1} /\ OnTheWay' \subseteq OnTheWay /\ UNCHANGED shown
  BY <1>1, <1>4 DEF Line!Next, Line!Lose, given
<1>5. CASE /\ UNCHANGED Tried
           /\ \E n \in OnTheWay : /\ \A m \in OnTheWay : n <= m
                                 /\ shown' = n /\ OnTheWay' = OnTheWay \ {n}
  BY <1>1, <1>5 DEF Line!Next, Line!Arrive, given
<1>6. UNCHANGED <<out, broker>> => UNCHANGED OnTheWay
  BY DEF OnTheWay, InQueue
<1>7. ASSUME InitMqttComms \/ Answer \/ Disconnected \/ UNCHANGED vars
      PROVE  UNCHANGED <<Tried, OnTheWay, shown>>
  BY <1>6, <1>7 DEF InitMqttComms, Answer, Disconnected, vars, handlerVars, clientVars,
                    brokerVars, Tried
<1>8. ASSUME NEW c \in Commands, Receive(c)
      PROVE  UNCHANGED <<Tried, OnTheWay, shown>>
  <2>1. asked \in Seq(Commands) /\ Len(asked') = Len(asked) + 1
    BY <1>8 DEF Receive, IInv, TypeOK
  <2>2. UNCHANGED Tried
    BY <1>8, <1>1, <2>1 DEF Receive, Tried
  <2> QED BY <1>6, <1>8, <2>2 DEF Receive, clientVars, brokerVars
<1>9. ASSUME SendMqttMsgTest
      PROVE  UNCHANGED <<Tried, OnTheWay, shown>>
  <2> DEFINE m == [topic |-> "Test", number |-> Len(asked), start |-> Msg(asked[Len(asked)])]
  <2>1. asked # <<>> /\ Len(asked) \in Nat \ {0}
    BY <1>9 DEF SendMqttMsgTest, IInv, TypeOK, TriedInv
  <2>2. m \in Messages /\ ~IsCommand(m)
    <3>1. Msg(asked[Len(asked)]) \in BOOLEAN
      BY Zenon DEF Msg
    <3> QED BY <3>1, <2>1 DEF Messages, Topics, IsCommand
  <2>3. out' \in {out, Append(out, m)}
    BY <1>9 DEF SendMqttMsgTest, Publish
  <2> HIDE DEF m
  <2>4. InQueue(Append(out, m)) = InQueue(out)
    BY <2>2, OnTheWayFacts, InQueueAppend
  <2>5. InQueue(out)' = InQueue(out)
    BY <2>3, <2>4 DEF InQueue
  <2>6. InQueue(broker)' = InQueue(broker)
    BY <1>9 DEF SendMqttMsgTest, brokerVars, InQueue
  <2> QED BY <1>9, <2>5, <2>6 DEF SendMqttMsgTest, brokerVars, OnTheWay, Tried
<1>10. ASSUME SendMqttMsg
       PROVE  /\ Tried' = Tried + 1 /\ UNCHANGED shown
              /\ OnTheWay' \in {OnTheWay, OnTheWay \cup {Tried + 1}}
  <2> DEFINE m == [topic |-> "watchman_command_json", number |-> Len(asked),
                   start |-> Msg(asked[Len(asked)])]
  <2>1. asked # <<>> /\ Len(asked) \in Nat \ {0} /\ Tried = Len(asked) - 1 /\ Tried' = Len(asked)
    BY <1>10 DEF SendMqttMsg, IInv, TypeOK, TriedInv, Tried
  <2>2. m \in Messages /\ IsCommand(m) /\ m.number = Tried + 1
    <3>1. Msg(asked[Len(asked)]) \in BOOLEAN
      BY Zenon DEF Msg
    <3> QED BY <3>1, <2>1 DEF Messages, Topics, IsCommand
  <2>3. out' \in {out, Append(out, m)}
    BY <1>10 DEF SendMqttMsg, Publish
  <2> HIDE DEF m
  <2>4. InQueue(Append(out, m)) = InQueue(out) \cup {Tried + 1}
    BY <2>2, OnTheWayFacts, InQueueAppend
  <2>5. InQueue(out)' \in {InQueue(out), InQueue(out) \cup {Tried + 1}}
    BY <2>3, <2>4 DEF InQueue
  <2>6. InQueue(broker)' = InQueue(broker)
    BY <1>10 DEF SendMqttMsg, brokerVars, InQueue
  <2> QED BY <1>10, <2>1, <2>5, <2>6 DEF SendMqttMsg, brokerVars, OnTheWay
<1>11. ASSUME Killed \/ Reconnect
       PROVE  Tried' \in {Tried, Tried + 1} /\ OnTheWay' \subseteq OnTheWay /\ UNCHANGED shown
  <2>1. InQueue(out)' = {} /\ InQueue(broker)' = InQueue(broker)
    BY <1>11, InQueueEmpty DEF Killed, Reconnect, brokerVars, InQueue
  <2>2. Tried' \in {Tried, Tried + 1}
    BY <1>11, <1>1 DEF Killed, Reconnect, handlerVars, Tried
  <2> QED BY <2>1, <2>2, <1>11 DEF OnTheWay, Killed, Reconnect, brokerVars
<1>12. ASSUME BrokerForgets
       PROVE  Tried' = Tried /\ OnTheWay' \subseteq OnTheWay /\ UNCHANGED shown
  <2>1. InQueue(broker)' = {} /\ InQueue(out)' = InQueue(out)
    BY <1>12, InQueueEmpty DEF BrokerForgets, clientVars, InQueue
  <2> QED BY <2>1, <1>12 DEF OnTheWay, BrokerForgets, handlerVars, Tried
<1>13. ASSUME Transmit
       PROVE  UNCHANGED <<Tried, OnTheWay, shown>>
  <2> DEFINE h == Head(out)
  <2>1. /\ out # <<>> /\ out' = Tail(out)
        /\ broker' = IF IsCommand(h) THEN Append(broker, h) ELSE broker
        /\ UNCHANGED <<pc, asked, shown>>
    BY <1>13 DEF Transmit, handlerVars, IsCommand
  <2>2. /\ h \in Messages
        /\ InQueue(out) = InQueue(Tail(out)) \cup (IF IsCommand(h) THEN {h.number} ELSE {})
    BY <2>1, OnTheWayFacts, GoodTail, InQueueTail DEF IInv, QueuesInv
  <2>3. InQueue(Append(broker, h)) =
          InQueue(broker) \cup (IF IsCommand(h) THEN {h.number} ELSE {})
    BY <2>2, OnTheWayFacts, InQueueAppend
  <2>4. InQueue(out)' = InQueue(Tail(out))
    BY <2>1 DEF InQueue
  <2>5. CASE IsCommand(h)
    <3>1. InQueue(broker)' = InQueue(Append(broker, h))
      BY <2>1, <2>5 DEF InQueue
    <3> QED BY <2>1, <2>2, <2>3, <2>4, <2>5, <3>1 DEF OnTheWay, Tried
  <2>6. CASE ~IsCommand(h)
    <3>1. InQueue(broker)' = InQueue(broker)
      BY <2>1, <2>6 DEF InQueue
    <3> QED BY <2>1, <2>2, <2>4, <2>6, <3>1 DEF OnTheWay, Tried
  <2> QED BY <2>5, <2>6
<1>14. ASSUME Deliver
       PROVE  /\ UNCHANGED Tried
              /\ \E n \in OnTheWay : /\ \A m \in OnTheWay : n <= m
                                    /\ shown' = n /\ OnTheWay' = OnTheWay \ {n}
  <2> DEFINE n == Head(broker).number
  <2>1. /\ n \in InQueue(broker) /\ \A m \in OnTheWay : n <= m /\ n \notin InQueue(out)
        /\ InQueue(Tail(broker)) = InQueue(broker) \ {n}
    BY <1>14, TailOfSorted DEF Deliver
  <2>2. InQueue(out)' = InQueue(out) /\ InQueue(broker)' = InQueue(Tail(broker)) /\ shown' = n
    BY <1>14 DEF Deliver, clientVars, InQueue
  <2> HIDE DEF n
  <2>3. n \in OnTheWay /\ OnTheWay' = OnTheWay \ {n}
    BY <2>1, <2>2 DEF OnTheWay
  <2> QED BY <1>14, <2>1, <2>2, <2>3 DEF Deliver, handlerVars, Tried
<1> QED
  BY <1>2, <1>3, <1>4, <1>5, <1>7, <1>8, <1>9, <1>10, <1>11, <1>12, <1>13, <1>14
     DEF Next, Handler, StartMulticastStreaming, StopMulticastStreaming, Commands

\* The commands implement the line of LossyLine: lost or in their order.
THEOREM KeepsTheOrderHolds == Spec => KeepsTheOrder
<1>1. Init => Line!Init
  <2> SUFFICES ASSUME Init PROVE Line!Init
    OBVIOUS
  <2>1. OnTheWay = {}
    BY InQueueEmpty DEF Init, OnTheWay
  <2> QED BY <2>1 DEF Init, Line!Init
<1>2. IInv /\ IInv' /\ [Next]_vars => [Line!Next]_(Line!vars)
  BY LineStep
<1> QED BY <1>1, <1>2, Invariance, PTL DEF Spec, KeepsTheOrder, Line!Spec

=============================================================================
