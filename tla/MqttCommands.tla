------------------------------ MODULE MqttCommands ------------------------------
(***************************************************************************)
(* The commands that onvif_srvd passes on: StartMulticastStreaming and     *)
(* StopMulticastStreaming (ServiceMedia.cpp) publish a message through the *)
(* MQTT client of the ServiceContext (ServiceContext.cpp) and answer OK,   *)
(* whatever became of it.  The message has QoS 0: nobody acknowledges it   *)
(* and nobody sends it again.                                              *)
(*                                                                         *)
(* libmosquitto with its thread and its queue, the broker and the          *)
(* subscriber that switches the multicast are external.  The library       *)
(* refuses a message without a connection, and drops what it has queued    *)
(* when it connects again; the broker takes what a connection has sent     *)
(* before it takes the next one, and may drop what it has.                 *)
(***************************************************************************)
EXTENDS Naturals, Sequences

CONSTANTS
    Debug,          \* the build has DEBUG
    MaxCommands,    \* bound: commands that clients give
    MaxFailures     \* bound: faults of process, connection and broker

ASSUME DebugAssumption == Debug \in BOOLEAN
ASSUME BoundsAssumption == MaxCommands \in Nat /\ MaxFailures \in Nat

VARIABLES
    pc,         \* the step of the handler; "down" without a process
    mosq,       \* the client: "none" (null), "new" or "looping" with its thread
    link,       \* the client has a connection to the broker
    out,        \* what the library has queued
    broker,     \* what the broker has for the subscriber
    multicast,  \* the multicast is on, as far as the subscriber knows
    failures,   \* faults so far
    asked,      \* the commands that clients gave (history)
    answered,   \* how many of them were answered (history)
    shown,      \* the number of the last one the subscriber got (history)
    lost        \* the numbers of those that were lost (history)

clientVars  == <<mosq, link, out>>
brokerVars  == <<broker, multicast, shown>>
handlerVars == <<pc, asked, answered>>
vars == <<handlerVars, clientVars, brokerVars, failures, lost>>

Commands == {"StartMulticastStreaming", "StopMulticastStreaming"}
Topics   == {"Test", "watchman_command_json"}

\* A message is known by the number of its command.
Messages == [topic : Topics, number : Nat \ {0}, start : BOOLEAN]

Init ==
    /\ pc = "down" /\ mosq = "none" /\ link = FALSE /\ out = <<>>
    /\ broker = <<>> /\ multicast = FALSE
    /\ failures = 0
    /\ asked = <<>> /\ answered = 0 /\ shown = 0 /\ lost = {}

\* The commands among the messages of a queue.
InQueue(q) == {q[i].number : i \in {j \in DOMAIN q : q[j].topic = "watchman_command_json"}}

-----------------------------------------------------------------------------
(* The daemon. *)

\* Mutant: mosquitto_loop_start is forgotten.
InitMqttCommsWithoutLoop ==
    /\ pc = "down"
    /\ mosq' \in {"none", "new"}
    /\ link' \in BOOLEAN /\ (link' => mosq' # "none")
    /\ pc' = "idle"
    /\ UNCHANGED <<asked, answered, out, brokerVars, failures, lost>>

\* The process starts and constructs its ServiceContext.  mosquitto_new may
\* fail, and all further calls refuse its null; mosquitto_connect may fail,
\* and its result is dropped; the thread of the client is started.
InitMqttComms ==
    /\ pc = "down"
    /\ mosq' \in {"none", "looping"}
    /\ link' \in BOOLEAN /\ (link' => mosq' # "none")
    /\ pc' = "idle"
    /\ UNCHANGED <<asked, answered, out, brokerVars, failures, lost>>

\* A client asks for c, and its handler gets to SendMqttMsg.
Receive(c) ==
    /\ pc = "idle"
    /\ Len(asked) < MaxCommands
    /\ asked' = Append(asked, c)
    /\ pc' = IF Debug THEN "test" ELSE "publish"
    /\ UNCHANGED <<answered, clientVars, brokerVars, failures, lost>>

StartMulticastStreaming == Receive("StartMulticastStreaming")
StopMulticastStreaming  == Receive("StopMulticastStreaming")

\* Mutant: both handlers have the text of the first.
MsgOfStart(c) == TRUE

\* The text of the handler of c: start_multicast is true or false.
Msg(c) == c = "StartMulticastStreaming"

\* mosquitto_publish to the topic t: the message is queued, or refused for
\* want of a connection or a client.
Publish(t) ==
    out' = IF link
             THEN Append(out, [topic |-> t, number |-> Len(asked),
                               start |-> Msg(asked[Len(asked)])])
             ELSE out

\* Mutant: the messages for debugging go to the topic of the commands.
SendMqttMsgTestAsCommand ==
    /\ pc = "test"
    /\ Publish("watchman_command_json")
    /\ pc' = "publish"
    /\ UNCHANGED <<asked, answered, mosq, link, brokerVars, failures, lost>>

\* SendMqttMsg in a build with DEBUG: the message goes to a topic of its own.
SendMqttMsgTest ==
    /\ pc = "test"
    /\ Publish("Test")
    /\ pc' = "publish"
    /\ UNCHANGED <<asked, answered, mosq, link, brokerVars, failures, lost>>

\* Mutant: the command is only published when there is debugging.
SendMqttMsgOnlyTest ==
    /\ pc = "publish"
    /\ pc' = "answer"
    /\ UNCHANGED <<asked, answered, clientVars, brokerVars, failures, lost>>

\* Mutant: the topic of the commands is misspelt.
SendMqttMsgMisspelt ==
    /\ pc = "publish"
    /\ Publish("watchman_command")
    /\ lost' = IF link THEN lost ELSE lost \cup {Len(asked)}
    /\ pc' = "answer"
    /\ UNCHANGED <<asked, answered, mosq, link, brokerVars, failures>>

\* SendMqttMsg: the message goes out, its result is dropped.
SendMqttMsg ==
    /\ pc = "publish"
    /\ Publish("watchman_command_json")
    /\ lost' = IF link THEN lost ELSE lost \cup {Len(asked)}
    /\ pc' = "answer"
    /\ UNCHANGED <<asked, answered, mosq, link, brokerVars, failures>>

\* The handler is a SOAP_EMPTY_HANDLER for the rest, and returns SOAP_OK.
Answer ==
    /\ pc = "answer"
    /\ answered' = Len(asked)
    /\ pc' = "idle"
    /\ UNCHANGED <<asked, clientVars, brokerVars, failures, lost>>

\* The process ends at any point, with what its client has queued and with
\* the command its handler has not published.
Killed ==
    /\ pc # "down" /\ failures < MaxFailures
    /\ failures' = failures + 1
    /\ pc' = "down" /\ mosq' = "none" /\ link' = FALSE /\ out' = <<>>
    /\ lost' = lost \cup InQueue(out)
                 \cup (IF pc \in {"test", "publish"} THEN {Len(asked)} ELSE {})
    /\ UNCHANGED <<asked, answered, brokerVars>>

-----------------------------------------------------------------------------
(* The thread of the client, the broker and the subscriber. *)

\* The connection breaks; the queue is kept.
Disconnected ==
    /\ link /\ failures < MaxFailures
    /\ failures' = failures + 1
    /\ link' = FALSE
    /\ UNCHANGED <<handlerVars, mosq, out, brokerVars, lost>>

\* The thread of the client connects again and drops what was queued.
Reconnect ==
    /\ mosq = "looping" /\ ~link
    /\ link' = TRUE
    /\ out' = <<>>
    /\ lost' = lost \cup InQueue(out)
    /\ UNCHANGED <<handlerVars, mosq, brokerVars, failures>>

\* The thread of the client sends the first message.  The broker has one
\* subscriber, for the topic of the commands.
Transmit ==
    /\ mosq = "looping" /\ link /\ out # <<>>
    /\ out' = Tail(out)
    /\ broker' = IF Head(out).topic = "watchman_command_json"
                   THEN Append(broker, Head(out)) ELSE broker
    /\ UNCHANGED <<handlerVars, mosq, link, multicast, shown, failures, lost>>

\* The broker drops all it has for the subscriber.
BrokerForgets ==
    /\ broker # <<>> /\ failures < MaxFailures
    /\ failures' = failures + 1
    /\ broker' = <<>>
    /\ lost' = lost \cup InQueue(broker)
    /\ UNCHANGED <<handlerVars, clientVars, multicast, shown>>

\* The subscriber gets a message and does as it says.
Deliver ==
    /\ broker # <<>>
    /\ broker' = Tail(broker)
    /\ multicast' = Head(broker).start
    /\ shown' = Head(broker).number
    /\ UNCHANGED <<handlerVars, clientVars, failures, lost>>

-----------------------------------------------------------------------------

Handler == SendMqttMsgTest \/ SendMqttMsg \/ Answer

Next ==
    \/ InitMqttComms
    \/ StartMulticastStreaming \/ StopMulticastStreaming
    \/ Handler
    \/ Killed \/ Disconnected \/ BrokerForgets
    \/ Reconnect \/ Transmit \/ Deliver

Spec == Init /\ [][Next]_vars

(***************************************************************************)
(* The service manager starts the process again, its threads run, and the  *)
(* broker can be reached again after it went away.  Clients need not ask   *)
(* for anything.                                                           *)
(***************************************************************************)
Fairness ==
    /\ WF_vars(InitMqttComms) /\ WF_vars(Handler)
    /\ WF_vars(Reconnect) /\ WF_vars(Transmit) /\ WF_vars(Deliver)

FairSpec == Spec /\ Fairness

-----------------------------------------------------------------------------
(* Properties. *)

Queues == Seq(Messages)

\* The types of the variables.
TypeOK ==
    /\ pc \in {"down", "idle", "test", "publish", "answer"}
    /\ mosq \in {"none", "new", "looping"} /\ link \in BOOLEAN
    /\ out \in Queues /\ broker \in Queues
    /\ multicast \in BOOLEAN
    /\ failures \in 0 .. MaxFailures
    /\ asked \in Seq(Commands)
    /\ answered \in Nat /\ shown \in Nat
    /\ lost \subseteq Nat

\* The commands on the way to the subscriber.
OnTheWay == InQueue(out) \cup InQueue(broker)

\* A command whose handler answered OK is not forgotten: it is on the way or
\* among those that were lost, or the subscriber got it or a later one.
Accounted ==
    \A n \in 1 .. answered : n \in OnTheWay \/ n \in lost \/ n <= shown

\* No command reaches the subscriber twice or after a later one: whatever
\* is on the way is newer than what it got, even when the process was killed
\* and another one gave the later command.
NeverStale == \A n \in OnTheWay : n > shown

\* The multicast is as the last command that arrived wants it, and a command
\* that arrived was not lost.
DoesAsTold ==
    shown # 0 => /\ shown <= Len(asked) /\ shown \notin lost
                 /\ multicast = (asked[shown] = "StartMulticastStreaming")

\* A disagreement that lasts has one cause: when nothing is on the way, the
\* multicast is as the last client wants it or its command was lost.
LastWordCounts ==
    OnTheWay = {} /\ pc \in {"idle", "down"} /\ asked # <<>> /\ Len(asked) \notin lost =>
        multicast = (asked[Len(asked)] = "StartMulticastStreaming")

\* The way of the commands keeps the promise of the abstract specification.
Line == INSTANCE LossyLine
          WITH given <- IF pc \in {"test", "publish"} THEN Len(asked) - 1 ELSE Len(asked),
               way <- OnTheWay

KeepsTheOrder == Line!Spec

\* An answered command arrives or is lost; it is not on the way for ever.
CommandsEnd ==
    \A n \in 1 .. MaxCommands : n <= answered ~> n <= shown \/ n \in lost

=============================================================================
