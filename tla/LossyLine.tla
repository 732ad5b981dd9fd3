------------------------------- MODULE LossyLine -------------------------------
(***************************************************************************)
(* What a stream of commands over MQTT with QoS 0 promises: commands are   *)
(* numbered as they are given, those on the way may be lost at any time,   *)
(* and those that arrive do so in their order, each of them once.          *)
(***************************************************************************)
EXTENDS Naturals

VARIABLES
    given,  \* how many commands were given
    way,    \* the commands on the way
    shown   \* the last one that arrived, 0 for none

vars == <<given, way, shown>>

Init == given = 0 /\ way = {} /\ shown = 0

Give ==
    /\ given' = given + 1
    /\ way' = way \cup {given + 1}
    /\ UNCHANGED shown

\* Commands are lost, perhaps with one that is just being given.
Lose ==
    /\ given' \in {given, given + 1}
    /\ way' \subseteq way
    /\ UNCHANGED shown

\* The oldest command on the way arrives.
Arrive ==
    /\ \E n \in way :
         /\ \A m \in way : n <= m
         /\ shown' = n
         /\ way' = way \ {n}
    /\ UNCHANGED given

Next == Give \/ Lose \/ Arrive

Spec == Init /\ [][Next]_vars

=============================================================================
