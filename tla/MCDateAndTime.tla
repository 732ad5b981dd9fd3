----------------------------- MODULE MCDateAndTime -----------------------------
(***************************************************************************)
(* DateAndTime with a clock of a few seconds around the change of zones    *)
(* east, west and at UTC.                                                  *)
(***************************************************************************)
EXTENDS DateAndTime

Zone(off) ==
    {[at |-> 2, before |-> [off |-> off, dst |-> FALSE],
                after |-> [off |-> off + 3600, dst |-> TRUE]],
     [at |-> 2, before |-> [off |-> off + 3600, dst |-> TRUE],
                after |-> [off |-> off, dst |-> FALSE]],
     [at |-> 0, before |-> [off |-> off, dst |-> FALSE],
                after |-> [off |-> off, dst |-> FALSE]]}

\* Whole hours, India (+05:30) and Newfoundland (-03:30).
MCZones == UNION {Zone(off) : off \in {-36000, -3600, 0, 3600, 46800, 19800, -12600}}

=============================================================================
