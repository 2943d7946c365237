---------------------------- MODULE DurableFile ----------------------------
(***************************************************************************)
(* What the configuration directory promises of a secret file: its name    *)
(* stands for no file or for one of the values saved under it, whole.  A   *)
(* power loss brings back one of the entries since the last that was       *)
(* settled, and every save that was reported as done is settled.           *)
(***************************************************************************)
EXTENDS Naturals

CONSTANTS Values, Absent

VARIABLES
    entry,       \* the value and the number of the change that made it
    lasting,     \* the entries that a power loss can leave
    saved        \* the newest change whose save was reported as done

Init ==
    /\ entry = [value |-> Absent, stamp |-> 0]
    /\ lasting = {entry}
    /\ saved = 0

Change ==
    /\ \E v \in Values \cup {Absent} : entry' = [value |-> v, stamp |-> entry.stamp + 1]
    /\ lasting' = lasting \cup {entry'}
    /\ UNCHANGED saved

Settle ==
    /\ lasting' = {entry}
    /\ saved' \in saved .. entry.stamp
    /\ UNCHANGED entry

PowerLoss ==
    /\ entry' \in lasting
    /\ lasting' = {entry'}
    /\ UNCHANGED saved

Next == Change \/ Settle \/ PowerLoss

Spec == Init /\ [][Next]_<<entry, lasting, saved>>
=============================================================================
