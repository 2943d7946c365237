---------------------------- MODULE CommandLine ----------------------------
(***************************************************************************)
(* What the commands of agents and of tasks have in common: processes of   *)
(* the command line, and the work lists that it meets.                     *)
(***************************************************************************)
EXTENDS ListKeys, Integers

CONSTANTS
    Commands,     \* processes of the command line
    Users, Lists,
    Deriver       \* [Lists -> Users]: whose data key the key of a list derives from

ASSUME DeriverAssumption == Deriver \in [Lists -> Users]

VARIABLES
    cmd,          \* what every command is doing
    runs          \* commands started

Idle == [pc |-> "idle"]
Become(c, record) == cmd' = [cmd EXCEPT ![c] = record]
=============================================================================
