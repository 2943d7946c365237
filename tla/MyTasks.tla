------------------------------ MODULE MyTasks ------------------------------
(***************************************************************************)
(* `tasks list` over every work list.  The command finds the keys of the   *)
(* lists it is shown, then walks over the assigned tasks page by page, by  *)
(* offset, while tasks are assigned, withdrawn and completed at the        *)
(* server, and lists are joined.  Nothing holds the server's sequence      *)
(* still: the code calls the result a best-effort snapshot.                *)
(***************************************************************************)
EXTENDS Naturals, SequencesExt

CONSTANTS
    AllTasks,     \* tasks that may be assigned
    ListOf,       \* the work list of each
    Limit,        \* MY_TASKS_PAGE_LIMIT
    MaxAssigned,  \* bounds of the model: tasks assigned at first,
    MaxShifts     \* and changes at the server

ASSUME LimitAssumption == Limit \in Nat \ {0}

VARIABLES
    assigned,    \* the server's sequence of unfinished assigned tasks
    lists,       \* the work lists that the server shows
    walk,        \* the command
    steady,      \* tasks assigned ever since the walk began
    inserted, removed,  \* whether tasks came and went since then
    shifts

walkVars == <<assigned, lists, walk, steady, inserted, removed, shifts>>

AllLists == {ListOf[t] : t \in AllTasks}

WalkInit ==
    /\ assigned \in {s \in BoundedSeq(AllTasks, MaxAssigned) : IsInjective(s)}
    /\ lists = {ListOf[t] : t \in ToSet(assigned)}
    /\ walk = [pc |-> "idle", contexts |-> {}, offset |-> 0, tasks |-> <<>>]
    /\ steady = {} /\ inserted = FALSE /\ removed = FALSE /\ shifts = 0

(* list_tasks: the contexts come first.                                    *)
BeginWalk ==
    /\ walk.pc = "idle"
    /\ walk' = [walk EXCEPT !.pc = "walking", !.contexts = lists]
    /\ steady' = ToSet(assigned)
    /\ inserted' = FALSE /\ removed' = FALSE
    /\ UNCHANGED <<assigned, lists, shifts>>

(* get_my_tasks_filtered: the server's answer                              *)
Page(offset) ==
    SubSeq(assigned, offset + 1, IF offset + Limit < Len(assigned) THEN offset + Limit ELSE Len(assigned))

LastWhenNotFull(page, tasks) == Len(page) <= Limit  \* mutant: off by one, the first page is the last

IsLast(page, tasks) ==
    \/ Len(page) = 0
    \/ Len(page) < Limit
    \/ Len(tasks) >= Len(assigned)

LastAgain(offset, page) == offset + Limit - 1   \* mutant: starts with the last task again

NextOffset(offset, page) == offset + Len(page)

(* One turn of the loop of get_all_my_tasks                                *)
Fetch ==
    /\ walk.pc = "walking"
    /\ LET page == Page(walk.offset)
           tasks == walk.tasks \o page
       IN  walk' = [walk EXCEPT !.tasks = tasks,
                       !.pc = IF IsLast(page, tasks) THEN "done" ELSE "walking",
                       !.offset = IF IsLast(page, tasks) THEN @ ELSE NextOffset(@, page)]
    /\ UNCHANGED <<assigned, lists, steady, inserted, removed, shifts>>

(* A page cannot be had.                                                   *)
FailWalk ==
    /\ walk.pc = "walking"
    /\ walk' = [walk EXCEPT !.pc = "failed"]
    /\ UNCHANGED <<assigned, lists, steady, inserted, removed, shifts>>

Shift == shifts < MaxShifts /\ shifts' = shifts + 1 /\ UNCHANGED walk

(* A task is assigned, and comes anywhere in the sequence.                 *)
Insert ==
    /\ Shift
    /\ \E t \in AllTasks \ ToSet(assigned), i \in 1 .. Len(assigned) + 1 :
          /\ assigned' = InsertAt(assigned, i, t)
          /\ lists' = lists \cup {ListOf[t]}
    /\ inserted' = TRUE
    /\ UNCHANGED <<steady, removed>>

(* A task is completed, deleted or withdrawn.                              *)
Withdraw ==
    /\ Shift
    /\ \E i \in DOMAIN assigned :
          /\ assigned' = RemoveAt(assigned, i)
          /\ steady' = steady \ {assigned[i]}
    /\ removed' = TRUE
    /\ UNCHANGED <<lists, inserted>>

WalkNext == BeginWalk \/ Fetch \/ FailWalk \/ Insert \/ Withdraw

WalkSpec == WalkInit /\ [][WalkNext]_walkVars

----------------------------------------------------------------------------
(* project_my_task_summary: a task is shown with its contents when the     *)
(* contexts hold its list.                                                 *)
Listed(t) == t \in ToSet(walk.tasks)
Unread(t) == Listed(t) /\ ListOf[t] \notin walk.contexts

(* A task that was assigned the whole time is missing from the listing     *)
(* only if tasks were removed during the walk: insertions move it to later *)
(* pages, and the walk is not cut short by the tasks it then meets twice.  *)
MissedOnlyAfterRemoval ==
    walk.pc = "done" /\ ~removed => \A t \in steady : Listed(t)

(* A task is listed twice only if tasks were inserted during the walk.     *)
(* A task that was assigned the whole time is never listed without its     *)
(* contents.                                                               *)
TwiceOnlyAfterInsertion ==
    /\ ~inserted => IsInjective(walk.tasks)
    /\ \A t \in steady : ~Unread(t)
=============================================================================
