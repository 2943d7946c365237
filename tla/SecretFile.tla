----------------------------- MODULE SecretFile -----------------------------
(***************************************************************************)
(* A file of the configuration directory: the credentials of a user or of  *)
(* an agent, or an agent's seed.  A process replaces it by way of a        *)
(* temporary file that it writes, syncs and renames, and then syncs the    *)
(* directory.  Processes are killed, every call can fail, and the machine  *)
(* loses power: what was not synced may then be gone.                      *)
(*                                                                         *)
(* The file system is external: a rename replaces the name at once, leaves *)
(* the contents as they are, and lasts when the directory is synced.       *)
(***************************************************************************)
EXTENDS Naturals

CONSTANTS
    Processes,
    MaxSaves     \* bound of the model: saves and removals begun

ASSUME MaxSavesAssumption == MaxSaves \in Nat

VARIABLES
    entry,       \* the file that the name stands for, and the change it made
    lasting,     \* the entries that a power loss can leave
    content,     \* what each file holds
    safe,        \* the files whose content a power loss leaves alone
    temps,       \* the files under temporary names
    proc,        \* what every process is doing
    began,       \* saves and removals begun
    saved        \* the newest change whose save was reported as done

vars == <<entry, lasting, content, safe, temps, proc, began, saved>>

(* A file is known by the number of the save that writes it.               *)
Names == 1 .. MaxSaves
Absent == 0
Entry(file, stamp) == [file |-> file, stamp |-> stamp]

AtRest == [pc |-> "idle", file |-> Absent, stamp |-> 0]

Init ==
    /\ entry = Entry(Absent, 0)
    /\ lasting = {entry}
    /\ content = [f \in Names |-> "none"]
    /\ safe = {} /\ temps = {}
    /\ proc = [p \in Processes |-> AtRest]
    /\ began = 0 /\ saved = 0

Goto(p, pc) == proc' = [proc EXCEPT ![p].pc = pc]
End(p) == proc' = [proc EXCEPT ![p] = AtRest]

Begin(p, pc) ==
    /\ proc[p] = AtRest /\ began < MaxSaves
    /\ began' = began + 1
    /\ proc' = [proc EXCEPT ![p] = [pc |-> pc, file |-> began', stamp |-> 0]]
    /\ UNCHANGED <<entry, lasting, content, safe, temps, saved>>

(* save_config_file, save_agent_seed_to_file; remove_config_file of a file *)
(* that exists; load_config_file of one                                    *)
StartSave(p) == Begin(p, "create")
StartRemove(p) == entry.file # Absent /\ Begin(p, "remove")

(* create_secret_file: the temporary name is new.                          *)
Create(p) ==
    /\ proc[p].pc = "create"
    /\ temps' = temps \cup {proc[p].file}
    /\ content' = [content EXCEPT ![proc[p].file] = "empty"]
    /\ Goto(p, "write")
    /\ UNCHANGED <<entry, lasting, safe, began, saved>>

(* write_all, piece by piece, then flush                                   *)
Write(p) ==
    /\ proc[p].pc = "write"
    /\ \/ content' = [content EXCEPT ![proc[p].file] = "part"] /\ UNCHANGED proc
       \/ content' = [content EXCEPT ![proc[p].file] = "whole"] /\ Goto(p, "sync")
    /\ UNCHANGED <<entry, lasting, safe, temps, began, saved>>

SyncsNothing(p) ==  \* mutant: renames what was only flushed
    /\ proc[p].pc = "sync" /\ Goto(p, "rename")
    /\ UNCHANGED <<entry, lasting, content, safe, temps, began, saved>>

(* sync_all *)
Sync(p) ==
    /\ proc[p].pc = "sync"
    /\ safe' = safe \cup {proc[p].file}
    /\ Goto(p, "rename")
    /\ UNCHANGED <<entry, lasting, content, temps, began, saved>>

Replace(file) ==
    /\ entry' = Entry(file, entry.stamp + 1)
    /\ lasting' = lasting \cup {entry'}

Rename(p) ==
    /\ proc[p].pc = "rename"
    /\ Replace(proc[p].file)
    /\ temps' = temps \ {proc[p].file}
    /\ proc' = [proc EXCEPT ![p].pc = "directory", ![p].stamp = entry'.stamp]
    /\ UNCHANGED <<content, safe, began, saved>>

ReportsAtOnce(p) ==  \* mutant: the directory is left to sync itself
    /\ proc[p].pc = "directory" /\ End(p)
    /\ saved' = IF proc[p].stamp > saved THEN proc[p].stamp ELSE saved
    /\ UNCHANGED <<entry, lasting, content, safe, temps, began>>

(* sync_directory, and the save is reported as done.                       *)
SyncDirectory(p) ==
    /\ proc[p].pc = "directory"
    /\ lasting' = {entry}
    /\ saved' = IF proc[p].stamp > saved THEN proc[p].stamp ELSE saved
    /\ End(p)
    /\ UNCHANGED <<entry, content, safe, temps, began>>

(* A call fails.  A save that was created removes its temporary file, and  *)
(* reports the error even if the rename has taken place.                   *)
Fail(p) ==
    /\ proc[p].pc \notin {"idle", "clean"}
    /\ IF proc[p].pc \in {"create", "remove"} THEN End(p) ELSE Goto(p, "clean")
    /\ UNCHANGED <<entry, lasting, content, safe, temps, began, saved>>

Clean(p) ==
    /\ proc[p].pc = "clean"
    /\ temps' \in {temps, temps \ {proc[p].file}}
    /\ End(p)
    /\ UNCHANGED <<entry, lasting, content, safe, began, saved>>

(* remove_file fails when another process was first.  The directory is not *)
(* synced after it.                                                        *)
RemoveFile(p) ==
    /\ proc[p].pc = "remove"
    /\ entry.file # Absent /\ Replace(Absent)
    /\ End(p)
    /\ UNCHANGED <<content, safe, temps, began, saved>>

Kill(p) ==
    /\ proc[p] # AtRest
    /\ End(p)
    /\ UNCHANGED <<entry, lasting, content, safe, temps, began, saved>>

Pieces == {"none", "empty", "part", "whole"}

PowerLoss ==
    /\ entry' \in lasting
    /\ lasting' = {entry'}
    /\ content' \in {c \in [Names -> Pieces] :
                       \A f \in Names : f \in safe \/ content[f] = "none" => c[f] = content[f]}
    /\ temps' \in SUBSET temps
    /\ proc' = [p \in Processes |-> AtRest]
    /\ UNCHANGED <<safe, began, saved>>

Step(p) ==
    \/ StartSave(p) \/ StartRemove(p) \/ Create(p) \/ Write(p) \/ Sync(p) \/ Rename(p)
    \/ SyncDirectory(p) \/ Fail(p) \/ Clean(p) \/ RemoveFile(p) \/ Kill(p)

Next == PowerLoss \/ \E p \in Processes : Step(p)

Spec == Init /\ [][Next]_vars

----------------------------------------------------------------------------
(* A command that reads the file finds all of what one save wrote, whoever *)
(* was killed and whatever was lost: never a file that is empty or cut.    *)
Whole == entry.file # Absent => content[entry.file] = "whole"

(* What DurableFile sees of an entry: a file that is not whole, or that a  *)
(* power loss could still cut, is no value that was saved.                 *)
Torn == MaxSaves + 1
Value(e) ==
    [value |-> IF e.file = Absent THEN Absent
               ELSE IF content[e.file] = "whole" /\ e.file \in safe THEN e.file ELSE Torn,
     stamp |-> e.stamp]
Durable == INSTANCE DurableFile WITH
    Values <- Names, entry <- Value(entry), lasting <- {Value(e) : e \in lasting}

(* Whatever order the steps of two saves, a removal, kills and power losses *)
(* come in, the name changes from one saved value to another.              *)
ImplementsDurableFile == Durable!Spec

----------------------------------------------------------------------------
(* Why it holds: what the name can stand for, now or after a power loss, is *)
(* whole and synced, and not older than a save that was reported; a save    *)
(* writes to a file of its own until then.                                  *)

Pcs == {"idle", "create", "write", "sync", "rename", "directory", "clean", "remove"}
Entries == [file : Names \cup {Absent}, stamp : Nat]

TypeOK ==
    /\ entry \in Entries /\ lasting \subseteq Entries
    /\ content \in [Names -> Pieces]
    /\ safe \subseteq Names /\ temps \subseteq Names
    /\ proc \in [Processes -> [pc : Pcs, file : Names \cup {Absent}, stamp : Nat]]
    /\ began \in Nat /\ saved \in Nat

Sound(file) == file = Absent \/ (file \in safe /\ content[file] = "whole")

LastingSound ==
    /\ entry \in lasting
    /\ \A e \in lasting : Sound(e.file) /\ saved <= e.stamp /\ e.stamp <= entry.stamp

SavesInOrder ==
    \A p \in Processes :
        /\ proc[p].pc \in {"create", "write"} => proc[p].file \notin safe
        /\ proc[p].pc \in {"sync", "rename", "directory"} => content[proc[p].file] = "whole"
        /\ proc[p].pc \in {"rename", "directory"} => proc[p].file \in safe
        /\ proc[p].pc = "directory" => proc[p].stamp <= entry.stamp

FilesOwned ==
    /\ \A f \in safe : f <= began
    /\ \A p \in Processes : proc[p].pc # "idle" => proc[p].file \in 1 .. began
    /\ \A p, q \in Processes :
          p # q /\ proc[p].pc # "idle" /\ proc[q].pc # "idle" => proc[p].file # proc[q].file

FileInv == TypeOK /\ LastingSound /\ SavesInOrder /\ FilesOwned
=============================================================================
