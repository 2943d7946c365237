-------------------------- MODULE SecretFileProofs --------------------------
(***************************************************************************)
(* Proofs about SecretFile, for any processes and any number of saves:     *)
(* what the name stands for is whole, and the steps of the processes do    *)
(* what DurableFile promises.                                              *)
(***************************************************************************)
EXTENDS SecretFile, TLAPS

(* What DurableFile sees of an entry that is sound *)
Plain(e) == [value |-> e.file, stamp |-> e.stamp]

AsPlain ==
    /\ Value(entry) = Plain(entry)
    /\ {Value(e) : e \in lasting} = {Plain(e) : e \in lasting}

----------------------------------------------------------------------------
(* What the steps have in common *)

(* The initial state has one entry, that of no file. *)
LEMMA InitInv == Init => FileInv
  <1> SUFFICES ASSUME Init PROVE FileInv
    OBVIOUS
  <1>1. TypeOK
    BY MaxSavesAssumption DEF Init, TypeOK, Entries, Entry, Absent, Names, Pieces, AtRest, Pcs
  <1>2. LastingSound
    BY DEF Init, LastingSound, Sound, Entry, Absent
  <1>3. SavesInOrder /\ FilesOwned
    BY DEF Init, SavesInOrder, FilesOwned, AtRest
  <1> QED BY <1>1, <1>2, <1>3 DEF FileInv

(* A process at work has a file of its own among the names. *)
LEMMA OwnFile ==
    ASSUME FileInv, NEW p \in Processes, proc[p].pc # "idle"
    PROVE  /\ proc[p].file \in Names /\ proc[p].file <= began
           /\ proc[p].pc \in Pcs /\ proc[p].stamp \in Nat
  <1>1. proc[p].file \in 1 .. began /\ proc[p].file \in Names \cup {Absent}
    BY DEF FileInv, FilesOwned, TypeOK
  <1> QED BY <1>1, MaxSavesAssumption DEF FileInv, TypeOK, Names, Absent

(* A process that goes on to another step keeps its file. *)
LEMMA GotoTyped ==
    ASSUME FileInv, NEW p \in Processes, NEW pc \in Pcs, Goto(p, pc)
    PROVE  /\ proc' \in [Processes -> [pc : Pcs, file : Names \cup {Absent}, stamp : Nat]]
           /\ proc'[p].pc = pc /\ proc'[p].file = proc[p].file /\ proc'[p].stamp = proc[p].stamp
           /\ \A q \in Processes : q # p => proc'[q] = proc[q]
  BY DEF FileInv, TypeOK, Goto

(* A process that ends is idle, and the others go on. *)
LEMMA EndTyped ==
    ASSUME FileInv, NEW p \in Processes, End(p)
    PROVE  /\ proc' \in [Processes -> [pc : Pcs, file : Names \cup {Absent}, stamp : Nat]]
           /\ proc'[p].pc = "idle"
           /\ \A q \in Processes : q # p => proc'[q] = proc[q]
  <1>1. AtRest \in [pc : Pcs, file : Names \cup {Absent}, stamp : Nat] /\ AtRest.pc = "idle"
    BY DEF AtRest, Pcs, Absent
  <1> QED BY <1>1 DEF FileInv, TypeOK, End

(* A process ends, and no file, entry or report changes. *)
LEMMA EndKeepsInv ==
    ASSUME FileInv, NEW p \in Processes, End(p),
           temps' \subseteq temps, UNCHANGED <<entry, lasting, content, safe, began, saved>>
    PROVE  FileInv'
  <1>1. TypeOK'
    BY EndTyped DEF FileInv, TypeOK
  <1>2. LastingSound'
    BY DEF FileInv, LastingSound, Sound
  <1>3. SavesInOrder'
    BY EndTyped DEF FileInv, SavesInOrder
  <1>4. FilesOwned'
    BY EndTyped DEF FileInv, FilesOwned
  <1> QED BY <1>1, <1>2, <1>3, <1>4 DEF FileInv

----------------------------------------------------------------------------
(* The steps, one by one *)

(* A save or a removal begins with a file that was never used. *)
LEMMA BeginInv ==
    ASSUME FileInv, NEW p \in Processes, NEW pc \in {"create", "remove"}, Begin(p, pc)
    PROVE  FileInv'
  <1> DEFINE r == [pc |-> pc, file |-> began + 1, stamp |-> 0]
  <1>1. began' = began + 1 /\ began \in Nat /\ began + 1 \in Names
    BY MaxSavesAssumption DEF Begin, FileInv, TypeOK, Names
  <1>2. proc' = [proc EXCEPT ![p] = r]
    BY <1>1 DEF Begin
  <1>3. r \in [pc : Pcs, file : Names \cup {Absent}, stamp : Nat]
    BY <1>1 DEF Pcs
  <1>4. proc'[p] = r /\ \A q \in Processes : q # p => proc'[q] = proc[q]
    BY <1>2 DEF FileInv, TypeOK
  <1>5. began + 1 \notin safe
    BY <1>1 DEF FileInv, FilesOwned
  <1>6. TypeOK'
    BY <1>1, <1>2, <1>3 DEF Begin, FileInv, TypeOK
  <1>7. LastingSound'
    BY DEF Begin, FileInv, LastingSound, Sound
  <1>8. SavesInOrder'
    BY <1>4, <1>5 DEF Begin, FileInv, SavesInOrder
  <1>9. FilesOwned'
    <2>1. \A f \in safe' : f <= began'
      BY <1>1, MaxSavesAssumption DEF Begin, FileInv, FilesOwned, TypeOK, Names
    <2>2. \A q \in Processes : q # p /\ proc[q].pc # "idle" => proc[q].file \in 1 .. began
      BY DEF FileInv, FilesOwned
    <2>3. \A q \in Processes : proc'[q].pc # "idle" => proc'[q].file \in 1 .. began'
      BY <1>1, <1>4, <2>2
    <2>4. \A q, q2 \in Processes :
             q # q2 /\ proc'[q].pc # "idle" /\ proc'[q2].pc # "idle" => proc'[q].file # proc'[q2].file
      BY <1>1, <1>4, <2>2 DEF FileInv, FilesOwned
    <2> QED BY <2>1, <2>3, <2>4 DEF FilesOwned
  <1> QED BY <1>6, <1>7, <1>8, <1>9 DEF FileInv

(* Only the file of the process that writes changes, which is not yet safe *)
(* and which no other process has.                                         *)
LEMMA PieceInv ==
    ASSUME FileInv, NEW p \in Processes, NEW piece \in Pieces,
           proc[p].pc \in {"create", "write"}, temps' \subseteq Names,
           content' = [content EXCEPT ![proc[p].file] = piece],
           \/ UNCHANGED proc
           \/ Goto(p, "write")
           \/ Goto(p, "sync") /\ piece = "whole",
           UNCHANGED <<entry, lasting, safe, began, saved>>
    PROVE  FileInv'
  <1> DEFINE f == proc[p].file
  <1>1. f \in Names /\ f \notin safe
    BY OwnFile DEF FileInv, SavesInOrder
  <1>2. content' \in [Names -> Pieces] /\ content'[f] = piece
        /\ \A g \in Names : g # f => content'[g] = content[g]
    BY <1>1 DEF FileInv, TypeOK
  <1>3. /\ proc' \in [Processes -> [pc : Pcs, file : Names \cup {Absent}, stamp : Nat]]
        /\ proc'[p].file = f /\ \A q \in Processes : q # p => proc'[q] = proc[q]
        /\ proc'[p].pc \in {"create", "write", "sync"}
        /\ proc'[p].pc = "sync" => piece = "whole"
    <2>1. CASE UNCHANGED proc
      BY <2>1 DEF FileInv, TypeOK
    <2>2. CASE Goto(p, "write")
      BY <2>2, GotoTyped DEF Pcs
    <2>3. CASE Goto(p, "sync") /\ piece = "whole"
      BY <2>3, GotoTyped DEF Pcs
    <2> QED BY <2>1, <2>2, <2>3
  <1>4. \A q \in Processes : q # p /\ proc[q].pc # "idle" => proc[q].file \in Names \ {f}
    BY OwnFile DEF FileInv, FilesOwned
  <1>5. TypeOK'
    BY <1>2, <1>3 DEF FileInv, TypeOK
  <1>6. LastingSound'
    <2>1. \A e \in lasting : Sound(e.file)'
      BY <1>1, <1>2 DEF FileInv, LastingSound, Sound, TypeOK
    <2> QED BY <2>1 DEF FileInv, LastingSound
  <1>7. SavesInOrder'
    BY <1>1, <1>2, <1>3, <1>4 DEF FileInv, SavesInOrder
  <1>8. FilesOwned'
    BY <1>3 DEF FileInv, FilesOwned
  <1> QED BY <1>5, <1>6, <1>7, <1>8 DEF FileInv

LEMMA CreateInv == ASSUME FileInv, NEW p \in Processes, Create(p) PROVE FileInv'
  <1>1. proc[p].file \in Names /\ "empty" \in Pieces
    BY OwnFile DEF Create, Pieces
  <1>2. temps' \subseteq Names
    BY <1>1 DEF Create, FileInv, TypeOK
  <1> QED BY <1>1, <1>2, PieceInv DEF Create

LEMMA WriteInv == ASSUME FileInv, NEW p \in Processes, Write(p) PROVE FileInv'
  <1>1. "part" \in Pieces /\ "whole" \in Pieces /\ temps' \subseteq Names
    BY DEF Write, Pieces, FileInv, TypeOK
  <1> QED BY <1>1, PieceInv DEF Write

(* The whole file becomes safe. *)
LEMMA SyncInv == ASSUME FileInv, NEW p \in Processes, Sync(p) PROVE FileInv'
  <1> DEFINE f == proc[p].file
  <1>1. f \in Names /\ f <= began /\ content[f] = "whole"
    BY OwnFile DEF Sync, FileInv, SavesInOrder
  <1>2. /\ proc' \in [Processes -> [pc : Pcs, file : Names \cup {Absent}, stamp : Nat]]
        /\ proc'[p].file = f /\ proc'[p].pc = "rename"
        /\ \A q \in Processes : q # p => proc'[q] = proc[q]
    BY GotoTyped DEF Sync, Pcs
  <1>3. \A q \in Processes : q # p /\ proc[q].pc # "idle" => proc[q].file # f
    BY DEF Sync, FileInv, FilesOwned
  <1>4. TypeOK'
    BY <1>1, <1>2 DEF Sync, FileInv, TypeOK
  <1>5. LastingSound'
    BY DEF Sync, FileInv, LastingSound, Sound
  <1>6. SavesInOrder'
    BY <1>1, <1>2, <1>3 DEF Sync, FileInv, SavesInOrder
  <1>7. FilesOwned'
    BY <1>1, <1>2 DEF Sync, FileInv, FilesOwned
  <1> QED BY <1>4, <1>5, <1>6, <1>7 DEF FileInv

(* The name changes to a sound file or to none, by a newer change. *)
LEMMA ReplaceSound ==
    ASSUME FileInv, NEW file \in Names \cup {Absent}, Sound(file), Replace(file),
           UNCHANGED <<content, safe, saved>>
    PROVE  /\ LastingSound'
           /\ entry' \in Entries /\ lasting' \subseteq Entries
           /\ entry'.stamp = entry.stamp + 1 /\ entry.stamp \in Nat
  <1>1. entry' = [file |-> file, stamp |-> entry.stamp + 1] /\ lasting' = lasting \cup {entry'}
    BY DEF Replace, Entry
  <1>2. entry.stamp \in Nat /\ entry \in lasting /\ lasting \subseteq Entries /\ saved \in Nat
        /\ \A e \in lasting : e.stamp \in Nat
    BY DEF FileInv, TypeOK, LastingSound, Entries
  <1>3. entry' \in Entries
    BY <1>1, <1>2 DEF Entries
  <1>4. \A e \in lasting' : Sound(e.file)' /\ saved' <= e.stamp /\ e.stamp <= entry'.stamp
    BY <1>1, <1>2 DEF FileInv, LastingSound, Sound
  <1> QED BY <1>1, <1>2, <1>3, <1>4 DEF LastingSound

LEMMA RenameInv == ASSUME FileInv, NEW p \in Processes, Rename(p) PROVE FileInv'
  <1> DEFINE f == proc[p].file
  <1>1. f \in Names /\ f \in safe /\ content[f] = "whole"
    BY OwnFile DEF Rename, FileInv, SavesInOrder
  <1>2. /\ LastingSound' /\ entry' \in Entries /\ lasting' \subseteq Entries
        /\ entry'.stamp = entry.stamp + 1 /\ entry.stamp \in Nat
    BY <1>1, ReplaceSound DEF Rename, Sound
  <1>3. /\ proc' \in [Processes -> [pc : Pcs, file : Names \cup {Absent}, stamp : Nat]]
        /\ proc'[p].file = f /\ proc'[p].pc = "directory" /\ proc'[p].stamp = entry'.stamp
        /\ \A q \in Processes : q # p => proc'[q] = proc[q]
    <2>1. entry'.stamp \in Nat /\ "directory" \in Pcs
      BY <1>2 DEF Pcs
    <2>2. proc \in [Processes -> [pc : Pcs, file : Names \cup {Absent}, stamp : Nat]]
      BY DEF FileInv, TypeOK
    <2>3. proc' = [proc EXCEPT ![p] = [proc[p] EXCEPT !.pc = "directory", !.stamp = entry'.stamp]]
      BY DEF Rename
    <2>4. DEFINE r == [proc[p] EXCEPT !.pc = "directory", !.stamp = entry'.stamp]
    <2>5. /\ r \in [pc : Pcs, file : Names \cup {Absent}, stamp : Nat]
          /\ r.pc = "directory" /\ r.file = f /\ r.stamp = entry'.stamp
      BY <2>1, <2>2
    <2> HIDE DEF r
    <2>6. proc' = [proc EXCEPT ![p] = r]
      BY <2>3 DEF r
    <2> QED BY <2>2, <2>5, <2>6
  <1>4. TypeOK'
    BY <1>2, <1>3 DEF Rename, FileInv, TypeOK
  <1>5. SavesInOrder'
    <2>1. \A q \in Processes : proc[q].pc = "directory" => proc[q].stamp \in Nat /\ proc[q].stamp <= entry'.stamp
      BY <1>2 DEF FileInv, SavesInOrder, TypeOK
    <2> QED BY <1>1, <1>2, <1>3, <2>1 DEF Rename, FileInv, SavesInOrder
  <1>6. FilesOwned'
    BY <1>3 DEF Rename, FileInv, FilesOwned
  <1> QED BY <1>2, <1>4, <1>5, <1>6 DEF FileInv

LEMMA RemoveInv == ASSUME FileInv, NEW p \in Processes, RemoveFile(p) PROVE FileInv'
  <1>1. /\ LastingSound' /\ entry' \in Entries /\ lasting' \subseteq Entries
        /\ entry'.stamp = entry.stamp + 1 /\ entry.stamp \in Nat
    BY ReplaceSound DEF RemoveFile, Sound
  <1>2. TypeOK'
    BY <1>1, EndTyped DEF RemoveFile, FileInv, TypeOK
  <1>3. SavesInOrder'
    <2>1. \A q \in Processes : proc[q].pc = "directory" => proc[q].stamp \in Nat /\ proc[q].stamp <= entry'.stamp
      BY <1>1 DEF FileInv, SavesInOrder, TypeOK
    <2> QED BY <2>1, EndTyped DEF RemoveFile, FileInv, SavesInOrder
  <1>4. FilesOwned'
    BY EndTyped DEF RemoveFile, FileInv, FilesOwned
  <1> QED BY <1>1, <1>2, <1>3, <1>4 DEF FileInv

(* What is reported now is not newer than the entry that is settled. *)
LEMMA Settled ==
    ASSUME FileInv, NEW p \in Processes, SyncDirectory(p)
    PROVE  /\ saved' \in Nat /\ saved <= saved' /\ saved' <= entry.stamp
           /\ saved \in Nat /\ entry.stamp \in Nat
  <1>1. proc[p].stamp \in Nat /\ proc[p].stamp <= entry.stamp
    BY DEF SyncDirectory, FileInv, SavesInOrder, TypeOK
  <1>2. saved \in Nat /\ entry.stamp \in Nat /\ saved <= entry.stamp
    BY DEF FileInv, TypeOK, Entries, LastingSound
  <1> QED BY <1>1, <1>2 DEF SyncDirectory

LEMMA SyncDirectoryInv == ASSUME FileInv, NEW p \in Processes, SyncDirectory(p) PROVE FileInv'
  <1>1. TypeOK'
    BY EndTyped, Settled DEF SyncDirectory, FileInv, TypeOK
  <1>2. LastingSound'
    BY Settled DEF SyncDirectory, FileInv, LastingSound, Sound
  <1>3. SavesInOrder'
    BY EndTyped DEF SyncDirectory, FileInv, SavesInOrder
  <1>4. FilesOwned'
    BY EndTyped DEF SyncDirectory, FileInv, FilesOwned
  <1> QED BY <1>1, <1>2, <1>3, <1>4 DEF FileInv

LEMMA FailInv == ASSUME FileInv, NEW p \in Processes, Fail(p) PROVE FileInv'
  <1>1. CASE End(p)
    BY <1>1, EndKeepsInv DEF Fail
  <1>2. CASE Goto(p, "clean")
    <2>1. /\ proc' \in [Processes -> [pc : Pcs, file : Names \cup {Absent}, stamp : Nat]]
          /\ proc'[p].pc = "clean" /\ proc'[p].file = proc[p].file
          /\ \A q \in Processes : q # p => proc'[q] = proc[q]
      BY <1>2, GotoTyped DEF Pcs
    <2>2. TypeOK'
      BY <2>1 DEF Fail, FileInv, TypeOK
    <2>3. LastingSound'
      BY DEF Fail, FileInv, LastingSound, Sound
    <2>4. SavesInOrder'
      BY <2>1 DEF Fail, FileInv, SavesInOrder
    <2>5. FilesOwned'
      BY <2>1 DEF Fail, FileInv, FilesOwned
    <2> QED BY <2>2, <2>3, <2>4, <2>5 DEF FileInv
  <1> QED BY <1>1, <1>2 DEF Fail

(* After a power loss the name stands for an entry that could last, whose  *)
(* file is as it was, and no process is left.                              *)
LEMMA PowerLossInv == ASSUME FileInv, PowerLoss PROVE FileInv'
  <1>1. entry' \in lasting /\ lasting' = {entry'} /\ content' \in [Names -> Pieces]
        /\ \A f \in safe : f \in Names => content'[f] = content[f]
    BY DEF PowerLoss
  <1>2. \A p \in Processes : proc'[p] = AtRest
    BY DEF PowerLoss
  <1>3. TypeOK'
    BY <1>1 DEF PowerLoss, FileInv, TypeOK, AtRest, Pcs, Absent
  <1>4. LastingSound'
    <2>1. Sound(entry'.file) /\ saved <= entry'.stamp
      BY <1>1 DEF FileInv, LastingSound
    <2>2. Sound(entry.file)'
      BY <1>1, <2>1 DEF PowerLoss, FileInv, Sound, TypeOK
    <2>3. entry'.stamp \in Nat
      BY <1>1 DEF FileInv, TypeOK, Entries
    <2>4. \A e \in lasting' : e = entry' /\ saved' <= e.stamp /\ e.stamp <= entry'.stamp
      BY <1>1, <2>1, <2>3 DEF PowerLoss
    <2> QED BY <1>1, <2>2, <2>4 DEF LastingSound
  <1>5. SavesInOrder' /\ FilesOwned'
    BY <1>2 DEF PowerLoss, FileInv, SavesInOrder, FilesOwned, AtRest
  <1> QED BY <1>3, <1>4, <1>5 DEF FileInv

(* Every step keeps the invariant. *)
LEMMA NextInv == FileInv /\ [Next]_vars => FileInv'
  <1> SUFFICES ASSUME FileInv, [Next]_vars PROVE FileInv'
    OBVIOUS
  <1>1. CASE PowerLoss
    BY <1>1, PowerLossInv
  <1>2. ASSUME NEW p \in Processes, Step(p) PROVE FileInv'
    <2>1. CASE StartSave(p) \/ StartRemove(p)
      BY <2>1, BeginInv DEF StartSave, StartRemove
    <2>2. CASE Create(p) \/ Write(p)
      BY <2>2, CreateInv, WriteInv
    <2>3. CASE Sync(p) \/ Rename(p)
      BY <2>3, SyncInv, RenameInv
    <2>4. CASE SyncDirectory(p) \/ RemoveFile(p)
      BY <2>4, SyncDirectoryInv, RemoveInv
    <2>5. CASE Clean(p) \/ Kill(p)
      BY <2>5, EndKeepsInv DEF Clean, Kill
    <2>6. CASE Fail(p)
      BY <2>6, FailInv
    <2> QED BY <1>2, <2>1, <2>2, <2>3, <2>4, <2>5, <2>6 DEF Step
  <1>3. CASE UNCHANGED vars
    BY <1>3 DEF vars, FileInv, TypeOK, LastingSound, SavesInOrder, FilesOwned, Sound
  <1> QED BY <1>1, <1>2, <1>3 DEF Next

----------------------------------------------------------------------------
(* What the name can stand for, now or after a power loss, is whole,       *)
(* synced, and not older than a save that was reported; each save writes   *)
(* to a file of its own until it is.                                       *)
THEOREM FileInvariant == Spec => []FileInv
  <1> QED BY InitInv, NextInv, PTL DEF Spec

(* A command that reads the file finds all of what one save wrote, or no   *)
(* file: write_secret_file_atomic leaves nothing half written.             *)
THEOREM WholeFile == Spec => []Whole
  <1>1. FileInv => Whole
    BY DEF FileInv, LastingSound, Sound, Whole
  <1> QED BY <1>1, FileInvariant, PTL

----------------------------------------------------------------------------
(* The refinement *)

(* Sound entries are seen as they are. *)
LEMMA Seen == FileInv => AsPlain
  <1> SUFFICES ASSUME FileInv PROVE AsPlain
    OBVIOUS
  <1>1. \A e \in lasting : Value(e) = Plain(e)
    BY DEF FileInv, LastingSound, Sound, Value, Plain, Absent
  <1>2. entry \in lasting
    BY DEF FileInv, LastingSound
  <1> QED BY <1>1, <1>2 DEF AsPlain

LEMMA InitSimulates == Init => Durable!Init
  BY DEF Init, Durable!Init, Value, Entry, Absent

(* A step is a change, a settling or a power loss of DurableFile, or       *)
(* nothing that it sees.                                                   *)
LEMMA StepSimulates ==
    ASSUME FileInv, AsPlain, AsPlain', [Next]_vars
    PROVE  [Durable!Next]_<<Value(entry), {Value(e) : e \in lasting}, saved>>
  <1> DEFINE DV == <<Value(entry), {Value(e) : e \in lasting}, saved>>
  <1>1. ASSUME NEW file \in Names \cup {Absent}, Replace(file), UNCHANGED saved
        PROVE  Durable!Next
    <2>1. entry' = [file |-> file, stamp |-> entry.stamp + 1] /\ lasting' = lasting \cup {entry'}
      BY <1>1 DEF Replace, Entry
    <2>2. Value(entry)' = [value |-> file, stamp |-> Value(entry).stamp + 1]
      BY <2>1 DEF AsPlain, Plain
    <2>3. {Value(e) : e \in lasting}' = {Value(e) : e \in lasting} \cup {Value(entry)'}
      <3>1. {Plain(e) : e \in lasting}' = {Plain(e) : e \in lasting} \cup {Plain(entry)'}
        BY <2>1 DEF Plain
      <3> QED BY <3>1 DEF AsPlain
    <2> QED BY <1>1, <2>2, <2>3 DEF Durable!Next, Durable!Change
  <1>2. ASSUME UNCHANGED <<entry, lasting, saved>> PROVE UNCHANGED DV
    BY <1>2 DEF AsPlain, Plain
  <1>3. ASSUME NEW p \in Processes, SyncDirectory(p) PROVE Durable!Next
    <2>1. saved' \in saved .. entry.stamp
      BY <1>3, Settled
    <2>2. Value(entry)' = Value(entry) /\ Value(entry).stamp = entry.stamp
      BY <1>3 DEF SyncDirectory, AsPlain, Plain
    <2>3. {Value(e) : e \in lasting}' = {Value(entry)}
      BY <1>3 DEF SyncDirectory, AsPlain, Plain
    <2> QED BY <2>1, <2>2, <2>3 DEF Durable!Next, Durable!Settle
  <1>4. ASSUME PowerLoss PROVE Durable!Next
    <2>1. entry' \in lasting /\ lasting' = {entry'} /\ saved' = saved
      BY <1>4 DEF PowerLoss
    <2>2. Value(entry)' \in {Value(e) : e \in lasting}
      BY <2>1 DEF AsPlain, Plain
    <2>3. {Value(e) : e \in lasting}' = {Value(entry)'}
      BY <2>1 DEF AsPlain, Plain
    <2> QED BY <2>1, <2>2, <2>3 DEF Durable!Next, Durable!PowerLoss
  <1>5. ASSUME NEW p \in Processes, Step(p) PROVE Durable!Next \/ UNCHANGED DV
    <2>1. CASE Rename(p)
      <3>1. proc[p].file \in Names
        BY <2>1, OwnFile DEF Rename
      <3> QED BY <1>1, <2>1, <3>1 DEF Rename
    <2>2. CASE RemoveFile(p)
      BY <1>1, <2>2 DEF RemoveFile
    <2>3. CASE SyncDirectory(p)
      BY <1>3, <2>3
    <2>4. CASE StartSave(p) \/ StartRemove(p) \/ Create(p) \/ Write(p) \/ Sync(p)
               \/ Fail(p) \/ Clean(p) \/ Kill(p)
      <3>1. UNCHANGED <<entry, lasting, saved>>
        BY <2>4 DEF StartSave, StartRemove, Begin, Create, Write, Sync, Fail, Clean, Kill
      <3> QED BY <1>2, <3>1
    <2> QED BY <1>5, <2>1, <2>2, <2>3, <2>4 DEF Step
  <1>6. CASE UNCHANGED vars
    BY <1>2, <1>6 DEF vars
  <1> QED BY <1>4, <1>5, <1>6 DEF Next

(* Whatever is killed, fails or loses power, the name goes from one saved  *)
(* value to another, and what was reported as saved is not undone.         *)
THEOREM FileIsDurable == Spec => ImplementsDurableFile
  <1>1. [](FileInv /\ AsPlain) /\ [][Next]_vars
        => [][Durable!Next]_<<Value(entry), {Value(e) : e \in lasting}, saved>>
    <2>1. (FileInv /\ AsPlain) /\ (FileInv /\ AsPlain)' /\ [Next]_vars
          => [Durable!Next]_<<Value(entry), {Value(e) : e \in lasting}, saved>>
      BY StepSimulates
    <2> QED BY <2>1, PTL
  <1> QED BY <1>1, InitSimulates, FileInvariant, Seen, PTL DEF Spec, ImplementsDurableFile, Durable!Spec
=============================================================================
