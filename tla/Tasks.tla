------------------------------- MODULE Tasks -------------------------------
(***************************************************************************)
(* The task and comment commands of the command line.  A command loads the *)
(* key material of the session, then reads the session again for an access *)
(* token, asks the server for the work list to find the list key, reads    *)
(* the task if it needs it, and writes.  Nothing is locked, and the server *)
(* takes every write as it comes: commands, the web client and changes of  *)
(* the session interleave between the steps.                               *)
(*                                                                         *)
(* A task's title is kept twice: sealed on its own, and in the payload     *)
(* with the text and the references to attachments.  The server and the    *)
(* web client are external.                                                *)
(***************************************************************************)
EXTENDS CommandLine

CONSTANTS
    Agents,
    Members,      \* the users and agents that the server shows a list to, with
    Membership,   \* the membership ciphertext of each
    Titles, Texts, Files,
    Readable,     \* the files that the command line can show as text
    MaxTasks,     \* bounds of the model: tasks,
    MaxRuns,      \* commands started,
    MaxEdits      \* and changes made by others

(* A member has the key of a list sealed under the data key, a granted     *)
(* agent under its own, and who the key derives from has nothing.          *)
ASSUME MembersAssumption ==
    /\ Users \cap Agents = {}
    /\ \A l \in Lists : Members[l] \subseteq Users \cup Agents
    /\ \A l \in Lists : \A p \in Members[l] :
          Membership[p][l] =
              IF p = Deriver[l] THEN None
              ELSE IF p \in Users THEN SealMembership(p, DerivedListKey(Deriver[l], l))
              ELSE SealGrant(p, l, DerivedListKey(Deriver[l], l))

ASSUME GivenAssumption == (Titles \cup Texts) \cap {None, "blank"} = {}

VARIABLES
    principal,    \* the user or agent whose saved credentials a command takes, or None
    tasks,        \* the tasks at the server
    comments,     \* their comments, one each at most,
    retired,      \* and never a second one after that: the ids are not used again
    edits         \* changes made by others

taskVars == <<principal, tasks, comments, retired, cmd, runs, edits>>

Principals == Users \cup Agents
TaskIds == 1 .. MaxTasks
ListKey(l) == DerivedListKey(Deriver[l], l)

----------------------------------------------------------------------------
(* Tasks and comments, and what is shown of them *)

Body(title, text, attachments) == [title |-> title, text |-> text, attachments |-> attachments]

(* torn: written by a command that another write had overtaken.            *)
(* stray: written by a command whose session had changed under it.         *)
Task(l, key, body, files) ==
    [list |-> l, title |-> Seal(key, "title", body.title), payload |-> Seal(key, "task", body),
     files |-> files, place |-> "board", assignment |-> None, torn |-> FALSE, stray |-> FALSE]

Comment(key, text, mentions, stray) ==
    [body |-> Seal(key, "comment", [text |-> text, mentions |-> mentions]), stray |-> stray]

(* An attachment of a task refers to its file, sealed under the list key.  *)
Attach(key, file) == Seal(key, "attachment", file)
BlobRef(key, attachment) == Open(key, "attachment", attachment)

(* resolve_work_list_key_for_principal_source, with the key material of p  *)
(* and the membership that the server shows to q                           *)
Resolve(p, q, l) ==
    IF p \in Users THEN UserListKey(p, l, Membership[q][l])
    ELSE OpenGrant(p, l, Membership[q][l])

(* project_task: the title's own ciphertext is a fallback.                 *)
Project(key, task) ==
    LET body == Open(key, "task", task.payload) IN
    IF body = None THEN [title |-> Open(key, "title", task.title), text |-> None, error |-> TRUE]
    ELSE [title |-> body.title, text |-> body.text, error |-> FALSE]

(* project_comment *)
ProjectComment(key, comment) ==
    LET body == Open(key, "comment", comment.body) IN
    IF body = None THEN [title |-> None, text |-> None, error |-> TRUE]
    ELSE [title |-> None, text |-> body.text, error |-> FALSE]

----------------------------------------------------------------------------
(* Commands *)

(* What is given on the command line; blank is empty when trimmed.         *)
Given(values) == values \cup {None, "blank"}

(* overtaken: what the command read was written since.                     *)
(* witnessed: the assignment was accepted when the command looked at it.   *)
TaskCommand(name, id, l, title, text) ==
    [pc |-> "connect", name |-> name, id |-> id, list |-> l, title |-> title, text |-> text,
     source |-> principal, token |-> None, key |-> None, base |-> None,
     overtaken |-> FALSE, witnessed |-> FALSE, shown |-> None]

(* The web client wrote a task with its attachments and a comment.         *)
TasksInit ==
    /\ principal \in Principals
    /\ \E l \in Lists, t \in Titles, assignment \in {None, "pending", "declined"} :
          LET task == [Task(l, ListKey(l), Body(t, None, {Attach(ListKey(l), f) : f \in Files}), Files) EXCEPT !.assignment = assignment]
          IN  tasks = [i \in TaskIds |-> IF i = 1 THEN task ELSE None]
    /\ \E text \in Texts :
          comments = [i \in TaskIds |->
                        IF i = 1 THEN Comment(ListKey(tasks[1].list), text, None, FALSE) ELSE None]
    /\ cmd = [c \in Commands |-> Idle]
    /\ retired = {} /\ runs = 0 /\ edits = 0

Unwritten == UNCHANGED <<principal, tasks, comments, retired, runs, edits>>

(* load_principal_work_list_key_source *)
Issue(c, name, id, l, title, text) ==
    /\ cmd[c] = Idle /\ principal # None /\ runs < MaxRuns
    /\ Become(c, TaskCommand(name, id, l, title, text))
    /\ runs' = runs + 1
    /\ UNCHANGED <<principal, tasks, comments, retired, edits>>

Existing == {i \in TaskIds : tasks[i] # None}
Unused == {i \in TaskIds \ Existing : <<"task", i>> \notin retired}

StartCreate(c) ==
    \E l \in Lists, title \in Titles \cup {"blank"}, text \in Texts \cup {None} :
        Issue(c, "create", 0, l, title, text)
StartUpdate(c) ==
    \E i \in Existing, title \in Given(Titles), text \in Given(Texts) :
        Issue(c, "update", i, tasks[i].list, title, text)
StartComment(c) ==
    \E i \in Existing, name \in {"comment", "recomment"}, text \in Texts \cup {"blank"} :
        Issue(c, name, i, tasks[i].list, None, text)
StartAccept(c) ==
    principal \in Agents /\ \E i \in Existing : Issue(c, "accept", i, tasks[i].list, None, None)
StartOther(c) ==
    \E i \in Existing,
       name \in {"get", "comments", "download", "read", "move", "archive", "unarchive", "delete", "uncomment"} :
        Issue(c, name, i, tasks[i].list, None, None)

Start(c) == StartCreate(c) \/ StartUpdate(c) \/ StartComment(c) \/ StartAccept(c) \/ StartOther(c)

(* A request fails, the command refuses what it read or was given, or it   *)
(* is killed.  An answer that is lost leaves the command as ReturnTask does.   *)
FailTask(c) == cmd[c].pc \notin {"idle", "done"} /\ Become(c, Idle) /\ Unwritten

(* require_work_list_key, for what cannot be done without the key          *)
NeedKey == {"create", "update", "comment", "recomment", "download", "read"}
Fetching == {"update", "recomment", "accept", "get", "download", "read"}

(* A title of a new task, or a comment, must not be blank.                 *)
Refused(command) ==
    \/ command.name = "create" /\ command.title = "blank"
    \/ command.name \in {"comment", "recomment"} /\ command.text = "blank"

(* context_from_work_list_detail *)
ContextKey(command) == Resolve(command.source, principal, command.list)

(* authenticated_api_client, load_work_list_context                        *)
Connect(c) ==
    /\ cmd[c].pc = "connect"
    /\ principal # None
    /\ principal \in Members[cmd[c].list]
    /\ LET key == ContextKey(cmd[c]) IN
          /\ cmd[c].name \in NeedKey => key # None
          /\ ~Refused(cmd[c])
          /\ Become(c, [cmd[c] EXCEPT !.token = principal, !.key = key,
                           !.pc = IF cmd[c].name \in Fetching THEN "fetch" ELSE "send"])
    /\ Unwritten

(* get_task, for the command called name *)
Fetched(c, name) == cmd[c].pc = "fetch" /\ cmd[c].name = name /\ tasks[cmd[c].id] # None
Read(c, base) ==
    [cmd[c] EXCEPT !.pc = "send", !.base = base, !.overtaken = FALSE,
                   !.witnessed = tasks[cmd[c].id].assignment = "accepted"]
Shown(record, shown) == [record EXCEPT !.pc = "done", !.shown = shown]

GetTask(c) ==
    /\ Fetched(c, "get")
    /\ Become(c, Shown(cmd[c], Project(cmd[c].key, tasks[cmd[c].id])))
    /\ Unwritten

(* A title that is given must not be blank; a text may be, to remove it.   *)
FetchForUpdate(c) ==
    /\ Fetched(c, "update")
    /\ cmd[c].title # "blank"
    /\ cmd[c].title # None \/ cmd[c].text # None
    /\ LET body == Open(cmd[c].key, "task", tasks[cmd[c].id].payload) IN
          body # None /\ Become(c, Read(c, body))
    /\ Unwritten

FetchForRecomment(c) ==
    /\ Fetched(c, "recomment")
    /\ comments[cmd[c].id] # None
    /\ LET body == Open(cmd[c].key, "comment", comments[cmd[c].id].body) IN
          body # None /\ Become(c, Read(c, body))
    /\ Unwritten

AcceptsPendingOnly(c) ==  \* mutant: whatever is not pending needs no update
    /\ Fetched(c, "accept")
    /\ tasks[cmd[c].id].assignment # None
    /\ IF tasks[cmd[c].id].assignment # "pending"
       THEN Become(c, Shown(Read(c, None), Project(cmd[c].key, tasks[cmd[c].id])))
       ELSE Become(c, Read(c, None))
    /\ Unwritten

(* accept_task_assignment: an assignment accepted before is not updated.   *)
FetchForAccept(c) ==
    /\ Fetched(c, "accept")
    /\ tasks[cmd[c].id].assignment # None
    /\ IF tasks[cmd[c].id].assignment = "accepted"
       THEN Become(c, Shown(Read(c, None), Project(cmd[c].key, tasks[cmd[c].id])))
       ELSE Become(c, Read(c, None))
    /\ Unwritten

(* find_task_attachment in the payload.  What cannot be shown as text is   *)
(* not downloaded to be read.                                              *)
FetchForDownload(c) ==
    /\ \E name \in {"download", "read"} : Fetched(c, name)
    /\ LET body == Open(cmd[c].key, "task", tasks[cmd[c].id].payload) IN
          /\ body # None
          /\ \E attachment \in body.attachments :
                LET file == BlobRef(cmd[c].key, attachment) IN
                /\ file # None
                /\ cmd[c].name = "read" => file \in Readable
                /\ Become(c, Read(c, [file |-> file]))
    /\ Unwritten

(* The server gives the address of a file that the task still has.         *)
Download(c) ==
    /\ cmd[c].pc = "send" /\ cmd[c].name \in {"download", "read"}
    /\ tasks[cmd[c].id] # None
    /\ cmd[c].base.file \in tasks[cmd[c].id].files
    /\ Become(c, Shown(cmd[c], [title |-> None, text |-> cmd[c].base.file, error |-> FALSE]))
    /\ Unwritten

Sending(c, name) == cmd[c].pc = "send" /\ cmd[c].name = name

(* The commands that read what is written now are overtaken; the command c *)
(* has its answer.                                                         *)
Overtake(names, i, commands) ==
    [d \in Commands |->
        IF cmd[d].pc = "send" /\ cmd[d].id = i /\ cmd[d].name \in names
        THEN [commands[d] EXCEPT !.overtaken = TRUE] ELSE commands[d]]

Answer(c, shown) == [cmd EXCEPT ![c] = Shown(@, shown)]
Stray(c) == cmd[c].source # cmd[c].token

(* create_task: the client chooses the id, and a new one every time.       *)
CreateTask(c) ==
    /\ Sending(c, "create")
    /\ \E i \in Unused :
          LET task == [Task(cmd[c].list, cmd[c].key, Body(cmd[c].title, cmd[c].text, {}), {})
                          EXCEPT !.stray = Stray(c)]
          IN  /\ tasks' = [tasks EXCEPT ![i] = task]
              /\ cmd' = Answer(c, Project(cmd[c].key, task))
    /\ UNCHANGED <<principal, comments, retired, runs, edits>>

UpdatedAnew(base, title, text) ==  \* mutant: what the update is not about is not taken over
    Body(IF title = None THEN base.title ELSE title, IF text \in Texts THEN text ELSE None, base.attachments)

Updated(base, title, text) ==
    [base EXCEPT !.title = IF title = None THEN @ ELSE title,
                 !.text = IF text = None THEN @ ELSE IF text = "blank" THEN None ELSE text]

SealsNoTitle(c, task) ==  \* mutant: the title is sealed in the payload only
    [task EXCEPT !.payload = Seal(cmd[c].key, "task", Updated(cmd[c].base, cmd[c].title, cmd[c].text)),
                 !.torn = @ \/ cmd[c].overtaken, !.stray = @ \/ Stray(c)]

(* update_task: the whole payload is sealed again, and the title on its    *)
(* own when it is given.                                                   *)
Reseal(c, task) ==
    [task EXCEPT !.payload = Seal(cmd[c].key, "task", Updated(cmd[c].base, cmd[c].title, cmd[c].text)),
                 !.title = IF cmd[c].title = None THEN @ ELSE Seal(cmd[c].key, "title", cmd[c].title),
                 !.torn = @ \/ cmd[c].overtaken, !.stray = @ \/ Stray(c)]

Update(c) ==
    /\ Sending(c, "update")
    /\ LET i == cmd[c].id IN
          /\ tasks[i] # None
          /\ tasks' = [tasks EXCEPT ![i] = Reseal(c, @)]
          /\ cmd' = Overtake({"update"}, i, Answer(c, Project(cmd[c].key, tasks'[i])))
    /\ UNCHANGED <<principal, comments, retired, runs, edits>>

AddComment(c) ==
    /\ Sending(c, "comment")
    /\ LET i == cmd[c].id
           comment == Comment(cmd[c].key, cmd[c].text, None, Stray(c))
       IN  /\ tasks[i] # None /\ comments[i] = None /\ <<"comment", i>> \notin retired
           /\ comments' = [comments EXCEPT ![i] = comment]
           /\ cmd' = Answer(c, ProjectComment(cmd[c].key, comment))
    /\ UNCHANGED <<principal, tasks, retired, runs, edits>>

(* update_comment keeps the mentions that it read.                         *)
Recomment(c) ==
    /\ Sending(c, "recomment")
    /\ LET i == cmd[c].id
           comment == Comment(cmd[c].key, cmd[c].text, cmd[c].base.mentions, Stray(c))
       IN  /\ tasks[i] # None /\ comments[i] # None
           /\ comments' = [comments EXCEPT ![i] = comment]
           /\ cmd' = Overtake({"recomment"}, i, Answer(c, ProjectComment(cmd[c].key, comment)))
    /\ UNCHANGED <<principal, tasks, retired, runs, edits>>

ListComments(c) ==
    /\ Sending(c, "comments")
    /\ LET i == cmd[c].id IN
          /\ tasks[i] # None
          /\ Become(c, Shown(cmd[c], IF comments[i] = None THEN None
                                     ELSE ProjectComment(cmd[c].key, comments[i])))
    /\ Unwritten

Uncomment(c) ==
    /\ Sending(c, "uncomment")
    /\ tasks[cmd[c].id] # None /\ comments[cmd[c].id] # None
    /\ comments' = [comments EXCEPT ![cmd[c].id] = None]
    /\ retired' = retired \cup {<<"comment", cmd[c].id>>}
    /\ Become(c, Idle)
    /\ UNCHANGED <<principal, tasks, runs, edits>>

(* move_task, archive_task, unarchive_task: the contents stay as they are. *)
Assignments == {"pending", "accepted", "declined"}
Place == [move |-> "section", archive |-> "archive", unarchive |-> "board"]

Relocate(c) ==
    /\ cmd[c].pc = "send" /\ cmd[c].name \in DOMAIN Place
    /\ LET i == cmd[c].id IN
          /\ tasks[i] # None
          /\ tasks' = [tasks EXCEPT ![i].place = Place[cmd[c].name]]
          /\ cmd' = Answer(c, Project(cmd[c].key, tasks[i]))
    /\ UNCHANGED <<principal, comments, retired, runs, edits>>

Delete(c) ==
    /\ Sending(c, "delete")
    /\ tasks[cmd[c].id] # None
    /\ tasks' = [tasks EXCEPT ![cmd[c].id] = None]
    /\ comments' = [comments EXCEPT ![cmd[c].id] = None]
    /\ retired' = retired \cup {<<"task", cmd[c].id>>}
    /\ Become(c, Idle)
    /\ UNCHANGED <<principal, runs, edits>>

(* update_delegation, unless the assignment was withdrawn                  *)
UpdateDelegation(c) ==
    /\ Sending(c, "accept")
    /\ LET i == cmd[c].id IN
          /\ tasks[i] # None /\ tasks[i].assignment # None
          /\ tasks' = [tasks EXCEPT ![i].assignment = "accepted"]
    /\ Become(c, [cmd[c] EXCEPT !.pc = "reload", !.witnessed = TRUE])
    /\ UNCHANGED <<principal, comments, retired, runs, edits>>

(* The task is read again, to show it.                                     *)
Reload(c) ==
    /\ cmd[c].pc = "reload"
    /\ tasks[cmd[c].id] # None
    /\ Become(c, Shown(cmd[c], Project(cmd[c].key, tasks[cmd[c].id])))
    /\ Unwritten

ReturnTask(c) == cmd[c].pc = "done" /\ Become(c, Idle) /\ Unwritten

Proceed(c) ==
    \/ Connect(c) \/ GetTask(c) \/ FetchForUpdate(c) \/ FetchForRecomment(c)
    \/ FetchForAccept(c) \/ FetchForDownload(c) \/ Download(c)
    \/ CreateTask(c) \/ Update(c) \/ AddComment(c) \/ Recomment(c) \/ ListComments(c)
    \/ Uncomment(c) \/ Relocate(c) \/ Delete(c) \/ UpdateDelegation(c) \/ Reload(c)

----------------------------------------------------------------------------
(* Others *)

Edit == edits < MaxEdits /\ edits' = edits + 1 /\ UNCHANGED runs

(* auth login, auth logout, agent register, by other processes             *)
ChangeSession ==
    /\ Edit
    /\ principal' \in (Principals \cup {None}) \ {principal}
    /\ UNCHANGED <<tasks, comments, retired, cmd>>

(* The web client writes title, payload and attachments together.          *)
WebEdit ==
    /\ Edit
    /\ \E i \in Existing, title \in Titles, files \in SUBSET Files :
          LET l == tasks[i].list
              text == Project(ListKey(l), tasks[i]).text
          IN  /\ tasks' = [tasks EXCEPT ![i] =
                              [Task(l, ListKey(l), Body(title, text, {Attach(ListKey(l), f) : f \in files}), files) EXCEPT
                                  !.place = tasks[i].place, !.assignment = tasks[i].assignment]]
              /\ cmd' = Overtake({"update"}, i, cmd)
    /\ UNCHANGED <<principal, comments, retired>>

WebComment ==
    /\ Edit
    /\ \E i \in Existing, text \in Texts, mentions \in Users :
          /\ <<"comment", i>> \notin retired
          /\ comments' = [comments EXCEPT ![i] = Comment(ListKey(tasks[i].list), text, mentions, FALSE)]
          /\ cmd' = Overtake({"recomment"}, i, cmd)
    /\ UNCHANGED <<principal, tasks, retired>>

(* The owner assigns the task to the agent, or withdraws that; an agent    *)
(* declines elsewhere.                                                     *)
Assign ==
    /\ Edit
    /\ \E i \in Existing, assignment \in {None, "pending", "declined"} :
          tasks' = [tasks EXCEPT ![i].assignment = assignment]
    /\ UNCHANGED <<principal, comments, retired, cmd>>

TasksNext ==
    \/ \E c \in Commands : Start(c) \/ Proceed(c) \/ FailTask(c) \/ ReturnTask(c)
    \/ ChangeSession \/ WebEdit \/ WebComment \/ Assign

TasksSpec == TasksInit /\ [][TasksNext]_taskVars

----------------------------------------------------------------------------
(* Correctness *)

IsKey(key) == key = None \/ \E u \in Users, l \in Lists : key = DerivedListKey(u, l)
IsTask(task) ==
    /\ task.assignment \in Assignments \cup {None}
    /\ task.list \in Lists /\ task.files \subseteq Files
    /\ IsKey(task.title.key) /\ task.title.body \in Titles
    /\ IsKey(task.payload.key) /\ task.payload.body.title \in Titles
    /\ task.payload.body.text \in Texts \cup {None}

(* Type correctness: what the server keeps is sealed under list keys, and  *)
(* never holds blank text.                                                 *)
TasksTyped ==
    /\ principal \in Principals \cup {None}
    /\ \A i \in TaskIds : tasks[i] # None => IsTask(tasks[i])
    /\ \A i \in TaskIds : comments[i] # None => comments[i].body.body.text \in Texts
    /\ \A c \in Commands : cmd[c] # Idle => IsKey(cmd[c].key)
    /\ runs \in 0 .. MaxRuns /\ edits \in 0 .. MaxEdits

(* Deriver, members and agents find the same list key from what each of them *)
(* has: whatever a command writes, every member can read, unless the       *)
(* session changed while it ran.  Then the data key of one user meets the  *)
(* lists of another, and if those are derived, a wrong key comes out.      *)
SealedUnderListKey ==
    \A i \in Existing :
        LET key == ListKey(tasks[i].list) IN
        /\ ~tasks[i].stray => tasks[i].title.key = key /\ tasks[i].payload.key = key
        /\ comments[i] # None /\ ~comments[i].stray => comments[i].body.key = key

(* The two copies of the title agree, and the payload refers to the        *)
(* attachments that the server keeps for the task, unless an update wrote  *)
(* over a version that it had not read: nothing stops it from doing that.  *)
CopiesAgree ==
    \A i \in Existing :
        ~tasks[i].torn =>
            /\ tasks[i].title.body = tasks[i].payload.body.title
            /\ {BlobRef(tasks[i].payload.key, a) : a \in tasks[i].payload.body.attachments}
                  = tasks[i].files

(* An update that nothing overtook changes what it was given, and nothing  *)
(* else that a member can read in the task or the comment.                 *)
Exactly(c) ==
    LET i == cmd[c].id IN
    CASE cmd[c].name = "update" ->
            LET old == Open(cmd[c].key, "task", tasks[i].payload)
                new == Open(cmd[c].key, "task", tasks'[i].payload)
            IN  /\ new.title = IF cmd[c].title = None THEN old.title ELSE cmd[c].title
                /\ cmd[c].text = None => new.text = old.text
                /\ cmd[c].text \in Texts => new.text = cmd[c].text
                /\ new.attachments = old.attachments
      [] cmd[c].name = "recomment" ->
            Open(cmd[c].key, "comment", comments'[i].body) =
                [Open(cmd[c].key, "comment", comments[i].body) EXCEPT !.text = cmd[c].text]

UpdateIsExact(c) ==
    /\ cmd[c].pc = "send" /\ cmd[c].name \in {"update", "recomment"}
    /\ cmd'[c].pc = "done"
    /\ ~cmd[c].overtaken
    => Exactly(c)

UpdatesAreExact == [][\A c \in Commands : UpdateIsExact(c)]_taskVars

(* An agent that is told that it accepted a task did: the assignment was   *)
(* accepted while the command ran, by it or before, however often an       *)
(* acceptance is tried again.                                              *)
AcceptedWhenTold ==
    \A c \in Commands :
        cmd[c].pc = "done" /\ cmd[c].name = "accept" => cmd[c].witnessed
=============================================================================
