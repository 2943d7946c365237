------------------------------ MODULE Sharing ------------------------------
(***************************************************************************)
(* How the key of a work list reaches those who may read the list: members *)
(* by an invitation that they open with a key derived from their data key, *)
(* agents by a grant, and everybody again after a change of password, which*)
(* wraps the data key anew.  Pages of the web client do most of this, the  *)
(* command line grants too, and older clients have left envelopes and      *)
(* titles in the forms they had.                                           *)
(*                                                                         *)
(* The server is external: it keeps what it is sent, and may change a role *)
(* or end a membership while a page is at work.  So is the application     *)
(* around the library, which holds the data key in its pages.              *)
(***************************************************************************)
EXTENDS Hpke, Integers

CONSTANTS
    Users, Agents, Lists, Pages,
    Owner,         \* [Lists -> Users]: the owner of every list
    MaxInvites,    \* bounds of the model: invitations ever made,
    MaxPasswords,  \* passwords of a user,
    MaxTitles      \* and titles of a list

ASSUME OwnerAssumption == Owner \in [Lists -> Users]

VARIABLES
    account,      \* the password of every user, and whether OPAQUE is registered
    dataKey,      \* the data key ciphertexts
    invitations,  \* the pending ones
    invited,      \* how many there were
    membership,   \* the list keys that members keep under their data key
    grant,        \* the list keys that agents were granted
    title,        \* the titles, sealed
    titled,       \* the title that was saved last
    page          \* the pages: whose they are, and what they are at

vars == <<account, dataKey, invitations, invited, membership, grant, title, titled, page>>

Closed == [pc |-> "closed"]
Roles == {"member", "admin"}

----------------------------------------------------------------------------
(* The data key ciphertext: version 1 under the password, version 2 under  *)
(* the export key of OPAQUE                                                *)

ExportedBy(user, login) == IF login.opaque THEN <<"export", user, login.password>> ELSE None
ExportKey(user) == ExportedBy(user, account[user])

Argon2(password) == <<"argon2", password>>
FromExportKey(exportKey) == <<"hkdf", exportKey>>

Wrap(key, password, exportKey) ==
    IF exportKey # None
    THEN [version |-> 2, sealed |-> Seal(FromExportKey(exportKey), "data_key", key)]
    ELSE [version |-> 1, sealed |-> Seal(Argon2(password), "data_key", key)]

(* decryptDataKeyCiphertext, decrypt_user_data_key_with_login_secret *)
Unwrap(payload, password, exportKey) ==
    IF payload.version = 1 THEN Open(Argon2(password), "data_key", payload.sealed)
    ELSE IF exportKey = None THEN None
    ELSE Open(FromExportKey(exportKey), "data_key", payload.sealed)

----------------------------------------------------------------------------
(* List keys and invitations *)

KeyOf(list) == DerivedListKey(Owner[list], list)
Holds(user, list) == user = Owner[list] \/ membership[user][list] # None
ListKey(user, list) == UserListKey(user, list, membership[user][list])

InviteKey(key, user) == <<"invite:keypair", user, key>>
MemberKey(listKey, user, salt) == <<"member", user, salt, listKey>>

Binding(list, id, role, public) == <<"work_list.invite.binding", list, id, role, public>>

(* createWorkListInvitePayload.  Every invitation has its own salt, for    *)
(* which its id stands here.                                               *)
Invitation(bridge, list, listKey, user, id, role, public) ==
    [id |-> id, list |-> list, user |-> user, role |-> role, invitedAs |-> role,
     salt |-> id,
     member |-> Seal(MemberKey(listKey, user, id), "invite.member",
                     [user |-> user, key |-> MemberKey(listKey, user, id)]),
     recipient |-> PageSeal(bridge, public, Binding(list, id, role, public),
                            [list |-> list, id |-> id, role |-> role, key |-> listKey])]

(* decryptRecipientCiphertext *)
RecipientListKey(bridge, invitation, key, user) ==
    LET private == InviteKey(key, user)
        body == PageOpen(bridge, private,
                    Binding(invitation.list, invitation.id, invitation.role, Public(private)),
                    invitation.recipient)
    IN  IF body # None /\ body.list = invitation.list /\ body.role = invitation.role
                       /\ body.id = invitation.id
        THEN body.key ELSE None

(* verifyInviteEnvelope *)
Verifies(invitation, listKey, user) ==
    LET memberKey == MemberKey(listKey, user, invitation.salt)
        body == Open(memberKey, "invite.member", invitation.member)
    IN  body # None /\ body.user = user /\ body.key = memberKey

(* buildWorkListInviteAcceptancePayload: the list key under the data key   *)
Acceptance(bridge, invitation, key, user) ==
    LET listKey == RecipientListKey(bridge, invitation, key, user) IN
    IF listKey # None /\ Verifies(invitation, listKey, user)
    THEN Seal(key, "membership", listKey) ELSE None

----------------------------------------------------------------------------
(* Titles: bound to their list, or as older clients sealed them *)

BaseContext == <<"title">>
BoundContext(list) == <<"title", list>>

PageReadsBound(key, list) == Open(key, BoundContext(list), title[list])  \* mutant: no fallback

(* decryptTextValue *)
PageReadsTitle(key, list) ==
    LET bound == Open(key, BoundContext(list), title[list])
    IN  IF bound # None THEN bound ELSE Open(key, BaseContext, title[list])

(* decrypt_text_value_for_entity *)
RustReadsTitle(key, list) ==
    LET bound == Open(key, BoundContext(list), title[list])
    IN  IF bound # None THEN bound ELSE Open(key, BaseContext, title[list])

----------------------------------------------------------------------------
(* An invitation that an older client made *)
OldInvitation(user, list) ==
    LET public == Public(InviteKey(DataKey(user), user)) IN
    [Invitation("none", list, KeyOf(list), user, 0, "member", public) EXCEPT
        !.recipient = LegacySealed(public, Binding(list, 0, "member", public),
                          [list |-> list, id |-> 0, role |-> "member", key |-> KeyOf(list)])]

(* Accounts are of either kind, and so are the wrappings of their data     *)
(* keys; an invitation and grants of older clients may be there.           *)
Init ==
    /\ account \in [Users -> [password : {0}, opaque : BOOLEAN]]
    /\ dataKey \in [Users -> UNION {{Wrap(DataKey(u), 0, None), Wrap(DataKey(u), 0, ExportKey(u))} :
                                    u \in Users}]
    /\ \A u \in Users : Unwrap(dataKey[u], 0, ExportKey(u)) = DataKey(u)
    /\ membership = [u \in Users |-> [l \in Lists |-> None]]
    /\ \E old \in SUBSET {i \in Users \X Lists : i[1] # Owner[i[2]]} :
          invitations = {OldInvitation(i[1], i[2]) : i \in old}
    /\ invited = 0
    /\ grant \in [Agents -> [Lists -> {None}]]
          \cup {[a \in Agents |-> [l \in Lists |->
                   LegacySealed(Public(RecipientKey(a)), GrantContext(l), KeyOf(l))]]}
    /\ title = [l \in Lists |-> None]
    /\ titled = [l \in Lists |-> 0]
    /\ page = [p \in Pages |-> Closed]

Become(p, record) == page' = [page EXCEPT ![p] = record]
At(p, bridge) == page[p].pc = "open" /\ page[p].bridge \in bridge

(* Whether the bridge is there is found out once. *)
OpenPage(p) ==
    /\ page[p] = Closed
    /\ \E u \in Users, bridge \in {"wasm", "none"} :
          Become(p, [pc |-> "open", user |-> u, bridge |-> bridge])
    /\ UNCHANGED <<account, dataKey, invitations, invited, membership, grant, title, titled>>

ClosePage(p) ==
    /\ page[p] # Closed
    /\ Become(p, Closed)
    /\ UNCHANGED <<account, dataKey, invitations, invited, membership, grant, title, titled>>

(* A page fetches an invitation for its user.  *)
FetchInvitation(p) ==
    /\ At(p, {"wasm", "none"})
    /\ \E i \in invitations :
          /\ i.user = page[p].user
          /\ Become(p, [pc |-> "accepting", user |-> i.user, bridge |-> page[p].bridge, held |-> i])
    /\ UNCHANGED <<account, dataKey, invitations, invited, membership, grant, title, titled>>

(* The acceptance is made from what was fetched; the server takes it for   *)
(* the membership, if that is still pending.  A page without the bridge    *)
(* opens the recipient ciphertext and then cannot verify.                  *)
Accept(p) ==
    /\ page[p].pc = "accepting"
    /\ LET u == page[p].user
           accepted == IF page[p].bridge = "none" THEN None
                       ELSE Acceptance(page[p].bridge, page[p].held, DataKey(u), u)
           pending == {i \in invitations : i.id = page[p].held.id /\ i.list = page[p].held.list
                                           /\ i.user = u}
       IN  IF accepted # None /\ pending # {}
           THEN /\ membership' = [membership EXCEPT ![u][page[p].held.list] = accepted]
                /\ invitations' = invitations \ pending
           ELSE UNCHANGED <<membership, invitations>>
    /\ Become(p, [pc |-> "open", user |-> page[p].user, bridge |-> page[p].bridge])
    /\ UNCHANGED <<account, dataKey, invited, grant, title, titled>>

(* A member invites another user: the member envelope needs the bridge.    *)
Invite(p) ==
    /\ At(p, {"wasm"}) /\ invited < MaxInvites
    /\ \E l \in Lists, u \in Users \ {page[p].user}, role \in Roles :
          /\ Holds(page[p].user, l) /\ ~Holds(u, l)
          /\ invitations' = invitations \cup
                {Invitation(page[p].bridge, l, ListKey(page[p].user, l), u, invited + 1, role,
                            Public(InviteKey(DataKey(u), u)))}
    /\ invited' = invited + 1
    /\ UNCHANGED <<account, dataKey, membership, grant, title, titled, page>>

(* A change of password fetches the data key ciphertext ...                *)
FetchDataKey(p) ==
    /\ At(p, {"wasm"})
    /\ account[page[p].user].password < MaxPasswords
    /\ Become(p, [pc |-> "rewrapping", user |-> page[p].user, bridge |-> page[p].bridge,
                  payload |-> dataKey[page[p].user], password |-> account[page[p].user].password,
                  exportKey |-> ExportKey(page[p].user)])
    /\ UNCHANGED <<account, dataKey, invitations, invited, membership, grant, title, titled>>

(* ... and rewrapDataKeyCiphertext makes the new one, which the server     *)
(* takes together with the new password, or registration.                  *)
Rewrap(p) ==
    /\ page[p].pc = "rewrapping"
    /\ LET u == page[p].user
           key == Unwrap(page[p].payload, page[p].password, page[p].exportKey)
       IN  \E opaque \in BOOLEAN :
             LET login == [password |-> account[u].password + 1, opaque |-> opaque] IN
             /\ key # None
             /\ account[u].opaque => opaque
             /\ account' = [account EXCEPT ![u] = login]
             /\ dataKey' = [dataKey EXCEPT ![u] = Wrap(key, login.password, ExportedBy(u, login))]
    /\ Become(p, [pc |-> "open", user |-> page[p].user, bridge |-> page[p].bridge])
    /\ UNCHANGED <<invitations, invited, membership, grant, title, titled>>

(* buildAgentGrantCiphertext: whoever holds the list key in a page         *)
GrantFromPage(p) ==
    /\ At(p, {"wasm", "none"})
    /\ \E a \in Agents, l \in Lists :
          /\ Holds(page[p].user, l)
          /\ membership[page[p].user][l] # None => page[p].bridge = "wasm"
          /\ grant' = [grant EXCEPT ![a][l] =
                PageSeal(page[p].bridge, Public(RecipientKey(a)), GrantContext(l),
                         ListKey(page[p].user, l))]
    /\ UNCHANGED <<account, dataKey, invitations, invited, membership, title, titled, page>>

(* The command line approves an agent. *)
GrantFromCommandLine(u) ==
    /\ \E a \in Agents, l \in Lists :
          /\ Holds(u, l)
          /\ grant' = [grant EXCEPT ![a][l] = RustSealGrant(Public(RecipientKey(a)), l, ListKey(u, l))]
    /\ UNCHANGED <<account, dataKey, invitations, invited, membership, title, titled, page>>

(* sealTextValue: the caller may leave the entity out.                     *)
SaveTitle(p) ==
    /\ At(p, {"wasm"})
    /\ \E l \in Lists, context \in {"bound", "base"} :
          /\ Holds(page[p].user, l) /\ titled[l] < MaxTitles
          /\ titled' = [titled EXCEPT ![l] = @ + 1]
          /\ title' = [title EXCEPT ![l] =
                Seal(ListKey(page[p].user, l),
                     IF context = "bound" THEN BoundContext(l) ELSE BaseContext, titled'[l])]
    /\ UNCHANGED <<account, dataKey, invitations, invited, membership, grant, page>>

(* The server: a role is changed, an invitation withdrawn, a membership ends *)
ChangeRole ==
    /\ \E i \in invitations, role \in Roles :
          invitations' = (invitations \ {i}) \cup {[i EXCEPT !.role = role]}
    /\ UNCHANGED <<account, dataKey, invited, membership, grant, title, titled, page>>

Withdraw ==
    /\ \E i \in invitations : invitations' = invitations \ {i}
    /\ UNCHANGED <<account, dataKey, invited, membership, grant, title, titled, page>>

Leave ==
    /\ \E u \in Users, l \in Lists :
          membership[u][l] # None /\ membership' = [membership EXCEPT ![u][l] = None]
    /\ UNCHANGED <<account, dataKey, invitations, invited, grant, title, titled, page>>

Next ==
    \/ \E p \in Pages : OpenPage(p) \/ ClosePage(p) \/ FetchInvitation(p) \/ Accept(p) \/ Invite(p)
                        \/ FetchDataKey(p) \/ Rewrap(p) \/ GrantFromPage(p) \/ SaveTitle(p)
    \/ \E u \in Users : GrantFromCommandLine(u)
    \/ ChangeRole \/ Withdraw \/ Leave

Spec == Init /\ [][Next]_vars

----------------------------------------------------------------------------
(* A pending invitation gives its user the key of its list, in any page    *)
(* that has the bridge and whichever client made it, as long as its role   *)
(* is the one it was made for; with another role it gives nothing.         *)
InvitationsOpenAsMade ==
    \A i \in invitations :
        LET accepted == Acceptance("wasm", i, DataKey(i.user), i.user) IN
        IF i.role = i.invitedAs THEN accepted = SealMembership(i.user, KeyOf(i.list))
                                ELSE accepted = None

(* However the keys came to them and whatever passwords have changed, all  *)
(* who hold a list come to its key from what they know and the server has, *)
(* agents by their grants and members by their password, and they read the *)
(* title that was saved last, in the page and on the command line.         *)
HoldersReadTheList ==
    /\ \A a \in Agents, l \in Lists :
          grant[a][l] # None => RustOpenGrant(RecipientKey(a), l, grant[a][l]) = KeyOf(l)
    /\ \A u \in Users :
          LET key == Unwrap(dataKey[u], account[u].password, ExportKey(u)) IN
          /\ key = DataKey(u)
          /\ \A l \in Lists :
                LET listKey == IF u = Owner[l] THEN KeyOf(l)
                               ELSE Open(key, "membership", membership[u][l])
                IN  Holds(u, l) =>
                      /\ listKey = KeyOf(l)
                      /\ title[l] # None => PageReadsTitle(listKey, l) = titled[l]
                                            /\ RustReadsTitle(listKey, l) = titled[l]
=============================================================================
