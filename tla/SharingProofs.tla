---------------------------- MODULE SharingProofs ----------------------------
(***************************************************************************)
(* Proofs about Sharing, for any users, agents, lists and pages, and any   *)
(* number of invitations, passwords and titles.                            *)
(***************************************************************************)
EXTENDS Sharing, Sequences, TLAPS

(* None is neither a number, nor a key, a ciphertext or what one holds.    *)
NoneIsNoValue ==
    /\ None \notin Nat
    /\ \A a, b : None # <<a, b>>
    /\ \A a, b, c : None # <<a, b, c>>
    /\ \A a, b, c, d : None # <<a, b, c, d>>
    /\ \A key, context, body : None # Seal(key, context, body)
    /\ \A user, key : None # [user |-> user, key |-> key]
    /\ \A list, id, role, key : None # [list |-> list, id |-> id, role |-> role, key |-> key]

----------------------------------------------------------------------------
(* What is sealed opens *)

(* A payload opens with its own key and context.                           *)
LEMMA SealOpens ==
    ASSUME NoneIsNoValue, NEW key, key # None, NEW context, NEW body
    PROVE  Open(key, context, Seal(key, context, body)) = body
  <1>1. Seal(key, context, body) # None
    BY DEF NoneIsNoValue
  <1> QED BY <1>1 DEF Open, Seal

(* Under another context it does not open.                                 *)
LEMMA OtherContextOpensNothing ==
    ASSUME NEW key, NEW sealedWith, NEW context, NEW sealedFor, context # sealedFor, NEW body
    PROVE  Open(key, context, Seal(sealedWith, sealedFor, body)) = None
  BY DEF Open, Seal

(* The three implementations of HPKE seal alike.                           *)
LEMMA SealsAgree ==
    ASSUME NEW recipient, NEW info, NEW plaintext, NEW bridge
    PROVE  PageSeal(bridge, recipient, info, plaintext) = PageSeal("wasm", recipient, info, plaintext)
  BY DEF PageSeal, WasmEncap, JsSeal, JsSharedSecret, WasmSharedSecret, JsKeySchedule, WasmKeySchedule

LEMMA GrantsAgree ==
    ASSUME NEW recipient, NEW list, NEW listKey, NEW bridge
    PROVE  PageSeal(bridge, recipient, GrantContext(list), listKey)
              = RustSealGrant(recipient, list, listKey)
  <1>1. PageSeal("wasm", recipient, GrantContext(list), listKey)
          = RustSealGrant(recipient, list, listKey)
    BY DEF PageSeal, RustSealGrant, WasmEncap, WasmSharedSecret, RustSharedSecret,
           WasmKeySchedule, RustKeySchedule
  <1> QED BY <1>1, SealsAgree

(* Both ends of an exchange come to the same point.                        *)
LEMMA SamePoint ==
    ASSUME NEW private
    PROVE  DiffieHellman(private, Public(Ephemeral)) = DiffieHellman(Ephemeral, Public(private))
  BY DEF DiffieHellman

(* The envelopes that there may be for a recipient *)
Envelopes(private, info, plaintext) ==
    {PageSeal("wasm", Public(private), info, plaintext), LegacySealed(Public(private), info, plaintext)}

LEMMA SuitesApart == Current # Legacy
  BY DEF Current, Legacy

(* What a client of today or an older one sealed opens in any page.        *)
LEMMA PageOpens ==
    ASSUME NEW private, NEW info, NEW plaintext, NEW bridge,
           NEW envelope \in Envelopes(private, info, plaintext)
    PROVE  PageOpen(bridge, private, info, envelope) = plaintext
  <1>1. CASE envelope = PageSeal("wasm", Public(private), info, plaintext)
    <2> DEFINE enc == Public(Ephemeral)
               shared == WasmSharedSecret(DiffieHellman(Ephemeral, Public(private)), enc, Public(private))
               sealed == AeadSeal(WasmKeySchedule(shared, info), info, plaintext)
    <2>1. envelope = Envelope(Current, enc, sealed)
      BY <1>1 DEF PageSeal, WasmEncap
    <2>2. /\ envelope.version = 1 /\ envelope.suite = Current
          /\ envelope.enc = enc /\ envelope.ciphertext = sealed
      BY <2>1 DEF Envelope
    <2>3. AeadOpen(WasmKeySchedule(shared, info), info, sealed) = plaintext
      BY DEF AeadOpen, AeadSeal
    <2>4. WasmDecap(private, info, enc, sealed) = plaintext
      BY <2>3, SamePoint DEF WasmDecap
    <2>5. JsOpen(private, info, envelope) = plaintext
      <3>1. JsSharedSecret(DiffieHellman(private, enc), enc, Public(private)) = shared
        BY SamePoint DEF JsSharedSecret, WasmSharedSecret
      <3>2. JsKeySchedule(shared, info) = WasmKeySchedule(shared, info)
        BY DEF JsKeySchedule, WasmKeySchedule
      <3> HIDE DEF enc, shared, sealed
      <3> QED BY <2>2, <2>3, <3>1, <3>2, SuitesApart DEF JsOpen
    <2> HIDE DEF enc, shared, sealed
    <2> QED BY <2>2, <2>4, <2>5 DEF PageOpen
  <1>2. CASE envelope = LegacySealed(Public(private), info, plaintext)
    <2> DEFINE enc == Public(Ephemeral)
               keys == JsLegacySchedule(DiffieHellman(Ephemeral, Public(private)), enc, Public(private), info)
    <2>1. /\ envelope.version = 1 /\ envelope.suite = Legacy /\ envelope.enc = enc
          /\ envelope.ciphertext = AeadSeal(keys, info, plaintext)
      BY <1>2 DEF LegacySealed, JsLegacySchedule, Envelope
    <2>2. JsLegacySchedule(DiffieHellman(private, enc), enc, Public(private), info) = keys
      BY SamePoint
    <2> HIDE DEF enc, keys
    <2>3. JsOpen(private, info, envelope) = AeadOpen(keys, info, AeadSeal(keys, info, plaintext))
      BY <2>1, <2>2 DEF JsOpen
    <2>4. AeadOpen(keys, info, AeadSeal(keys, info, plaintext)) = plaintext
      BY DEF AeadOpen, AeadSeal
    <2> QED BY <2>1, <2>3, <2>4, SuitesApart DEF PageOpen
  <1> QED BY <1>1, <1>2 DEF Envelopes

(* It opens for nothing but what it is bound to.                           *)
LEMMA OtherBindingOpensNothing ==
    ASSUME NEW private, NEW info, NEW other, other # info, NEW plaintext, NEW bridge,
           NEW envelope \in Envelopes(private, info, plaintext)
    PROVE  PageOpen(bridge, private, other, envelope) = None
  <1>1. envelope.ciphertext.aad = info
    BY DEF Envelopes, PageSeal, WasmEncap, LegacySealed, Envelope, AeadSeal
  <1>2. \A keys : AeadOpen(keys, other, envelope.ciphertext) = None
    BY <1>1 DEF AeadOpen
  <1> QED BY <1>2 DEF PageOpen, JsOpen, WasmDecap

(* The same for the grants of agents *)
LEMMA GrantOpens ==
    ASSUME NEW private, NEW list, NEW listKey,
           NEW envelope \in Envelopes(private, GrantContext(list), listKey)
    PROVE  RustOpenGrant(private, list, envelope) = listKey
  <1> DEFINE context == GrantContext(list)
  <1>1. RustOpenGrant(private, list, envelope) = JsOpen(private, context, envelope)
    <2>1. envelope.version = 1 /\ envelope.suite \in {Current, Legacy}
      BY DEF Envelopes, PageSeal, LegacySealed, Envelope
    <2>2. \A dh, enc : RustSharedSecret(dh, enc, Public(private)) = JsSharedSecret(dh, enc, Public(private))
      BY DEF RustSharedSecret, JsSharedSecret
    <2>3. \A shared : RustKeySchedule(shared, context) = JsKeySchedule(shared, context)
      BY DEF RustKeySchedule, JsKeySchedule
    <2>4. \A dh, enc : RustLegacySchedule(dh, enc, Public(private), context)
                          = JsLegacySchedule(dh, enc, Public(private), context)
      BY DEF RustLegacySchedule, JsLegacySchedule
    <2> QED BY <2>1, <2>2, <2>3, <2>4 DEF RustOpenGrant, JsOpen
  <1>2. JsOpen(private, context, envelope) = listKey
    <2>1. PageOpen("none", private, context, envelope) = listKey
      BY PageOpens
    <2>2. envelope.version = 1 /\ envelope.suite \in {Current, Legacy}
      BY DEF Envelopes, PageSeal, LegacySealed, Envelope
    <2> QED BY <2>1, <2>2 DEF PageOpen
  <1> QED BY <1>1, <1>2

(* A data key that was wrapped anew is unwrapped with the new login.       *)
LEMMA WrapUnwraps ==
    ASSUME NoneIsNoValue, NEW key, NEW password, NEW exportKey
    PROVE  Unwrap(Wrap(key, password, exportKey), password, exportKey) = key
  <1>1. Argon2(password) # None /\ FromExportKey(exportKey) # None
    BY DEF NoneIsNoValue, Argon2, FromExportKey
  <1>2. CASE exportKey = None
    <2>1. /\ Wrap(key, password, exportKey).version = 1
          /\ Wrap(key, password, exportKey).sealed = Seal(Argon2(password), "data_key", key)
      BY <1>2 DEF Wrap
    <2> QED BY <1>1, <2>1, SealOpens DEF Unwrap
  <1>3. CASE exportKey # None
    <2>1. /\ Wrap(key, password, exportKey).version = 2
          /\ Wrap(key, password, exportKey).sealed = Seal(FromExportKey(exportKey), "data_key", key)
      BY <1>3 DEF Wrap
    <2> QED BY <1>1, <1>3, <2>1, SealOpens DEF Unwrap
  <1> QED BY <1>2, <1>3

----------------------------------------------------------------------------
(* The invariant: everything that lies at the server or in a page is what  *)
(* one of the clients made for whom it is for.                             *)

PublicOf(user) == Public(InviteKey(DataKey(user), user))

(* What an invitation tells its user, bound to the role it was made for    *)
Told(id, list, user, role) ==
    Envelopes(InviteKey(DataKey(user), user), Binding(list, id, role, PublicOf(user)),
              [list |-> list, id |-> id, role |-> role, key |-> KeyOf(list)])

Enclosed(id, list, user) ==
    Seal(MemberKey(KeyOf(list), user, id), "invite.member",
         [user |-> user, key |-> MemberKey(KeyOf(list), user, id)])

Made(i) ==
    i \in [id : {i.id}, list : Lists, user : Users, role : Roles, invitedAs : Roles, salt : {i.id},
           member : {Enclosed(i.id, i.list, i.user)},
           recipient : Told(i.id, i.list, i.user, i.invitedAs)]

InvitationsMade == \A i \in invitations : Made(i)

(* The pages, with what they have fetched and hold on to                   *)
PageOK(r) ==
    /\ r.pc # "closed" => r.user \in Users
    /\ r.pc = "accepting" => Made(r.held) /\ r.held.user = r.user
    /\ r.pc = "rewrapping" => Unwrap(r.payload, r.password, r.exportKey) = DataKey(r.user)

PagesOK ==
    /\ page = [p \in Pages |-> page[p]]
    /\ \A p \in Pages : PageOK(page[p])

MembershipsOpen ==
    /\ membership = [u \in Users |-> [l \in Lists |-> membership[u][l]]]
    /\ \A u \in Users, l \in Lists :
          membership[u][l] \in {None, SealMembership(u, KeyOf(l))}

GrantsOpen ==
    /\ grant = [a \in Agents |-> [l \in Lists |-> grant[a][l]]]
    /\ \A a \in Agents, l \in Lists :
          grant[a][l] \in {None} \cup Envelopes(RecipientKey(a), GrantContext(l), KeyOf(l))

DataKeysUnwrap ==
    /\ account \in [Users -> [password : Nat, opaque : BOOLEAN]]
    /\ dataKey = [u \in Users |-> dataKey[u]]
    /\ \A u \in Users : Unwrap(dataKey[u], account[u].password, ExportKey(u)) = DataKey(u)

TitlesOpen ==
    /\ titled \in [Lists -> Nat]
    /\ title = [l \in Lists |-> title[l]]
    /\ \A l \in Lists :
          title[l] \in {None, Seal(KeyOf(l), BoundContext(l), titled[l]),
                        Seal(KeyOf(l), BaseContext, titled[l])}

KeysInv ==
    /\ InvitationsMade /\ PagesOK /\ MembershipsOpen /\ GrantsOpen /\ DataKeysUnwrap /\ TitlesOpen

----------------------------------------------------------------------------
(* Making and opening invitations *)

(* A client of today makes an invitation that was made.                    *)
LEMMA InvitationMade ==
    ASSUME NEW bridge, NEW list \in Lists, NEW user \in Users, NEW id, NEW role \in Roles
    PROVE  Made(Invitation(bridge, list, KeyOf(list), user, id, role, PublicOf(user)))
  <1> DEFINE i == Invitation(bridge, list, KeyOf(list), user, id, role, PublicOf(user))
  <1>1. /\ i.id = id /\ i.list = list /\ i.user = user /\ i.role = role /\ i.invitedAs = role
        /\ i.salt = id /\ i.member = Enclosed(id, list, user)
        /\ i.recipient = PageSeal(bridge, PublicOf(user), Binding(list, id, role, PublicOf(user)),
                              [list |-> list, id |-> id, role |-> role, key |-> KeyOf(list)])
    BY DEF Invitation, Enclosed
  <1>2. i.recipient \in Told(id, list, user, role)
    BY <1>1, SealsAgree DEF Told, Envelopes, PublicOf
  <1>3. i = [id |-> id, list |-> list, user |-> user, role |-> role, invitedAs |-> role, salt |-> id,
             member |-> i.member, recipient |-> i.recipient]
    BY DEF Invitation
  <1> HIDE DEF i
  <1>4. Made(i)
    BY <1>1, <1>2, <1>3 DEF Made
  <1> QED BY <1>4 DEF i

(* So did an older client.                                                 *)
LEMMA OldInvitationMade ==
    ASSUME NEW user \in Users, NEW list \in Lists
    PROVE  Made(OldInvitation(user, list))
  <1> DEFINE old == OldInvitation(user, list)
             sealed == LegacySealed(PublicOf(user), Binding(list, 0, "member", PublicOf(user)),
                           [list |-> list, id |-> 0, role |-> "member", key |-> KeyOf(list)])
  <1>1. old = [id |-> 0, list |-> list, user |-> user, role |-> "member", invitedAs |-> "member",
               salt |-> 0, member |-> Enclosed(0, list, user), recipient |-> sealed]
    BY DEF OldInvitation, Invitation, Enclosed, PublicOf
  <1>2. sealed \in Told(0, list, user, "member")
    BY DEF Told, Envelopes, PublicOf
  <1> HIDE DEF sealed, old
  <1>3. Made(old)
    BY <1>1, <1>2 DEF Made, Roles
  <1> QED BY <1>3 DEF old

(* Another role leaves an invitation what it was made for.                 *)
LEMMA RoleChanged ==
    ASSUME NEW i, Made(i), NEW role \in Roles
    PROVE  Made([i EXCEPT !.role = role])
  BY DEF Made

(* Bindings to different roles differ.                                     *)
LEMMA BindingsApart ==
    ASSUME NEW list, NEW id, NEW role, NEW other, role # other, NEW public
    PROVE  Binding(list, id, role, public) # Binding(list, id, other, public)
  BY DEF Binding

(* What its user makes of an invitation                                    *)
LEMMA AcceptanceOpens ==
    ASSUME NoneIsNoValue, NEW i, Made(i), NEW bridge
    PROVE  Acceptance(bridge, i, DataKey(i.user), i.user) =
              IF i.role = i.invitedAs THEN SealMembership(i.user, KeyOf(i.list)) ELSE None
  <1> DEFINE key == DataKey(i.user)
             private == InviteKey(key, i.user)
             body == [list |-> i.list, id |-> i.id, role |-> i.invitedAs, key |-> KeyOf(i.list)]
             opened == PageOpen(bridge, private, Binding(i.list, i.id, i.role, Public(private)), i.recipient)
  <1>1. i.recipient \in Envelopes(private, Binding(i.list, i.id, i.invitedAs, Public(private)), body)
    BY DEF Made, Told, PublicOf
  <1>2. CASE i.role = i.invitedAs
    <2>1. opened = body
      BY <1>1, <1>2, PageOpens
    <2>2. body # None /\ KeyOf(i.list) # None
      BY DEF NoneIsNoValue, KeyOf, DerivedListKey
    <2>3. RecipientListKey(bridge, i, key, i.user) = KeyOf(i.list)
      BY <1>2, <2>1, <2>2 DEF RecipientListKey
    <2>4. Verifies(i, KeyOf(i.list), i.user)
      <3> DEFINE memberKey == MemberKey(KeyOf(i.list), i.user, i.id)
                 member == [user |-> i.user, key |-> memberKey]
      <3>1. memberKey # None /\ member # None
        BY DEF NoneIsNoValue, MemberKey
      <3>2. i.salt = i.id /\ i.member = Seal(memberKey, "invite.member", member)
        BY DEF Made, Enclosed
      <3>3. Open(memberKey, "invite.member", i.member) = member
        BY <3>1, <3>2, SealOpens
      <3>4. member.user = i.user /\ member.key = memberKey
        OBVIOUS
      <3> HIDE DEF member
      <3> QED BY <3>1, <3>2, <3>3, <3>4 DEF Verifies
    <2> QED BY <1>2, <2>2, <2>3, <2>4 DEF Acceptance, SealMembership
  <1>3. CASE i.role # i.invitedAs
    <2>1. opened = None
      BY <1>1, <1>3, BindingsApart, OtherBindingOpensNothing
    <2>2. RecipientListKey(bridge, i, key, i.user) = None
      BY <2>1 DEF RecipientListKey
    <2> QED BY <1>3, <2>2 DEF Acceptance
  <1> QED BY <1>2, <1>3

(* Whoever holds a list finds its key.                                     *)
LEMMA HolderFindsKey ==
    ASSUME NoneIsNoValue, MembershipsOpen, NEW u \in Users, NEW l \in Lists, Holds(u, l)
    PROVE  ListKey(u, l) = KeyOf(l)
  <1>1. CASE membership[u][l] = None
    BY <1>1 DEF Holds, ListKey, UserListKey, KeyOf
  <1>2. CASE membership[u][l] # None
    <2>1. membership[u][l] = Seal(DataKey(u), "membership", KeyOf(l))
      BY <1>2 DEF MembershipsOpen, SealMembership
    <2>2. DataKey(u) # None
      BY DEF NoneIsNoValue, DataKey
    <2> QED BY <1>2, <2>1, <2>2, SealOpens DEF ListKey, UserListKey
  <1> QED BY <1>1, <1>2

----------------------------------------------------------------------------
(* The invariant holds at first and is kept *)

LEMMA InitInv ==
    ASSUME NoneIsNoValue, Init
    PROVE  KeysInv
  <1>1. InvitationsMade
    <2>1. PICK old \in SUBSET {i \in Users \X Lists : i[1] # Owner[i[2]]} :
              invitations = {OldInvitation(i[1], i[2]) : i \in old}
      BY DEF Init
    <2>2. \A i \in old : i[1] \in Users /\ i[2] \in Lists
      BY <2>1
    <2> QED BY <2>1, <2>2, OldInvitationMade DEF InvitationsMade
  <1>2. PagesOK
    BY DEF Init, PagesOK, PageOK, Closed
  <1>3. MembershipsOpen
    BY DEF Init, MembershipsOpen
  <1>4. GrantsOpen
    <2> DEFINE none == [a \in Agents |-> [l \in Lists |-> None]]
               old == [a \in Agents |-> [l \in Lists |->
                          LegacySealed(Public(RecipientKey(a)), GrantContext(l), KeyOf(l))]]
    <2>1. grant \in [Agents -> [Lists -> {None}]] \/ grant = old
      BY DEF Init
    <2>2. CASE grant \in [Agents -> [Lists -> {None}]]
      BY <2>2 DEF GrantsOpen
    <2>3. CASE grant = old
      BY <2>3 DEF GrantsOpen, Envelopes
    <2> QED BY <2>1, <2>2, <2>3
  <1>5. DataKeysUnwrap
    <2>1. account \in [Users -> [password : {0}, opaque : BOOLEAN]]
      BY DEF Init
    <2>2. dataKey = [u \in Users |-> dataKey[u]]
      BY DEF Init
    <2>3. \A u \in Users : Unwrap(dataKey[u], 0, ExportKey(u)) = DataKey(u)
      BY DEF Init
    <2>4. \A u \in Users : account[u].password = 0
      BY <2>1
    <2> QED BY <2>1, <2>2, <2>3, <2>4 DEF DataKeysUnwrap
  <1>6. TitlesOpen
    BY DEF Init, TitlesOpen
  <1> QED BY <1>1, <1>2, <1>3, <1>4, <1>5, <1>6 DEF KeysInv

(* A page goes on to something that is in order.                           *)
LEMMA BecomeOK ==
    ASSUME PagesOK, NEW p \in Pages, NEW r, PageOK(r), Become(p, r)
    PROVE  PagesOK'
  <1>1. page' = [q \in Pages |-> IF q = p THEN r ELSE page[q]]
    BY DEF Become, PagesOK
  <1>2. \A q \in Pages : PageOK(page'[q])
    BY <1>1 DEF PagesOK
  <1>3. page' = [q \in Pages |-> page'[q]]
    BY <1>1
  <1> QED BY <1>2, <1>3 DEF PagesOK, PageOK

(* A page with nothing fetched is in order.                                *)
LEMMA OpenOK ==
    ASSUME NEW user \in Users, NEW bridge
    PROVE  PageOK([pc |-> "open", user |-> user, bridge |-> bridge])
  BY DEF PageOK

(* Opening and closing pages, and fetching, change nothing at the server.  *)
LEMMA PageStepsKeepInv ==
    ASSUME NoneIsNoValue, KeysInv, NEW p \in Pages,
           OpenPage(p) \/ ClosePage(p) \/ FetchInvitation(p) \/ FetchDataKey(p)
    PROVE  KeysInv'
  <1>1. UNCHANGED <<account, dataKey, invitations, membership, grant, title, titled>>
    BY DEF OpenPage, ClosePage, FetchInvitation, FetchDataKey
  <1>2. PagesOK'
    <2>1. CASE OpenPage(p)
      <3>1. PICK u \in Users, bridge \in {"wasm", "none"} :
                Become(p, [pc |-> "open", user |-> u, bridge |-> bridge])
        BY <2>1 DEF OpenPage
      <3> QED BY <3>1, OpenOK, BecomeOK DEF KeysInv
    <2>2. CASE ClosePage(p)
      <3>1. PageOK(Closed)
        BY DEF PageOK, Closed
      <3> QED BY <2>2, <3>1, BecomeOK DEF KeysInv, ClosePage
    <2>3. CASE FetchInvitation(p)
      <3>1. PICK i \in invitations :
                /\ i.user = page[p].user
                /\ Become(p, [pc |-> "accepting", user |-> i.user, bridge |-> page[p].bridge, held |-> i])
        BY <2>3 DEF FetchInvitation
      <3>2. Made(i) /\ i.user \in Users
        BY <3>1 DEF KeysInv, InvitationsMade, Made
      <3>3. PageOK([pc |-> "accepting", user |-> i.user, bridge |-> page[p].bridge, held |-> i])
        BY <3>2 DEF PageOK
      <3> QED BY <3>1, <3>3, BecomeOK DEF KeysInv
    <2>4. CASE FetchDataKey(p)
      <3> DEFINE u == page[p].user
                 r == [pc |-> "rewrapping", user |-> u, bridge |-> page[p].bridge,
                       payload |-> dataKey[u], password |-> account[u].password,
                       exportKey |-> ExportKey(u)]
      <3>1. page[p].pc = "open" /\ Become(p, r)
        BY <2>4 DEF FetchDataKey, At
      <3>2. u \in Users
        BY <3>1 DEF KeysInv, PagesOK, PageOK
      <3>3. /\ r.pc = "rewrapping" /\ r.user = u
            /\ r.payload = dataKey[u] /\ r.password = account[u].password /\ r.exportKey = ExportKey(u)
        OBVIOUS
      <3>4. Unwrap(dataKey[u], account[u].password, ExportKey(u)) = DataKey(u)
        BY <3>2 DEF KeysInv, DataKeysUnwrap
      <3> HIDE DEF r
      <3>5. PageOK(r)
        BY <3>2, <3>3, <3>4 DEF PageOK
      <3> QED BY <3>1, <3>5, BecomeOK DEF KeysInv
    <2> QED BY <2>1, <2>2, <2>3, <2>4
  <1> QED BY <1>1, <1>2
          DEF KeysInv, InvitationsMade, MembershipsOpen, GrantsOpen, DataKeysUnwrap, ExportKey,
              TitlesOpen

(* An acceptance makes a membership that opens.                            *)
LEMMA AcceptKeepsInv ==
    ASSUME NoneIsNoValue, KeysInv, NEW p \in Pages, Accept(p)
    PROVE  KeysInv'
  <1> DEFINE u == page[p].user
             held == page[p].held
             accepted == IF page[p].bridge = "none" THEN None
                         ELSE Acceptance(page[p].bridge, held, DataKey(u), u)
  <1>1. Made(held) /\ held.user = u /\ u \in Users /\ held.list \in Lists
    <2>1. page[p].pc = "accepting"
      BY DEF Accept
    <2> QED BY <2>1 DEF KeysInv, PagesOK, PageOK, Made
  <1>2. accepted \in {None, SealMembership(u, KeyOf(held.list))}
    <2>1. Acceptance(page[p].bridge, held, DataKey(u), u) \in {None, SealMembership(u, KeyOf(held.list))}
      BY <1>1, AcceptanceOpens
    <2> QED BY <2>1
  <1>3. \/ /\ membership' = [membership EXCEPT ![u][held.list] = accepted]
           /\ invitations' \subseteq invitations
        \/ UNCHANGED <<membership, invitations>>
    BY DEF Accept
  <1>4. PagesOK'
    BY <1>1, OpenOK, BecomeOK DEF Accept, KeysInv
  <1> HIDE DEF accepted, held, u
  <1>5. MembershipsOpen'
    <2>1. CASE membership' = [membership EXCEPT ![u][held.list] = accepted]
      <3>1. membership' = [v \in Users |-> [l \in Lists |->
                IF v = u /\ l = held.list THEN accepted ELSE membership[v][l]]]
        BY <1>1, <2>1 DEF KeysInv, MembershipsOpen
      <3>2. \A v \in Users, l \in Lists : membership'[v][l] \in {None, SealMembership(v, KeyOf(l))}
        BY <1>2, <3>1 DEF KeysInv, MembershipsOpen
      <3>3. membership' = [v \in Users |-> [l \in Lists |-> membership'[v][l]]]
        BY <3>1
      <3> QED BY <3>2, <3>3 DEF MembershipsOpen
    <2>2. CASE UNCHANGED membership
      BY <2>2 DEF KeysInv, MembershipsOpen
    <2> QED BY <1>3, <2>1, <2>2
  <1>6. InvitationsMade'
    BY <1>3 DEF KeysInv, InvitationsMade
  <1>7. UNCHANGED <<account, dataKey, grant, title, titled>>
    BY DEF Accept
  <1> QED BY <1>4, <1>5, <1>6, <1>7 DEF KeysInv, GrantsOpen, DataKeysUnwrap, ExportKey, TitlesOpen

(* A member's invitation, a change of role and a withdrawal                *)
LEMMA InvitationStepsKeepInv ==
    ASSUME NoneIsNoValue, KeysInv, ChangeRole \/ Withdraw \/ \E p \in Pages : Invite(p)
    PROVE  KeysInv'
  <1>1. InvitationsMade'
    <2>1. CASE ChangeRole
      <3>1. PICK i \in invitations, role \in Roles :
                invitations' = (invitations \ {i}) \cup {[i EXCEPT !.role = role]}
        BY <2>1 DEF ChangeRole
      <3>2. Made([i EXCEPT !.role = role])
        BY <3>1, RoleChanged DEF KeysInv, InvitationsMade
      <3> QED BY <3>1, <3>2 DEF KeysInv, InvitationsMade
    <2>2. CASE Withdraw
      BY <2>2 DEF Withdraw, KeysInv, InvitationsMade
    <2>3. ASSUME NEW p \in Pages, Invite(p) PROVE InvitationsMade'
      <3> DEFINE maker == page[p].user
      <3>1. page[p].pc = "open" /\ page[p].bridge = "wasm"
        BY <2>3 DEF Invite, At
      <3>2. maker \in Users
        BY <3>1 DEF KeysInv, PagesOK, PageOK
      <3>3. PICK l \in Lists, u \in Users \ {maker}, role \in Roles :
                /\ Holds(maker, l)
                /\ invitations' = invitations \cup
                      {Invitation(page[p].bridge, l, ListKey(maker, l), u, invited + 1, role, PublicOf(u))}
        BY <2>3 DEF Invite, PublicOf
      <3>4. ListKey(maker, l) = KeyOf(l)
        BY <3>2, <3>3, HolderFindsKey DEF KeysInv
      <3>5. Made(Invitation(page[p].bridge, l, KeyOf(l), u, invited + 1, role, PublicOf(u)))
        BY InvitationMade
      <3> QED BY <3>3, <3>4, <3>5 DEF KeysInv, InvitationsMade
    <2> QED BY <2>1, <2>2, <2>3
  <1>2. UNCHANGED <<account, dataKey, membership, grant, title, titled, page>>
    BY DEF ChangeRole, Withdraw, Invite
  <1> QED BY <1>1, <1>2
          DEF KeysInv, PagesOK, PageOK, MembershipsOpen, GrantsOpen, DataKeysUnwrap, ExportKey, TitlesOpen

(* A change of password wraps what it has unwrapped.                       *)
LEMMA RewrapKeepsInv ==
    ASSUME NoneIsNoValue, KeysInv, NEW p \in Pages, Rewrap(p)
    PROVE  KeysInv'
  <1> DEFINE u == page[p].user
  <1>1. u \in Users /\ Unwrap(page[p].payload, page[p].password, page[p].exportKey) = DataKey(u)
    <2>1. page[p].pc = "rewrapping"
      BY DEF Rewrap
    <2> QED BY <2>1 DEF KeysInv, PagesOK, PageOK
  <1>2. PICK opaque \in BOOLEAN :
            /\ account' = [account EXCEPT ![u] = [password |-> account[u].password + 1, opaque |-> opaque]]
            /\ dataKey' = [dataKey EXCEPT ![u] =
                  Wrap(DataKey(u), account[u].password + 1,
                       ExportedBy(u, [password |-> account[u].password + 1, opaque |-> opaque]))]
    BY <1>1 DEF Rewrap
  <1> DEFINE login == [password |-> account[u].password + 1, opaque |-> opaque]
             sealed == Wrap(DataKey(u), login.password, ExportedBy(u, login))
  <1>3. PagesOK'
    BY <1>1, OpenOK, BecomeOK DEF Rewrap, KeysInv
  <1>4. DataKeysUnwrap'
    <2>1. account \in [Users -> [password : Nat, opaque : BOOLEAN]]
      BY DEF KeysInv, DataKeysUnwrap
    <2>2. login \in [password : Nat, opaque : BOOLEAN]
      BY <1>1, <2>1
    <2>3. Unwrap(sealed, login.password, ExportedBy(u, login)) = DataKey(u)
      BY WrapUnwraps
    <2>4. account' = [account EXCEPT ![u] = login] /\ dataKey' = [dataKey EXCEPT ![u] = sealed]
      BY <1>2
    <2> HIDE DEF u, login, sealed
    <2>5. account' \in [Users -> [password : Nat, opaque : BOOLEAN]]
      BY <1>1, <2>1, <2>2, <2>4
    <2>6. /\ account'[u] = login /\ \A v \in Users \ {u} : account'[v] = account[v]
          /\ dataKey' = [v \in Users |-> dataKey'[v]]
          /\ dataKey'[u] = sealed /\ \A v \in Users \ {u} : dataKey'[v] = dataKey[v]
      BY <1>1, <2>1, <2>4 DEF KeysInv, DataKeysUnwrap
    <2>7. ASSUME NEW v \in Users
          PROVE  Unwrap(dataKey'[v], account'[v].password, ExportKey(v)') = DataKey(v)
      <3>1. CASE v = u
        BY <2>3, <2>6, <3>1 DEF ExportKey
      <3>2. CASE v # u
        BY <2>6, <3>2 DEF KeysInv, DataKeysUnwrap, ExportKey
      <3> QED BY <3>1, <3>2
    <2> QED BY <2>5, <2>6, <2>7 DEF DataKeysUnwrap
  <1>5. UNCHANGED <<invitations, membership, grant, title, titled>>
    BY DEF Rewrap
  <1> QED BY <1>3, <1>4, <1>5 DEF KeysInv, InvitationsMade, MembershipsOpen, GrantsOpen, TitlesOpen

(* Grants of pages and of the command line *)
LEMMA GrantStepsKeepInv ==
    ASSUME NoneIsNoValue, KeysInv,
           (\E p \in Pages : GrantFromPage(p)) \/ \E u \in Users : GrantFromCommandLine(u)
    PROVE  KeysInv'
  <1>1. ASSUME NEW a \in Agents, NEW l \in Lists, NEW envelope,
               envelope \in Envelopes(RecipientKey(a), GrantContext(l), KeyOf(l)),
               grant' = [grant EXCEPT ![a][l] = envelope]
        PROVE  GrantsOpen'
    <2>1. grant' = [b \in Agents |-> [m \in Lists |->
              IF b = a /\ m = l THEN envelope ELSE grant[b][m]]]
      BY <1>1 DEF KeysInv, GrantsOpen
    <2>2. \A b \in Agents, m \in Lists :
              grant'[b][m] \in {None} \cup Envelopes(RecipientKey(b), GrantContext(m), KeyOf(m))
      BY <1>1, <2>1 DEF KeysInv, GrantsOpen
    <2>3. grant' = [b \in Agents |-> [m \in Lists |-> grant'[b][m]]]
      BY <2>1
    <2> QED BY <2>2, <2>3 DEF GrantsOpen
  <1>2. ASSUME NEW p \in Pages, GrantFromPage(p) PROVE GrantsOpen'
    <2> DEFINE maker == page[p].user
    <2>1. page[p].pc = "open"
      BY <1>2 DEF GrantFromPage, At
    <2>2. maker \in Users
      BY <2>1 DEF KeysInv, PagesOK, PageOK
    <2>3. PICK a \in Agents, l \in Lists :
              /\ Holds(maker, l)
              /\ grant' = [grant EXCEPT ![a][l] =
                    PageSeal(page[p].bridge, Public(RecipientKey(a)), GrantContext(l), ListKey(maker, l))]
      BY <1>2 DEF GrantFromPage
    <2>4. ListKey(maker, l) = KeyOf(l)
      BY <2>2, <2>3, HolderFindsKey DEF KeysInv
    <2>5. PageSeal(page[p].bridge, Public(RecipientKey(a)), GrantContext(l), KeyOf(l))
            \in Envelopes(RecipientKey(a), GrantContext(l), KeyOf(l))
      BY SealsAgree DEF Envelopes
    <2> QED BY <1>1, <2>3, <2>4, <2>5
  <1>3. ASSUME NEW u \in Users, GrantFromCommandLine(u) PROVE GrantsOpen'
    <2>1. PICK a \in Agents, l \in Lists :
              /\ Holds(u, l)
              /\ grant' = [grant EXCEPT ![a][l] =
                    RustSealGrant(Public(RecipientKey(a)), l, ListKey(u, l))]
      BY <1>3 DEF GrantFromCommandLine
    <2>2. ListKey(u, l) = KeyOf(l)
      BY <2>1, HolderFindsKey DEF KeysInv
    <2>3. RustSealGrant(Public(RecipientKey(a)), l, KeyOf(l))
            \in Envelopes(RecipientKey(a), GrantContext(l), KeyOf(l))
      BY GrantsAgree DEF Envelopes
    <2> QED BY <1>1, <2>1, <2>2, <2>3
  <1>4. UNCHANGED <<account, dataKey, invitations, membership, title, titled, page>>
    BY DEF GrantFromPage, GrantFromCommandLine
  <1> QED BY <1>2, <1>3, <1>4
          DEF KeysInv, InvitationsMade, PagesOK, PageOK, MembershipsOpen, DataKeysUnwrap, ExportKey,
              TitlesOpen

(* A title is sealed under the key that every holder finds.                *)
LEMMA SaveTitleKeepsInv ==
    ASSUME NoneIsNoValue, KeysInv, NEW p \in Pages, SaveTitle(p)
    PROVE  KeysInv'
  <1> DEFINE maker == page[p].user
  <1>1. maker \in Users
    <2>1. page[p].pc = "open"
      BY DEF SaveTitle, At
    <2> QED BY <2>1 DEF KeysInv, PagesOK, PageOK
  <1>2. PICK l \in Lists, context \in {"bound", "base"} :
            /\ Holds(maker, l)
            /\ titled' = [titled EXCEPT ![l] = @ + 1]
            /\ title' = [title EXCEPT ![l] =
                  Seal(ListKey(maker, l), IF context = "bound" THEN BoundContext(l) ELSE BaseContext,
                       titled'[l])]
    BY DEF SaveTitle
  <1>3. ListKey(maker, l) = KeyOf(l)
    BY <1>1, <1>2, HolderFindsKey DEF KeysInv
  <1>4. /\ titled' \in [Lists -> Nat]
        /\ \A m \in Lists \ {l} : titled'[m] = titled[m] /\ title'[m] = title[m]
        /\ title'[l] \in {Seal(KeyOf(l), BoundContext(l), titled'[l]),
                          Seal(KeyOf(l), BaseContext, titled'[l])}
        /\ title' = [m \in Lists |-> title'[m]]
    BY <1>2, <1>3 DEF KeysInv, TitlesOpen
  <1>5. TitlesOpen'
    BY <1>4 DEF KeysInv, TitlesOpen
  <1>6. UNCHANGED <<account, dataKey, invitations, membership, grant, page>>
    BY DEF SaveTitle
  <1> QED BY <1>5, <1>6
          DEF KeysInv, InvitationsMade, PagesOK, PageOK, MembershipsOpen, GrantsOpen, DataKeysUnwrap,
              ExportKey

LEMMA LeaveKeepsInv ==
    ASSUME NoneIsNoValue, KeysInv, Leave
    PROVE  KeysInv'
  <1>1. PICK u \in Users, l \in Lists : membership' = [membership EXCEPT ![u][l] = None]
    BY DEF Leave
  <1>2. membership' = [v \in Users |-> [m \in Lists |->
            IF v = u /\ m = l THEN None ELSE membership[v][m]]]
    BY <1>1 DEF KeysInv, MembershipsOpen
  <1>3. \A v \in Users, m \in Lists : membership'[v][m] \in {None, SealMembership(v, KeyOf(m))}
    BY <1>2 DEF KeysInv, MembershipsOpen
  <1>4. membership' = [v \in Users |-> [m \in Lists |-> membership'[v][m]]]
    BY <1>2
  <1>5. MembershipsOpen'
    BY <1>3, <1>4 DEF MembershipsOpen
  <1>6. UNCHANGED <<account, dataKey, invitations, grant, title, titled, page>>
    BY DEF Leave
  <1> QED BY <1>5, <1>6
          DEF KeysInv, InvitationsMade, PagesOK, PageOK, GrantsOpen, DataKeysUnwrap, ExportKey, TitlesOpen

LEMMA StepInv ==
    ASSUME NoneIsNoValue, KeysInv, [Next]_vars
    PROVE  KeysInv'
  <1>1. ASSUME NEW p \in Pages,
               OpenPage(p) \/ ClosePage(p) \/ FetchInvitation(p) \/ Accept(p) \/ Invite(p)
               \/ FetchDataKey(p) \/ Rewrap(p) \/ GrantFromPage(p) \/ SaveTitle(p)
        PROVE  KeysInv'
    BY <1>1, PageStepsKeepInv, AcceptKeepsInv, InvitationStepsKeepInv, RewrapKeepsInv,
       GrantStepsKeepInv, SaveTitleKeepsInv
  <1>2. ASSUME NEW u \in Users, GrantFromCommandLine(u) PROVE KeysInv'
    BY <1>2, GrantStepsKeepInv
  <1>3. CASE ChangeRole \/ Withdraw
    BY <1>3, InvitationStepsKeepInv
  <1>4. CASE Leave
    BY <1>4, LeaveKeepsInv
  <1>5. CASE UNCHANGED vars
    BY <1>5 DEF vars, KeysInv, InvitationsMade, PagesOK, PageOK, MembershipsOpen, GrantsOpen,
                DataKeysUnwrap, ExportKey, TitlesOpen
  <1> QED BY <1>1, <1>2, <1>3, <1>4, <1>5 DEF Next

(* Everything at the server and in the pages was made for whom it is for.  *)
THEOREM KeysInvariant ==
    ASSUME NoneIsNoValue
    PROVE  Spec => []KeysInv
  <1>1. Init => KeysInv
    BY InitInv
  <1>2. KeysInv /\ [Next]_vars => KeysInv'
    BY StepInv
  <1> QED BY <1>1, <1>2, PTL DEF Spec

----------------------------------------------------------------------------
(* What follows from the invariant *)

(* A title that is saved reads alike, bound or not, in every client.       *)
LEMMA TitleReads ==
    ASSUME NoneIsNoValue, KeysInv, NEW l \in Lists, title[l] # None
    PROVE  /\ PageReadsTitle(KeyOf(l), l) = titled[l]
           /\ RustReadsTitle(KeyOf(l), l) = titled[l]
  <1>1. KeyOf(l) # None /\ titled[l] # None
    BY DEF NoneIsNoValue, KeyOf, DerivedListKey, KeysInv, TitlesOpen
  <1>2. CASE title[l] = Seal(KeyOf(l), BoundContext(l), titled[l])
    <2>1. Open(KeyOf(l), BoundContext(l), title[l]) = titled[l]
      BY <1>1, <1>2, SealOpens
    <2> QED BY <1>1, <2>1 DEF PageReadsTitle, RustReadsTitle
  <1>3. CASE title[l] = Seal(KeyOf(l), BaseContext, titled[l])
    <2>1. BoundContext(l) # BaseContext
      <3>1. Len(<<"title", l>>) = 2 /\ Len(<<"title">>) = 1
        OBVIOUS
      <3> QED BY <3>1 DEF BoundContext, BaseContext
    <2>2. Open(KeyOf(l), BoundContext(l), title[l]) = None
      BY <1>3, <2>1, OtherContextOpensNothing
    <2>3. Open(KeyOf(l), BaseContext, title[l]) = titled[l]
      BY <1>1, <1>3, SealOpens
    <2> QED BY <2>2, <2>3 DEF PageReadsTitle, RustReadsTitle
  <1> QED BY <1>2, <1>3 DEF KeysInv, TitlesOpen

(* A pending invitation gives its user the key of its list, as long as its *)
(* role is the one it was made for, and nothing with another role.         *)
THEOREM InvitationsWork ==
    ASSUME NoneIsNoValue
    PROVE  Spec => []InvitationsOpenAsMade
  <1>1. KeysInv => InvitationsOpenAsMade
    BY AcceptanceOpens DEF KeysInv, InvitationsMade, InvitationsOpenAsMade
  <1> QED BY <1>1, KeysInvariant, PTL

(* Agents by their grants, owners by their password, and members by their  *)
(* password and membership come to the key of the list and read its title. *)
THEOREM HoldersRead ==
    ASSUME NoneIsNoValue
    PROVE  Spec => []HoldersReadTheList
  <1>1. ASSUME KeysInv PROVE HoldersReadTheList
    <2>1. ASSUME NEW a \in Agents, NEW l \in Lists, grant[a][l] # None
          PROVE  RustOpenGrant(RecipientKey(a), l, grant[a][l]) = KeyOf(l)
      BY <1>1, <2>1, GrantOpens DEF KeysInv, GrantsOpen
    <2>2. ASSUME NEW u \in Users
          PROVE  Unwrap(dataKey[u], account[u].password, ExportKey(u)) = DataKey(u)
      BY <1>1, <2>2 DEF KeysInv, DataKeysUnwrap
    <2>3. ASSUME NEW u \in Users, NEW l \in Lists, Holds(u, l)
          PROVE  (IF u = Owner[l] THEN KeyOf(l) ELSE Open(DataKey(u), "membership", membership[u][l]))
                   = KeyOf(l)
      <3>1. CASE u = Owner[l]
        BY <3>1
      <3>2. CASE u # Owner[l]
        <4>1. membership[u][l] = Seal(DataKey(u), "membership", KeyOf(l))
          BY <1>1, <2>3, <3>2 DEF Holds, KeysInv, MembershipsOpen, SealMembership
        <4>2. DataKey(u) # None
          BY DEF NoneIsNoValue, DataKey
        <4> QED BY <3>2, <4>1, <4>2, SealOpens
      <3> QED BY <3>1, <3>2
    <2>4. ASSUME NEW l \in Lists, title[l] # None
          PROVE  PageReadsTitle(KeyOf(l), l) = titled[l] /\ RustReadsTitle(KeyOf(l), l) = titled[l]
      BY <1>1, <2>4, TitleReads
    <2> QED BY <2>1, <2>2, <2>3, <2>4 DEF HoldersReadTheList
  <1> QED BY <1>1, KeysInvariant, PTL
=============================================================================
