------------------------------ MODULE ListKeys ------------------------------
(***************************************************************************)
(* Keys and ciphertexts of a work list as terms.  A sealed value opens     *)
(* with the key and the context it was sealed with, and with nothing else. *)
(* None stands for an absent value and for the error of a failed opening.  *)
(***************************************************************************)
CONSTANT None

DataKey(user) == <<"data", user>>
RecipientKey(agent) == <<"recipient", agent>>

(* derive_work_list_key *)
DerivedListKey(user, list) == <<"list", user, list>>

(* encrypt_sealed_payload, decrypt_sealed_payload *)
Seal(key, context, body) == [key |-> key, context |-> context, body |-> body]
Open(key, context, sealed) ==
    IF sealed # None /\ key # None /\ sealed.key = key /\ sealed.context = context
    THEN sealed.body ELSE None

(* The list key that a member keeps sealed under the data key *)
SealMembership(user, listKey) == Seal(DataKey(user), "membership", listKey)

(* encrypt_agent_work_list_key, decrypt_agent_work_list_key *)
SealGrant(agent, list, listKey) == Seal(RecipientKey(agent), <<"grant", list>>, listKey)
OpenGrant(agent, list, grant) == Open(RecipientKey(agent), <<"grant", list>>, grant)

DerivesAlways(user, list, membership) == DerivedListKey(user, list)  \* mutant: as if every list were one's own

(* resolve_list_key: the owner's own lists carry no membership ciphertext. *)
UserListKey(user, list, membership) ==
    IF membership = None THEN DerivedListKey(user, list)
    ELSE Open(DataKey(user), "membership", membership)
=============================================================================
