---------------------------- MODULE StrongBoxes ----------------------------
(***************************************************************************)
(* The boxes of the strong-box crate that have no state of their own: the  *)
(* static box, the stem that boxes are derived from, the box a rotating    *)
(* box uses in one period, and the shared box.  A service makes boxes from *)
(* different sets of root keys as it rotates them, derives boxes for its   *)
(* purposes, and opens with one box the texts another one wrote.           *)
(*                                                                         *)
(* A key is a term: the root it comes from and the contexts it was derived *)
(* with, one after the other.  Derivation and encryption have no           *)
(* collisions, and a text that is changed in storage no longer decodes, or *)
(* no longer verifies.                                                     *)
(***************************************************************************)
EXTENDS Naturals, Sequences, FiniteSets

CONSTANTS
    RootKeys,   \* root keys of the service
    Purposes,   \* purposes that boxes are derived for
    Numbers,    \* periods of the rotating boxes
    People,     \* private keys of the shared boxes
    Ephemerals, \* private keys made for one encryption
    Contexts, Bodies, Nonces,
    Null,       \* absent, malformed, failed
    MaxStems, MaxBoxes, MaxTexts  \* bounds of the model

ASSUME NullAssumption == Null \notin People \cup Ephemerals \cup Nonces

VARIABLES
    stems,  \* the stems made so far,
    boxes,  \* the boxes that encrypt,
    texts   \* and what they wrote, as it is stored now

boxVars == <<stems, boxes, texts>>

----------------------------------------------------------------------------
(* Keys *)

RootKey(r) == [root |-> r, path |-> <<>>]

(* kdf::derive_key *)
DeriveKey(key, context) == [root |-> key.root, path |-> Append(key.path, context)]

KeyId(key) == DeriveKey(key, <<"key_id">>)

----------------------------------------------------------------------------
(* The static box *)

(* ChaCha20-Poly1305 with additional data                                  *)
Aead(key, nonce, aad, body) == [key |-> key, nonce |-> nonce, aad |-> aad, body |-> body]
OpenAead(key, nonce, aad, c) ==
    IF c # Null /\ c.key = key /\ c.nonce = nonce /\ c.aad = aad THEN c.body ELSE Null

ById(keys) == [id \in {KeyId(k) : k \in keys} |-> CHOOSE k \in keys : KeyId(k) = id]

Additional(ctx, id, nonce) == <<ctx, id, nonce>>

StaticText(id, nonce, c) == [magic |-> "static", items |-> 3, id |-> id, nonce |-> nonce, body |-> c]

DecodesKeyId(id) == id # Null

(* Ciphertext::try_from                                                    *)
DecodesAsStatic(text) ==
    /\ text # Null /\ text.magic = "static" /\ text.items = 3
    /\ DecodesKeyId(text.id) /\ text.nonce # Null

EncryptStatic(key, nonce, ctx, body) ==
    StaticText(KeyId(key), nonce, Aead(key, nonce, Additional(ctx, KeyId(key), nonce), body))

DecryptStatic(keys, ctx, text) ==
    IF DecodesAsStatic(text) /\ text.id \in DOMAIN keys
    THEN OpenAead(keys[text.id], text.nonce, Additional(ctx, text.id, text.nonce), text.body)
    ELSE Null

----------------------------------------------------------------------------
(* The shared box *)

Private(person) == <<"private", person>>
Public(person) == <<"public", person>>
LowOrder == Public(Null)  \* a public key that contributes nothing to an agreement

(* SharedStrongBoxKey::try_from                                            *)
ReadKey(bytes) ==
    IF bytes[1] = "private"
    THEN [private |-> bytes[2], public |-> Public(bytes[2])]
    ELSE [private |-> Null, public |-> bytes]

Contributes(public) == public # LowOrder

(* diffie_hellman: both sides agree on one key.                            *)
BoxKey(person, public) == RootKey({Public(person), public})

SharedText(public, text) == [magic |-> "shared", items |-> 2, public |-> public, body |-> text]
DecodesAsShared(text) ==
    text # Null /\ text.magic = "shared" /\ text.items = 2 /\ text.public # Null

EncryptShared(key, ephemeral, nonce, ctx, body) ==
    IF ~Contributes(key.public) THEN Null
    ELSE SharedText(Public(ephemeral),
                    EncryptStatic(BoxKey(ephemeral, key.public), nonce, <<ctx, Public(ephemeral)>>, body))

DecryptShared(key, ctx, text) ==
    IF DecodesAsShared(text) /\ key.private # Null /\ Contributes(text.public)
    THEN DecryptStatic(ById({BoxKey(key.private, text.public)}), <<ctx, text.public>>, text.body)
    ELSE Null

----------------------------------------------------------------------------
(* What a service does *)

BoxesInit == stems = {} /\ boxes = {} /\ texts = {}

(* place, writes and reads are what a box was made for: the purposes it    *)
(* was derived for, the root it encrypts with and those it decrypts with.  *)
NewStem ==
    /\ Cardinality(stems) < MaxStems
    /\ \E enc \in RootKeys, decs \in SUBSET RootKeys :
          stems' = stems \cup {[place |-> <<>>, writes |-> enc, reads |-> decs,
                                enc |-> RootKey(enc), decs |-> {RootKey(r) : r \in decs}]}
    /\ UNCHANGED <<boxes, texts>>

(* StaticStrongBox::new                                                    *)
StaticBox(place, writes, reads, enc, decs) ==
    [kind |-> "static", place |-> place, writes |-> writes, reads |-> reads,
     enc |-> enc, keys |-> ById(decs)]

AddBox(box) ==
    /\ Cardinality(boxes) < MaxBoxes
    /\ boxes' = boxes \cup {box}
    /\ UNCHANGED <<stems, texts>>

NewStatic ==
    \E enc \in RootKeys, decs \in SUBSET RootKeys :
        AddBox(StaticBox(<<>>, enc, decs, RootKey(enc), {RootKey(r) : r \in decs}))

ChildrenUnderived(keys, context) == keys  \* mutant: the decryption keys are not derived
Children(keys, context) == {DeriveKey(k, context) : k \in keys}

DeriveStem(stem, purpose) ==
    /\ Cardinality(stems) < MaxStems
    /\ stems' = stems \cup
          {[stem EXCEPT !.place = Append(@, <<"stem", purpose>>),
                        !.enc = DeriveKey(@, <<"derive_stem", purpose>>),
                        !.decs = Children(@, <<"derive_stem", purpose>>)]}
    /\ UNCHANGED <<boxes, texts>>

DeriveStatic(stem, purpose) ==
    AddBox(StaticBox(Append(stem.place, <<"static", purpose>>), stem.writes, stem.reads,
                     DeriveKey(stem.enc, <<"derive", purpose>>),
                     Children(stem.decs, <<"derive", purpose>>)))

(* The keys of a derived rotating box in period n                          *)
DeriveRotating(stem, purpose, n) ==
    AddBox(StaticBox(Append(Append(stem.place, <<"rotating", purpose>>), <<"period", n>>),
                     stem.writes, stem.reads,
                     DeriveKey(DeriveKey(stem.enc, <<"derive_stem", purpose>>), <<"rotation", n>>),
                     Children(Children(stem.decs, <<"derive_stem", purpose>>), <<"rotation", n>>)))

(* A shared box, of a key read back from the bytes of either half          *)
NewShared ==
    \E bytes \in {Private(p) : p \in People} \cup {Public(p) : p \in People \cup {Null}} :
        AddBox([kind |-> "shared", place |-> <<<<"shared", bytes[2]>>>>, writes |-> bytes[2],
                reads |-> IF bytes[1] = "private" THEN {bytes[2]} ELSE {},
                key |-> ReadKey(bytes)])

Written(box, ephemeral, nonce, ctx, body) ==
    IF box.kind = "shared" THEN EncryptShared(box.key, ephemeral, nonce, ctx, body)
    ELSE EncryptStatic(box.enc, nonce, ctx, body)

Opened(box, ctx, text) ==
    IF box.kind = "shared" THEN DecryptShared(box.key, ctx, text)
    ELSE DecryptStatic(box.keys, ctx, text)

EncryptWith(box) ==
    /\ Cardinality(texts) < MaxTexts
    /\ \E ephemeral \in Ephemerals, nonce \in Nonces, ctx \in Contexts, body \in Bodies :
          LET text == Written(box, ephemeral, nonce, ctx, body)
          IN  /\ text # Null
              /\ texts' = texts \cup {[text |-> text, place |-> box.place, root |-> box.writes,
                                       context |-> ctx, body |-> body, damaged |-> FALSE]}
    /\ UNCHANGED <<stems, boxes>>

(* A box goes out of scope; another one like it may be made later.         *)
DropBox(box) ==
    /\ boxes' = boxes \ {box}
    /\ UNCHANGED <<stems, texts>>

(* Some part of a stored text is no longer what was written.               *)
Damage(t) ==
    /\ \E part \in DOMAIN t.text :
          texts' = (texts \ {t}) \cup {[t EXCEPT !.text = [@ EXCEPT ![part] = Null], !.damaged = TRUE]}
    /\ UNCHANGED <<stems, boxes>>

BoxesNext ==
    \/ NewStem \/ NewStatic \/ NewShared
    \/ \E stem \in stems, purpose \in Purposes :
          \/ DeriveStem(stem, purpose) \/ DeriveStatic(stem, purpose)
          \/ \E n \in Numbers : DeriveRotating(stem, purpose, n)
    \/ \E box \in boxes : EncryptWith(box) \/ DropBox(box)
    \/ \E t \in texts : Damage(t)

BoxesSpec == BoxesInit /\ [][BoxesNext]_boxVars

----------------------------------------------------------------------------
(* A text opens with exactly the boxes it is meant for: those of the same  *)
(* purposes, however they were derived, that still decrypt with the root   *)
(* it was written under (for a shared box, those with the private key),    *)
(* in the context it was written in, and as long as it is undamaged.  A    *)
(* box that does not decrypt with its own encryption root cannot open what *)
(* it writes.                                                              *)
OpensWhereMeant ==
    \A box \in boxes, t \in texts, ctx \in Contexts :
        Opened(box, ctx, t.text) =
            IF /\ box.place = t.place /\ t.root \in box.reads
               /\ ctx = t.context /\ ~t.damaged
            THEN t.body ELSE Null
=============================================================================
