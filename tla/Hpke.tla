-------------------------------- MODULE Hpke --------------------------------
(***************************************************************************)
(* HPKE is written three times in this repository: in TypeScript (hpke.ts),*)
(* in the WASM module that the page prefers when it has it, and in Rust    *)
(* for the agents' grants.  What one of them seals another one opens.      *)
(* Envelopes of the first clients carry the suite of another KEM and were  *)
(* sealed under another key schedule; they are opened and no longer made.  *)
(*                                                                         *)
(* Keys, hashes and derived values are terms, equal when they are made the *)
(* same way of the same things.  Public keys are those of someone, so no   *)
(* shared secret is zero.                                                  *)
(***************************************************************************)
EXTENDS ListKeys

(* X25519: the same point from either private key and the other's public one *)
Public(private) == <<"public", private>>
DiffieHellman(private, public) == <<"dh", {Public(private), public}>>

(* A key that is drawn for one seal and forgotten *)
Ephemeral == <<"ephemeral">>

Kem == "KEM 0x0020"
Current == "HPKE 0x0020"
Legacy == "HPKE 0x0010"

NoSalt == <<>>
LabeledExtract(suite, salt, label, ikm) == <<"extract", suite, salt, label, ikm>>
LabeledExpand(suite, prk, label, info) == <<"expand", suite, prk, label, info>>

(* The key and the nonce of the one message that an envelope holds *)
Expanded(suite, secret, context) ==
    [key |-> LabeledExpand(suite, secret, "key", context),
     nonce |-> LabeledExpand(suite, secret, "base_nonce", context)]

(* ChaCha20-Poly1305 *)
AeadSeal(keys, aad, plaintext) == [keys |-> keys, aad |-> aad, plaintext |-> plaintext]
AeadOpen(keys, aad, ciphertext) ==
    IF ciphertext.keys = keys /\ ciphertext.aad = aad THEN ciphertext.plaintext ELSE None

Envelope(suite, enc, ciphertext) ==
    [version |-> 1, suite |-> suite, enc |-> enc, ciphertext |-> ciphertext]

----------------------------------------------------------------------------
(* TypeScript *)

JsSharedSecret(dh, enc, recipient) ==
    LabeledExpand(Kem, LabeledExtract(Kem, NoSalt, "eae_prk", dh), "shared_secret", <<enc, recipient>>)

JsKeySchedule(shared, info) ==
    Expanded(Current, LabeledExtract(Current, shared, "secret", <<>>),
             <<"base", LabeledExtract(Current, NoSalt, "psk_id_hash", <<>>),
                       LabeledExtract(Current, NoSalt, "info_hash", info)>>)

JsLegacySchedule(dh, enc, recipient, info) ==
    Expanded(Legacy, LabeledExtract(Legacy, NoSalt, "secret", dh), <<"base", enc, recipient, info>>)

(* hpkeSealPure, hpkeOpenPure *)
JsSeal(recipient, info, plaintext) ==
    LET enc == Public(Ephemeral)
        shared == JsSharedSecret(DiffieHellman(Ephemeral, recipient), enc, recipient)
    IN  [enc |-> enc, ciphertext |-> AeadSeal(JsKeySchedule(shared, info), info, plaintext)]

JsOpen(private, info, envelope) ==
    LET dh == DiffieHellman(private, envelope.enc)
        keys == IF envelope.suite = Legacy
                THEN JsLegacySchedule(dh, envelope.enc, Public(private), info)
                ELSE JsKeySchedule(JsSharedSecret(dh, envelope.enc, Public(private)), info)
    IN  AeadOpen(keys, info, envelope.ciphertext)

----------------------------------------------------------------------------
(* The WASM module, which knows the current schedule and no envelope *)

WasmSharedSecret(dh, enc, recipient) ==
    LabeledExpand(Kem, LabeledExtract(Kem, NoSalt, "eae_prk", dh), "shared_secret", <<enc, recipient>>)

WasmKeySchedule(shared, info) ==
    Expanded(Current, LabeledExtract(Current, shared, "secret", <<>>),
             <<"base", LabeledExtract(Current, NoSalt, "psk_id_hash", <<>>),
                       LabeledExtract(Current, NoSalt, "info_hash", info)>>)

WasmEncap(recipient, info, plaintext) ==
    LET enc == Public(Ephemeral)
        shared == WasmSharedSecret(DiffieHellman(Ephemeral, recipient), enc, recipient)
    IN  [enc |-> enc, ciphertext |-> AeadSeal(WasmKeySchedule(shared, info), info, plaintext)]

WasmDecap(private, info, enc, ciphertext) ==
    LET shared == WasmSharedSecret(DiffieHellman(private, enc), enc, Public(private))
    IN  AeadOpen(WasmKeySchedule(shared, info), info, ciphertext)

----------------------------------------------------------------------------
(* The page: the bridge is memoised, and null for good when it failed.     *)

(* hpkeSeal, encodeHpkeEnvelope *)
PageSeal(bridge, recipient, info, plaintext) ==
    LET sealed == IF bridge = "wasm" THEN WasmEncap(recipient, info, plaintext)
                                     ELSE JsSeal(recipient, info, plaintext)
    IN  Envelope(Current, sealed.enc, sealed.ciphertext)

PageOpenByBridge(bridge, private, info, envelope) ==  \* mutant: the bridge for every suite
    IF envelope.version # 1 \/ envelope.suite \notin {Current, Legacy} THEN None
    ELSE IF bridge = "wasm" THEN WasmDecap(private, info, envelope.enc, envelope.ciphertext)
    ELSE JsOpen(private, info, envelope)

(* hpkeOpen *)
PageOpen(bridge, private, info, envelope) ==
    IF envelope.version # 1 \/ envelope.suite \notin {Current, Legacy} THEN None
    ELSE IF bridge = "wasm" /\ envelope.suite = Current
         THEN WasmDecap(private, info, envelope.enc, envelope.ciphertext)
    ELSE JsOpen(private, info, envelope)

----------------------------------------------------------------------------
(* Rust: the grants of agents *)

RustSharedSecret(dh, enc, recipient) ==
    LabeledExpand(Kem, LabeledExtract(Kem, NoSalt, "eae_prk", dh), "shared_secret", <<enc, recipient>>)

RustKeySchedule(shared, context) ==
    Expanded(Current, LabeledExtract(Current, shared, "secret", <<>>),
             <<"base", LabeledExtract(Current, NoSalt, "psk_id_hash", <<>>),
                       LabeledExtract(Current, NoSalt, "info_hash", context)>>)

RustLegacySchedule(dh, enc, recipient, context) ==
    Expanded(Legacy, LabeledExtract(Legacy, NoSalt, "secret", dh), <<"base", enc, recipient, context>>)

GrantContext(list) == <<"worklist.agent.grant", list>>

(* encrypt_agent_work_list_key *)
RustSealGrant(recipient, list, listKey) ==
    LET enc == Public(Ephemeral)
        context == GrantContext(list)
        shared == RustSharedSecret(DiffieHellman(Ephemeral, recipient), enc, recipient)
    IN  Envelope(Current, enc, AeadSeal(RustKeySchedule(shared, context), context, listKey))

(* decrypt_agent_work_list_key *)
RustOpenGrant(private, list, envelope) ==
    LET dh == DiffieHellman(private, envelope.enc)
        context == GrantContext(list)
        keys == IF envelope.suite = Legacy
                THEN RustLegacySchedule(dh, envelope.enc, Public(private), context)
                ELSE RustKeySchedule(RustSharedSecret(dh, envelope.enc, Public(private)), context)
    IN  IF envelope.version # 1 \/ envelope.suite \notin {Current, Legacy} THEN None
        ELSE AeadOpen(keys, context, envelope.ciphertext)

----------------------------------------------------------------------------
(* What the first clients sealed: raw Diffie-Hellman output in the labeled *)
(* schedule, under the codepoint of P-256                                  *)
LegacySealed(recipient, info, plaintext) ==
    LET enc == Public(Ephemeral)
        keys == Expanded(Legacy, LabeledExtract(Legacy, NoSalt, "secret", DiffieHellman(Ephemeral, recipient)),
                         <<"base", enc, recipient, info>>)
    IN  Envelope(Legacy, enc, AeadSeal(keys, info, plaintext))
=============================================================================
