----------------------------- MODULE WasmMemory -----------------------------
(***************************************************************************)
(* How the worker hands bytes to the WASM module and takes them back: it   *)
(* allocates a block for the result and one for each input, copies the     *)
(* inputs in, calls, reads the result, and frees all of it.  The memory    *)
(* grows when an allocation needs room, in the worker's calls and within   *)
(* the operation; the worker's views of it are then detached.  A trap, or  *)
(* an exception of the random source, leaves the module as it is, and the  *)
(* worker goes on to the next request.                                     *)
(*                                                                         *)
(* The allocator and the growth of the memory are external.  A value takes *)
(* one address.                                                            *)
(***************************************************************************)
EXTENDS Integers, FiniteSetsExt, SequencesExt

CONSTANTS
    Page, MaxPages,  \* addresses by which the memory grows, and its limit
    MaxRequests      \* bound of the model

ASSUME MemoryAssumption == Page \in Nat \ {0} /\ MaxPages \in Nat \ {0} /\ MaxRequests \in Nat

VARIABLES
    pages,       \* the size of the memory; its buffer is new at every growth
    blocks,      \* the live allocations: their address and capacity
    memory,      \* what the addresses hold
    uint8, dataView,  \* the buffers that the worker's cached views are of
    call,        \* the request in execution
    trapped,     \* whether a trap happened
    misused,     \* whether something was freed that was not allocated
    requests

memoryVars == <<pages, blocks, memory, uint8, dataView, call, trapped, misused, requests>>

Addresses == 1 .. Page * MaxPages
Nothing == "nothing"

(* An operation with its inputs, in the order in which they are copied     *)
Inputs == [encrypt |-> <<"key", "context", "payload">>,
           decrypt |-> <<"key", "context", "payload">>,
           encap |-> <<"info", "aad", "payload", "recipient">>,
           decap |-> <<"info", "aad", "payload", "recipient", "enc">>]
Operations == DOMAIN Inputs
OwnKey(op) == IF op \in {"encrypt", "decrypt"} THEN "key" ELSE "recipient"

(* What the worker is left with: an answer of the module, or an exception  *)
Outcome(error, bytes) == [error |-> error, bytes |-> bytes]
Bytes(of, read) == [of |-> of, read |-> read]
NoBytes == Bytes("none", <<>>)
Empty == Outcome("none", NoBytes)

Idle == [pc |-> "idle"]

MemoryInit ==
    /\ pages = 1 /\ blocks = {} /\ memory = [a \in Addresses |-> Nothing]
    /\ uint8 = 0 /\ dataView = 0
    /\ call = Idle /\ trapped = FALSE /\ misused = FALSE /\ requests = 0

(* executeStrongBox, executeHpke: inputs may be empty, and the operation   *)
(* may refuse a ciphertext or a key.                                       *)
Request ==
    /\ call = Idle /\ requests < MaxRequests
    /\ requests' = requests + 1
    /\ \E op \in Operations, empty \in SUBSET {"key", "payload"}, valid \in BOOLEAN :
          call' = [pc |-> "allocate", op |-> op, empty |-> empty, valid |-> valid,
                   result |-> 0, refs |-> <<>>, outcome |-> Empty]
    /\ UNCHANGED <<pages, blocks, memory, uint8, dataView, trapped, misused>>

----------------------------------------------------------------------------
(* strong_box_alloc at the first free address: the memory grows as far as  *)
(* is needed.  strong_box_free of no capacity does nothing.                *)

Block(ptr, capacity) == [ptr |-> ptr, capacity |-> capacity]
FreeAt == {a \in Addresses : \A b \in blocks : a # b.ptr}
FirstFree(ptr) == ptr \in FreeAt /\ \A a \in FreeAt : ptr <= a
PagesFor(ptr) == Max({pages, (ptr + Page - 1) \div Page})
Allocate(ptr) ==
    /\ FirstFree(ptr)
    /\ blocks' = blocks \cup {Block(ptr, 1)}
    /\ pages' = PagesFor(ptr)

Free(freed) ==
    LET real == {b \in freed : b.capacity > 0} IN
    /\ blocks' = blocks \ real
    /\ misused' = (misused \/ ~(real \subseteq blocks))

KeepsView(view) == IF view = 0 THEN pages' ELSE view  \* mutant: the buffer is not compared

(* ensureUint8, ensureDataView: a view of the buffer that the memory has   *)
(* now, after the step that needs it                                       *)
Ensured(view) == pages'

(* The use of a view of another buffer is a TypeError, which goes to the   *)
(* finally block.                                                          *)
Detached(view) == view # pages'

----------------------------------------------------------------------------
AllocateResult ==
    /\ call.pc = "allocate"
    /\ \E ptr \in Addresses : Allocate(ptr) /\ call' = [call EXCEPT !.pc = "copy", !.result = ptr]
    /\ UNCHANGED <<memory, uint8, dataView, trapped, misused, requests>>

Ref(name, ptr, len, capacity) == [name |-> name, ptr |-> ptr, len |-> len, capacity |-> capacity]

Copied(name, ptr) ==
    IF name \in call.empty THEN Ref(name, ptr, 0, 1) ELSE Ref(name, ptr, 1, 1)

(* copyIntoWasm: one address at least is allocated.                        *)
CopyIn ==
    /\ call.pc = "copy" /\ Len(call.refs) < Len(Inputs[call.op])
    /\ \E ptr \in Addresses :
          LET ref == Copied(Inputs[call.op][Len(call.refs) + 1], ptr) IN
          /\ Allocate(ptr)
          /\ uint8' = IF ref.len > 0 THEN Ensured(uint8) ELSE uint8
          /\ memory' = IF ref.len > 0 THEN [memory EXCEPT ![ptr] = ref.name] ELSE memory
          /\ call' = IF ref.len > 0 /\ Detached(uint8') THEN Idle
                     ELSE [call EXCEPT !.refs = Append(@, ref)]
    /\ UNCHANGED <<dataView, trapped, misused, requests>>

(* read_slice *)
Slice(ref) == IF ref.len = 0 THEN Nothing ELSE memory[ref.ptr]
Read == [r \in {call.refs[i].name : i \in DOMAIN call.refs} |->
            Slice(CHOOSE ref \in ToSet(call.refs) : ref.name = r)]

(* What the operation answers: its error as a message, or the bytes, which *)
(* a decryption may find to be none.                                       *)
Refuses(read) == ~call.valid \/ read[OwnKey(call.op)] = Nothing
Answers(read) ==
    IF Refuses(read) THEN {Outcome("refused", Bytes("message", <<>>))}
    ELSE {Outcome("none", Bytes(call.op, read))}
         \cup (IF call.op = "decrypt" THEN {Empty} ELSE {})

(* StrongBoxResult::from_vec leaves the vector to the worker, with its      *)
(* length and with its capacity: a plaintext of no bytes was decrypted in  *)
(* place, and its vector has length 0 and still the room of its tag.       *)
FromVec(ptr, len, error) == [ptr |-> ptr, len |-> len, capacity |-> 1, error |-> error]

(* strong_box_encrypt and the others: what the operation allocates for     *)
(* itself may make the memory grow.                                        *)
Call ==
    /\ call.pc = "copy" /\ Len(call.refs) = Len(Inputs[call.op])
    /\ \E answer \in Answers(Read), ptr \in Addresses :
          LET len == IF answer.bytes = NoBytes THEN 0 ELSE 1 IN
          /\ FirstFree(ptr)
          /\ blocks' = blocks \cup {Block(ptr, 1)}
          /\ pages' \in PagesFor(ptr) .. MaxPages
          /\ memory' = [memory EXCEPT ![ptr] = IF len = 0 THEN @ ELSE answer.bytes,
                                     ![call.result] = FromVec(ptr, len, answer.error)]
          /\ call' = [call EXCEPT !.pc = "read"]
    /\ UNCHANGED <<uint8, dataView, trapped, misused, requests>>

FreedByLength(result) == {Block(result.ptr, result.len)}  \* mutant: no bytes, nothing to free
Released(result) == {Block(result.ptr, result.capacity)}

(* readResult: the bytes, if there are any, are copied before what holds   *)
(* them is freed, which is freed also when there are none.                 *)
ReadResult ==
    /\ call.pc = "read"
    /\ UNCHANGED <<pages, memory, trapped, requests>>
    /\ dataView' = Ensured(dataView)
    /\ LET result == memory[call.result] IN
          /\ uint8' = IF result.len > 0 THEN Ensured(uint8) ELSE uint8
          /\ IF Detached(dataView') \/ (result.len > 0 /\ Detached(uint8'))
             THEN /\ call' = [call EXCEPT !.pc = "finally", !.outcome = Outcome("TypeError", NoBytes)]
                  /\ UNCHANGED <<blocks, misused>>
             ELSE /\ Free(Released(result))
                  /\ call' = [call EXCEPT !.pc = "finally",
                                 !.outcome = Outcome(result.error,
                                     IF result.len = 0 THEN NoBytes ELSE memory[result.ptr])]

(* The finally block                                                       *)
Finally ==
    /\ call.pc = "finally"
    /\ Free({Block(call.result, 1)} \cup {Block(ref.ptr, ref.capacity) : ref \in ToSet(call.refs)})
    /\ call' = [call EXCEPT !.pc = "answered"]
    /\ UNCHANGED <<pages, memory, uint8, dataView, trapped, requests>>

Return == call.pc = "answered" /\ call' = Idle
          /\ UNCHANGED <<pages, blocks, memory, uint8, dataView, trapped, misused, requests>>

(* There is no room.  The allocations precede the try block, and nothing   *)
(* is freed then.                                                          *)
TrapInAllocation ==
    /\ call.pc \in {"allocate", "copy"} /\ FreeAt = {}
    /\ call' = Idle /\ trapped' = TRUE
    /\ UNCHANGED <<pages, blocks, memory, uint8, dataView, misused, requests>>

(* A trap in the operation, or the random source throws: what the          *)
(* operation had allocated stays, and may be all that there was.           *)
TrapInCall ==
    /\ call.pc = "copy" /\ Len(call.refs) = Len(Inputs[call.op])
    /\ \E left \in {{}, FreeAt} :
          /\ blocks' = blocks \cup {Block(ptr, 1) : ptr \in left}
          /\ pages' = IF left = {} THEN pages ELSE MaxPages
    /\ call' = [call EXCEPT !.pc = "finally", !.outcome = Outcome("trap", NoBytes)]
    /\ trapped' = TRUE
    /\ UNCHANGED <<memory, uint8, dataView, misused, requests>>

MemoryNext == Request \/ AllocateResult \/ CopyIn \/ Call \/ ReadResult \/ Finally \/ Return
        \/ TrapInAllocation \/ TrapInCall

MemorySpec == MemoryInit /\ [][MemoryNext]_memoryVars

----------------------------------------------------------------------------
(* Every request is answered with what the operation makes of its own      *)
(* inputs, however often the memory grew and whatever older requests left  *)
(* in it: an error only if the operation refused, and no error of a view.  *)
Given(name) == IF name \in call.empty THEN Nothing ELSE name
AnswersOwnInputs ==
    call.pc = "answered" /\ call.outcome.error # "trap" =>
        LET given == [name \in ToSet(Inputs[call.op]) |-> Given(name)] IN
        call.outcome \in Answers(given)

(* The worker frees what it allocated and what the module left to it, each *)
(* once and with its capacity, also when the operation refuses and when    *)
(* what it answers has no bytes but a vector with room for some: as long   *)
(* as nothing has trapped, no block is left between requests.              *)
NothingLeftBehind ==
    /\ ~misused
    /\ call = Idle /\ ~trapped => blocks = {}
=============================================================================
