-------------------------- MODULE WasmMemoryProofs --------------------------
(***************************************************************************)
(* What is proved of the worker's use of the WASM memory, for memories and *)
(* pages of any size and any number of requests: an answer is made of the  *)
(* inputs of its own request, and nothing is freed twice, freed with       *)
(* another capacity than it has, or left behind.                           *)
(***************************************************************************)
EXTENDS WasmMemory, TLAPS

(* The blocks that the worker frees in the end, and the one that the       *)
(* operation leaves to it                                                  *)
OwnBlocks == {Block(call.result, 1)} \cup {Block(ref.ptr, ref.capacity) : ref \in ToSet(call.refs)}
ResultBlock == {b \in Released(memory[call.result]) : b.capacity > 0}

Owned ==
    CASE call.pc \in {"copy", "finally"} -> OwnBlocks
      [] call.pc = "read" -> OwnBlocks \cup ResultBlock
      [] OTHER -> {}

GivenInputs == [name \in ToSet(Inputs[call.op]) |-> Given(name)]

CallFields == {"pc", "op", "empty", "valid", "result", "refs", "outcome"}
Names == UNION {ToSet(Inputs[op]) : op \in Operations}
Refs == [name : Names, ptr : Addresses, len : {0, 1}, capacity : {1}]

InProgress ==
    /\ DOMAIN call = CallFields
    /\ call.pc \in {"allocate", "copy", "read", "finally", "answered"}
    /\ call.op \in Operations
    /\ call.refs \in Seq(Refs)
    /\ call.pc # "allocate" => call.result \in Addresses
    /\ call.pc = "allocate" => call.refs = <<>>

MemoryTyped ==
    /\ trapped \in BOOLEAN
    /\ blocks \subseteq [ptr : Addresses, capacity : {1}]
    /\ DOMAIN memory = Addresses
    /\ call = Idle \/ InProgress

(* The worker's blocks are allocated, and as long as nothing has trapped   *)
(* no others are.                                                          *)
BlocksHeld ==
    /\ misused = FALSE
    /\ call.pc \in {"copy", "read", "finally"} => OwnBlocks \subseteq blocks
    /\ ~trapped => blocks = Owned

(* The inputs copied so far are where their references say, under their    *)
(* names and in their order.                                               *)
InputsCopied ==
    call.pc = "copy" =>
        /\ Len(call.refs) <= Len(Inputs[call.op])
        /\ \A i \in DOMAIN call.refs :
              /\ call.refs[i] = Copied(Inputs[call.op][i], call.refs[i].ptr)
              /\ call.refs[i].len > 0 => memory[call.refs[i].ptr] = call.refs[i].name

(* The result in the memory stands for an answer of the operation.  It has *)
(* a block of its own, in which the answer's bytes lie if it has any.      *)
StandsFor(ptr, answer) ==
    LET len == IF answer.bytes = NoBytes THEN 0 ELSE 1 IN
    /\ memory[call.result] = FromVec(ptr, len, answer.error)
    /\ Block(ptr, 1) \in blocks \ OwnBlocks
    /\ len = 1 => memory[ptr] = answer.bytes

ResultStored ==
    call.pc = "read" =>
        \E ptr \in Addresses, answer \in Answers(GivenInputs) : StandsFor(ptr, answer)

OutcomeOwn ==
    call.pc \in {"finally", "answered"} /\ call.outcome.error # "trap" =>
        call.outcome \in Answers(GivenInputs)

MemoryInv == MemoryTyped /\ BlocksHeld /\ InputsCopied /\ ResultStored /\ OutcomeOwn

(***************************************************************************)
(* What the operators return.                                              *)
(***************************************************************************)

(* Every operation names its inputs, and no input twice.                   *)
LEMMA InputsNamed ==
    ASSUME NEW op \in Operations
    PROVE /\ Inputs[op] \in Seq(Names)
          /\ \A i, j \in DOMAIN Inputs[op] : Inputs[op][i] = Inputs[op][j] => i = j
<1>1. CASE op \in {"encrypt", "decrypt"}
    <2>1. Inputs[op] = <<"key", "context", "payload">> BY <1>1 DEF Inputs
    <2>2. \A i \in 1 .. 3 : Inputs[op][i] \in Names BY <2>1, SMT DEF Names, ToSet
    <2>3. Len(Inputs[op]) = 3 /\ DOMAIN Inputs[op] = 1 .. 3 BY <2>1
    <2>4. Inputs[op] \in Seq(Names) BY <2>1, <2>2
    <2>5. QED BY <2>1, <2>3, <2>4
<1>2. CASE op = "encap"
    <2>1. Inputs[op] = <<"info", "aad", "payload", "recipient">> BY <1>2 DEF Inputs
    <2>2. \A i \in 1 .. 4 : Inputs[op][i] \in Names BY <2>1, SMT DEF Names, ToSet
    <2>3. Inputs[op] \in Seq(Names) BY <2>1, <2>2
    <2>4. QED BY <2>1, <2>3
<1>3. CASE op = "decap"
    <2>1. Inputs[op] = <<"info", "aad", "payload", "recipient", "enc">> BY <1>3 DEF Inputs
    <2>2. \A i \in 1 .. 5 : Inputs[op][i] \in Names BY <2>1, SMT DEF Names, ToSet
    <2>3. Inputs[op] \in Seq(Names) BY <2>1, <2>2
    <2>4. QED BY <2>1, <2>3
<1>4. QED BY <1>1, <1>2, <1>3 DEF Operations, Inputs

(* The reference to a copied input                                         *)
LEMMA CopiedFields ==
    ASSUME NEW name, NEW ptr
    PROVE /\ Copied(name, ptr).name = name /\ Copied(name, ptr).ptr = ptr
          /\ Copied(name, ptr).len = (IF name \in call.empty THEN 0 ELSE 1)
          /\ Copied(name, ptr).capacity = 1
BY DEF Copied, Ref

(* What the operation reads are the inputs of its request: as many copies  *)
(* as inputs, each under its name.                                         *)
LEMMA ReadsGiven ==
    ASSUME MemoryTyped, InputsCopied, call.pc = "copy", Len(call.refs) = Len(Inputs[call.op])
    PROVE Read = GivenInputs
<1> DEFINE refs == call.refs
           names == Inputs[call.op]
<1>1. InProgress BY DEF MemoryTyped, Idle
<1>2. names \in Seq(Names) /\ \A i, j \in DOMAIN names : names[i] = names[j] => i = j
    BY <1>1, InputsNamed DEF InProgress
<1>3. refs \in Seq(Refs) /\ DOMAIN refs = DOMAIN names
    BY <1>1, <1>2 DEF InProgress
<1>4. \A i \in DOMAIN refs :
         /\ refs[i].name = names[i]
         /\ refs[i].len = (IF names[i] \in call.empty THEN 0 ELSE 1)
         /\ refs[i].len > 0 => memory[refs[i].ptr] = refs[i].name
    BY CopiedFields DEF InputsCopied
<1>5. {refs[i].name : i \in DOMAIN refs} = ToSet(names)
    BY <1>3, <1>4 DEF ToSet
<1>6. ASSUME NEW i \in DOMAIN refs
      PROVE Slice(CHOOSE ref \in ToSet(refs) : ref.name = names[i]) = Given(names[i])
    <2>1. \A ref \in ToSet(refs) : ref.name = names[i] => ref = refs[i]
        BY <1>2, <1>3, <1>4 DEF ToSet
    <2>2. refs[i] \in ToSet(refs) /\ refs[i].name = names[i] BY <1>4 DEF ToSet
    <2>3. (CHOOSE ref \in ToSet(refs) : ref.name = names[i]) = refs[i] BY <2>1, <2>2
    <2>4. Slice(refs[i]) = Given(names[i])
        BY <1>4 DEF Slice, Given
    <2>5. QED BY <2>3, <2>4
<1>7. \A r \in ToSet(names) : Slice(CHOOSE ref \in ToSet(refs) : ref.name = r) = Given(r)
    BY <1>3, <1>6 DEF ToSet
<1>8. QED BY <1>5, <1>7 DEF Read, GivenInputs

(* A view that was looked up in the step is never detached.                *)
LEMMA ViewsFresh ==
    ASSUME NEW view PROVE ~(Ensured(view) # pages')
BY DEF Ensured

(***************************************************************************)
(* The invariant holds at the start and is kept by every step.             *)
(***************************************************************************)

(* What is at hand between requests                                        *)
LEMMA IdleKeeps ==
    ASSUME call' = Idle, trapped' \in BOOLEAN, misused' = FALSE, DOMAIN memory' = Addresses,
           blocks' \subseteq [ptr : Addresses, capacity : {1}],
           ~trapped' => blocks' = {}
    PROVE MemoryInv'
<1>1. call'.pc = "idle" BY DEF Idle
<1>2. MemoryTyped' BY DEF MemoryTyped
<1>3. BlocksHeld' BY <1>1 DEF BlocksHeld, Owned
<1>4. QED BY <1>1, <1>2, <1>3 DEF MemoryInv, InputsCopied, ResultStored, OutcomeOwn

LEMMA InitInv == MemoryInit => MemoryInv
<1> SUFFICES ASSUME MemoryInit PROVE MemoryInv
    OBVIOUS
<1>1. call.pc = "idle" BY DEF MemoryInit, Idle
<1>2. MemoryTyped BY DEF MemoryInit, MemoryTyped
<1>3. BlocksHeld BY <1>1 DEF MemoryInit, BlocksHeld, Owned
<1>4. QED BY <1>1, <1>2, <1>3 DEF MemoryInv, InputsCopied, ResultStored, OutcomeOwn

(* No block is free and allocated.                                         *)
LEMMA FreeIsFresh ==
    ASSUME NEW ptr, FirstFree(ptr)
    PROVE ptr \in Addresses /\ \A b \in blocks : b.ptr # ptr
BY DEF FirstFree, FreeAt

LEMMA RequestKeeps == MemoryInv /\ Request => MemoryInv'
<1> SUFFICES ASSUME MemoryInv, Request PROVE MemoryInv'
    OBVIOUS
<1> USE DEF MemoryInv
<1>1. PICK op \in Operations, empty \in SUBSET {"key", "payload"}, valid \in BOOLEAN :
         call' = [pc |-> "allocate", op |-> op, empty |-> empty, valid |-> valid,
                  result |-> 0, refs |-> <<>>, outcome |-> Empty]
    BY DEF Request
<1>2. InProgress' BY <1>1 DEF InProgress, CallFields
<1>3. call.pc = "idle" BY DEF Request, Idle
<1>4. QED BY <1>1, <1>2, <1>3
          DEF Request, MemoryTyped, BlocksHeld, Owned, InputsCopied, ResultStored, OutcomeOwn

LEMMA AllocateResultKeeps == MemoryInv /\ AllocateResult => MemoryInv'
<1> SUFFICES ASSUME MemoryInv, AllocateResult PROVE MemoryInv'
    OBVIOUS
<1> USE DEF MemoryInv
<1>1. PICK ptr \in Addresses : Allocate(ptr) /\ call' = [call EXCEPT !.pc = "copy", !.result = ptr]
    BY DEF AllocateResult
<1>2. InProgress /\ call.pc = "allocate" BY DEF AllocateResult, MemoryTyped, Idle
<1>3. /\ DOMAIN call' = CallFields /\ call'.pc = "copy" /\ call'.result = ptr
      /\ call'.op = call.op /\ call'.refs = <<>> /\ call'.empty = call.empty
    BY <1>1, <1>2 DEF InProgress, CallFields
<1>4. InProgress' BY <1>1, <1>2, <1>3 DEF InProgress
<1>5. blocks' = blocks \cup {Block(ptr, 1)} BY <1>1 DEF Allocate
<1>6. MemoryTyped' BY <1>4, <1>5 DEF AllocateResult, MemoryTyped, Block
<1>7. OwnBlocks' = {Block(ptr, 1)} BY <1>3 DEF OwnBlocks, ToSet
<1>8. BlocksHeld' BY <1>2, <1>3, <1>5, <1>7 DEF AllocateResult, BlocksHeld, Owned
<1>9. Len(Inputs[call.op]) \in Nat BY <1>2, InputsNamed DEF InProgress
<1>10. QED BY <1>3, <1>6, <1>8, <1>9 DEF InputsCopied, ResultStored, OutcomeOwn

LEMMA CopyInKeeps == MemoryInv /\ CopyIn => MemoryInv'
<1> SUFFICES ASSUME MemoryInv, CopyIn PROVE MemoryInv'
    OBVIOUS
<1> USE DEF MemoryInv
<1> DEFINE n == Len(call.refs)
           name == Inputs[call.op][n + 1]
<1>1. PICK ptr \in Addresses :
         LET ref == Copied(name, ptr) IN
         /\ Allocate(ptr)
         /\ uint8' = IF ref.len > 0 THEN Ensured(uint8) ELSE uint8
         /\ memory' = IF ref.len > 0 THEN [memory EXCEPT ![ptr] = ref.name] ELSE memory
         /\ call' = IF ref.len > 0 /\ Detached(uint8') THEN Idle
                    ELSE [call EXCEPT !.refs = Append(@, ref)]
    BY DEF CopyIn
<1> DEFINE ref == Copied(name, ptr)
<1>2. InProgress /\ call.pc = "copy" BY DEF CopyIn, MemoryTyped, Idle
<1>3. n \in Nat /\ n < Len(Inputs[call.op]) /\ Inputs[call.op] \in Seq(Names)
    BY <1>2, InputsNamed DEF CopyIn, InProgress
<1>4. /\ ref.name = name /\ ref.ptr = ptr /\ ref.len \in {0, 1} /\ ref.capacity = 1
      /\ ref \in Refs
    <2>1. name \in Names BY <1>3
    <2>2. QED BY <2>1, CopiedFields DEF Copied, Ref, Refs
<1>5. call' = [call EXCEPT !.refs = Append(@, ref)]
    BY <1>1 DEF Ensured, Detached
<1>6. /\ DOMAIN call' = CallFields /\ call'.pc = "copy" /\ call'.result = call.result
      /\ call'.op = call.op /\ call'.empty = call.empty /\ call'.refs = Append(call.refs, ref)
    BY <1>2, <1>5 DEF InProgress, CallFields
<1>7. InProgress' BY <1>2, <1>4, <1>6 DEF InProgress
<1>8. /\ blocks' = blocks \cup {Block(ptr, 1)} /\ FirstFree(ptr)
    BY <1>1 DEF Allocate
<1>9. DOMAIN memory' = Addresses BY <1>1 DEF MemoryTyped
<1>10. MemoryTyped' BY <1>7, <1>8, <1>9 DEF CopyIn, MemoryTyped, Block
<1>11. ToSet(call'.refs) = ToSet(call.refs) \cup {ref}
    <2>1. call.refs \in Seq(Refs) BY <1>2 DEF InProgress
    <2>2. /\ DOMAIN call.refs = 1 .. n /\ DOMAIN call'.refs = 1 .. n + 1
          /\ \A i \in 1 .. n : call'.refs[i] = call.refs[i]
          /\ call'.refs[n + 1] = ref
        BY <1>4, <1>6, <2>1
    <2>3. QED BY <1>3, <2>2 DEF ToSet
<1>12. OwnBlocks' = OwnBlocks \cup {Block(ptr, 1)}
    BY <1>4, <1>6, <1>11 DEF OwnBlocks
<1>13. BlocksHeld' BY <1>2, <1>6, <1>8, <1>12 DEF CopyIn, BlocksHeld, Owned
<1>14. \A i \in DOMAIN call.refs : call.refs[i].ptr # ptr
    <2> SUFFICES ASSUME NEW i \in DOMAIN call.refs PROVE call.refs[i].ptr # ptr
        OBVIOUS
    <2>1. Block(call.refs[i].ptr, call.refs[i].capacity) \in blocks
        BY <1>2 DEF BlocksHeld, OwnBlocks, ToSet
    <2>2. QED BY <1>8, <2>1, FreeIsFresh DEF Block
<1>15. InputsCopied'
    <2>1. call.refs \in Seq(Refs) /\ DOMAIN call.refs = 1 .. n BY <1>2 DEF InProgress
    <2>2. Len(call'.refs) = n + 1 /\ DOMAIN call'.refs = 1 .. n + 1 BY <1>4, <1>6, <2>1
    <2>3. ASSUME NEW i \in 1 .. n
          PROVE /\ call'.refs[i] = Copied(Inputs[call.op][i], call.refs[i].ptr)'
                /\ call'.refs[i].len > 0 => memory'[call'.refs[i].ptr] = call'.refs[i].name
        <3>1. call'.refs[i] = call.refs[i] BY <1>4, <1>6, <2>1
        <3>2. call.refs[i] = Copied(Inputs[call.op][i], call.refs[i].ptr)
            BY <1>2, <2>1 DEF InputsCopied
        <3>3. call.refs[i].len > 0 => memory[call.refs[i].ptr] = call.refs[i].name
            BY <1>2, <2>1 DEF InputsCopied
        <3>4. memory'[call.refs[i].ptr] = memory[call.refs[i].ptr]
            BY <1>1, <1>14, <2>1 DEF MemoryTyped
        <3>5. Copied(Inputs[call.op][i], call.refs[i].ptr)' = Copied(Inputs[call.op][i], call.refs[i].ptr)
            BY <1>6, <3>1 DEF Copied
        <3>6. QED BY <3>1, <3>2, <3>3, <3>4, <3>5
    <2>4. ASSUME NEW i \in 1 .. n + 1, i = n + 1
          PROVE /\ call'.refs[i] = Copied(Inputs[call.op][i], call.refs[i].ptr)'
                /\ call'.refs[i].len > 0 => memory'[call'.refs[i].ptr] = call'.refs[i].name
        <3>1. call'.refs[i] = ref BY <1>4, <1>6, <2>1, <2>4
        <3>2. Copied(Inputs[call.op][i], call.refs[i].ptr)' = Copied(Inputs[call.op][i], ptr)
            BY <1>4, <1>6, <3>1 DEF Copied
        <3>3. ref.len > 0 => memory'[ref.ptr] = ref.name BY <1>1, <1>4 DEF MemoryTyped
        <3>4. QED BY <2>4, <3>1, <3>2, <3>3
    <2>5. \A i \in 1 .. n + 1 :
             /\ call'.refs[i] = Copied(Inputs[call.op][i], call.refs[i].ptr)'
             /\ call'.refs[i].len > 0 => memory'[call'.refs[i].ptr] = call'.refs[i].name
        BY <1>3, <2>3, <2>4
    <2>6. QED BY <1>3, <1>6, <2>2, <2>5 DEF InputsCopied
<1>16. QED BY <1>6, <1>10, <1>13, <1>15 DEF ResultStored, OutcomeOwn

(* The inputs given and the answers to them are the request's.             *)
LEMMA GivenKept ==
    ASSUME call'.op = call.op, call'.empty = call.empty, call'.valid = call.valid
    PROVE Answers(GivenInputs)' = Answers(GivenInputs)
<1>1. \A name : Given(name)' = Given(name) BY DEF Given
<1>2. GivenInputs' = GivenInputs BY <1>1 DEF GivenInputs
<1>3. QED BY <1>2 DEF Answers, Refuses

(* What the operation answers is in a block that it leaves to the worker.  *)
LEMMA CallKeeps == MemoryInv /\ Call => MemoryInv'
<1> SUFFICES ASSUME MemoryInv, Call PROVE MemoryInv'
    OBVIOUS
<1> USE DEF MemoryInv
<1>1. InProgress /\ call.pc = "copy" BY DEF Call, MemoryTyped, Idle
<1>2. Read = GivenInputs BY <1>1, ReadsGiven DEF Call
<1>3. PICK answer \in Answers(GivenInputs), ptr \in Addresses :
         LET len == IF answer.bytes = NoBytes THEN 0 ELSE 1 IN
         /\ FirstFree(ptr)
         /\ blocks' = blocks \cup {Block(ptr, 1)}
         /\ memory' = [memory EXCEPT ![ptr] = IF len = 0 THEN @ ELSE answer.bytes,
                                    ![call.result] = FromVec(ptr, len, answer.error)]
         /\ call' = [call EXCEPT !.pc = "read"]
    BY <1>2 DEF Call
<1> DEFINE len == IF answer.bytes = NoBytes THEN 0 ELSE 1
<1>4. /\ DOMAIN call' = CallFields /\ call'.pc = "read" /\ call'.result = call.result
      /\ call'.op = call.op /\ call'.empty = call.empty /\ call'.refs = call.refs
      /\ call'.valid = call.valid
    BY <1>1, <1>3 DEF InProgress, CallFields
<1>5. InProgress' BY <1>1, <1>4 DEF InProgress
<1>6. OwnBlocks' = OwnBlocks BY <1>4 DEF OwnBlocks
<1>7. \A b \in OwnBlocks : b.ptr # ptr
    BY <1>1, <1>3, FreeIsFresh DEF BlocksHeld
<1>8. call.result \in Addresses /\ call.result # ptr
    <2>1. Block(call.result, 1) \in OwnBlocks BY DEF OwnBlocks
    <2>2. QED BY <1>1, <1>7, <2>1 DEF InProgress, Block
<1>9. /\ DOMAIN memory' = Addresses
      /\ memory'[call.result] = FromVec(ptr, len, answer.error)
      /\ len = 1 => memory'[ptr] = answer.bytes
    BY <1>3, <1>8 DEF MemoryTyped
<1>10. MemoryTyped' BY <1>3, <1>5, <1>9 DEF Call, MemoryTyped, Block
<1>11. ResultBlock' = {Block(ptr, 1)}
    BY <1>4, <1>9 DEF ResultBlock, Released, FromVec, Block
<1>12. blocks' = blocks \cup ResultBlock' BY <1>3, <1>11
<1>13. BlocksHeld' BY <1>1, <1>4, <1>6, <1>12 DEF Call, BlocksHeld, Owned
<1>14. Answers(GivenInputs)' = Answers(GivenInputs) BY <1>4, GivenKept
<1>15. StandsFor(ptr, answer)'
    <2>1. Block(ptr, 1) \in blocks' \ OwnBlocks'
        BY <1>6, <1>7, <1>11, <1>12 DEF Block
    <2>2. QED BY <1>4, <1>9, <2>1 DEF StandsFor
<1>16. ResultStored' BY <1>3, <1>14, <1>15 DEF ResultStored
<1>17. QED BY <1>4, <1>10, <1>13, <1>16 DEF InputsCopied, OutcomeOwn

(* The worker frees the block of the message, and has an answer of the     *)
(* operation.                                                              *)
LEMMA ReadResultKeeps == MemoryInv /\ ReadResult => MemoryInv'
<1> SUFFICES ASSUME MemoryInv, ReadResult PROVE MemoryInv'
    OBVIOUS
<1> USE DEF MemoryInv
<1> DEFINE result == memory[call.result]
           outcome == Outcome(result.error, IF result.len = 0 THEN NoBytes ELSE memory[result.ptr])
<1>1. InProgress /\ call.pc = "read" BY DEF ReadResult, MemoryTyped, Idle
<1>2. /\ Free(Released(result))
      /\ call' = [call EXCEPT !.pc = "finally", !.outcome = outcome]
    BY DEF ReadResult, Ensured, Detached
<1>3. /\ DOMAIN call' = CallFields /\ call'.pc = "finally" /\ call'.result = call.result
      /\ call'.op = call.op /\ call'.empty = call.empty /\ call'.refs = call.refs
      /\ call'.valid = call.valid /\ call'.outcome = outcome
    BY <1>1, <1>2 DEF InProgress, CallFields
<1>4. InProgress' BY <1>1, <1>3 DEF InProgress
<1>5. OwnBlocks' = OwnBlocks BY <1>3 DEF OwnBlocks
<1>6. PICK ptr \in Addresses, answer \in Answers(GivenInputs) : StandsFor(ptr, answer)
    BY <1>1 DEF ResultStored
<1> DEFINE len == IF answer.bytes = NoBytes THEN 0 ELSE 1
<1>7. /\ result.ptr = ptr /\ result.len = len /\ result.capacity = 1
      /\ result.error = answer.error
      /\ Block(ptr, 1) \in blocks \ OwnBlocks
      /\ len = 1 => memory[ptr] = answer.bytes
    BY <1>6 DEF StandsFor, FromVec
<1>8. ResultBlock = {Block(ptr, 1)}
    BY <1>7 DEF ResultBlock, Released, Block
<1>9. ResultBlock \subseteq blocks /\ ResultBlock \cap OwnBlocks = {}
    BY <1>7, <1>8
<1>10. blocks' = blocks \ ResultBlock /\ misused' = FALSE
    BY <1>2, <1>9 DEF Free, ResultBlock, BlocksHeld
<1>11. MemoryTyped' BY <1>4, <1>10 DEF ReadResult, MemoryTyped
<1>12. BlocksHeld'
    BY <1>1, <1>3, <1>5, <1>9, <1>10 DEF ReadResult, BlocksHeld, Owned
<1>13. outcome = answer
    <2>1. \E error, bytes : answer = Outcome(error, bytes)
        BY <1>6 DEF Answers, Empty
    <2>2. answer = Outcome(answer.error, answer.bytes) BY <2>1 DEF Outcome
    <2>3. outcome = Outcome(answer.error, answer.bytes) BY <1>7
    <2>4. QED BY <2>2, <2>3
<1>14. OutcomeOwn' BY <1>3, <1>6, <1>13, GivenKept DEF OutcomeOwn
<1>15. QED BY <1>3, <1>11, <1>12, <1>14 DEF InputsCopied, ResultStored

LEMMA FinallyKeeps == MemoryInv /\ Finally => MemoryInv'
<1> SUFFICES ASSUME MemoryInv, Finally PROVE MemoryInv'
    OBVIOUS
<1> USE DEF MemoryInv
<1>1. InProgress /\ call.pc = "finally" BY DEF Finally, MemoryTyped, Idle
<1>2. /\ DOMAIN call' = CallFields /\ call'.pc = "answered" /\ call'.result = call.result
      /\ call'.op = call.op /\ call'.empty = call.empty /\ call'.refs = call.refs
      /\ call'.valid = call.valid /\ call'.outcome = call.outcome
    BY <1>1 DEF Finally, InProgress, CallFields
<1>3. InProgress' BY <1>1, <1>2 DEF InProgress
<1>4. Free(OwnBlocks) BY DEF Finally, OwnBlocks
<1>5. OwnBlocks \subseteq blocks /\ \A b \in OwnBlocks : b.capacity > 0
    BY <1>1 DEF BlocksHeld, MemoryTyped
<1>6. blocks' = blocks \ OwnBlocks /\ misused' = FALSE
    BY <1>4, <1>5 DEF Free, BlocksHeld
<1>7. MemoryTyped' BY <1>3, <1>6 DEF Finally, MemoryTyped
<1>8. BlocksHeld' BY <1>1, <1>2, <1>6 DEF Finally, BlocksHeld, Owned
<1>9. OutcomeOwn' BY <1>1, <1>2, GivenKept DEF OutcomeOwn
<1>10. QED BY <1>2, <1>7, <1>8, <1>9 DEF InputsCopied, ResultStored

LEMMA ReturnKeeps == MemoryInv /\ Return => MemoryInv'
<1> SUFFICES ASSUME MemoryInv, Return PROVE MemoryInv'
    OBVIOUS
<1>1. ~trapped => blocks = {} BY DEF Return, MemoryInv, BlocksHeld, Owned
<1>2. QED BY <1>1, IdleKeeps DEF Return, MemoryInv, MemoryTyped, BlocksHeld

LEMMA TrapsKeep == MemoryInv /\ (TrapInAllocation \/ TrapInCall) => MemoryInv'
<1> SUFFICES ASSUME MemoryInv, TrapInAllocation \/ TrapInCall PROVE MemoryInv'
    OBVIOUS
<1> USE DEF MemoryInv
<1>1. CASE TrapInAllocation
    BY <1>1, IdleKeeps DEF TrapInAllocation, MemoryTyped, BlocksHeld
<1>2. CASE TrapInCall
    <2>1. InProgress /\ call.pc = "copy" BY <1>2 DEF TrapInCall, MemoryTyped, Idle
    <2>2. /\ DOMAIN call' = CallFields /\ call'.pc = "finally" /\ call'.result = call.result
          /\ call'.op = call.op /\ call'.refs = call.refs
          /\ call'.outcome = Outcome("trap", NoBytes)
        BY <1>2, <2>1 DEF TrapInCall, InProgress, CallFields
    <2>3. InProgress' BY <2>1, <2>2 DEF InProgress
    <2>4. PICK left \in {{}, FreeAt} : blocks' = blocks \cup {Block(ptr, 1) : ptr \in left}
        BY <1>2 DEF TrapInCall
    <2>5. blocks \subseteq blocks' /\ blocks' \subseteq [ptr : Addresses, capacity : {1}]
        BY <2>4 DEF MemoryTyped, FreeAt, Block
    <2>6. MemoryTyped' BY <1>2, <2>3, <2>5 DEF TrapInCall, MemoryTyped
    <2>7. OwnBlocks' = OwnBlocks BY <2>2 DEF OwnBlocks
    <2>8. BlocksHeld' BY <1>2, <2>1, <2>2, <2>5, <2>7 DEF TrapInCall, BlocksHeld
    <2>9. call'.outcome.error = "trap" BY <2>2 DEF Outcome
    <2>10. QED BY <2>2, <2>6, <2>8, <2>9 DEF InputsCopied, ResultStored, OutcomeOwn
<1>3. QED BY <1>1, <1>2

LEMMA StutterKeeps == MemoryInv /\ UNCHANGED memoryVars => MemoryInv'
<1> SUFFICES ASSUME MemoryInv, UNCHANGED memoryVars PROVE MemoryInv'
    OBVIOUS
<1> USE DEF MemoryInv, memoryVars
<1>1. MemoryTyped' BY DEF MemoryTyped, InProgress
<1>2. OwnBlocks' = OwnBlocks /\ Owned' = Owned BY DEF OwnBlocks, Owned, ResultBlock
<1>3. BlocksHeld' BY <1>2 DEF BlocksHeld
<1>4. InputsCopied' BY DEF InputsCopied, Copied
<1>5. Answers(GivenInputs)' = Answers(GivenInputs) BY GivenKept
<1>6. ResultStored' BY <1>2, <1>5 DEF ResultStored, StandsFor
<1>7. OutcomeOwn' BY <1>5 DEF OutcomeOwn
<1>8. QED BY <1>1, <1>3, <1>4, <1>6, <1>7

(* The invariant of the memory: the worker's blocks are those that it      *)
(* allocated for the request in execution, the inputs are where their      *)
(* references say, and the result is an answer to them.                    *)
THEOREM MemoryInvariant == MemorySpec => []MemoryInv
<1>1. MemoryInv /\ [MemoryNext]_memoryVars => MemoryInv'
    BY RequestKeeps, AllocateResultKeeps, CopyInKeeps, CallKeeps, ReadResultKeeps, FinallyKeeps,
       ReturnKeeps, TrapsKeep, StutterKeeps DEF MemoryNext
<1>2. QED BY InitInv, <1>1, PTL DEF MemorySpec

(* Every answer of the worker is an answer of the operation to the inputs  *)
(* of its own request (executeStrongBox, executeHpke), with memories of    *)
(* any size and after any number of requests, refusals and traps.          *)
THEOREM AnswersAreOwn == MemorySpec => []AnswersOwnInputs
<1>1. MemoryInv => AnswersOwnInputs
    BY DEF MemoryInv, OutcomeOwn, AnswersOwnInputs, GivenInputs
<1>2. QED BY MemoryInvariant, <1>1, PTL

(* The worker frees every block once, with the capacity it has, and keeps  *)
(* none from one request to the next unless something trapped.             *)
THEOREM NothingIsLeft == MemorySpec => []NothingLeftBehind
<1>1. MemoryInv => NothingLeftBehind
    BY DEF MemoryInv, BlocksHeld, Owned, NothingLeftBehind, Idle
<1>2. QED BY MemoryInvariant, <1>1, PTL
=============================================================================
