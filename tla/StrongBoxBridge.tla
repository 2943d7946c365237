-------------------------- MODULE StrongBoxBridge --------------------------
(***************************************************************************)
(* What the StrongBoxBridge interface of crypto-web promises its callers:  *)
(* a request is answered by its own result, or rejected, and nothing else. *)
(* A rejection has a cause: the cryptography refuses the request, or the   *)
(* machinery behind the bridge has failed.                                 *)
(***************************************************************************)

CONSTANTS
    Callers,   \* functions of the page that await the bridge, one call at a time
    Requests,  \* an operation with its key, context and payload
    Bad,       \* the requests that the cryptography refuses
    Fallible   \* the machinery may fail

VARIABLE caller  \* what every caller is doing

(* The result of a request that is not refused stands for itself. *)
Answers(req) ==
    (IF req \in Bad THEN {} ELSE {[result |-> "value", of |-> req]})
    \cup (IF req \in Bad \/ Fallible THEN {[result |-> "rejected"]} ELSE {})

Idle == [pc |-> "idle"]
Asking(req) == [pc |-> "asking", req |-> req]
Done(req, answer) == [pc |-> "done", req |-> req, answer |-> answer]

Init == caller = [c \in Callers |-> Idle]

Ask(c) ==
    /\ caller[c] = Idle
    /\ \E req \in Requests : caller' = [caller EXCEPT ![c] = Asking(req)]

(* Some of the requests are answered, in any order. *)
Answer ==
    \E who \in (SUBSET Callers) \ {{}} :
        /\ \A c \in who : \E req \in Requests : caller[c] = Asking(req)
        /\ \E answer \in [who -> UNION {Answers(req) : req \in Requests}] :
              /\ \A c \in who : answer[c] \in Answers(caller[c].req)
              /\ caller' = [c \in Callers |-> IF c \in who
                                              THEN Done(caller[c].req, answer[c])
                                              ELSE caller[c]]

Return(c) ==
    /\ caller[c].pc = "done"
    /\ caller' = [caller EXCEPT ![c] = Idle]

(* The page is left: its calls are gone with it. *)
Leave == caller' = [c \in Callers |-> Idle]

Next == Answer \/ Leave \/ \E c \in Callers : Ask(c) \/ Return(c)

Spec == Init /\ [][Next]_caller
=============================================================================
