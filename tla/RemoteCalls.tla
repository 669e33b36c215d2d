----------------------------- MODULE RemoteCalls -----------------------------
(***************************************************************************)
(* What the CoAP service (coap_service_static.h) promises those who ask:   *)
(* a request is handed to a resource at most once, its answer to the       *)
(* callback at most once, and that is the answer to this request and to no *)
(* other.  A `forgetful' service has lists too short for its traffic: it   *)
(* may take a copy for a new message, but never mixes up two requests.     *)
(***************************************************************************)
EXTENDS Naturals, Sequences

CONSTANT Call

VARIABLES forgetful, executed, answers

callVars == <<forgetful, executed, answers>>

Init == /\ forgetful \in BOOLEAN
        /\ executed = [c \in Call |-> 0]
        /\ answers = [c \in Call |-> <<>>]

Execute(c) == /\ forgetful \/ executed[c] = 0
              /\ executed' = [executed EXCEPT ![c] = @ + 1]
              /\ UNCHANGED <<forgetful, answers>>

Answer(c) == /\ executed[c] > 0
             /\ forgetful \/ answers[c] = <<>>
             /\ answers' = [answers EXCEPT ![c] = Append(@, c)]
             /\ UNCHANGED <<forgetful, executed>>

Next == \E c \in Call : Execute(c) \/ Answer(c)

Spec == Init /\ [][Next]_callVars
==============================================================================
