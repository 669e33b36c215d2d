------------------------------ MODULE Delivery -------------------------------
(***************************************************************************)
(* What reliable_radio.h promises to the application that sends: of every  *)
(* message the layer takes it says in the end that it was delivered, which *)
(* is then true, or that it was not.  A message is <<source, destination,  *)
(* id>>; `heard' by the application at its destination it may be without   *)
(* the source ever knowing.                                                *)
(***************************************************************************)
EXTENDS Naturals

CONSTANTS Node, Id

VARIABLES accepted, pending, heard, failed

deliveryVars == <<accepted, pending, heard, failed>>

Message == Node \X Node \X Id

Init == accepted = {} /\ pending = {} /\ heard = {} /\ failed = {}

Accept(m) == /\ m \in Message \ accepted
             /\ accepted' = accepted \cup {m}
             /\ pending' = pending \cup {m}
             /\ UNCHANGED <<heard, failed>>

Hear(m) == /\ m \in accepted
           /\ heard' = heard \cup {m}
           /\ UNCHANGED <<accepted, pending, failed>>

Confirm(m) == /\ m \in pending \cap heard
              /\ pending' = pending \ {m}
              /\ UNCHANGED <<accepted, heard, failed>>

GiveUp(M) == /\ M \subseteq pending
             /\ pending' = pending \ M
             /\ failed' = failed \cup M
             /\ UNCHANGED <<accepted, heard>>

Next == \/ \E n, d \in Node, i \in Id : Accept(<<n, d, i>>)
        \/ \E m \in accepted : Hear(m) \/ Confirm(m)
        \/ \E M \in SUBSET pending : GiveUp(M)

Spec == Init /\ [][Next]_deliveryVars
==============================================================================
