-------------------------- MODULE FragmentingRadio ---------------------------
(***************************************************************************)
(* The fragmenting radio of wiselib.testing/radio/fragmenting/: a message  *)
(* too long for the radio below is cut into fragments, which the receiver  *)
(* collects in a buffer of fixed size and hands up joined.  The buffer     *)
(* goes by the random id of the message alone, and a timer gives up on     *)
(* what stays incomplete.                                                  *)
(*                                                                         *)
(* A handler runs to completion, so each is a step.  The radio below is a  *)
(* sequence of frames per flow: on the orderly flows frames come in order  *)
(* and at most once, on the others any frame that was ever sent may come   *)
(* at any time, any number of times or never.  Payloads are counted in     *)
(* units, and a fragment stands for its place in its message.  The clock   *)
(* is left out: which fragments are too old is left open.                  *)
(***************************************************************************)
EXTENDS Integers, Sequences, FiniteSets

CONSTANTS Node,
          Flow,          \* pairs <<s, d>>: the application of s sends to d
          Orderly,       \* flows on which frames keep their order
          Length,        \* lengths of the payloads of a flow
          MaxWhole,      \* longest payload the radio below takes in one frame
          FragLen,       \* pure_fragment_payload
          MaxFragments,  \* FR_MAX_FRAGMENTS
          MaxSlots,      \* FR_MAX_FRAGMENED_MESSAGES_BUFFERED
          MaxProtocols,  \* FR_MAX_REGISTERED_PROTOCOLS
          Id,            \* what rand() % 0xffff can give
          MaxSent,       \* bound: messages a node sends
          Wavering       \* nodes whose radio may be disabled again

ASSUME FragmentingAssumption ==
  /\ Flow \subseteq {e \in Node \X Node : e[1] # e[2]}
  /\ Orderly \subseteq Flow
  /\ Length \in [Flow -> SUBSET (Nat \ {0})]
  /\ {MaxWhole, MaxProtocols} \subseteq Nat
  /\ MaxSent \in [Node -> Nat]
  /\ {FragLen, MaxFragments, MaxSlots} \subseteq Nat \ {0}
  /\ FragLen <= MaxWhole
  /\ Wavering \subseteq Node

VARIABLES status,     \* status
          callbacks,  \* callbacks.size()
          slots,      \* fragmenting_messages
          link,       \* frames on their way, or ever sent, by flow
          sent,       \* every message sent so far
          handed,     \* what the callbacks of a node were given
          twice       \* messages they were given parts of more than once

vars == <<status, callbacks, slots, link, sent, handed, twice>>

Init == /\ status = [n \in Node |-> "waiting"]
        /\ callbacks = [n \in Node |-> 0]
        /\ slots = [n \in Node |-> <<>>]
        /\ link = [e \in Flow |-> <<>>]
        /\ sent = <<>>
        /\ handed = [n \in Node |-> {}]
        /\ twice = [n \in Node |-> {}]

(***************************************************************************)
(* vectorize(): fragment i of message k, and those that are made of a      *)
(* payload of len units.  A last fragment that would be full is counted in *)
(* total_fragments but never made, and the vector drops what it has no     *)
(* room for.                                                               *)
(***************************************************************************)
Total(len) == (len + FragLen - 1) \div FragLen

Made(len) == LET n == IF len % FragLen = 0 THEN Total(len) - 1 ELSE Total(len)
             IN  IF n < MaxFragments THEN n ELSE MaxFragments

Fragment(k, id, len, i) ==
  [type |-> "fragment", msg |-> k, id |-> id, seq |-> i, total |-> Total(len)]

Whole(k) == [type |-> "whole", msg |-> k]

(***************************************************************************)
(* send(): one frame if the payload fits, else fragments under a random id.*)
(***************************************************************************)
Emit(n, d, len, ids, frames) ==
  /\ link' = [link EXCEPT ![<<n, d>>] = @ \o frames]
  /\ sent' = Append(sent, [from |-> n, to |-> d, len |-> len, ids |-> ids])

Send(n, d, len) ==
  LET k == Len(sent) + 1
  IN /\ status[n] = "active"
     /\ Cardinality({j \in DOMAIN sent : sent[j].from = n}) < MaxSent[n]
     /\ \/ len <= MaxWhole /\ Emit(n, d, len, {}, <<Whole(k)>>)
        \/ /\ len > MaxWhole
           /\ \E id \in Id : Emit(n, d, len, {id},
                               [i \in 1..Made(len) |-> Fragment(k, id, len, i - 1)])
     /\ UNCHANGED <<status, callbacks, slots, handed, twice>>

(***************************************************************************)
(* insert_unique(): nothing is added to a complete message, nor what is    *)
(* there already or does not fit.                                          *)
(***************************************************************************)
Complete(s) == s.frags # <<>> /\ Len(s.frags) = s.frags[1].total

Has(s, f) == \E i \in DOMAIN s.frags : s.frags[i].seq = f.seq

\* Slip: a copy of a fragment is added too.
InsertAny(s, f) ==
  IF Complete(s) \/ Len(s.frags) = MaxFragments THEN s
  ELSE [s EXCEPT !.frags = Append(@, f)]

InsertUnique(s, f) ==
  IF Complete(s) \/ Has(s, f) \/ Len(s.frags) = MaxFragments THEN s
  ELSE [s EXCEPT !.frags = Append(@, f)]

(***************************************************************************)
(* Every callback is given the parts, in the order they came in.           *)
(***************************************************************************)
HandUp(n, s, parts) ==
  IF callbacks[n] = 0 THEN UNCHANGED <<handed, twice>>
  ELSE /\ handed' = [handed EXCEPT ![n] = @ \cup {[from |-> s, parts |-> parts]}]
       /\ twice' = [twice EXCEPT ![n] = @ \cup
                      {parts[i][1] : i \in {j \in DOMAIN parts : \E h \in handed[n] :
                         \E x \in DOMAIN h.parts : h.parts[x][1] = parts[j][1]}}]

Matching(n, f) == {i \in DOMAIN slots[n] : slots[n][i].id = f.id /\ slots[n][i].active}

Completed(n, f) == {i \in Matching(n, f) : Complete(InsertUnique(slots[n][i], f))}

Joined(s) == [i \in DOMAIN s.frags |-> <<s.frags[i].msg, s.frags[i].seq>>]

\* Slip: no return, so every slot that is complete is handed up.
CollectAll(n, s, f) ==
  /\ Matching(n, f) # {}
  /\ slots' = [slots EXCEPT ![n] = [i \in DOMAIN @ |->
       IF i \in Matching(n, f)
       THEN [InsertUnique(@[i], f) EXCEPT !.active = i \notin Completed(n, f)] ELSE @[i]]]
  /\ handed' = [handed EXCEPT ![n] = @ \cup
       {[from |-> s, parts |-> Joined(InsertUnique(slots[n][i], f))] : i \in Completed(n, f)}]
  /\ twice' = [twice EXCEPT ![n] =
                 IF Cardinality(Completed(n, f)) > 1 THEN @ \cup {f.msg} ELSE @]

(***************************************************************************)
(* receive() of a fragment that matches: it goes into every slot with its  *)
(* id up to the first it completes, which is handed up and set inactive.   *)
(***************************************************************************)
Collect(n, s, f) ==
  \/ /\ Matching(n, f) # {} /\ Completed(n, f) = {}
     /\ slots' = [slots EXCEPT ![n] = [i \in DOMAIN @ |->
          IF i \in Matching(n, f) THEN InsertUnique(@[i], f) ELSE @[i]]]
     /\ UNCHANGED <<handed, twice>>
  \/ \E done \in Completed(n, f) :
       LET full == InsertUnique(slots[n][done], f)
       IN /\ \A i \in Completed(n, f) : done <= i
          /\ slots' = [slots EXCEPT ![n] = [i \in DOMAIN @ |->
               IF i = done THEN [full EXCEPT !.active = FALSE]
               ELSE IF i < done /\ i \in Matching(n, f) THEN InsertUnique(@[i], f)
               ELSE @[i]]]
          /\ HandUp(n, s, Joined(full))

\* Slip: a full vector grows.
MakeSlotBeyond(n, f) ==
  /\ Matching(n, f) = {}
  /\ slots' = [slots EXCEPT ![n] =
                 Append(@, [id |-> f.id, active |-> TRUE, frags |-> <<f>>])]
  /\ UNCHANGED <<handed, twice>>

(***************************************************************************)
(* receive() of a fragment that does not: a new message takes the place of *)
(* all inactive ones, or a slot of its own, or is dropped.                 *)
(***************************************************************************)
MakeSlot(n, f) ==
  LET idle == {i \in DOMAIN slots[n] : ~slots[n][i].active}
      new  == [id |-> f.id, active |-> TRUE, frags |-> <<f>>]
  IN /\ Matching(n, f) = {}
     /\ slots' = [slots EXCEPT ![n] =
          IF idle # {} THEN [i \in DOMAIN @ |-> IF i \in idle THEN new ELSE @[i]]
          ELSE IF Len(@) < MaxSlots THEN Append(@, new) ELSE @]
     /\ UNCHANGED <<handed, twice>>

(***************************************************************************)
(* receive() of any other frame hands it up as it is.                      *)
(***************************************************************************)
Receive(n, s, f) ==
  /\ status[n] = "active"
  /\ \/ f.type = "fragment" /\ (Collect(n, s, f) \/ MakeSlot(n, f))
     \/ f.type = "whole" /\ HandUp(n, s, <<<<f.msg, 0>>>>) /\ UNCHANGED slots
  /\ UNCHANGED <<status, callbacks, sent>>

InOrder(e) == /\ e \in Orderly /\ link[e] # <<>>
              /\ link' = [link EXCEPT ![e] = Tail(@)]
              /\ Receive(e[2], e[1], Head(link[e]))

AnyOrder(e) == /\ e \in Flow \ Orderly
               /\ \E i \in DOMAIN link[e] : Receive(e[2], e[1], link[e][i])
               /\ UNCHANGED link

Lose(e) == /\ e \in Orderly /\ link[e] # <<>>
           /\ link' = [link EXCEPT ![e] = Tail(@)]
           /\ UNCHANGED <<status, callbacks, slots, sent, handed, twice>>

(***************************************************************************)
(* daemon(): messages that have been incomplete for too long are given up. *)
(* Its timer is armed exactly while the radio is active.                   *)
(***************************************************************************)
GiveUpOld(n) ==
  \E old \in SUBSET {i \in DOMAIN slots[n] : slots[n][i].active} :
    slots' = [slots EXCEPT ![n] = [i \in DOMAIN @ |->
                IF i \in old THEN [@[i] EXCEPT !.active = FALSE] ELSE @[i]]]

Daemon(n) ==
  /\ status[n] = "active"
  /\ GiveUpOld(n)
  /\ UNCHANGED <<status, callbacks, link, sent, handed, twice>>

(***************************************************************************)
(* enable_radio() with the first daemon(), and disable_radio().            *)
(***************************************************************************)
EnableRadio(n) ==
  /\ status[n] # "active"
  /\ status' = [status EXCEPT ![n] = "active"]
  /\ GiveUpOld(n)
  /\ UNCHANGED <<callbacks, link, sent, handed, twice>>

DisableRadio(n) ==
  /\ n \in Wavering
  /\ status[n] = "active"
  /\ status' = [status EXCEPT ![n] = "waiting"]
  /\ UNCHANGED <<callbacks, slots, link, sent, handed, twice>>

(***************************************************************************)
(* reg_recv_callback() refuses when the radio is not active or the list is *)
(* full; unreg_recv_callback() does nothing.                               *)
(***************************************************************************)
RegRecvCallback(n) ==
  /\ status[n] = "active"
  /\ callbacks[n] < MaxProtocols
  /\ callbacks' = [callbacks EXCEPT ![n] = @ + 1]
  /\ UNCHANGED <<status, slots, link, sent, handed, twice>>

(***************************************************************************)
(* Who only sends registers nothing.                                       *)
(***************************************************************************)
Next == \/ \E n \in Node : Daemon(n) \/ EnableRadio(n) \/ DisableRadio(n)
        \/ \E e \in Flow : \/ \E len \in Length[e] : Send(e[1], e[2], len)
                           \/ InOrder(e) \/ AnyOrder(e) \/ Lose(e)
                           \/ RegRecvCallback(e[2])

Spec == Init /\ [][Next]_vars

-----------------------------------------------------------------------------
FragmentFrame == [type : {"fragment"}, msg : Nat, id : Id, seq : Nat,
                  total : Nat]
WholeFrame == [type : {"whole"}, msg : Nat]

(***************************************************************************)
(* The members of FragmentingRadio_Type; the buffer and the messages in it *)
(* stay within their sizes (fragmenting_radio.h:433-438,                   *)
(* fragmenting_message.h:212-217).                                         *)
(***************************************************************************)
TypeOK ==
  /\ status \in [Node -> {"active", "waiting"}]
  /\ callbacks \in [Node -> 0..MaxProtocols]
  /\ \A n \in Node :
       /\ Len(slots[n]) <= MaxSlots
       /\ \A i \in DOMAIN slots[n] :
            /\ slots[n][i].id \in Id
            /\ slots[n][i].active \in BOOLEAN
            /\ Len(slots[n][i].frags) \in 1..MaxFragments
            /\ \A j \in DOMAIN slots[n][i].frags : slots[n][i].frags[j] \in FragmentFrame
  /\ \A e \in Flow : \A i \in DOMAIN link[e] : link[e][i] \in FragmentFrame \cup WholeFrame
  /\ \A i \in DOMAIN sent : sent[i] \in [from : Node, to : Node, len : Nat, ids : SUBSET Id]

Parts(k) == IF sent[k].len > MaxWhole THEN Total(sent[k].len) ELSE 1

\* No other message was given the fragment id of k.
OwnId(k) == \A j \in DOMAIN sent : j # k => sent[j].ids \cap sent[k].ids = {}

FlowOf(k) == <<sent[k].from, sent[k].to>>

(***************************************************************************)
(* Unless ids collide, what is handed up is one message with all its       *)
(* parts, each once, and its sender, however frames are repeated, lost or  *)
(* reordered and slots shared, given up and reused (receive(),             *)
(* insert_unique(): fragmenting_radio.h:147-255,                           *)
(* fragmenting_message.h:104-141).                                         *)
(***************************************************************************)
AllOfOne ==
  \A n \in Node : \A h \in handed[n] : \A i \in DOMAIN h.parts :
    LET k == h.parts[i][1]
    IN OwnId(k) => /\ h.from = sent[k].from
                   /\ Len(h.parts) = Parts(k)
                   /\ {h.parts[j] : j \in DOMAIN h.parts} = {k} \X (0..Parts(k) - 1)

(***************************************************************************)
(* From an orderly flow it is the message that was sent, part by part, and *)
(* only once: the copies of its slot never complete (receive():            *)
(* fragmenting_radio.h:165-233; de_vectorize(): fragmenting_message.h:     *)
(* 175-184).                                                               *)
(***************************************************************************)
Intact ==
  \A n \in Node : \A h \in handed[n] : \A i \in DOMAIN h.parts :
    LET k == h.parts[i][1]
    IN OwnId(k) /\ FlowOf(k) \in Orderly => /\ h.parts = [j \in 1..Parts(k) |-> <<k, j - 1>>]
                                          /\ k \notin twice[n]
==============================================================================
