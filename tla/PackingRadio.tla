---------------------------- MODULE PackingRadio ----------------------------
(***************************************************************************)
(* PackingRadio (wiselib.testing/algorithms/protocols/packing_radio/       *)
(* packing_radio.h, message_packer.h): messages to one receiver are        *)
(* collected in a buffer and sent in one frame, when the next message is   *)
(* to another receiver or does not fit any more, when the timer fires or   *)
(* when the application asks for it.                                       *)
(*                                                                         *)
(* A handler runs to completion, so each is a step.  `air' holds every     *)
(* frame ever sent: any may be taken at any time, any number of times or   *)
(* never.                                                                  *)
(***************************************************************************)
EXTENDS Naturals, Sequences, SequencesExt

CONSTANTS Node, All,
          Sends,       \* for each node: what its application sends, a sequence
                       \* of records [to, size]
          BufferSize,  \* Radio::MAX_MESSAGE_LENGTH - sizeof(message_id_t)
          Timers       \* sets of nodes: who may be initialised with a timer

PackingAssumption ==
  /\ All \notin Node
  /\ BufferSize \in 1..255           \* MessagePacker::size() is a uint8_t
  /\ \A n \in Node : Sends[n] \in Seq([to : (Node \cup {All}) \ {n}, size : 0..BufferSize - 1])
  /\ Timers \subseteq SUBSET Node

VARIABLES timed,    \* the nodes with a timer; fixed at the start
          receiver, \* current_receiver_; any value at first, it is never set
          packer,   \* the messages in buffer_, by their number, and where each ends
          air,      \* every frame sent so far
          asked,    \* how many messages the application has handed over
          handed    \* what was given to the receivers of a node, frame by frame

vars == <<timed, receiver, packer, air, asked, handed>>

(***************************************************************************)
(* buffer_position_ behind a list of messages, and append(): a message is  *)
(* written behind a byte for its size, by which next() finds its end.      *)
(***************************************************************************)
Position(list) == IF list = <<>> THEN 0 ELSE list[Len(list)].end

End(n, k, list) == Position(list) + 1 + Sends[n][k].size

Appended(n, k, list) == Append(list, [msg |-> k, end |-> End(n, k, list)])

Frame(n, list) == [from |-> n, to |-> receiver[n], list |-> list, size |-> Position(list)]

\* Slip: a message alone in the buffer waits for another.
Lone(list) == Len(list) <= 1

Empty(list) == list = <<>>

Flushed(n) == IF Empty(packer[n]) THEN air ELSE air \cup {Frame(n, packer[n])}

Init == /\ timed \in Timers
        /\ receiver \in [Node -> Node \cup {All}]
        /\ packer = [n \in Node |-> <<>>]
        /\ air = {}
        /\ asked = [n \in Node |-> 0]
        /\ handed = [n \in Node |-> {}]

Fits(n, k) == End(n, k, packer[n]) <= BufferSize

\* Slip: messages to several receivers share the buffer.
AnyReceiver(n, to) == FALSE

OtherReceiver(n, to) == to # receiver[n]

Send(n) ==
  LET k == asked[n] + 1
      full == OtherReceiver(n, Sends[n][k].to) \/ ~Fits(n, k)
  IN /\ k <= Len(Sends[n])
     /\ asked' = [asked EXCEPT ![n] = k]
     /\ air' = IF full THEN Flushed(n) ELSE air
     /\ packer' = [packer EXCEPT ![n] = Appended(n, k, IF full THEN <<>> ELSE @)]
     /\ receiver' = [receiver EXCEPT ![n] = Sends[n][k].to]
     /\ UNCHANGED <<timed, handed>>

(***************************************************************************)
(* flush(), called by the application.                                     *)
(***************************************************************************)
Flush(n) ==
  /\ air' = Flushed(n)
  /\ packer' = [packer EXCEPT ![n] = IF Empty(@) THEN @ ELSE <<>>]
  /\ UNCHANGED <<timed, receiver, asked, handed>>

OnTime(n) == n \in timed /\ Flush(n)

(***************************************************************************)
(* next() gives one message after the other, as long as they end within    *)
(* the frame.                                                              *)
(***************************************************************************)
\* Slip: a message that ends with the frame is left out.
EndsBefore(end, f) == end < f.size

EndsWithin(end, f) == end <= f.size

Unpacked(f) ==
  LET read == {k \in 0..Len(f.list) : \A i \in 1..k : EndsWithin(f.list[i].end, f)}
  IN [i \in 1..Max(read) |-> f.list[i].msg]

OnReceive(n, f) ==
  /\ f.to \in {n, All} /\ f.from # n
  /\ handed' = [handed EXCEPT ![n] = @ \cup {[from |-> f.from, list |-> Unpacked(f)]}]
  /\ UNCHANGED <<timed, receiver, packer, air, asked>>

Next == \E n \in Node : \/ Send(n) \/ Flush(n) \/ OnTime(n)
                        \/ \E f \in air : OnReceive(n, f)

Spec == Init /\ [][Next]_vars
------------------------------------------------------------------------------
Numbers(list) == [i \in DOMAIN list |-> list[i].msg]

Run(list) == \A i \in DOMAIN list : list[i] = list[1] + i - 1

TypeOK ==
  /\ timed \subseteq Node
  /\ receiver \in [Node -> Node \cup {All}]
  /\ \A n \in Node : /\ asked[n] \in 0..Len(Sends[n])
                     /\ packer[n] \in Seq([msg : 1..asked[n], end : 1..BufferSize])
                     /\ \A m \in handed[n] : m.list \in Seq(1..asked[m.from])
  /\ \A f \in air : f.size \in 1..BufferSize

(***************************************************************************)
(* Every message handed over is in one frame or still in the buffer, in    *)
(* order, and each frame goes to the receiver of all that is in it         *)
(* (packing_radio.h:113-139).                                              *)
(***************************************************************************)
PackedOnce ==
  \A n \in Node :
    LET frames == {f \in air : f.from = n}
        lists  == {Numbers(f.list) : f \in frames} \cup ({Numbers(packer[n])} \ {<<>>})
    IN /\ \A l \in lists : Run(l)
       /\ \A k \in 1..asked[n] : \E l \in lists :
            /\ k \in ToSet(l)
            /\ \A m \in lists : k \in ToSet(m) => m = l
       /\ \A f \in frames : \A k \in ToSet(Numbers(f.list)) : Sends[n][k].to = f.to

(***************************************************************************)
(* What comes out of a frame is what was put into it, the last message     *)
(* and messages without a byte included (packing_radio.h:138-158,          *)
(* message_packer.h:83-94).                                                *)
(***************************************************************************)
AllUnpacked ==
  \A n \in Node : \A m \in handed[n] :
    \E f \in air : f.from = m.from /\ f.to \in {n, All} /\ Numbers(f.list) = m.list

(***************************************************************************)
(* With a timer nothing stays in the buffer for ever                       *)
(* (packing_radio.h:143-146).                                              *)
(***************************************************************************)
AllSent == <>[](\A n \in timed : packer[n] = <<>>)
==============================================================================
