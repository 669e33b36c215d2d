---------------------------- MODULE ReliableRadio ----------------------------
(***************************************************************************)
(* The acknowledging radio of wiselib.testing/radio/reliable/              *)
(* reliable_radio.h.  A message is kept in a buffer and sent again by a    *)
(* periodic daemon until a reply comes or the retries are used up; the     *)
(* receiver keeps the replies it gave, which is how it knows a copy.  Both *)
(* buffers are of fixed size and reuse the entries that are obsolete.      *)
(*                                                                         *)
(* A handler runs to completion, so each is a step.  `air' holds every     *)
(* frame ever sent: any may be taken at any time, any number of times or   *)
(* never.  The buffers are vectors in the code and sets here: which of     *)
(* several obsolete entries is reused is left open.  A broadcast goes to   *)
(* the radio below unchanged, and no ReliableRadio takes it: left out.     *)
(***************************************************************************)
EXTENDS Integers, FiniteSets

CONSTANTS Node,
          Flow,          \* pairs <<s, d>>: the application of s sends to d
          MaxMessages,   \* RR_MAX_BUFFERED_MESSAGES
          MaxReplies,    \* RR_MAX_BUFFERED_REPLIES
          MaxRetries,    \* RR_MAX_RETRIES
          MaxProtocols,  \* RR_MAX_REGISTERED_PROTOCOLS
          CounterMod,    \* 2^8: the counter of an entry is a uint8_t
          MaxSeq,        \* bound: messages a node sends (seq is a uint32_t)
          MaxDaemons     \* bound: chains of daemon timers of a node

ASSUME ReliableAssumption ==
  /\ Flow \subseteq {e \in Node \X Node : e[1] # e[2]}
  /\ {MaxMessages, MaxReplies, MaxRetries, MaxProtocols, MaxSeq, MaxDaemons} \subseteq Nat
  /\ CounterMod \in Nat /\ MaxRetries + MaxProtocols < CounterMod

VARIABLES status,     \* status: RR_ACTIVE_STATUS or RR_WAITING_STATUS
          listening,  \* receive() is registered at the radio
          daemons,    \* daemon timers armed
          callbacks,  \* callbacks.size()
          seq,        \* seq
          messages,   \* reliable_radio_messages
          replies,    \* reliable_radio_replies
          air,        \* every frame sent so far
          heard,      \* messages handed to the callbacks of a node
          repeated,   \* those handed to them more than once
          forgotten,  \* those whose reply entry was reused
          reported    \* messages a node has called RR_UNDELIVERED

vars == <<status, listening, daemons, callbacks, seq, messages, replies, air,
          heard, repeated, forgotten, reported>>
history == <<heard, repeated, forgotten>>

MessageFrame(n, m) == [type |-> "message", from |-> n, to |-> m.to, id |-> m.id,
                       counter |-> m.counter]
ReplyFrame(n, r) == [type |-> "reply", from |-> n, to |-> r.to, id |-> r.id,
                     counter |-> r.counter]

MessageFrames == {f \in air : f.type = "message"}
ReplyFrames   == {f \in air : f.type = "reply"}

(***************************************************************************)
(* The constructor leaves status alone, and 0 is RR_ACTIVE_STATUS.         *)
(***************************************************************************)
Init == /\ status \in [Node -> {"active", "waiting"}]
        /\ listening = [n \in Node |-> FALSE]
        /\ daemons = [n \in Node |-> 0]
        /\ callbacks = [n \in Node |-> 0]
        /\ seq = [n \in Node |-> 0]
        /\ messages = [n \in Node |-> {}]
        /\ replies = [n \in Node |-> {}]
        /\ air = {}
        /\ heard = [n \in Node |-> {}]
        /\ repeated = [n \in Node |-> {}]
        /\ forgotten = [n \in Node |-> {}]
        /\ reported = [n \in Node |-> {}]

(***************************************************************************)
(* insert_reliable_radio_message() and insert_reliable_radio_reply(): the  *)
(* buffers that can result, none when the entry is refused.                *)
(***************************************************************************)
\* Slip: a vector that is full is appended to.
InsertionsBeyond(buffer, size, obsolete, entry) ==
  IF Cardinality(buffer) <= size THEN {buffer \cup {entry}}
  ELSE {(buffer \ {victim}) \cup {entry} : victim \in obsolete}

Insertions(buffer, size, obsolete, entry) ==
  IF Cardinality(buffer) < size THEN {buffer \cup {entry}}
  ELSE {(buffer \ {victim}) \cup {entry} : victim \in obsolete}

\* Slip: an entry is given up when its retries are used up, not yet reported.
SettledEarly(m) == m.counter >= MaxRetries \/ m.delivered

Settled(m) == m.counter > MaxRetries \/ m.delivered

AgedOut(r) == r.counter >= MaxRetries

(***************************************************************************)
(* send() of a message to d; without room the application is called with   *)
(* RR_MESSAGE_BUFFER_FULL and the number is used up all the same.          *)
(***************************************************************************)
Send(n, d) ==
  LET m    == [id |-> seq[n], to |-> d, counter |-> 0, delivered |-> FALSE]
      room == Insertions(messages[n], MaxMessages, {x \in messages[n] : Settled(x)}, m)
  IN /\ status[n] = "active"
     /\ seq[n] < MaxSeq
     /\ seq' = [seq EXCEPT ![n] = @ + 1]
     /\ \/ \E b \in room : /\ messages' = [messages EXCEPT ![n] = b]
                           /\ air' = air \cup {MessageFrame(n, m)}
        \/ room = {} /\ UNCHANGED <<messages, air>>
     /\ UNCHANGED <<status, listening, daemons, callbacks, replies, history, reported>>

(***************************************************************************)
(* receive() of an RR_MESSAGE.  replies_check() finds a copy of a message  *)
(* that has a reply: nothing happens, no second reply either.  A new one   *)
(* gets a reply and goes to the callbacks if there is room for the reply,  *)
(* else the callbacks are called with RR_REPLY_BUFFER_FULL.                *)
(***************************************************************************)
\* Slips: any entry with this id will do; the whole entry is compared.
KnownFromAnyone(n, f) == \E r \in replies[n] : r.id = f.id
KnownSameCounter(n, f) ==
  [id |-> f.id, to |-> f.from, counter |-> f.counter] \in replies[n]

Known(n, f) == \E r \in replies[n] : r.id = f.id /\ r.to = f.from

ReplyRoom(n, r) ==
  Insertions(replies[n], MaxReplies, {x \in replies[n] : AgedOut(x)}, r)

ReceiveMessage(n, f) ==
  LET r == [id |-> f.id, to |-> f.from, counter |-> f.counter]
      m == <<f.from, f.id>>
  IN /\ listening[n] /\ status[n] = "active"
     /\ f.to = n /\ ~Known(n, f)
     /\ \E b \in ReplyRoom(n, r) :
          /\ replies' = [replies EXCEPT ![n] = b]
          /\ forgotten' = [forgotten EXCEPT ![n] =
                             @ \cup {<<x.to, x.id>> : x \in replies[n] \ b}]
     /\ air' = air \cup {ReplyFrame(n, r)}
     /\ heard' = [heard EXCEPT ![n] = IF callbacks[n] > 0 THEN @ \cup {m} ELSE @]
     /\ repeated' = [repeated EXCEPT ![n] =
                       IF callbacks[n] > 0 THEN @ \cup ({m} \cap heard[n]) ELSE @]
     /\ UNCHANGED <<status, listening, daemons, callbacks, seq, messages, reported>>

(***************************************************************************)
(* receive() of an RR_REPLY: the message is delivered, even if it has been *)
(* reported undelivered before.                                            *)
(***************************************************************************)
Answers(f, m) == m.id = f.id /\ m.to = f.from /\ ~m.delivered

ReceiveReply(n, f) ==
  /\ listening[n] /\ status[n] = "active"
  /\ f.to = n
  /\ \E m \in messages[n] :
       /\ Answers(f, m)
       /\ messages' = [messages EXCEPT ![n] =
                         (@ \ {m}) \cup {[m EXCEPT !.delivered = TRUE]}]
  /\ UNCHANGED <<status, listening, daemons, callbacks, seq, replies, air,
                 history, reported>>

(***************************************************************************)
(* daemon() while the radio is active: undelivered messages are sent once  *)
(* more, the frame carrying the counter before it is incremented, or       *)
(* reported to every callback when the retries are used up; it is the loop *)
(* over the callbacks that moves the counter on from there.                *)
(***************************************************************************)
Retried(m)   == ~m.delivered /\ m.counter < MaxRetries
Exhausted(m) == ~m.delivered /\ m.counter = MaxRetries

\* Slip: a message that has been reported stays as it is.
StepStays(n, m) == IF Retried(m) THEN (m.counter + 1) % CounterMod ELSE m.counter

Step(n, m) == IF Retried(m) THEN (m.counter + 1) % CounterMod
              ELSE IF Exhausted(m) THEN (m.counter + callbacks[n]) % CounterMod
              ELSE m.counter

DaemonRun(n) ==
  /\ messages' = [messages EXCEPT ![n] = {[m EXCEPT !.counter = Step(n, m)] : m \in @}]
  /\ air' = air \cup {MessageFrame(n, m) : m \in {x \in messages[n] : Retried(x)}}
  /\ replies' = [replies EXCEPT ![n] =
       {IF AgedOut(r) THEN r ELSE [r EXCEPT !.counter = @ + 1] : r \in @}]
  /\ reported' = [reported EXCEPT ![n] =
       IF callbacks[n] > 0
       THEN @ \cup {<<m.to, m.id>> : m \in {x \in messages[n] : Exhausted(x)}} ELSE @]

(***************************************************************************)
(* The timer: daemon() arms it again, unless the radio has been disabled.  *)
(***************************************************************************)
Daemon(n) ==
  /\ daemons[n] > 0
  /\ \/ status[n] = "active" /\ DaemonRun(n) /\ UNCHANGED daemons
     \/ /\ status[n] # "active"
        /\ daemons' = [daemons EXCEPT ![n] = @ - 1]
        /\ UNCHANGED <<messages, replies, air, reported>>
  /\ UNCHANGED <<status, listening, callbacks, seq, history>>

(***************************************************************************)
(* enable_radio(): the daemon runs at once and starts a chain of timers,   *)
(* even if the one of an earlier enable_radio() has not ended yet.  The    *)
(* application then registers p protocols in the same handler.             *)
(***************************************************************************)
EnableRadio(n, p) ==
  /\ ~listening[n]
  /\ daemons[n] < MaxDaemons
  /\ callbacks[n] + p <= MaxProtocols
  /\ status' = [status EXCEPT ![n] = "active"]
  /\ listening' = [listening EXCEPT ![n] = TRUE]
  /\ DaemonRun(n)
  /\ daemons' = [daemons EXCEPT ![n] = @ + 1]
  /\ callbacks' = [callbacks EXCEPT ![n] = @ + p]
  /\ UNCHANGED <<seq, history>>

DisableRadio(n) ==
  /\ listening[n]
  /\ status' = [status EXCEPT ![n] = "waiting"]
  /\ listening' = [listening EXCEPT ![n] = FALSE]
  /\ UNCHANGED <<daemons, callbacks, seq, messages, replies, air, history, reported>>

(***************************************************************************)
(* reg_recv_callback() at any time the radio is active; unreg_recv_callback*)
(* does nothing.                                                           *)
(***************************************************************************)
RegRecvCallback(n) ==
  /\ status[n] = "active"
  /\ callbacks[n] < MaxProtocols
  /\ callbacks' = [callbacks EXCEPT ![n] = @ + 1]
  /\ UNCHANGED <<status, listening, daemons, seq, messages, replies, air, history, reported>>

Receive(n) == \/ \E f \in MessageFrames : ReceiveMessage(n, f)
              \/ \E f \in ReplyFrames : ReceiveReply(n, f)

Operate(n) == \/ \E d \in Node : <<n, d>> \in Flow /\ Send(n, d)
              \/ Receive(n)
              \/ Daemon(n)
              \/ DisableRadio(n)

(***************************************************************************)
(* Any use.  PLTT_Passive registers long after it has enabled the radio    *)
(* (PLTT_passive.h:173, 311): p is 0.                                      *)
(***************************************************************************)
Next == \E n \in Node : \/ Operate(n)
                        \/ \E p \in 0..MaxProtocols : EnableRadio(n, p)
                        \/ RegRecvCallback(n)

Spec == Init /\ [][Next]_vars

(***************************************************************************)
(* Timely use, as by PLTT_Tracker (PLTT_tracker.h:138-145): no message can *)
(* come in before a protocol is registered.                                *)
(***************************************************************************)
TimelyNext ==
  \E n \in Node : \/ Operate(n)
                  \/ \E p \in 0..MaxProtocols : callbacks[n] + p > 0 /\ EnableRadio(n, p)

TimelySpec == Init /\ [][TimelyNext]_vars

(***************************************************************************)
(* The timer fires sooner or later; nothing is assumed of the radio or of  *)
(* the application.                                                        *)
(***************************************************************************)
FairSpec == Spec /\ \A n \in Node : WF_vars(Daemon(n))

-----------------------------------------------------------------------------
MessageEntry == [id : Nat, to : Node, counter : 0..CounterMod - 1, delivered : BOOLEAN]
ReplyEntry   == [id : Nat, to : Node, counter : 0..CounterMod - 1]
Frame == [type : {"message", "reply"}, from : Node, to : Node, id : Nat,
          counter : 0..CounterMod - 1]
Id == Node \X Nat

(***************************************************************************)
(* The members of ReliableRadio_Type and the buffers within their sizes    *)
(* (reliable_radio.h:685-699, 429-503).                                    *)
(***************************************************************************)
TypeOK == /\ status \in [Node -> {"active", "waiting"}]
          /\ listening \in [Node -> BOOLEAN]
          /\ daemons \in [Node -> 0..MaxDaemons]
          /\ callbacks \in [Node -> 0..MaxProtocols]
          /\ seq \in [Node -> 0..MaxSeq]
          /\ messages \in [Node -> SUBSET MessageEntry]
          /\ replies \in [Node -> SUBSET ReplyEntry]
          /\ \A n \in Node : /\ Cardinality(messages[n]) <= MaxMessages
                            /\ Cardinality(replies[n]) <= MaxReplies
          /\ {heard, repeated, forgotten, reported} \subseteq [Node -> SUBSET Id]
          /\ air \subseteq Frame

(***************************************************************************)
(* However often the frames of a message arrive, the callbacks get it once *)
(* more only after the entry that answered it was reused (receive(),       *)
(* replies_check(): reliable_radio.h:142-322, 475-531).                    *)
(***************************************************************************)
AtMostOnce == \A n \in Node : repeated[n] \subseteq forgotten[n]

(***************************************************************************)
(* A frame is dropped as a copy only if its message has been handed to a   *)
(* callback (replies_check(): reliable_radio.h:205, 505-531), provided     *)
(* protocols are registered in time.                                       *)
(***************************************************************************)
DroppedOnlyIfHeard ==
  \A f \in MessageFrames : Known(f.to, f) => <<f.from, f.id>> \in heard[f.to]

Taken   == {<<f.from, f.to, f.id>> : f \in MessageFrames}
Pending == UNION {{<<n, m.to, m.id>> : m \in {x \in messages[n] : ~Settled(x)}} : n \in Node}
Had     == UNION {{<<h[1], n, h[2]>> : h \in heard[n]} : n \in Node}
Failed  == UNION {{<<n, h[1], h[2]>> : h \in reported[n]} : n \in Node}

(***************************************************************************)
(* With protocols registered in time the layer is a Delivery: no message   *)
(* leaves the buffer without a verdict, and delivered it is only if the    *)
(* application at its destination had it (send(), receive(), daemon():     *)
(* reliable_radio.h:78-473).                                               *)
(***************************************************************************)
D == INSTANCE Delivery WITH Id <- 0..MaxSeq - 1, accepted <- Taken,
                            pending <- Pending, heard <- Had, failed <- Failed

DeliverySpec == D!Spec

(***************************************************************************)
(* Every message that was taken is delivered or reported in the end, as    *)
(* long as the radio stays enabled and a callback is there to be told      *)
(* (daemon(): reliable_radio.h:324-427).                                   *)
(***************************************************************************)
Waiting(n, i) == \E m \in messages[n] : m.id = i /\ ~Settled(m)

VerdictComes ==
  \A n \in Node, i \in 0..MaxSeq - 1 :
    Waiting(n, i) /\ listening[n] ~>
      ~Waiting(n, i) \/ ~listening[n] \/ callbacks[n] = 0
==============================================================================
