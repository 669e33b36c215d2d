------------------------ MODULE ReliableRadioProofs -------------------------
(***************************************************************************)
(* Proofs about ReliableRadio, for any number of nodes and any sizes of    *)
(* buffers, numbers of retries and of protocols that a uint8_t can count.  *)
(* The rest is about MCRadios, which extends ReliableRadio by other        *)
(* layers: the connection-based radio, the stack, the packing radio and    *)
(* the service there, for any sizes; each layer alone is proved about, and *)
(* a part that does not run stands still.                                  *)
(***************************************************************************)
EXTENDS MCRadios, FiniteSetTheorems, SequenceTheorems, WellFoundedInduction, TLAPS

(***************************************************************************)
(* The two facts about buffers: inserting keeps the size and drops only    *)
(* what is obsolete; rewriting the entries does not add any.               *)
(***************************************************************************)
LEMMA InsertionsFit ==
  ASSUME NEW B, IsFiniteSet(B), NEW size \in Nat, Cardinality(B) <= size,
         NEW O \in SUBSET B, NEW e, NEW buf \in Insertions(B, size, O, e)
  PROVE  /\ IsFiniteSet(buf) /\ Cardinality(buf) <= size
         /\ buf \subseteq B \cup {e} /\ e \in buf
         /\ B \ buf \subseteq O
<1>1. Cardinality(B) \in Nat
  BY FS_CardinalityType
<1>2. CASE Cardinality(B) < size
  <2>1. buf = B \cup {e}
    BY <1>2 DEF Insertions
  <2>2. IsFiniteSet(B \cup {e}) /\ Cardinality(B \cup {e}) <= Cardinality(B) + 1
    <3>1. /\ IsFiniteSet(B \cup {e})
          /\ Cardinality(B \cup {e}) = IF e \in B THEN Cardinality(B) ELSE Cardinality(B) + 1
      BY FS_AddElement, Zenon
    <3> QED BY <1>1, <3>1
  <2>3. IsFiniteSet(buf) /\ Cardinality(buf) <= Cardinality(B) + 1
    BY <2>1, <2>2, Zenon
  <2>4. Cardinality(buf) <= size
    BY <1>1, <1>2, <2>3, FS_CardinalityType
  <2> QED BY <2>1, <2>3, <2>4
<1>3. CASE ~(Cardinality(B) < size)
  <2>1. PICK v \in O : buf = (B \ {v}) \cup {e}
    BY <1>3 DEF Insertions
  <2>2. /\ IsFiniteSet(B \ {v})
        /\ Cardinality(B \ {v}) = Cardinality(B) - 1
    BY FS_RemoveElement
  <2>3. /\ IsFiniteSet((B \ {v}) \cup {e})
        /\ Cardinality((B \ {v}) \cup {e}) <= Cardinality(B)
    BY <1>1, <2>2, FS_AddElement
  <2>4. IsFiniteSet(buf) /\ Cardinality(buf) <= Cardinality(B)
    BY <2>1, <2>3, Zenon
  <2>5. Cardinality(buf) <= size
    BY <1>1, <2>4, FS_CardinalityType
  <2> QED BY <2>1, <2>4, <2>5
<1> QED BY <1>2, <1>3

LEMMA RewrittenFits ==
  ASSUME NEW S, IsFiniteSet(S), NEW f
  PROVE  LET T == {f[u] : u \in S}
         IN  /\ IsFiniteSet(T) /\ Cardinality(T) \in Nat
             /\ Cardinality(T) <= Cardinality(S)
<1> DEFINE T == {f[u] : u \in S}
           g == [u \in S |-> f[u]]
<1>1. g \in Surjection(S, T)
  BY DEF Surjection
<1>2. IsFiniteSet(T) /\ Cardinality(T) <= Cardinality(S)
  BY <1>1, FS_Surjection
<1> QED BY <1>2, FS_CardinalityType

(***************************************************************************)
(* What daemon() does to the two buffers, by the entry.                    *)
(***************************************************************************)
Stepped(n, m) == [m EXCEPT !.counter = Step(n, m)]
Aged(r) == IF AgedOut(r) THEN r ELSE [r EXCEPT !.counter = @ + 1]

Finite == \A n \in Node : IsFiniteSet(messages[n]) /\ IsFiniteSet(replies[n])

LEMMA SteppedType ==
  ASSUME TypeOK, NEW n \in Node, NEW m \in MessageEntry
  PROVE  /\ Stepped(n, m) \in MessageEntry
         /\ Stepped(n, m).id = m.id /\ Stepped(n, m).to = m.to
         /\ Stepped(n, m).delivered = m.delivered
         /\ Stepped(n, m).counter = Step(n, m)
<1>1. Step(n, m) \in 0..CounterMod - 1
  BY ReliableAssumption DEF Step, Retried, Exhausted, TypeOK, MessageEntry
<1> QED BY <1>1 DEF Stepped, MessageEntry

LEMMA AgedType ==
  ASSUME NEW r \in ReplyEntry
  PROVE  Aged(r) \in ReplyEntry /\ Aged(r).id = r.id /\ Aged(r).to = r.to
BY ReliableAssumption DEF Aged, AgedOut, ReplyEntry

LEMMA DaemonTypes ==
  ASSUME TypeOK, Finite, NEW n \in Node, DaemonRun(n)
  PROVE  /\ messages' = [messages EXCEPT ![n] = {Stepped(n, m) : m \in messages[n]}]
         /\ replies' = [replies EXCEPT ![n] = {Aged(r) : r \in replies[n]}]
         /\ messages' \in [Node -> SUBSET MessageEntry]
         /\ replies' \in [Node -> SUBSET ReplyEntry]
         /\ \A k \in Node : /\ Cardinality(messages'[k]) <= MaxMessages
                            /\ Cardinality(replies'[k]) <= MaxReplies
         /\ Finite'
         /\ air' \subseteq Frame
         /\ reported' \in [Node -> SUBSET Id]
<1>1. /\ messages' = [messages EXCEPT ![n] = {Stepped(n, m) : m \in messages[n]}]
      /\ replies' = [replies EXCEPT ![n] = {Aged(r) : r \in replies[n]}]
  BY DEF DaemonRun, Stepped, Aged, TypeOK
<1>2. messages' \in [Node -> SUBSET MessageEntry]
  BY <1>1, SteppedType DEF TypeOK
<1>3. replies' \in [Node -> SUBSET ReplyEntry]
  BY <1>1, AgedType DEF TypeOK
<1>4. ASSUME NEW k \in Node
      PROVE  /\ Cardinality(messages'[k]) <= MaxMessages /\ IsFiniteSet(messages'[k])
             /\ Cardinality(replies'[k]) <= MaxReplies /\ IsFiniteSet(replies'[k])
  <2> DEFINE f == [m \in messages[n] |-> Stepped(n, m)]
             g == [r \in replies[n] |-> Aged(r)]
             M == {f[m] : m \in messages[n]}
             R == {g[r] : r \in replies[n]}
  <2>1. /\ IsFiniteSet(M) /\ Cardinality(M) \in Nat
        /\ Cardinality(M) <= Cardinality(messages[n])
    BY RewrittenFits DEF Finite
  <2>2. /\ IsFiniteSet(R) /\ Cardinality(R) \in Nat
        /\ Cardinality(R) <= Cardinality(replies[n])
    BY RewrittenFits DEF Finite
  <2>3. M = {Stepped(n, m) : m \in messages[n]} /\ R = {Aged(r) : r \in replies[n]}
    OBVIOUS
  <2>4. /\ messages'[k] = IF k = n THEN M ELSE messages[k]
        /\ replies'[k] = IF k = n THEN R ELSE replies[k]
    BY <1>1, <2>3 DEF TypeOK
  <2>5. /\ Cardinality(messages[n]) \in Nat /\ Cardinality(replies[n]) \in Nat
        /\ {MaxMessages, MaxReplies} \subseteq Nat
    BY FS_CardinalityType, ReliableAssumption DEF Finite
  <2>6. /\ Cardinality(messages[n]) <= MaxMessages
        /\ Cardinality(replies[n]) <= MaxReplies
    BY DEF TypeOK
  <2>7. Cardinality(M) <= MaxMessages /\ Cardinality(R) <= MaxReplies
    BY <2>1, <2>2, <2>5, <2>6
  <2> HIDE DEF M, R
  <2>8. CASE k = n
    BY <2>1, <2>2, <2>4, <2>7, <2>8, Zenon
  <2>9. CASE k # n
    BY <2>4, <2>9, Zenon DEF TypeOK, Finite
  <2> QED BY <2>8, <2>9
<1>5. air' \subseteq Frame
  BY DEF DaemonRun, TypeOK, MessageFrame, MessageEntry, Frame
<1>6. reported' \in [Node -> SUBSET Id]
  BY DEF DaemonRun, TypeOK, MessageEntry, Id
<1> QED BY <1>1, <1>2, <1>3, <1>4, <1>5, <1>6 DEF Finite

(***************************************************************************)
(* The inductive invariant of any use: a message that was handed up has    *)
(* its reply entry, by which its copies are known, unless the entry was    *)
(* reused.                                                                 *)
(***************************************************************************)
Accounted == \A n \in Node : \A m \in heard[n] :
               m \in forgotten[n] \/ \E r \in replies[n] : m = <<r.to, r.id>>

IInv == TypeOK /\ Finite /\ Accounted /\ AtMostOnce

LEMMA InitIInv == Init => IInv
<1> SUFFICES ASSUME Init PROVE IInv
  OBVIOUS
<1>1. IsFiniteSet({}) /\ Cardinality({}) = 0
  BY FS_EmptySet
<1>2. TypeOK /\ Finite
  BY <1>1, ReliableAssumption DEF Init, TypeOK, Finite
<1>3. Accounted /\ AtMostOnce
  BY DEF Init, Accounted, AtMostOnce
<1> QED BY <1>2, <1>3 DEF IInv

LEMMA SendIInv ==
  ASSUME IInv, NEW n \in Node, NEW d \in Node, Send(n, d)
  PROVE  IInv'
<1> USE DEF IInv
<1> DEFINE m == [id |-> seq[n], to |-> d, counter |-> 0, delivered |-> FALSE]
           room == Insertions(messages[n], MaxMessages, {u \in messages[n] : Settled(u)}, m)
<1>1. m \in MessageEntry
  BY ReliableAssumption DEF TypeOK, MessageEntry
<1>2. seq' \in [Node -> 0..MaxSeq]
  BY ReliableAssumption DEF Send, TypeOK
<1>3. CASE room = {} /\ UNCHANGED <<messages, air>>
  BY <1>2, <1>3 DEF Send, TypeOK, Finite, Accounted, AtMostOnce, history
<1>4. ASSUME NEW buf \in room, messages' = [messages EXCEPT ![n] = buf],
             air' = air \cup {MessageFrame(n, m)}
      PROVE  IInv'
  <2>1. /\ IsFiniteSet(buf) /\ Cardinality(buf) <= MaxMessages
        /\ buf \subseteq messages[n] \cup {m}
    <3>1. PICK B : B = messages[n]
      OBVIOUS
    <3>2. PICK O : O = {u \in messages[n] : Settled(u)}
      OBVIOUS
    <3>3. /\ IsFiniteSet(B) /\ Cardinality(B) <= MaxMessages
          /\ MaxMessages \in Nat /\ O \in SUBSET B
      BY <3>1, <3>2, ReliableAssumption DEF TypeOK, Finite
    <3>4. buf \in Insertions(B, MaxMessages, O, m)
      BY <3>1, <3>2
    <3> HIDE DEF m
    <3> QED BY <3>1, <3>3, <3>4, InsertionsFit
  <2>2. buf \in SUBSET MessageEntry
    BY <1>1, <2>1 DEF TypeOK
  <2>3. MessageFrame(n, m) \in Frame
    BY <1>1 DEF MessageFrame, MessageEntry, Frame
  <2>4. TypeOK'
    BY <1>2, <1>4, <2>1, <2>2, <2>3 DEF Send, TypeOK, history
  <2>5. Finite'
    BY <1>4, <2>1 DEF Send, TypeOK, Finite
  <2> QED BY <2>4, <2>5 DEF Send, Accounted, AtMostOnce, history
<1> QED BY <1>3, <1>4 DEF Send

LEMMA ReceiveMessageIInv ==
  ASSUME IInv, NEW n \in Node, NEW f \in MessageFrames, ReceiveMessage(n, f)
  PROVE  IInv'
<1> USE DEF IInv
<1> DEFINE r == [id |-> f.id, to |-> f.from, counter |-> f.counter]
           m == <<f.from, f.id>>
<1>1. f \in Frame
  BY DEF MessageFrames, TypeOK
<1>2. r \in ReplyEntry /\ m \in Id /\ ReplyFrame(n, r) \in Frame
  BY <1>1 DEF Frame, ReplyEntry, Id, ReplyFrame
<1>3. PICK buf \in ReplyRoom(n, r) :
        /\ replies' = [replies EXCEPT ![n] = buf]
        /\ forgotten' = [forgotten EXCEPT ![n] =
                           @ \cup {<<u.to, u.id>> : u \in replies[n] \ buf}]
  BY DEF ReceiveMessage
<1>4. /\ IsFiniteSet(buf) /\ Cardinality(buf) <= MaxReplies
      /\ buf \subseteq replies[n] \cup {r} /\ r \in buf
  <2> HIDE DEF r
  <2> QED BY InsertionsFit, ReliableAssumption DEF TypeOK, Finite, ReplyRoom
<1>5. buf \in SUBSET ReplyEntry
  BY <1>2, <1>4 DEF TypeOK
<1>6. {<<u.to, u.id>> : u \in replies[n] \ buf} \subseteq Id
  BY DEF TypeOK, ReplyEntry, Id
<1>7. /\ heard' = [heard EXCEPT ![n] = IF callbacks[n] > 0 THEN @ \cup {m} ELSE @]
      /\ repeated' = [repeated EXCEPT ![n] =
                        IF callbacks[n] > 0 THEN @ \cup ({m} \cap heard[n]) ELSE @]
      /\ air' = air \cup {ReplyFrame(n, r)}
      /\ UNCHANGED <<status, listening, daemons, callbacks, seq, messages, reported>>
      /\ ~Known(n, f)
  BY DEF ReceiveMessage
<1> HIDE DEF r, m
<1>8. /\ heard' \in [Node -> SUBSET Id] /\ repeated' \in [Node -> SUBSET Id]
      /\ forgotten' \in [Node -> SUBSET Id]
  BY <1>2, <1>3, <1>6, <1>7 DEF TypeOK
<1>9. replies' \in [Node -> SUBSET ReplyEntry]
  BY <1>3, <1>5 DEF TypeOK
<1>10. \A k \in Node : Cardinality(replies'[k]) <= MaxReplies /\ IsFiniteSet(replies'[k])
  BY <1>3, <1>4 DEF TypeOK, Finite
<1>11. TypeOK'
  BY <1>2, <1>7, <1>8, <1>9, <1>10 DEF TypeOK
<1>12. Finite'
  BY <1>7, <1>10 DEF Finite
<1>13. m \notin {<<u.to, u.id>> : u \in replies[n]}
  BY <1>7 DEF Known, m
<1>14. ASSUME NEW k \in Node, NEW v \in heard'[k]
       PROVE  v \in forgotten'[k] \/ \E u \in replies'[k] : v = <<u.to, u.id>>
  <2>1. CASE k = n /\ v = m
    BY <1>3, <1>4, <2>1 DEF m, r, TypeOK
  <2>2. CASE ~(k = n /\ v = m)
    <3>1. v \in heard[k]
      BY <1>7, <2>2 DEF TypeOK
    <3>2. v \in forgotten[k] \/ \E u \in replies[k] : v = <<u.to, u.id>>
      BY <3>1 DEF Accounted
    <3> QED BY <1>3, <3>2 DEF TypeOK
  <2> QED BY <2>1, <2>2
<1>15. AtMostOnce'
  <2> SUFFICES ASSUME NEW k \in Node, NEW v \in repeated'[k] PROVE v \in forgotten'[k]
    BY DEF AtMostOnce
  <2>1. CASE v \in repeated[k]
    BY <1>3, <2>1 DEF AtMostOnce, TypeOK
  <2>2. CASE v \notin repeated[k]
    <3>1. k = n /\ v = m /\ m \in heard[n]
      BY <1>7, <2>2 DEF TypeOK
    <3>2. m \in forgotten[n]
      BY <1>13, <3>1 DEF Accounted
    <3> QED BY <1>3, <3>1, <3>2 DEF TypeOK
  <2> QED BY <2>1, <2>2
<1> QED BY <1>11, <1>12, <1>14, <1>15 DEF Accounted

LEMMA ReceiveReplyIInv ==
  ASSUME IInv, NEW n \in Node, NEW f \in ReplyFrames, ReceiveReply(n, f)
  PROVE  IInv'
<1> USE DEF IInv
<1>1. PICK m \in messages[n] :
        messages' = [messages EXCEPT ![n] = (@ \ {m}) \cup {[m EXCEPT !.delivered = TRUE]}]
  BY DEF ReceiveReply
<1> DEFINE e == [m EXCEPT !.delivered = TRUE]
           buf == (messages[n] \ {m}) \cup {e}
<1>2. e \in MessageEntry
  <2>1. m \in MessageEntry
    BY DEF TypeOK
  <2> QED BY <2>1 DEF MessageEntry
<1>3. /\ IsFiniteSet(messages[n] \ {m})
      /\ Cardinality(messages[n] \ {m}) = Cardinality(messages[n]) - 1
      /\ Cardinality(messages[n]) \in Nat
  BY FS_RemoveElement, FS_CardinalityType DEF Finite
<1>4. IsFiniteSet(buf) /\ Cardinality(buf) <= Cardinality(messages[n])
  <2> HIDE DEF e
  <2> QED BY <1>3, FS_AddElement
<1>5. Cardinality(buf) <= MaxMessages
  BY <1>3, <1>4, FS_CardinalityType, ReliableAssumption DEF TypeOK
<1>6. messages' \in [Node -> SUBSET MessageEntry]
  BY <1>1, <1>2 DEF TypeOK
<1>7. messages' = [messages EXCEPT ![n] = buf]
  BY <1>1 DEF TypeOK
<1> HIDE DEF buf
<1>8. \A k \in Node : Cardinality(messages'[k]) <= MaxMessages /\ IsFiniteSet(messages'[k])
  BY <1>4, <1>5, <1>7 DEF TypeOK, Finite
<1>9. TypeOK' /\ Finite'
  BY <1>6, <1>8 DEF ReceiveReply, TypeOK, Finite, history
<1> QED BY <1>9 DEF ReceiveReply, Accounted, AtMostOnce, history

LEMMA DaemonRunIInv ==
  ASSUME IInv, NEW n \in Node, DaemonRun(n), UNCHANGED <<seq, history>>,
         status' \in [Node -> {"active", "waiting"}], listening' \in [Node -> BOOLEAN],
         daemons' \in [Node -> 0..MaxDaemons], callbacks' \in [Node -> 0..MaxProtocols]
  PROVE  IInv'
<1> USE DEF IInv
<1>1. TypeOK' /\ Finite'
  BY DaemonTypes DEF TypeOK, history
<1>2. replies' = [replies EXCEPT ![n] = {Aged(r) : r \in replies[n]}]
  BY DaemonTypes
<1>3. Accounted'
  <2> SUFFICES ASSUME NEW k \in Node, NEW v \in heard[k]
               PROVE  v \in forgotten[k] \/ \E u \in replies'[k] : v = <<u.to, u.id>>
    BY DEF Accounted, history
  <2>1. CASE v \in forgotten[k]
    BY <2>1
  <2>2. ASSUME NEW u \in replies[k], v = <<u.to, u.id>>
        PROVE  \E w \in replies'[k] : v = <<w.to, w.id>>
    <3>1. CASE k = n
      <4>1. Aged(u) \in replies'[k]
        BY <1>2, <3>1 DEF TypeOK
      <4>2. Aged(u).to = u.to /\ Aged(u).id = u.id
        BY AgedType DEF TypeOK
      <4> QED BY <2>2, <4>1, <4>2
    <3>2. CASE k # n
      BY <1>2, <2>2, <3>2 DEF TypeOK
    <3> QED BY <3>1, <3>2
  <2> QED BY <2>1, <2>2 DEF Accounted
<1> QED BY <1>1, <1>3 DEF AtMostOnce, history

LEMMA NextIInv == IInv /\ [Next]_vars => IInv'
<1> SUFFICES ASSUME IInv, [Next]_vars PROVE IInv'
  OBVIOUS
<1>1. ASSUME NEW n \in Node, NEW d \in Node, Send(n, d) PROVE IInv'
  BY <1>1, SendIInv
<1>2. ASSUME NEW n \in Node, Receive(n) PROVE IInv'
  BY <1>2, ReceiveMessageIInv, ReceiveReplyIInv DEF Receive
<1>3. ASSUME NEW n \in Node, Daemon(n) PROVE IInv'
  <2>1. CASE DaemonRun(n) /\ UNCHANGED daemons
    BY <1>3, <2>1, DaemonRunIInv DEF Daemon, IInv, TypeOK
  <2>2. CASE /\ daemons' = [daemons EXCEPT ![n] = @ - 1]
             /\ UNCHANGED <<messages, replies, air, reported>>
    BY <1>3, <2>2, ReliableAssumption
    DEF Daemon, IInv, TypeOK, Finite, Accounted, AtMostOnce, history
  <2> QED BY <1>3, <2>1, <2>2 DEF Daemon
<1>4. ASSUME NEW n \in Node, DisableRadio(n) PROVE IInv'
  BY <1>4 DEF DisableRadio, IInv, TypeOK, Finite, Accounted, AtMostOnce, history
<1>5. ASSUME NEW n \in Node, NEW p \in 0..MaxProtocols, EnableRadio(n, p) PROVE IInv'
  <2>1. /\ status' \in [Node -> {"active", "waiting"}]
        /\ listening' \in [Node -> BOOLEAN]
        /\ daemons' \in [Node -> 0..MaxDaemons]
        /\ callbacks' \in [Node -> 0..MaxProtocols]
    BY <1>5, ReliableAssumption DEF EnableRadio, IInv, TypeOK
  <2> QED BY <1>5, <2>1, DaemonRunIInv DEF EnableRadio
<1>6. ASSUME NEW n \in Node, RegRecvCallback(n) PROVE IInv'
  BY <1>6, ReliableAssumption
  DEF RegRecvCallback, IInv, TypeOK, Finite, Accounted, AtMostOnce, history
<1>7. CASE UNCHANGED vars
  BY <1>7 DEF vars, IInv, TypeOK, Finite, Accounted, AtMostOnce
<1> QED BY <1>1, <1>2, <1>3, <1>4, <1>5, <1>6, <1>7 DEF Next, Operate

THEOREM Invariance == Spec => []IInv
BY InitIInv, NextIInv, PTL DEF Spec

(***************************************************************************)
(* Buffers stay within their sizes and counters within a uint8_t, in any   *)
(* use (reliable_radio.h:429-503, 693-701).                                *)
(***************************************************************************)
THEOREM TypeCorrect == Spec => []TypeOK
<1>1. IInv => TypeOK
  BY DEF IInv
<1> QED BY <1>1, Invariance, PTL

(***************************************************************************)
(* A message reaches the callbacks again only after the entry that         *)
(* answered it was reused (receive(), replies_check():                     *)
(* reliable_radio.h:142-269, 475-531).                                     *)
(***************************************************************************)
THEOREM NoSilentRepeat == Spec => []AtMostOnce
<1>1. IInv => AtMostOnce
  BY DEF IInv
<1> QED BY <1>1, Invariance, PTL

-----------------------------------------------------------------------------
(***************************************************************************)
(* With protocols registered in time: a copy is recognised only if the     *)
(* message was heard, and the layer is a Delivery.                         *)
(*                                                                         *)
(* What timely use adds to the inductive invariant.  Ids are fresh and the *)
(* entries of a buffer are told apart by them, so that settling one entry  *)
(* settles one message; a reply, in a buffer or in the air, says the truth.*)
(***************************************************************************)
InTime       == \A n \in Node : listening[n] => callbacks[n] > 0
FramesNumbered == \A f \in MessageFrames : f.id < seq[f.from]
EntriesSent  == \A n \in Node : \A m \in messages[n] :
                  \E f \in MessageFrames : f.from = n /\ f.to = m.to /\ f.id = m.id
IdsUnique    == \A n \in Node : \A m, k \in messages[n] : m.id = k.id => m = k
RepliesHeard == \A n \in Node : \A r \in replies[n] : <<r.to, r.id>> \in heard[n]
RepliesTrue  == \A f \in ReplyFrames : <<f.to, f.id>> \in heard[f.from]

Honest == /\ InTime /\ FramesNumbered /\ EntriesSent /\ IdsUnique
          /\ RepliesHeard /\ RepliesTrue

TInv == IInv /\ Honest

LEMMA TimelyIsNext == [TimelyNext]_vars => [Next]_vars
BY DEF TimelyNext, Next

LEMMA InitTInv == Init => TInv
BY InitIInv DEF Init, TInv, Honest, InTime, FramesNumbered, EntriesSent, IdsUnique, RepliesHeard,
                RepliesTrue, MessageFrames, ReplyFrames

(***************************************************************************)
(* send() that finds room: what the buffer and the air hold afterwards.    *)
(***************************************************************************)
NewEntry(n, d) == [id |-> seq[n], to |-> d, counter |-> 0, delivered |-> FALSE]

LEMMA SendEffect ==
  ASSUME IInv, NEW n \in Node, NEW d \in Node, Send(n, d)
  PROVE  /\ seq[n] \in 0..MaxSeq - 1 /\ seq' = [seq EXCEPT ![n] = @ + 1]
         /\ UNCHANGED <<listening, callbacks, replies, history, reported>>
         /\ \/ UNCHANGED <<messages, air>>
            \/ /\ air' = air \cup {MessageFrame(n, NewEntry(n, d))}
               /\ \E buf : /\ messages' = [messages EXCEPT ![n] = buf]
                         /\ buf \subseteq messages[n] \cup {NewEntry(n, d)}
                         /\ NewEntry(n, d) \in buf
                         /\ \A m \in messages[n] \ buf : Settled(m)
<1> DEFINE O == {u \in messages[n] : Settled(u)}
           room == Insertions(messages[n], MaxMessages, O, NewEntry(n, d))
<1>1. seq[n] \in 0..MaxSeq - 1
  BY ReliableAssumption DEF Send, IInv, TypeOK
<1>2. ASSUME NEW buf \in room
      PROVE  /\ buf \subseteq messages[n] \cup {NewEntry(n, d)}
             /\ NewEntry(n, d) \in buf
             /\ messages[n] \ buf \subseteq O
  <2> HIDE DEF O
  <2>1. O \in SUBSET messages[n]
    BY DEF O
  <2> QED BY <2>1, InsertionsFit, ReliableAssumption DEF IInv, TypeOK, Finite
<1>3. \/ \E buf \in room : /\ messages' = [messages EXCEPT ![n] = buf]
                         /\ air' = air \cup {MessageFrame(n, NewEntry(n, d))}
      \/ UNCHANGED <<messages, air>>
  BY DEF Send, NewEntry
<1> QED BY <1>1, <1>2, <1>3 DEF Send

LEMMA SendTInv ==
  ASSUME TInv, NEW n \in Node, NEW d \in Node, Send(n, d)
  PROVE  Honest'
<1> USE DEF Honest
<1> DEFINE m == NewEntry(n, d)
           g == MessageFrame(n, m)
<1>1. /\ seq[n] \in 0..MaxSeq - 1 /\ seq' = [seq EXCEPT ![n] = @ + 1]
      /\ UNCHANGED <<listening, callbacks, replies, history, reported>>
      /\ seq \in [Node -> 0..MaxSeq] /\ messages \in [Node -> SUBSET MessageEntry]
      /\ air \subseteq Frame
  BY SendEffect DEF TInv, IInv, TypeOK
<1>2. InTime' /\ RepliesHeard'
  BY <1>1 DEF TInv, InTime, RepliesHeard, history
<1>3. CASE UNCHANGED <<messages, air>>
  BY <1>1, <1>2, <1>3, ReliableAssumption
  DEF TInv, FramesNumbered, EntriesSent, IdsUnique, RepliesTrue, MessageFrames, ReplyFrames,
      Frame, history
<1>4. ASSUME NEW buf, messages' = [messages EXCEPT ![n] = buf], air' = air \cup {g},
             buf \subseteq messages[n] \cup {m}
      PROVE  FramesNumbered' /\ EntriesSent' /\ IdsUnique' /\ RepliesTrue'
  <2>1. /\ m.id = seq[n] /\ m.to = d
        /\ g.type = "message" /\ g.from = n /\ g.to = d /\ g.id = seq[n]
    BY DEF NewEntry, MessageFrame
  <2> HIDE DEF m, g
  <2>2. MessageFrames' = MessageFrames \cup {g} /\ ReplyFrames' = ReplyFrames
    BY <1>4, <2>1 DEF MessageFrames, ReplyFrames
  <2>3. FramesNumbered'
    BY <1>1, <2>1, <2>2, ReliableAssumption DEF TInv, FramesNumbered, MessageFrames, Frame
  <2>4. EntriesSent'
    BY <1>1, <1>4, <2>1, <2>2 DEF TInv, EntriesSent
  <2>5. \A u \in messages[n] : u.id # m.id
    BY <1>1, <2>1, ReliableAssumption DEF TInv, EntriesSent, FramesNumbered
  <2>6. IdsUnique'
    BY <1>1, <1>4, <2>5 DEF TInv, IdsUnique
  <2>7. RepliesTrue'
    BY <1>1, <2>2 DEF TInv, RepliesTrue, history
  <2> QED BY <2>3, <2>4, <2>6, <2>7
<1> QED BY <1>2, <1>3, <1>4, SendEffect DEF TInv

LEMMA ReceiveMessageTInv ==
  ASSUME TInv, NEW n \in Node, NEW f \in MessageFrames, ReceiveMessage(n, f)
  PROVE  Honest'
<1> USE DEF Honest
<1> DEFINE r == [id |-> f.id, to |-> f.from, counter |-> f.counter]
<1>1. PICK buf \in ReplyRoom(n, r) : replies' = [replies EXCEPT ![n] = buf]
  BY DEF ReceiveMessage
<1>2. buf \subseteq replies[n] \cup {r}
  <2> DEFINE O == {u \in replies[n] : AgedOut(u)}
  <2>1. O \in SUBSET replies[n]
    OBVIOUS
  <2>2. buf \in Insertions(replies[n], MaxReplies, O, r)
    BY DEF ReplyRoom
  <2> HIDE DEF O, r
  <2> QED BY <2>1, <2>2, InsertionsFit, ReliableAssumption DEF TInv, IInv, TypeOK, Finite
<1>3. /\ callbacks[n] > 0
      /\ air' = air \cup {ReplyFrame(n, r)}
      /\ heard' = [heard EXCEPT ![n] = @ \cup {<<f.from, f.id>>}]
      /\ heard \in [Node -> SUBSET Id] /\ replies \in [Node -> SUBSET ReplyEntry]
      /\ UNCHANGED <<listening, callbacks, seq, messages>>
  BY DEF ReceiveMessage, TInv, InTime, IInv, TypeOK
<1>4. /\ ReplyFrame(n, r).type = "reply" /\ ReplyFrame(n, r).from = n
      /\ ReplyFrame(n, r).to = f.from /\ ReplyFrame(n, r).id = f.id
      /\ r.to = f.from /\ r.id = f.id
  BY DEF ReplyFrame
<1> HIDE DEF r
<1>5. /\ MessageFrames' = MessageFrames
      /\ ReplyFrames' = ReplyFrames \cup {ReplyFrame(n, r)}
  BY <1>3, <1>4 DEF MessageFrames, ReplyFrames
<1>6. InTime' /\ FramesNumbered' /\ EntriesSent' /\ IdsUnique'
  BY <1>3, <1>5 DEF TInv, InTime, FramesNumbered, EntriesSent, IdsUnique
<1>7. RepliesHeard'
  BY <1>1, <1>2, <1>3, <1>4 DEF TInv, RepliesHeard
<1>8. RepliesTrue'
  BY <1>3, <1>4, <1>5 DEF TInv, RepliesTrue, ReplyFrames, IInv, TypeOK, Frame
<1> QED BY <1>6, <1>7, <1>8

LEMMA ReceiveReplyTInv ==
  ASSUME TInv, NEW n \in Node, NEW f \in ReplyFrames, ReceiveReply(n, f)
  PROVE  Honest'
<1> USE DEF Honest
<1>1. PICK m \in messages[n] :
        messages' = [messages EXCEPT ![n] = (@ \ {m}) \cup {[m EXCEPT !.delivered = TRUE]}]
  BY DEF ReceiveReply
<1> DEFINE e == [m EXCEPT !.delivered = TRUE]
<1>2. e.id = m.id /\ e.to = m.to
  BY DEF TInv, IInv, TypeOK, MessageEntry
<1> HIDE DEF e
<1>3. messages \in [Node -> SUBSET MessageEntry]
  BY DEF TInv, IInv, TypeOK
<1>4. messages' = [messages EXCEPT ![n] = (@ \ {m}) \cup {e}]
  BY <1>1 DEF e
<1>5. IdsUnique'
  BY <1>2, <1>3, <1>4 DEF TInv, IdsUnique
<1>6. EntriesSent'
  <2>1. MessageFrames' = MessageFrames
    BY DEF ReceiveReply, MessageFrames
  <2> QED BY <1>2, <1>3, <1>4, <2>1 DEF TInv, EntriesSent
<1> QED BY <1>5, <1>6 DEF ReceiveReply, history, TInv, InTime, FramesNumbered, RepliesHeard,
                    RepliesTrue, MessageFrames, ReplyFrames

(***************************************************************************)
(* daemon() keeps the ids of the entries and sends only what was sent.     *)
(***************************************************************************)
LEMMA DaemonRunTInv ==
  ASSUME TInv, NEW n \in Node, DaemonRun(n), UNCHANGED <<seq, history>>
  PROVE  FramesNumbered' /\ EntriesSent' /\ IdsUnique' /\ RepliesHeard' /\ RepliesTrue'
<1> USE DEF Honest
<1> USE DEF TInv
<1> DEFINE S == {u \in messages[n] : Retried(u)}
           G == {MessageFrame(n, m) : m \in S}
<1>1. /\ messages' = [messages EXCEPT ![n] = {Stepped(n, m) : m \in messages[n]}]
      /\ replies' = [replies EXCEPT ![n] = {Aged(r) : r \in replies[n]}]
      /\ messages \in [Node -> SUBSET MessageEntry]
      /\ replies \in [Node -> SUBSET ReplyEntry]
  BY DaemonTypes DEF IInv, TypeOK
<1>2. air' = air \cup G
  BY DEF DaemonRun
<1>3. \A g \in G : /\ g.type = "message" /\ g.from = n
                   /\ \E m \in messages[n] : g.to = m.to /\ g.id = m.id
  BY DEF MessageFrame
<1> HIDE DEF G
<1>4. MessageFrames' = MessageFrames \cup G /\ ReplyFrames' = ReplyFrames
  BY <1>2, <1>3 DEF MessageFrames, ReplyFrames
<1>5. \A m \in messages[n] : Stepped(n, m).id = m.id /\ Stepped(n, m).to = m.to
  BY <1>1, SteppedType DEF IInv
<1>6. FramesNumbered'
  BY <1>3, <1>4 DEF FramesNumbered, EntriesSent
<1>7. EntriesSent' /\ IdsUnique'
  BY <1>1, <1>4, <1>5 DEF EntriesSent, IdsUnique
<1>8. \A r \in replies[n] : Aged(r).id = r.id /\ Aged(r).to = r.to
  BY <1>1, AgedType
<1>9. RepliesHeard'
  BY <1>1, <1>8 DEF RepliesHeard, history
<1>10. RepliesTrue'
  BY <1>4 DEF RepliesTrue, history
<1> QED BY <1>6, <1>7, <1>9, <1>10

LEMMA Same ==
  ASSUME TInv, UNCHANGED <<seq, messages, replies, air, heard>>
  PROVE  FramesNumbered' /\ EntriesSent' /\ IdsUnique' /\ RepliesHeard' /\ RepliesTrue'
<1> USE DEF Honest
<1>1. MessageFrames' = MessageFrames /\ ReplyFrames' = ReplyFrames
  BY DEF MessageFrames, ReplyFrames
<1> QED BY <1>1 DEF TInv, FramesNumbered, EntriesSent, IdsUnique, RepliesHeard, RepliesTrue

LEMMA NextTInv == TInv /\ [TimelyNext]_vars => TInv'
<1> SUFFICES ASSUME TInv, [TimelyNext]_vars PROVE TInv'
  OBVIOUS
<1>1. IInv'
  BY TimelyIsNext, NextIInv DEF TInv
<1>2. ASSUME NEW n \in Node, Daemon(n) PROVE Honest'
  <2>1. InTime'
    BY <1>2 DEF Daemon, TInv, Honest, InTime
  <2>2. CASE DaemonRun(n)
    BY <1>2, <2>1, <2>2, DaemonRunTInv DEF Daemon, Honest
  <2>3. CASE UNCHANGED <<messages, replies, air, reported>>
    BY <1>2, <2>1, <2>3, Same DEF Daemon, Honest, history
  <2> QED BY <1>2, <2>2, <2>3 DEF Daemon
<1>3. ASSUME NEW n \in Node, DisableRadio(n) PROVE Honest'
  <2>1. InTime'
    BY <1>3 DEF DisableRadio, TInv, Honest, IInv, TypeOK, InTime
  <2> QED BY <1>3, <2>1, Same DEF DisableRadio, Honest, history
<1>4. ASSUME NEW n \in Node, NEW p \in 0..MaxProtocols, callbacks[n] + p > 0, EnableRadio(n, p)
      PROVE  Honest'
  <2>1. InTime'
    BY <1>4 DEF EnableRadio, TInv, Honest, IInv, TypeOK, InTime
  <2> QED BY <1>4, <2>1, DaemonRunTInv DEF EnableRadio, Honest, history
<1>5. ASSUME UNCHANGED vars PROVE Honest'
  <2>1. InTime'
    BY <1>5 DEF vars, TInv, Honest, InTime
  <2> QED BY <1>5, <2>1, Same DEF vars, Honest, history
<1>6. Honest'
  <2>1. ASSUME NEW n \in Node, Operate(n) PROVE Honest'
    BY <1>2, <1>3, <2>1, SendTInv, ReceiveMessageTInv, ReceiveReplyTInv DEF Operate, Receive
  <2> QED BY <1>4, <1>5, <2>1 DEF TimelyNext
<1> QED BY <1>1, <1>6 DEF TInv

THEOREM TimelyInvariance == TimelySpec => []TInv
BY InitTInv, NextTInv, PTL DEF TimelySpec

(***************************************************************************)
(* A frame is dropped as a copy only if its message was handed to a        *)
(* callback (replies_check(): reliable_radio.h:205, 505-531), protocols    *)
(* being registered in time.                                               *)
(***************************************************************************)
THEOREM CopiesWereHeard == TimelySpec => []DroppedOnlyIfHeard
<1>1. TInv => DroppedOnlyIfHeard
  BY DEF TInv, Honest, IInv, TypeOK, RepliesHeard, DroppedOnlyIfHeard, Known, MessageFrames, Frame
<1> QED BY <1>1, TimelyInvariance, PTL

-----------------------------------------------------------------------------
(***************************************************************************)
(* What the steps do to the state of the Delivery.  A message is pending   *)
(* while its entry is unsettled, so the changes of the buffer decide.      *)
(***************************************************************************)
LEMMA PendingIs ==
  ASSUME NEW u
  PROVE  u \in Pending <=> \E n \in Node : \E m \in messages[n] :
                             ~Settled(m) /\ u = <<n, m.to, m.id>>
BY DEF Pending

LEMMA PendingWillBe ==
  ASSUME NEW u
  PROVE  u \in Pending' <=> \E n \in Node : \E m \in messages'[n] :
                              ~Settled(m) /\ u = <<n, m.to, m.id>>
BY DEF Pending, Settled

LEMMA TakenIs ==
  ASSUME TInv, NEW u \in Taken
  PROVE  u \in Node \X Node \X (0..MaxSeq - 1)
<1>1. PICK f \in MessageFrames : u = <<f.from, f.to, f.id>>
  BY DEF Taken
<1>2. f \in Frame /\ f.id < seq[f.from]
  BY DEF TInv, IInv, TypeOK, Honest, FramesNumbered, MessageFrames
<1>3. f.from \in Node /\ f.to \in Node /\ f.id \in Nat
  BY <1>2 DEF Frame
<1>4. seq[f.from] \in 0..MaxSeq
  BY <1>3 DEF TInv, IInv, TypeOK
<1> QED BY <1>1, <1>2, <1>3, <1>4, ReliableAssumption

LEMMA PendingTaken == TInv => Pending \subseteq Taken
BY PendingIs DEF TInv, Honest, EntriesSent, Taken

LEMMA HadIs ==
  ASSUME TypeOK, NEW n \in Node, NEW s \in Node, NEW i \in Nat
  PROVE  <<s, n, i>> \in Had <=> <<s, i>> \in heard[n]
<1>1. \A k \in Node : \A h \in heard[k] : h \in Id /\ h = <<h[1], h[2]>>
  BY DEF TypeOK, Id
<1> QED BY <1>1 DEF Had

LEMMA SendImplements ==
  ASSUME TInv, NEW n \in Node, NEW d \in Node, Send(n, d)
  PROVE  \/ D!Accept(<<n, d, seq[n]>>)
         \/ UNCHANGED <<Taken, Pending, Had, Failed>>
<1> DEFINE m == NewEntry(n, d)
           g == MessageFrame(n, m)
           t == <<n, d, seq[n]>>
<1>1. /\ seq[n] \in 0..MaxSeq - 1
      /\ messages \in [Node -> SUBSET MessageEntry]
      /\ UNCHANGED <<Had, Failed>>
  BY SendEffect DEF TInv, IInv, TypeOK, Had, Failed, history
<1>2. CASE UNCHANGED <<messages, air>>
  BY <1>1, <1>2 DEF Taken, Pending, MessageFrames, Settled
<1>3. ASSUME NEW buf, messages' = [messages EXCEPT ![n] = buf], air' = air \cup {g},
             buf \subseteq messages[n] \cup {m}, m \in buf,
             \A u \in messages[n] \ buf : Settled(u)
      PROVE  D!Accept(t)
  <2>1. /\ m.id = seq[n] /\ m.to = d /\ ~Settled(m)
        /\ g.type = "message" /\ g.from = n /\ g.to = d /\ g.id = seq[n]
    BY ReliableAssumption DEF NewEntry, MessageFrame, Settled
  <2> HIDE DEF m, g
  <2>2. MessageFrames' = MessageFrames \cup {g}
    BY <1>3, <2>1 DEF MessageFrames
  <2>3. Taken' = Taken \cup {t}
    BY <2>1, <2>2 DEF Taken
  <2>4. t \notin Taken
    BY <1>1 DEF Taken, TInv, Honest, FramesNumbered
  <2>5. Pending' = Pending \cup {t}
    <3>1. ASSUME NEW u \in Pending' PROVE u \in Pending \cup {t}
      BY <1>1, <1>3, <2>1, PendingIs, PendingWillBe
    <3>2. t \in Pending'
      BY <1>1, <1>3, <2>1, PendingWillBe
    <3>3. ASSUME NEW u \in Pending PROVE u \in Pending'
      BY <1>1, <1>3, PendingIs, PendingWillBe
    <3> QED BY <3>1, <3>2, <3>3
  <2> QED BY <1>1, <2>3, <2>4, <2>5 DEF D!Accept, D!Message
<1> QED BY <1>2, <1>3, SendEffect DEF TInv

LEMMA ReceiveMessageImplements ==
  ASSUME TInv, NEW n \in Node, NEW f \in MessageFrames, ReceiveMessage(n, f)
  PROVE  \E t \in Taken : D!Hear(t)
<1> DEFINE t == <<f.from, n, f.id>>
<1>1. /\ heard' = [heard EXCEPT ![n] = @ \cup {<<f.from, f.id>>}]
      /\ heard \in [Node -> SUBSET Id]
      /\ f.to = n
      /\ UNCHANGED <<messages, reported>>
  BY DEF ReceiveMessage, TInv, Honest, InTime, IInv, TypeOK
<1>2. t \in Taken
  BY <1>1 DEF Taken
<1>3. MessageFrames' = MessageFrames
  BY DEF ReceiveMessage, MessageFrames, ReplyFrame
<1>4. Had' = Had \cup {t}
  <2>1. ASSUME NEW u \in Had' PROVE u \in Had \cup {t}
    <3>1. PICK k, h : k \in Node /\ h \in heard'[k] /\ u = <<h[1], k, h[2]>>
      BY DEF Had
    <3>2. h \in heard[k] \/ (k = n /\ h = <<f.from, f.id>>)
      BY <1>1, <3>1
    <3> QED BY <3>1, <3>2 DEF Had
  <2>2. ASSUME NEW u \in Had PROVE u \in Had'
    <3>1. PICK k, h : k \in Node /\ h \in heard[k] /\ u = <<h[1], k, h[2]>>
      BY DEF Had
    <3>2. h \in heard'[k]
      BY <1>1, <3>1
    <3> QED BY <3>1, <3>2 DEF Had
  <2>3. t \in Had'
    <3>1. <<f.from, f.id>> \in heard'[n]
      BY <1>1
    <3> QED BY <3>1 DEF Had
  <2> QED BY <2>1, <2>2, <2>3
<1>5. UNCHANGED <<Taken, Pending, Failed>>
  BY <1>1, <1>3 DEF Taken, Pending, Failed, Settled
<1> QED BY <1>2, <1>4, <1>5 DEF D!Hear

LEMMA ReceiveReplyImplements ==
  ASSUME TInv, NEW n \in Node, NEW f \in ReplyFrames, ReceiveReply(n, f)
  PROVE  (\E t \in Taken : D!Confirm(t)) \/ UNCHANGED <<Taken, Pending, Had, Failed>>
<1>1. PICK m \in messages[n] :
        /\ Answers(f, m)
        /\ messages' = [messages EXCEPT ![n] = (@ \ {m}) \cup {[m EXCEPT !.delivered = TRUE]}]
  BY DEF ReceiveReply
<1> DEFINE e == [m EXCEPT !.delivered = TRUE]
           t == <<n, m.to, m.id>>
<1>2. m \in MessageEntry /\ messages \in [Node -> SUBSET MessageEntry]
  BY DEF TInv, IInv, TypeOK
<1>3. Settled(e)
  BY <1>2 DEF Settled, MessageEntry
<1> HIDE DEF e
<1>4. messages' = [messages EXCEPT ![n] = (@ \ {m}) \cup {e}]
  BY <1>1 DEF e
<1>5. UNCHANGED <<Taken, Had, Failed>>
  BY DEF ReceiveReply, Taken, Had, Failed, MessageFrames, history
<1>6. CASE Settled(m)
  <2>1. ASSUME NEW u \in Pending PROVE u \in Pending'
    BY <1>2, <1>4, <1>6, PendingIs, PendingWillBe
  <2>2. ASSUME NEW u \in Pending' PROVE u \in Pending
    BY <1>2, <1>3, <1>4, PendingIs, PendingWillBe
  <2> QED BY <1>5, <2>1, <2>2
<1>7. CASE ~Settled(m)
  <2>1. t \in Pending
    BY <1>7, PendingIs
  <2>2. t \in Had
    <3>1. m.to = f.from /\ m.id = f.id /\ f.to = n /\ <<f.to, f.id>> \in heard[f.from]
      BY <1>1 DEF Answers, ReceiveReply, TInv, Honest, RepliesTrue
    <3> QED BY <1>2, <3>1, HadIs DEF TInv, IInv, MessageEntry
  <2>3. ASSUME NEW u \in Pending' PROVE u \in Pending \ {t}
    <3>1. PICK k, w : k \in Node /\ w \in messages'[k] /\ ~Settled(w) /\ u = <<k, w.to, w.id>>
      BY PendingWillBe
    <3>2. w \in messages[k] /\ ~(k = n /\ w = m)
      BY <1>2, <1>3, <1>4, <3>1
    <3>3. k = n => w.id # m.id
      BY <3>2 DEF TInv, Honest, IdsUnique
    <3> QED BY <3>1, <3>2, <3>3, PendingIs
  <2>4. ASSUME NEW u \in Pending, u # t PROVE u \in Pending'
    <3>1. PICK k, w : k \in Node /\ w \in messages[k] /\ ~Settled(w) /\ u = <<k, w.to, w.id>>
      BY PendingIs
    <3>2. w \in messages'[k]
      BY <1>2, <1>4, <2>4, <3>1
    <3> QED BY <3>1, <3>2, PendingWillBe
  <2>5. Pending' = Pending \ {t}
    BY <2>3, <2>4
  <2> QED BY <1>5, <2>1, <2>2, <2>5, PendingTaken DEF D!Confirm
<1> QED BY <1>6, <1>7

(***************************************************************************)
(* daemon(): an entry whose retries are used up moves past them, which     *)
(* settles it, exactly when a callback is there to be told.                *)
(***************************************************************************)
LEMMA NoWrap == ASSUME NEW i \in Nat, NEW k \in Nat, i < k PROVE i % k = i
OBVIOUS

LEMMA SteppedSettled ==
  ASSUME TypeOK, NEW n \in Node, NEW m \in MessageEntry
  PROVE  Settled(Stepped(n, m)) <=> Settled(m) \/ (Exhausted(m) /\ callbacks[n] > 0)
<1>1. /\ Stepped(n, m).delivered = m.delivered /\ m.delivered \in BOOLEAN
      /\ Stepped(n, m).counter = Step(n, m)
      /\ m.counter \in 0..CounterMod - 1
      /\ callbacks[n] \in 0..MaxProtocols
  BY SteppedType DEF TypeOK, MessageEntry
<1>2. CASE Retried(m)
  <2>1. Step(n, m) = m.counter + 1
    BY <1>1, <1>2, ReliableAssumption DEF Step, Retried
  <2> QED BY <1>1, <1>2, <2>1, ReliableAssumption DEF Settled, Retried, Exhausted
<1>3. CASE Exhausted(m)
  <2>1. Step(n, m) = m.counter + callbacks[n]
    <3>1. m.counter + callbacks[n] \in Nat /\ m.counter + callbacks[n] < CounterMod
      BY <1>1, <1>3, ReliableAssumption DEF Exhausted
    <3>2. (m.counter + callbacks[n]) % CounterMod = m.counter + callbacks[n]
      BY <3>1, NoWrap, ReliableAssumption
    <3>3. ~Retried(m)
      BY <1>3, ReliableAssumption DEF Retried, Exhausted
    <3> QED BY <1>3, <3>2, <3>3 DEF Step
  <2> QED BY <1>1, <1>3, <2>1, ReliableAssumption DEF Settled, Exhausted
<1>4. CASE ~Retried(m) /\ ~Exhausted(m)
  BY <1>1, <1>4 DEF Step, Settled
<1> QED BY <1>2, <1>3, <1>4

LEMMA DaemonRunImplements ==
  ASSUME TInv, NEW n \in Node, DaemonRun(n), UNCHANGED history
  PROVE  \E M \in SUBSET Pending : D!GiveUp(M)
<1> DEFINE G == {MessageFrame(n, m) : m \in {u \in messages[n] : Retried(u)}}
           N == {<<m.to, m.id>> : m \in {u \in messages[n] : Exhausted(u)}}
           M == IF callbacks[n] > 0 THEN {<<n, h[1], h[2]>> : h \in N} ELSE {}
<1>1. /\ messages' = [messages EXCEPT ![n] = {Stepped(n, m) : m \in messages[n]}]
      /\ messages \in [Node -> SUBSET MessageEntry]
      /\ callbacks[n] \in 0..MaxProtocols
      /\ TypeOK
  BY DaemonTypes DEF TInv, IInv, TypeOK
<1>2. Taken' = Taken
  <2>1. /\ \A g \in G : /\ g.type = "message" /\ g.from = n
                        /\ \E m \in messages[n] : g.to = m.to /\ g.id = m.id
        /\ air' = air \cup G
    BY DEF DaemonRun, MessageFrame
  <2> HIDE DEF G
  <2>2. MessageFrames' = MessageFrames \cup G
    BY <2>1 DEF MessageFrames
  <2> QED BY <2>1, <2>2 DEF Taken, TInv, Honest, EntriesSent
<1>3. Failed' = Failed \cup M
  <2>1. reported' = [reported EXCEPT ![n] = IF callbacks[n] > 0 THEN @ \cup N ELSE @]
    BY DEF DaemonRun
  <2>2. reported \in [Node -> SUBSET Id]
    BY <1>1 DEF TypeOK
  <2> HIDE DEF N
  <2> QED BY <2>1, <2>2 DEF Failed
<1>4. \A u : u \in M <=> /\ callbacks[n] > 0
                         /\ \E m \in messages[n] : Exhausted(m) /\ u = <<n, m.to, m.id>>
  <2>1. \A h \in N : \E m \in messages[n] : Exhausted(m) /\ h[1] = m.to /\ h[2] = m.id
    OBVIOUS
  <2>2. ASSUME NEW m \in messages[n], Exhausted(m)
        PROVE  \E h \in N : h[1] = m.to /\ h[2] = m.id
    <3>1. <<m.to, m.id>> \in N
      BY <2>2
    <3> QED BY <3>1
  <2> HIDE DEF N
  <2> QED BY <2>1, <2>2
<1> HIDE DEF M
<1>5. \A m \in messages[n] : Exhausted(m) => ~Settled(m)
  BY <1>1, ReliableAssumption DEF Exhausted, Settled, MessageEntry
<1>6. M \subseteq Pending
  BY <1>4, <1>5, PendingIs
<1>7. \A m \in messages[n] :
        /\ Stepped(n, m).to = m.to /\ Stepped(n, m).id = m.id
        /\ Settled(Stepped(n, m)) <=> Settled(m) \/ (Exhausted(m) /\ callbacks[n] > 0)
  BY <1>1, SteppedType, SteppedSettled
<1>8. ASSUME NEW u \in Pending' PROVE u \in Pending \ M
  <2>1. PICK k, w : k \in Node /\ w \in messages'[k] /\ ~Settled(w) /\ u = <<k, w.to, w.id>>
    BY PendingWillBe
  <2>2. CASE k = n
    <3>1. PICK m \in messages[n] : w = Stepped(n, m)
      BY <1>1, <2>1, <2>2
    <3>2. ~Settled(m) /\ ~(Exhausted(m) /\ callbacks[n] > 0) /\ u = <<n, m.to, m.id>>
      BY <1>7, <2>1, <2>2, <3>1
    <3>3. u \notin M
      BY <1>4, <3>2 DEF TInv, Honest, IdsUnique
    <3> QED BY <3>2, <3>3, PendingIs
  <2>3. CASE k # n
    BY <1>1, <1>4, <2>1, <2>3, PendingIs
  <2> QED BY <2>2, <2>3
<1>9. ASSUME NEW u \in Pending, u \notin M PROVE u \in Pending'
  <2>1. PICK k, w : k \in Node /\ w \in messages[k] /\ ~Settled(w) /\ u = <<k, w.to, w.id>>
    BY PendingIs
  <2>2. CASE k = n
    <3>1. Stepped(n, w) \in messages'[n]
      BY <1>1, <2>1, <2>2
    <3>2. ~Settled(Stepped(n, w)) /\ u = <<n, Stepped(n, w).to, Stepped(n, w).id>>
      BY <1>4, <1>7, <1>9, <2>1, <2>2
    <3> QED BY <3>1, <3>2, PendingWillBe
  <2>3. CASE k # n
    BY <1>1, <2>1, <2>3, PendingWillBe
  <2> QED BY <2>2, <2>3
<1>10. Pending' = Pending \ M
  BY <1>6, <1>8, <1>9
<1>11. Had' = Had
  BY DEF Had, history
<1> QED BY <1>2, <1>3, <1>6, <1>10, <1>11 DEF D!GiveUp

(***************************************************************************)
(* With protocols registered in time every behaviour is a Delivery: each   *)
(* message taken leaves the buffer delivered, the application at its       *)
(* destination having had it, or reported (send(), receive(), daemon():    *)
(* reliable_radio.h:78-473).                                               *)
(***************************************************************************)
THEOREM DeliversOrReports == TimelySpec => DeliverySpec
<1>1. Init => D!Init
  BY DEF Init, D!Init, Taken, Pending, Had, Failed, MessageFrames
<1>2. TInv /\ [TimelyNext]_vars => [D!Next]_(D!deliveryVars)
  <2> SUFFICES ASSUME TInv, [TimelyNext]_vars
               PROVE  D!Next \/ UNCHANGED <<Taken, Pending, Had, Failed>>
    BY DEF D!deliveryVars
  <2>1. ASSUME UNCHANGED <<messages, air, heard, reported>>
        PROVE  UNCHANGED <<Taken, Pending, Had, Failed>>
    BY <2>1 DEF Taken, Pending, Had, Failed, MessageFrames, Settled
  <2>2. ASSUME NEW n \in Node, DaemonRun(n), UNCHANGED history PROVE D!Next
    BY <2>2, DaemonRunImplements DEF D!Next
  <2>3. ASSUME NEW n \in Node, Operate(n)
        PROVE  D!Next \/ UNCHANGED <<Taken, Pending, Had, Failed>>
    <3>1. ASSUME NEW d \in Node, Send(n, d)
          PROVE  D!Next \/ UNCHANGED <<Taken, Pending, Had, Failed>>
      <4>1. seq[n] \in 0..MaxSeq - 1
        BY <3>1, SendEffect DEF TInv
      <4> QED BY <3>1, <4>1, SendImplements DEF D!Next
    <3>2. CASE Receive(n)
      BY <3>2, ReceiveMessageImplements, ReceiveReplyImplements DEF Receive, D!Next
    <3>3. CASE Daemon(n)
      BY <2>1, <2>2, <3>3 DEF Daemon, history
    <3>4. CASE DisableRadio(n)
      BY <2>1, <3>4 DEF DisableRadio, history
    <3> QED BY <2>3, <3>1, <3>2, <3>3, <3>4 DEF Operate
  <2>4. ASSUME NEW n \in Node, NEW p \in 0..MaxProtocols, EnableRadio(n, p) PROVE D!Next
    BY <2>2, <2>4 DEF EnableRadio
  <2>5. ASSUME UNCHANGED vars PROVE UNCHANGED <<Taken, Pending, Had, Failed>>
    BY <2>1, <2>5 DEF vars
  <2> QED BY <2>3, <2>4, <2>5 DEF TimelyNext
<1> QED BY <1>1, <1>2, TimelyInvariance, PTL DEF TimelySpec, DeliverySpec, D!Spec

-----------------------------------------------------------------------------
(***************************************************************************)
(* The parts of MCRadios that ReliableRadio and ConnectionRadio are: each  *)
(* runs, or stands still.  CP, which brings the proofs of                  *)
(* ConnectionRadioProofs, is C of MCRadios again.                          *)
(***************************************************************************)
CP == INSTANCE ConnectionRadioProofs WITH Flow <- connFlow, Broadcasting <- connBroadcasting,
        MaxPending <- connPending, MaxConnections <- connConnections, MaxRecv <- connRecv,
        SeqMod <- connSeqMod, TimeMod <- connTimeMod, DaemonPeriod <- connPeriod,
        MaxSends <- connSends,
        air <- cAir, heard <- cHeard

LEMMA ConnectionsSame ==
  /\ C!ConnectionAssumption => CP!ConnectionAssumption
  /\ C!Init => CP!Init
  /\ C!Next => CP!Next
  /\ CP!AckMeansHeard => C!AckMeansHeard
  /\ CP!AgainOnlyIfOvertaken => C!AgainOnlyIfOvertaken
<1>1. C!ConnectionAssumption = CP!ConnectionAssumption
  BY DEF C!ConnectionAssumption, CP!ConnectionAssumption
<1>2. C!Init = CP!Init
  BY DEF C!Init, CP!Init
<1>3. C!Next = CP!Next
  BY DEF C!Next, C!ReceiveBroadcast, C!ReceiveAck, C!ReceiveReliable, C!ReceiveUnconnected,
         C!TimePasses, C!Daemon, C!SendBroadcast, C!Send, C!Sender, C!Hears, C!Running,
         C!WithConnection, C!Connection, C!Acknowledges, C!Copy, C!Remembered, C!HandUp,
         C!Heard, C!Reliable, C!Ack, C!Broadcast, C!Due, C!GivenUp, C!Resent, C!NextSeq,
         C!NumberTaken, C!Cardinality,
         CP!Next, CP!ReceiveBroadcast, CP!ReceiveAck, CP!ReceiveReliable, CP!ReceiveUnconnected,
         CP!TimePasses, CP!Daemon, CP!SendBroadcast, CP!Send, CP!Sender, CP!Hears, CP!Running,
         CP!WithConnection, CP!Connection, CP!Acknowledges, CP!Copy, CP!Remembered, CP!HandUp,
         CP!Heard, CP!Reliable, CP!Ack, CP!Broadcast, CP!Due, CP!GivenUp, CP!Resent, CP!NextSeq,
         CP!NumberTaken, CP!Cardinality
<1>4. CP!AckMeansHeard = C!AckMeansHeard
  BY DEF C!AckMeansHeard, C!Heard, CP!AckMeansHeard, CP!Heard
<1>5. CP!AgainOnlyIfOvertaken = C!AgainOnlyIfOvertaken
  BY DEF C!AgainOnlyIfOvertaken, CP!AgainOnlyIfOvertaken
<1> QED BY <1>1, <1>2, <1>3, <1>4, <1>5

LEMMA ConnectionsTyped == CP!TypeOK => C!TypeOK
BY DEF C!TypeOK, C!Seq16, C!Window, C!Entry, C!Heard, C!Message, C!Frame, C!Reliable, C!Ack,
       C!Broadcast, C!Cardinality,
       CP!TypeOK, CP!Seq16, CP!Window, CP!Entry, CP!Heard, CP!Message, CP!Frame, CP!Reliable, CP!Ack,
       CP!Broadcast, CP!Cardinality

LEMMA PartsRun == PartSpec => TimelySpec /\ CP!Spec
<1>1. PartInit => Init /\ CP!Init
  BY ConnectionsSame DEF PartInit
<1>2. [PartNext]_<<part, cVars, lVars, kVars, pVars, vars>> => [TimelyNext]_vars
  BY DEF PartNext
<1>3. [PartNext]_<<part, cVars, lVars, kVars, pVars, vars>> => [CP!Next]_CP!vars
  BY ConnectionsSame DEF PartNext, cVars, CP!vars
<1> QED BY <1>1, <1>2, <1>3, PTL DEF PartSpec, TimelySpec, CP!Spec

LEMMA AssumedOfConnections == CP!ConnectionAssumption
BY ConnectionsSame, RadiosAssumption

(***************************************************************************)
(* The connection-based radio of MCRadios: what an acknowledgement settles *)
(* was given to the receivers (reliableradio.h:442-541, 584-596).          *)
(***************************************************************************)
THEOREM RadiosAckMeansHeard == PartSpec => []AckMeansHeard
<1>1. PartSpec => []CP!AckMeansHeard
  BY PartsRun, AssumedOfConnections, CP!AcknowledgedIsHeard, PTL
<1>2. CP!AckMeansHeard => AckMeansHeard
  BY ConnectionsSame DEF AckMeansHeard
<1> QED BY <1>1, <1>2, PTL

(***************************************************************************)
(* There a message is given again only after its number has left the       *)
(* window (was_received(), reliableradio.h:629-650).                       *)
(***************************************************************************)
THEOREM RadiosAgainOnlyIfOvertaken == PartSpec => []AgainOnlyIfOvertaken
<1>1. PartSpec => []CP!AgainOnlyIfOvertaken
  BY PartsRun, AssumedOfConnections, CP!AgainIfOvertaken, PTL
<1>2. CP!AgainOnlyIfOvertaken => AgainOnlyIfOvertaken
  BY ConnectionsSame DEF AgainOnlyIfOvertaken
<1> QED BY <1>1, <1>2, PTL

(***************************************************************************)
(* The other radio, in timely use there, drops only what was heard, and is *)
(* a Delivery (reliable_radio.h:142-269, 375-417, 475-531).                *)
(***************************************************************************)
THEOREM RadiosDeliver == PartSpec => []DroppedOnlyIfHeard /\ DeliverySpec
BY PartsRun, CopiesWereHeard, DeliversOrReports, PTL

-----------------------------------------------------------------------------
(***************************************************************************)
(* What is in the pool, in the air and in the manager.  `busy' are the     *)
(* places in use by the manager, or by the call that is under way.         *)
(***************************************************************************)
Message == {m \in stackNeighbour \X Nat : m[2] \in DOMAIN stackPackets[m[1]]}

Held == {L!Free} \cup [valid : {TRUE}, dst : stackDest \cup {stackSelf, None},
                       parts : SUBSET (Message \X Nat)]

Owned(po, ti, busy) ==
  /\ po \in [L!Slot -> Held] /\ ti \in [L!Slot -> Nat]
  /\ \A q \in L!Slot : /\ ti[q] <= 1
                       /\ ~(q \in busy /\ ti[q] = 1)
                       /\ po[q].valid <=> q \in busy \/ ti[q] = 1
                       /\ ti[q] = 1 => po[q].dst \in stackDest

Routing == /\ working \in BOOLEAN /\ own \in 0..stackOwn
           /\ working => wanted \in stackDest \ stackLinkLocal

AllOrNone(parts) == parts # {} => L!IsWhole(parts)

Complete(po, ti, gone) == /\ \A q \in L!Slot : ti[q] = 1 => AllOrNone(po[q].parts)
                          /\ \A g \in gone : AllOrNone(g.parts)

Manager == [valid : BOOLEAN, tag : 0..stackTags - 1, from : stackNeighbour \cup {None},
            size : Nat, got : Nat, offsets : SUBSET Nat, slot : L!Slot,
            prevTag : 0..stackTags - 1, prevFrom : stackNeighbour \cup {None}]

GoodFrame(f) ==
  /\ f.msg \in Message /\ f.from = f.msg[1] /\ f.type \in {"fragment", "whole"}
  /\ f.type = "fragment" => /\ f.tag \in 0..stackTags - 1
                            /\ f.msg[2] < stackTags => f.tag = f.msg[2]
                            /\ f.size = L!PacketOf(f.msg).size
                            /\ f.offset \in L!Offsets(f.msg)
  /\ f.type = "whole" => L!PacketOf(f.msg).size <= stackFragLen

Reassembling == IF mgr.valid THEN {mgr.slot} ELSE {}

LInv == /\ next \in [stackNeighbour -> Nat \ {0}]
        /\ tag \in [stackNeighbour -> 0..stackTags - 1]
        /\ \A n \in stackNeighbour : next[n] < stackTags => tag[n] = next[n]
        /\ \A f \in frames : GoodFrame(f)
        /\ mgr \in Manager
        /\ Owned(pool, polls, Reassembling)
        /\ timeouts \in Seq(0..stackTags - 1) /\ Len(timeouts) <= stackTimeouts
        /\ IsFiniteSet(table) /\ table \subseteq stackDest \ stackLinkLocal
        /\ Cardinality(table) <= stackTable
        /\ Routing

LEMMA HeldInUse ==
  ASSUME NEW h \in Held, h.valid
  PROVE  h.dst \in stackDest \cup {stackSelf, None} /\ h.parts \in SUBSET (Message \X Nat)
<1>1. ~L!Free.valid
  BY DEF L!Free
<1>2. h # L!Free
  BY <1>1
<1>3. h \in [valid : {TRUE}, dst : stackDest \cup {stackSelf, None},
               parts : SUBSET (Message \X Nat)]
  BY <1>2 DEF Held
<1> QED BY <1>3

LEMMA PacketKnown ==
  ASSUME NEW m \in Message
  PROVE  L!PacketOf(m) \in [dst : stackDest \cup {stackSelf}, size : Nat \ {0}, known : BOOLEAN]
BY RadiosAssumption DEF L!LowpanAssumption, L!Packet, Message, L!PacketOf

LEMMA ZeroOffset == ASSUME NEW m \in Message PROVE 0 \in L!Offsets(m)
<1>1. 0 % stackFragLen = 0
  BY RadiosAssumption DEF L!LowpanAssumption
<1> QED BY <1>1, PacketKnown DEF L!Offsets

LEMMA OffsetNat == ASSUME NEW m \in Message, NEW o \in L!Offsets(m)
  PROVE o \in Nat /\ o < L!PacketOf(m).size /\ o % stackFragLen = 0
BY PacketKnown DEF L!Offsets

LEMMA UnusedFree ==
  ASSUME NEW now, L!FreeSlots(now) # {}
  PROVE  L!Unused(now) \in L!Slot /\ ~now[L!Unused(now)].valid
<1>1. L!FreeSlots(now) \subseteq Nat
  BY RadiosAssumption DEF L!FreeSlots, L!Slot, L!LowpanAssumption
<1>2. PICK l \in L!FreeSlots(now) :
        \A k \in L!FreeSlots(now) : ~(<<k, l>> \in OpToRel(<, Nat))
  BY <1>1, NatLessThanWellFounded, WFMin
<1>3. \A k \in L!FreeSlots(now) : ~(k < l)
  BY <1>1, <1>2 DEF OpToRel
<1>4. \A k \in L!FreeSlots(now) : l <= k
  BY <1>1, <1>3
<1> QED BY <1>4 DEF L!Unused, L!FreeSlots

LEMMA SendOnEffect ==
  ASSUME NEW now, NEW timers, NEW busy, NEW p \in L!Slot, NEW gone,
         p \notin busy, Owned(now, timers, busy \cup {p}), now[p].dst \in stackDest,
         working \in BOOLEAN, working => wanted \in stackDest \ stackLinkLocal,
         L!SendOn(p, now, timers, gone)
  PROVE  /\ Owned(pool', polls', busy)
         /\ working' \in BOOLEAN /\ (working' => wanted' \in stackDest \ stackLinkLocal)
         /\ Complete(now, timers, gone) /\ AllOrNone(now[p].parts)
              => Complete(pool', polls', passed')
         /\ \A q \in busy : pool'[q] = now[q]
<1>1. timers[p] = 0 /\ now[p].valid /\ timers[p] \in Nat
  BY DEF Owned
<1>2. CASE L!Available(now[p].dst)
  <2>1. /\ pool' = [now EXCEPT ![p] = L!Free] /\ polls' = timers
        /\ passed' = gone \cup {now[p]} /\ UNCHANGED <<working, wanted>>
    BY <1>2 DEF L!SendOn, L!Cleaned
  <2>2. ~L!Free.valid /\ L!Free \in Held
    BY DEF L!Free, Held
  <2>3. Owned(pool', polls', busy)
    BY <1>1, <2>1, <2>2 DEF Owned
  <2>4. Complete(now, timers, gone) /\ AllOrNone(now[p].parts) => Complete(pool', polls', passed')
    BY <1>1, <2>1 DEF Complete, Owned
  <2>5. \A q \in busy : pool'[q] = now[q]
    BY <2>1 DEF Owned
  <2> QED BY <2>1, <2>3, <2>4, <2>5
<1>3. CASE ~L!Available(now[p].dst)
  <2>1. /\ pool' = now /\ polls' = [timers EXCEPT ![p] = @ + 1]
        /\ passed' = gone /\ working' = TRUE
        /\ wanted' = IF working THEN wanted ELSE now[p].dst
    BY <1>3 DEF L!SendOn, L!Cleaned
  <2>2. now[p].dst \notin stackLinkLocal
    BY <1>3 DEF L!Available
  <2>3. Owned(pool', polls', busy)
    BY <1>1, <2>1 DEF Owned
  <2>4. Complete(now, timers, gone) /\ AllOrNone(now[p].parts) => Complete(pool', polls', passed')
    BY <1>1, <2>1 DEF Complete, Owned
  <2> QED BY <2>1, <2>2, <2>3, <2>4
<1> QED BY <1>2, <1>3

LEMMA SendingEffect ==
  ASSUME NEW now, NEW busy, NEW p \in L!Slot, NEW d \in stackDest, NEW gone,
         p \notin busy, ~now[p].valid, Owned(now, polls, busy), Routing,
         L!Sending(d, p, now, gone)
  PROVE  /\ Owned(pool', polls', busy) /\ Routing'
         /\ Complete(now, polls, gone) => Complete(pool', polls', passed')
         /\ \A q \in busy : pool'[q] = now[q]
<1> DEFINE filled == [now EXCEPT ![p] = L!InUse(d, {})]
<1>1. /\ own < stackOwn /\ own' = own + 1
      /\ L!SendOn(p, filled, polls, gone)
  BY DEF L!Sending
<1>2. /\ L!InUse(d, {}) \in Held /\ L!InUse(d, {}).valid /\ L!InUse(d, {}).dst = d
      /\ AllOrNone(L!InUse(d, {}).parts)
  BY DEF L!InUse, Held, AllOrNone
<1>3. Owned(filled, polls, busy \cup {p}) /\ filled[p] = L!InUse(d, {})
  BY <1>2 DEF Owned
<1>4. Complete(now, polls, gone) => Complete(filled, polls, gone)
  BY <1>3 DEF Complete, Owned
<1>5. \A q \in busy : filled[q] = now[q]
  BY DEF Owned
<1>6. own' \in 0..stackOwn
  BY <1>1, RadiosAssumption DEF Routing, L!LowpanAssumption
<1> HIDE DEF filled
<1>7. /\ Owned(pool', polls', busy)
      /\ working' \in BOOLEAN /\ (working' => wanted' \in stackDest \ stackLinkLocal)
      /\ Complete(filled, polls, gone) /\ AllOrNone(filled[p].parts)
           => Complete(pool', polls', passed')
      /\ \A q \in busy : pool'[q] = filled[q]
  BY <1>1, <1>2, <1>3, SendOnEffect DEF Routing
<1> QED BY <1>2, <1>3, <1>4, <1>5, <1>6, <1>7 DEF Routing

LEMMA ReceivedEffect ==
  ASSUME NEW now, NEW p \in L!Slot, Owned(now, polls, {p}), Routing, L!Received(p, now)
  PROVE  /\ Owned(pool', polls', {}) /\ Routing'
         /\ Complete(now, polls, passed) /\ AllOrNone(now[p].parts)
              => Complete(pool', polls', passed')
<1> DEFINE left == [now EXCEPT ![p] = L!Free]
           gone == passed \cup {g \in {now[p]} : L!IsWhole(g.parts)}
<1>1. Owned(left, polls, {})
  <2>1. ~L!Free.valid /\ L!Free \in Held
    BY DEF L!Free, Held
  <2> QED BY <2>1 DEF Owned
<1>2. Complete(now, polls, passed) => Complete(left, polls, passed) /\ Complete(left, polls, gone)
  BY DEF Complete, AllOrNone, Owned
<1>3. CASE pool' = left /\ UNCHANGED <<working, wanted, polls, own>> /\ passed' \in {passed, gone}
  BY <1>1, <1>2, <1>3 DEF Routing
<1>4. CASE L!FreeSlots(now) # {} /\ \E d \in stackDest : L!Sending(d, L!Unused(now), left, gone)
  <2>1. L!Unused(now) \in L!Slot /\ ~now[L!Unused(now)].valid
    BY <1>4, UnusedFree
  <2>2. ~left[L!Unused(now)].valid
    BY <1>1, <2>1 DEF Owned, L!Free
  <2> HIDE DEF left, gone
  <2>3. Owned(pool', polls', {}) /\ Routing'
        /\ (Complete(left, polls, gone) => Complete(pool', polls', passed'))
    BY <1>1, <1>4, <2>1, <2>2, SendingEffect
  <2> QED BY <1>2, <2>3
<1>5. CASE now[p].dst \in stackDest \ stackLinkLocal /\ L!SendOn(p, now, polls, passed) /\ UNCHANGED own
  <2>1. Owned(now, polls, {} \cup {p})
    OBVIOUS
  <2>2. /\ Owned(pool', polls', {})
        /\ working' \in BOOLEAN /\ (working' => wanted' \in stackDest \ stackLinkLocal)
        /\ Complete(now, polls, passed) /\ AllOrNone(now[p].parts)
             => Complete(pool', polls', passed')
    BY <1>5, <2>1, SendOnEffect DEF Routing
  <2> QED BY <1>5, <2>2 DEF Routing
<1>6. \/ L!HandUp(p, now)
      \/ pool' = left /\ UNCHANGED <<working, wanted, polls, own, passed>>
      \/ now[p].dst \in stackDest \ stackLinkLocal /\ L!SendOn(p, now, polls, passed) /\ UNCHANGED own
  BY DEF L!Received
<1>7. CASE L!HandUp(p, now)
  BY <1>3, <1>4, <1>7 DEF L!HandUp
<1> QED BY <1>3, <1>5, <1>6, <1>7

-----------------------------------------------------------------------------
(***************************************************************************)
(* Units of a packet: those that the fragments at offsets O have brought.  *)
(* Offsets are multiples of FragLen, so each brings its own.               *)
(***************************************************************************)
Brought(m, o) == {u \in 0..L!PacketOf(m).size - 1 : o <= u /\ u < o + stackFragLen}

Units(m, O) == UNION {Brought(m, o) : o \in O}

LEMMA Multiple ==
  ASSUME NEW F \in Nat \ {0}, NEW p \in Nat, p % F = 0
  PROVE  p = F * (p \div F) /\ p \div F \in Nat
OBVIOUS

LEMMA Apart ==
  ASSUME NEW F \in Nat \ {0}, NEW p \in Nat, NEW q \in Nat, p % F = 0, q % F = 0, p < q
  PROVE  p + F <= q
<1> DEFINE i == p \div F
           j == q \div F
<1>1. p = F * i /\ q = F * j /\ i \in Nat /\ j \in Nat
  BY Multiple
<1> HIDE DEF i, j
<1>2. i < j
  <2> SUFFICES ASSUME j <= i PROVE FALSE
    BY <1>1
  <2>1. PICK k \in Nat : i = j + k
    BY <1>1
  <2>2. F * i = F * j + F * k
    BY <1>1, <2>1
  <2>3. F * k \in Nat
    BY <2>1
  <2> QED BY <1>1, <2>2, <2>3
<1>3. PICK k \in Nat : j = i + 1 + k
  BY <1>1, <1>2
<1>4. F * j = F * i + F + F * k /\ F * k \in Nat
  BY <1>1, <1>3
<1> QED BY <1>1, <1>4

LEMMA FragLenNat == stackFragLen \in Nat \ {0} /\ stackTags \in Nat \ {0}
BY RadiosAssumption DEF L!LowpanAssumption

LEMMA BroughtSize ==
  ASSUME NEW m \in Message, NEW o \in L!Offsets(m)
  PROVE  /\ IsFiniteSet(Brought(m, o)) /\ Cardinality(Brought(m, o)) = L!PartLen(m, o)
         /\ o \in Brought(m, o) /\ L!PartLen(m, o) \in Nat
<1> DEFINE size == L!PacketOf(m).size
<1>1. size \in Nat /\ o \in Nat /\ o < size
  BY PacketKnown, OffsetNat
<1> HIDE DEF size
<1>2. CASE o + stackFragLen <= size
  <2>1. Brought(m, o) = o..(o + stackFragLen - 1)
    BY <1>1, <1>2, FragLenNat DEF Brought, size
  <2>2. L!PartLen(m, o) = stackFragLen
    BY <1>2 DEF L!PartLen, size
  <2>3. o + stackFragLen - 1 \in Int /\ o \in Int /\ ~(o > o + stackFragLen - 1)
        /\ o + stackFragLen - 1 - o + 1 = stackFragLen
    BY <1>1, FragLenNat
  <2> QED BY <1>1, <2>1, <2>2, <2>3, FS_Interval, FragLenNat
<1>3. CASE ~(o + stackFragLen <= size)
  <2>1. Brought(m, o) = o..(size - 1)
    BY <1>1, <1>3, FragLenNat DEF Brought, size
  <2>2. L!PartLen(m, o) = size - o
    BY <1>3 DEF L!PartLen, size
  <2>3. size - 1 \in Int /\ o \in Int /\ ~(o > size - 1) /\ size - 1 - o + 1 = size - o
    BY <1>1
  <2> QED BY <1>1, <2>1, <2>2, <2>3, FS_Interval
<1> QED BY <1>2, <1>3

LEMMA UnitsFinite ==
  ASSUME NEW m \in Message, NEW O
  PROVE  /\ IsFiniteSet(Units(m, O)) /\ Units(m, O) \subseteq 0..L!PacketOf(m).size - 1
         /\ Cardinality(Units(m, O)) \in Nat
<1>1. Units(m, O) \subseteq 0..L!PacketOf(m).size - 1
  BY DEF Units, Brought
<1>2. IsFiniteSet(0..L!PacketOf(m).size - 1)
  BY FS_Interval, PacketKnown
<1> QED BY <1>1, <1>2, FS_Subset, FS_CardinalityType

LEMMA OneMore ==
  ASSUME NEW m \in Message, NEW O \in SUBSET L!Offsets(m), NEW o \in L!Offsets(m) \ O
  PROVE  Cardinality(Units(m, O \cup {o})) = Cardinality(Units(m, O)) + L!PartLen(m, o)
<1>1. Units(m, O \cup {o}) = Units(m, O) \cup Brought(m, o)
  BY DEF Units
<1>2. Units(m, O) \cap Brought(m, o) = {}
  <2> SUFFICES ASSUME NEW q \in O, NEW u \in Brought(m, q), u \in Brought(m, o) PROVE FALSE
    BY DEF Units
  <2>1. q \in Nat /\ o \in Nat /\ q # o /\ q % stackFragLen = 0 /\ o % stackFragLen = 0
    BY OffsetNat
  <2>2. u \in Int /\ q <= u /\ u < q + stackFragLen /\ o <= u /\ u < o + stackFragLen
    BY PacketKnown DEF Brought
  <2>3. /\ q < o => q + stackFragLen <= o
        /\ o < q => o + stackFragLen <= q
    BY <2>1, Apart, FragLenNat
  <2> QED BY <2>1, <2>2, <2>3, FragLenNat
<1>3. Cardinality({}) = 0
  BY FS_EmptySet
<1>4. Cardinality(Units(m, O) \cup Brought(m, o))
        = Cardinality(Units(m, O)) + Cardinality(Brought(m, o)) - Cardinality({})
  BY <1>2, BroughtSize, UnitsFinite, FS_Union
<1>5. /\ Cardinality(Units(m, O)) \in Nat /\ L!PartLen(m, o) \in Nat
      /\ Cardinality(Brought(m, o)) = L!PartLen(m, o)
  BY BroughtSize, UnitsFinite
<1>6. Cardinality(Units(m, O \cup {o})) = Cardinality(Units(m, O) \cup Brought(m, o))
  BY <1>1, Zenon
<1>7. Cardinality(Units(m, O) \cup Brought(m, o)) = Cardinality(Units(m, O)) + L!PartLen(m, o)
  BY <1>3, <1>4, <1>5
<1> QED BY <1>6, <1>7, Zenon

LEMMA AllBrought ==
  ASSUME NEW m \in Message, NEW O \in SUBSET L!Offsets(m),
         Cardinality(Units(m, O)) = L!PacketOf(m).size
  PROVE  O = L!Offsets(m)
<1> DEFINE size == L!PacketOf(m).size
<1>1. size \in Nat \ {0}
  BY PacketKnown
<1> HIDE DEF size
<1>2. IsFiniteSet(0..size - 1) /\ Cardinality(0..size - 1) = size
  <2>1. size - 1 \in Int /\ ~(0 > size - 1) /\ size - 1 - 0 + 1 = size
    BY <1>1
  <2> QED BY <2>1, FS_Interval
<1>3. Units(m, O) = 0..size - 1
  BY <1>2, UnitsFinite, FS_Subset DEF size
<1> SUFFICES ASSUME NEW o \in L!Offsets(m) PROVE o \in O
  OBVIOUS
<1>4. o \in 0..size - 1
  BY <1>1, OffsetNat DEF size
<1>5. PICK q \in O : o \in Brought(m, q)
  BY <1>3, <1>4 DEF Units
<1>6. q \in Nat /\ o \in Nat /\ q % stackFragLen = 0 /\ o % stackFragLen = 0
  BY OffsetNat
<1>7. q <= o /\ o < q + stackFragLen
  BY <1>5 DEF Brought
<1>8. q < o => q + stackFragLen <= o
  BY <1>6, Apart, FragLenNat
<1> QED BY <1>6, <1>7, <1>8, FragLenNat

LEMMA OneOffset ==
  ASSUME NEW m \in Message, L!PacketOf(m).size <= stackFragLen
  PROVE  L!Offsets(m) = {0}
<1> SUFFICES ASSUME NEW o \in L!Offsets(m) PROVE o = 0
  BY ZeroOffset
<1>1. o \in Nat /\ o < L!PacketOf(m).size /\ o % stackFragLen = 0
  BY OffsetNat
<1>2. L!PacketOf(m).size \in Nat /\ 0 % stackFragLen = 0
  BY PacketKnown, FragLenNat
<1>3. 0 < o => 0 + stackFragLen <= o
  BY <1>1, <1>2, Apart, FragLenNat
<1> QED BY <1>1, <1>2, <1>3, FragLenNat

-----------------------------------------------------------------------------
(***************************************************************************)
(* No sender has used up the tags, 2^16 of them in the code, so that its   *)
(* k-th packet has tag k: a reassembling manager can tell packets apart by *)
(* nothing but sender and tag (lowpan.h:1192-1217).                        *)
(***************************************************************************)
TagsDiffer == \A n \in stackNeighbour : DOMAIN stackPackets[n] \subseteq 1..stackTags - 1

(***************************************************************************)
(* What the manager m has collected in its place of the pool `po': with    *)
(* tags that differ, all of the packet its sender and tag stand for.       *)
(***************************************************************************)
Collects(m, po) ==
  m.tag # 0 =>
    LET g == <<m.from, m.tag>>
    IN /\ g \in Message /\ m.size = L!PacketOf(g).size
       /\ \E O \in SUBSET (L!Offsets(g) \cap m.offsets) :
            /\ po[m.slot].parts = {<<g, o>> : o \in O}
            /\ m.got = Cardinality(Units(g, O))

WInv == (mgr.valid => Collects(mgr, pool)) /\ Complete(pool, polls, passed)

LEMMA FragmentOf ==
  ASSUME TagsDiffer, NEW f, GoodFrame(f), f.type = "fragment"
  PROVE  f.tag # 0 /\ f.msg = <<f.from, f.tag>>
<1>1. f.msg[1] \in stackNeighbour /\ f.msg[2] \in DOMAIN stackPackets[f.msg[1]]
      /\ f.msg = <<f.msg[1], f.msg[2]>>
  BY DEF GoodFrame, Message
<1>2. f.msg[2] \in 1..stackTags - 1
  BY <1>1 DEF TagsDiffer
<1> QED BY <1>1, <1>2, FragLenNat DEF GoodFrame

LEMMA TakeEffect ==
  ASSUME NEW f, NEW m \in Manager, NEW now, GoodFrame(f), f.type = "fragment", m.valid,
         Owned(now, polls, {m.slot}), Routing, L!Take(f, m, now)
  PROVE  /\ mgr' \in Manager /\ Owned(pool', polls', Reassembling') /\ Routing'
         /\ /\ TagsDiffer /\ m.from = f.from /\ m.tag = f.tag /\ f.offset \notin m.offsets
            /\ Collects(m, now) /\ Complete(now, polls, passed)
            => WInv'
<1> DEFINE noted == [m EXCEPT !.offsets = @ \cup {f.offset}]
           read  == [noted EXCEPT !.got = @ + L!PartLen(f.msg, f.offset)]
           put   == [now EXCEPT ![m.slot] =
                       L!InUse(IF f.offset = 0 THEN L!PacketOf(f.msg).dst ELSE @.dst,
                               @.parts \cup {<<f.msg, f.offset>>})]
           Mine == /\ TagsDiffer /\ m.from = f.from /\ m.tag = f.tag /\ f.offset \notin m.offsets
                   /\ Collects(m, now) /\ Complete(now, polls, passed)
<1>1. f.msg \in Message /\ f.offset \in L!Offsets(f.msg) /\ f.offset \in Nat
      /\ L!PartLen(f.msg, f.offset) \in Nat
  BY OffsetNat, BroughtSize DEF GoodFrame
<1>2. noted \in Manager /\ noted.valid /\ noted.slot = m.slot /\ m.slot \in L!Slot
  BY <1>1 DEF Manager
<1>3. /\ read \in Manager /\ read.valid /\ read.slot = m.slot /\ read.from = m.from
      /\ read.tag = m.tag /\ read.size = m.size /\ read.offsets = m.offsets \cup {f.offset}
      /\ read.got = m.got + L!PartLen(f.msg, f.offset)
  <2>1. /\ noted.got = m.got /\ m.got \in Nat /\ noted.from = m.from /\ noted.tag = m.tag
        /\ noted.size = m.size /\ noted.offsets = m.offsets \cup {f.offset}
    BY <1>2 DEF Manager
  <2>2. read = [noted EXCEPT !.got = m.got + L!PartLen(f.msg, f.offset)]
    BY <2>1
  <2>3. m.got + L!PartLen(f.msg, f.offset) \in Nat
    BY <1>1, <2>1
  <2> HIDE DEF noted, read
  <2> QED BY <1>2, <2>1, <2>2, <2>3 DEF Manager
<1>4. /\ Owned(put, polls, {m.slot})
      /\ put[m.slot].parts = now[m.slot].parts \cup {<<f.msg, f.offset>>}
  <2>1. now[m.slot] \in Held /\ now[m.slot].valid
    BY <1>2 DEF Owned
  <2>2. now[m.slot].dst \in stackDest \cup {stackSelf, None}
        /\ now[m.slot].parts \in SUBSET (Message \X Nat)
    BY <2>1, HeldInUse
  <2> DEFINE new == L!InUse(IF f.offset = 0 THEN L!PacketOf(f.msg).dst ELSE now[m.slot].dst,
                            now[m.slot].parts \cup {<<f.msg, f.offset>>})
  <2>3. new \in Held /\ new.valid /\ new.parts = now[m.slot].parts \cup {<<f.msg, f.offset>>}
    BY <1>1, <2>2, PacketKnown DEF L!InUse, Held
  <2>4. put = [now EXCEPT ![m.slot] = new] /\ put[m.slot] = new
    BY <1>2 DEF Owned
  <2> HIDE DEF new, put
  <2> QED BY <1>2, <2>3, <2>4 DEF Owned
<1>5. Mine => Collects(noted, now)
  <2>1. /\ noted.from = m.from /\ noted.tag = m.tag /\ noted.size = m.size
        /\ noted.offsets = m.offsets \cup {f.offset} /\ noted.got = m.got
    BY <1>2 DEF Manager
  <2> HIDE DEF noted
  <2> QED BY <1>2, <2>1 DEF Collects
<1>6. ASSUME Mine
      PROVE  Collects(read, put) /\ (read.got = read.size => AllOrNone(put[m.slot].parts))
             /\ Complete(put, polls, passed)
  <2> DEFINE g == f.msg
  <2>1. m.tag # 0 /\ g = <<m.from, m.tag>>
    BY <1>6, FragmentOf
  <2>2. PICK O \in SUBSET (L!Offsets(g) \cap m.offsets) :
          /\ now[m.slot].parts = {<<g, o>> : o \in O} /\ m.got = Cardinality(Units(g, O))
          /\ m.size = L!PacketOf(g).size
    BY <1>6, <2>1 DEF Collects
  <2> DEFINE Q == O \cup {f.offset}
  <2>3. f.offset \in L!Offsets(g) \ O /\ Q \in SUBSET (L!Offsets(g) \cap read.offsets)
    BY <1>1, <1>3, <1>6
  <2>4. put[m.slot].parts = {<<g, o>> : o \in Q}
    BY <1>4, <2>2
  <2>5. read.got = Cardinality(Units(g, Q))
    BY <1>1, <1>3, <2>2, <2>3, OneMore
  <2>6. Collects(read, put)
    <3>1. /\ <<read.from, read.tag>> = g /\ g \in Message /\ read.size = L!PacketOf(g).size
          /\ put[read.slot].parts = {<<g, o>> : o \in Q}
      BY <1>1, <1>3, <2>1, <2>2, <2>4
    <3> HIDE DEF Q, read, put
    <3> QED BY <2>3, <2>5, <3>1 DEF Collects
  <2>7. read.got = read.size => L!IsWhole(put[m.slot].parts)
    <3> SUFFICES ASSUME read.got = read.size PROVE L!IsWhole(put[m.slot].parts)
      OBVIOUS
    <3>1. Q = L!Offsets(g)
      BY <1>1, <1>3, <2>2, <2>3, <2>5, AllBrought
    <3>2. <<g, f.offset>> \in put[m.slot].parts /\ <<g, f.offset>>[1] = g
      BY <2>4
    <3>3. g \in {u[1] : u \in put[m.slot].parts}
      BY <3>2
    <3> QED BY <2>4, <3>1, <3>3 DEF L!IsWhole
  <2>8. Complete(put, polls, passed)
    BY <1>2, <1>6, <1>4 DEF Complete, Owned
  <2> QED BY <2>6, <2>7, <2>8 DEF AllOrNone
<1> HIDE DEF noted, read, put
<1>7. CASE mgr' = noted /\ pool' = now /\ UNCHANGED <<working, wanted, polls, own, passed>>
  BY <1>2, <1>5, <1>7 DEF Reassembling, Routing, WInv, Complete
<1>8. CASE mgr' = read /\ pool' = put /\ UNCHANGED <<working, wanted, polls, own, passed>>
  BY <1>3, <1>4, <1>6, <1>8 DEF Reassembling, Routing, WInv, Complete
<1>9. CASE read.got = read.size /\ mgr' = [read EXCEPT !.valid = FALSE] /\ L!Received(m.slot, put)
  <2>1. mgr' \in Manager /\ ~mgr'.valid
    BY <1>3, <1>9 DEF Manager
  <2>2. /\ Owned(pool', polls', {}) /\ Routing'
        /\ Complete(put, polls, passed) /\ AllOrNone(put[m.slot].parts)
             => Complete(pool', polls', passed')
    BY <1>2, <1>4, <1>9, ReceivedEffect
  <2> QED BY <1>6, <1>9, <2>1, <2>2 DEF Reassembling, WInv
<1> QED BY <1>7, <1>8, <1>9 DEF L!Take, noted, read, put

-----------------------------------------------------------------------------
LEMMA SameCount == ASSUME NEW X PROVE L!Cardinality(X) = Cardinality(X)
BY DEF L!Cardinality, Cardinality

LEMMA InitLInv == L!Init => LInv /\ WInv
<1> SUFFICES ASSUME L!Init PROVE LInv /\ WInv
  OBVIOUS
<1> USE DEF L!Init
<1>1. 1 \in L!Slot /\ 1 \in 0..stackTags - 1
  BY RadiosAssumption DEF L!LowpanAssumption, L!Slot
<1>2. mgr \in Manager /\ ~mgr.valid
  <2>1. 0 \in 0..stackTags - 1
    BY FragLenNat
  <2> QED BY <1>1, <2>1 DEF Manager
<1>3. Owned(pool, polls, Reassembling)
  <2>1. L!Free \in Held /\ ~L!Free.valid
    BY DEF Held, L!Free
  <2> QED BY <1>2, <2>1 DEF Owned, Reassembling
<1>4. /\ timeouts \in Seq(0..stackTags - 1) /\ Len(timeouts) <= stackTimeouts
      /\ IsFiniteSet(table) /\ Cardinality(table) <= stackTable
  BY RadiosAssumption, FS_EmptySet DEF L!LowpanAssumption
<1>5. Routing
  <2>1. stackOwn \in Nat
    BY RadiosAssumption DEF L!LowpanAssumption
  <2>2. own = 0 /\ working = FALSE
    OBVIOUS
  <2>3. own \in 0..stackOwn
    BY <2>1, <2>2
  <2> QED BY <2>2, <2>3 DEF Routing
<1>6. WInv
  BY <1>2 DEF WInv, Complete
<1>7. /\ next \in [stackNeighbour -> Nat \ {0}] /\ tag \in [stackNeighbour -> 0..stackTags - 1]
      /\ \A n \in stackNeighbour : next[n] < stackTags => tag[n] = next[n]
  BY <1>1
<1>8. table \subseteq stackDest \ stackLinkLocal /\ \A f \in frames : GoodFrame(f)
  OBVIOUS
<1> QED BY <1>2, <1>3, <1>4, <1>5, <1>6, <1>7, <1>8 DEF LInv

(***************************************************************************)
(* One step: the neighbours, the timers, the application and frames that   *)
(* arrive.                                                                 *)
(***************************************************************************)
LEMMA NeighbourSendsStep ==
  ASSUME LInv, NEW n \in stackNeighbour, L!NeighbourSends(n)
  PROVE  LInv' /\ (WInv => WInv')
<1> DEFINE k == next[n]
           m == <<n, k>>
<1>1. /\ k \in DOMAIN stackPackets[n] /\ next' = [next EXCEPT ![n] = k + 1]
      /\ frames' = frames \cup L!Frames(n) /\ tag' = [tag EXCEPT ![n] = (@ + 1) % stackTags]
      /\ UNCHANGED <<pool, mgr, timeouts, table, working, wanted, polls, own, passed>>
  BY DEF L!NeighbourSends
<1>2. k \in Nat \ {0} /\ m \in Message /\ tag[n] \in 0..stackTags - 1
      /\ (k < stackTags => tag[n] = k)
  BY <1>1 DEF LInv, Message
<1>3. (tag[n] + 1) % stackTags \in 0..stackTags - 1
      /\ (k + 1 < stackTags => (tag[n] + 1) % stackTags = k + 1)
  BY <1>2, FragLenNat
<1>4. ASSUME NEW f \in L!Frames(n) PROVE GoodFrame(f)
  <2>1. CASE L!PacketOf(m).size <= stackFragLen
    <3>1. f = L!Whole(m)
      BY <2>1 DEF L!Frames
    <3> QED BY <1>2, <2>1, <3>1 DEF L!Whole, GoodFrame
  <2>2. CASE ~(L!PacketOf(m).size <= stackFragLen)
    <3>1. PICK o \in L!Offsets(m) : f = L!Fragment(m, tag[n], o)
      BY <1>4, <2>2 DEF L!Frames
    <3> QED BY <1>2, <3>1 DEF L!Fragment, GoodFrame
  <2> QED BY <2>1, <2>2
<1>5. next' \in [stackNeighbour -> Nat \ {0}] /\ tag' \in [stackNeighbour -> 0..stackTags - 1]
      /\ \A r \in stackNeighbour : next'[r] < stackTags => tag'[r] = next'[r]
  BY <1>1, <1>2, <1>3 DEF LInv
<1>6. Reassembling' = Reassembling /\ Routing' = Routing /\ WInv' = WInv
  BY <1>1 DEF Reassembling, Routing, WInv
<1> QED BY <1>1, <1>4, <1>5, <1>6 DEF LInv

LEMMA UdpSendStep ==
  ASSUME LInv, NEW d \in stackDest, L!UdpSend(d)
  PROVE  LInv' /\ (WInv => WInv')
<1> DEFINE p == L!Unused(pool)
<1>1. /\ L!FreeSlots(pool) # {} /\ L!Sending(d, p, pool, passed)
      /\ UNCHANGED <<tag, next, frames, mgr, timeouts, table>>
  BY DEF L!UdpSend
<1>2. p \in L!Slot /\ ~pool[p].valid
  BY <1>1, UnusedFree
<1> HIDE DEF p
<1>3. p \notin Reassembling
  BY <1>2 DEF LInv, Owned
<1>4. /\ Owned(pool', polls', Reassembling) /\ Routing'
      /\ Complete(pool, polls, passed) => Complete(pool', polls', passed')
      /\ \A q \in Reassembling : pool'[q] = pool[q]
  BY <1>1, <1>2, <1>3, SendingEffect DEF LInv
<1>5. Reassembling' = Reassembling
  BY <1>1 DEF Reassembling
<1>6. WInv => WInv'
  BY <1>1, <1>4 DEF WInv, Reassembling, Collects
<1> QED BY <1>1, <1>4, <1>5, <1>6 DEF LInv

LEMMA TimeoutStep == LInv /\ L!Timeout => LInv' /\ (WInv => WInv')
<1> SUFFICES ASSUME LInv, L!Timeout PROVE LInv' /\ (WInv => WInv')
  OBVIOUS
<1>1. /\ timeouts # <<>> /\ timeouts' = Tail(timeouts)
      /\ UNCHANGED <<tag, next, frames, table, working, wanted, polls, own, passed>>
  BY DEF L!Timeout
<1>2. timeouts' \in Seq(0..stackTags - 1) /\ Len(timeouts') <= stackTimeouts
  BY <1>1, RadiosAssumption DEF LInv, L!LowpanAssumption
<1>3. Routing' = Routing
  BY <1>1 DEF Routing
<1>4. CASE UNCHANGED <<mgr, pool>>
  <2>1. Reassembling' = Reassembling /\ WInv' = WInv
    BY <1>1, <1>4 DEF Reassembling, WInv
  <2> QED BY <1>1, <1>2, <1>3, <1>4, <2>1 DEF LInv
<1>5. CASE /\ mgr.valid /\ mgr' = [mgr EXCEPT !.valid = FALSE]
           /\ pool' = [pool EXCEPT ![mgr.slot] = L!Free]
  <2>1. mgr' \in Manager /\ ~mgr'.valid /\ mgr.slot \in L!Slot
    BY <1>5 DEF LInv, Manager
  <2>2. Reassembling = {mgr.slot} /\ Reassembling' = {}
    BY <1>5, <2>1 DEF Reassembling
  <2>3. Owned(pool', polls', {})
    <3>1. L!Free \in Held /\ ~L!Free.valid
      BY DEF Held, L!Free
    <3> QED BY <1>1, <1>5, <2>1, <2>2, <3>1 DEF LInv, Owned
  <2>4. WInv => WInv'
    BY <1>1, <1>5, <2>1, <2>2 DEF WInv, Complete, LInv, Owned
  <2> QED BY <1>1, <1>2, <1>3, <2>1, <2>2, <2>3, <2>4 DEF LInv
<1> QED BY <1>4, <1>5 DEF L!Timeout, L!Cancels

LEMMA SearchStep == LInv /\ L!SearchForARoute => LInv' /\ (WInv => WInv')
<1> SUFFICES ASSUME LInv, L!SearchForARoute PROVE LInv' /\ (WInv => WInv')
  OBVIOUS
<1>1. /\ working /\ working' = FALSE
      /\ table' = IF Cardinality(table) < stackTable THEN table \cup {wanted} ELSE table
      /\ UNCHANGED <<tag, next, frames, pool, mgr, timeouts, wanted, polls, own, passed>>
  BY SameCount DEF L!SearchForARoute
<1>2. IsFiniteSet(table') /\ Cardinality(table') <= stackTable
  <2>1. CASE Cardinality(table) < stackTable
    <3>1. /\ IsFiniteSet(table \cup {wanted})
          /\ Cardinality(table \cup {wanted}) =
               IF wanted \in table THEN Cardinality(table) ELSE Cardinality(table) + 1
      BY FS_AddElement DEF LInv
    <3>2. Cardinality(table) \in Nat /\ stackTable \in Nat
      BY FS_CardinalityType, RadiosAssumption DEF LInv, L!LowpanAssumption
    <3> QED BY <1>1, <2>1, <3>1, <3>2
  <2> QED BY <1>1, <2>1 DEF LInv
<1>3. table' \subseteq stackDest \ stackLinkLocal
  BY <1>1 DEF LInv, Routing
<1>4. Reassembling' = Reassembling /\ WInv' = WInv
  BY <1>1 DEF Reassembling, WInv
<1>5. Routing'
  BY <1>1 DEF Routing, LInv
<1> QED BY <1>1, <1>2, <1>3, <1>4, <1>5 DEF LInv

LEMMA PollingStep ==
  ASSUME LInv, NEW p \in L!Slot, L!RoutingPolling(p)
  PROVE  LInv' /\ (WInv => WInv')
<1> DEFINE left == [polls EXCEPT ![p] = @ - 1]
<1>1. /\ polls[p] > 0 /\ UNCHANGED <<tag, next, frames, mgr, timeouts, table, own>>
      /\ pool[p].valid => L!SendOn(p, pool, left, passed)
  BY DEF L!RoutingPolling
<1>2. polls[p] = 1 /\ pool[p].valid /\ p \notin Reassembling /\ pool[p].dst \in stackDest
  BY <1>1 DEF LInv, Owned
<1>3. Owned(pool, left, Reassembling \cup {p})
  BY <1>2 DEF LInv, Owned
<1>4. Complete(pool, polls, passed) => Complete(pool, left, passed) /\ AllOrNone(pool[p].parts)
  BY <1>2 DEF Complete, LInv, Owned
<1> HIDE DEF left
<1>5. /\ Owned(pool', polls', Reassembling)
      /\ working' \in BOOLEAN /\ (working' => wanted' \in stackDest \ stackLinkLocal)
      /\ Complete(pool, left, passed) /\ AllOrNone(pool[p].parts)
           => Complete(pool', polls', passed')
      /\ \A q \in Reassembling : pool'[q] = pool[q]
  BY <1>1, <1>2, <1>3, SendOnEffect DEF LInv, Routing
<1>6. Reassembling' = Reassembling /\ Routing'
  BY <1>1, <1>5 DEF Reassembling, Routing, LInv
<1>7. WInv => WInv'
  BY <1>1, <1>4, <1>5 DEF WInv, Reassembling, Collects
<1> QED BY <1>1, <1>5, <1>6, <1>7 DEF LInv

LEMMA StartsEffect ==
  ASSUME LInv, NEW f \in frames, NEW t \in 0..stackTags - 1, L!CanStart(f.from, t),
         NEW size \in Nat, NEW p, p = L!Unused(pool)
  PROVE  /\ L!Started(f.from, t, size, p) \in Manager /\ p \in L!Slot /\ pool[p] = L!Free
         /\ Owned(pool, polls, {})
         /\ ~mgr.valid /\ Append(timeouts, t) \in Seq(0..stackTags - 1)
         /\ Len(Append(timeouts, t)) <= stackTimeouts
<1>1. ~mgr.valid /\ L!FreeSlots(pool) # {} /\ Len(timeouts) < stackTimeouts
  BY DEF L!CanStart
<1>2. p \in L!Slot /\ ~pool[p].valid
  BY <1>1, UnusedFree
<1>3. pool[p] = L!Free
  BY <1>2 DEF LInv, Owned, Held
<1>4. f.from \in stackNeighbour
  BY DEF LInv, GoodFrame, Message
<1>5. L!Started(f.from, t, size, p) \in Manager
  BY <1>2, <1>4 DEF L!Started, Manager, LInv
<1>6. Append(timeouts, t) \in Seq(0..stackTags - 1) /\ Len(Append(timeouts, t)) <= stackTimeouts
  BY <1>1, RadiosAssumption DEF LInv, L!LowpanAssumption
<1> QED BY <1>1, <1>2, <1>3, <1>5, <1>6 DEF LInv, Reassembling

LEMMA CollectFragmentStep ==
  ASSUME LInv, NEW f \in frames, L!CollectFragment(f), UNCHANGED <<tag, next, frames, table>>
  PROVE  LInv' /\ (TagsDiffer /\ WInv => WInv')
<1>1. /\ f.type = "fragment" /\ mgr.valid /\ mgr.tag = f.tag /\ mgr.from = f.from
      /\ f.offset \notin mgr.offsets /\ L!Take(f, mgr, pool) /\ timeouts' = timeouts
  BY DEF L!CollectFragment, L!Expected
<1>2. GoodFrame(f) /\ mgr \in Manager /\ Owned(pool, polls, {mgr.slot}) /\ Routing
  BY <1>1 DEF LInv, Reassembling
<1>3. /\ mgr' \in Manager /\ Owned(pool', polls', Reassembling') /\ Routing'
      /\ TagsDiffer /\ Collects(mgr, pool) /\ Complete(pool, polls, passed) => WInv'
  BY <1>1, <1>2, TakeEffect
<1> QED BY <1>1, <1>3 DEF LInv, WInv

LEMMA FirstFragmentStep ==
  ASSUME LInv, NEW f \in frames, L!FirstFragment(f), UNCHANGED <<tag, next, frames, table>>
  PROVE  LInv' /\ (TagsDiffer /\ WInv => WInv')
<1> DEFINE p == L!Unused(pool)
           m == L!Started(f.from, f.tag, f.size, p)
           new == [pool EXCEPT ![p] = L!InUse(None, {})]
<1>1. /\ f.type = "fragment" /\ L!CanStart(f.from, f.tag) /\ timeouts' = Append(timeouts, f.tag)
      /\ L!Take(f, m, new)
  BY DEF L!FirstFragment, L!SetTimer
<1>2. GoodFrame(f) /\ f.tag \in 0..stackTags - 1 /\ f.size \in Nat
  BY <1>1, PacketKnown DEF LInv, GoodFrame
<1>3. /\ m \in Manager /\ p \in L!Slot /\ pool[p] = L!Free /\ Owned(pool, polls, {})
      /\ ~mgr.valid /\ timeouts' \in Seq(0..stackTags - 1) /\ Len(timeouts') <= stackTimeouts
  BY <1>1, <1>2, StartsEffect
<1>4. /\ m.valid /\ m.from = f.from /\ m.tag = f.tag /\ m.size = f.size /\ m.got = 0
      /\ m.offsets = {} /\ m.slot = p
  BY DEF L!Started
<1>5. /\ L!InUse(None, {}) \in Held /\ L!InUse(None, {}).valid /\ L!InUse(None, {}).parts = {}
      /\ ~L!Free.valid
  BY DEF L!InUse, Held, L!Free
<1> HIDE DEF p, m
<1>6. Owned(new, polls, {p}) /\ new[p].parts = {}
  BY <1>3, <1>5 DEF Owned
<1>7. Complete(pool, polls, passed) => Complete(new, polls, passed)
  BY <1>3, <1>5 DEF Complete, Owned
<1> HIDE DEF new
<1>8. TagsDiffer => Collects(m, new)
  <2> SUFFICES ASSUME TagsDiffer, m.tag # 0 PROVE Collects(m, new)
    BY DEF Collects
  <2>1. f.msg = <<m.from, m.tag>> /\ f.msg \in Message /\ m.size = L!PacketOf(f.msg).size
    BY <1>1, <1>2, <1>4, FragmentOf DEF GoodFrame
  <2>2. Units(f.msg, {}) = {} /\ Cardinality({}) = 0
    BY FS_EmptySet DEF Units
  <2>3. new[m.slot].parts = {<<f.msg, o>> : o \in {}} /\ m.got = Cardinality(Units(f.msg, {}))
    BY <1>4, <1>6, <2>2
  <2> QED BY <2>1, <2>3 DEF Collects
<1>9. /\ mgr' \in Manager /\ Owned(pool', polls', Reassembling') /\ Routing'
      /\ TagsDiffer /\ Collects(m, new) /\ Complete(new, polls, passed) => WInv'
  BY <1>1, <1>2, <1>3, <1>4, <1>6, TakeEffect DEF LInv
<1> QED BY <1>3, <1>7, <1>8, <1>9 DEF LInv, WInv

LEMMA WholePacketStep ==
  ASSUME LInv, NEW f \in frames, L!WholePacket(f), UNCHANGED <<tag, next, frames, table>>
  PROVE  LInv' /\ (WInv => WInv')
<1> DEFINE p == L!Unused(pool)
           size == L!PacketOf(f.msg).size
           m == L!Started(f.from, 0, size, p)
           put(h) == [pool EXCEPT ![p] = h]
           full == L!InUse(L!PacketOf(f.msg).dst, {<<f.msg, 0>>})
<1>1. /\ f.type = "whole" /\ L!CanStart(f.from, 0) /\ timeouts' = Append(timeouts, 0)
      /\ \/ /\ mgr' = m /\ pool' = put(L!InUse(None, {}))
            /\ UNCHANGED <<working, wanted, polls, own, passed>>
         \/ mgr' = [m EXCEPT !.valid = FALSE] /\ L!Received(p, put(full))
  BY DEF L!WholePacket, L!SetTimer
<1>2. GoodFrame(f) /\ f.msg \in Message /\ size \in Nat /\ size <= stackFragLen
  BY <1>1, PacketKnown DEF LInv, GoodFrame
<1>3. 0 \in 0..stackTags - 1
  BY FragLenNat
<1>4. /\ m \in Manager /\ p \in L!Slot /\ pool[p] = L!Free /\ Owned(pool, polls, {})
      /\ ~mgr.valid /\ timeouts' \in Seq(0..stackTags - 1) /\ Len(timeouts') <= stackTimeouts
  BY <1>1, <1>2, <1>3, StartsEffect
<1>5. m.valid /\ m.tag = 0 /\ m.slot = p
  BY DEF L!Started
<1>6. ~L!Free.valid
  BY DEF L!Free
<1>7. ASSUME NEW h \in Held, h.valid
      PROVE  /\ Owned(put(h), polls, {p}) /\ put(h)[p] = h
             /\ Complete(pool, polls, passed) => Complete(put(h), polls, passed)
  <2>1. Owned(put(h), polls, {p}) /\ put(h)[p] = h
    BY <1>4, <1>6, <1>7 DEF Owned
  <2>2. Complete(pool, polls, passed) => Complete(put(h), polls, passed)
    BY <1>4, <1>6 DEF Complete, Owned
  <2> QED BY <2>1, <2>2
<1> HIDE DEF p, m, size, put
<1>8. CASE /\ mgr' = m /\ pool' = put(L!InUse(None, {}))
           /\ UNCHANGED <<working, wanted, polls, own, passed>>
  <2>1. L!InUse(None, {}) \in Held /\ L!InUse(None, {}).valid
    BY DEF L!InUse, Held
  <2>2. Reassembling' = {p} /\ Routing' = Routing
    BY <1>5, <1>8 DEF Reassembling, Routing
  <2>3. Owned(pool', polls', Reassembling')
    BY <1>7, <1>8, <2>1, <2>2
  <2>4. WInv => WInv'
    BY <1>5, <1>7, <1>8, <2>1 DEF WInv, Collects
  <2> QED BY <1>4, <1>8, <2>2, <2>3, <2>4 DEF LInv
<1>9. CASE mgr' = [m EXCEPT !.valid = FALSE] /\ L!Received(p, put(full))
  <2>1. full \in Held /\ full.valid /\ full.parts = {<<f.msg, 0>>}
    BY <1>2, PacketKnown DEF L!InUse, Held
  <2>2. AllOrNone(full.parts)
    <3>1. L!Offsets(f.msg) = {0}
      BY <1>2, OneOffset DEF size
    <3>2. <<f.msg, 0>>[1] = f.msg
      OBVIOUS
    <3>3. f.msg \in {u[1] : u \in full.parts}
      BY <2>1, <3>2
    <3>4. full.parts = {<<f.msg, o>> : o \in L!Offsets(f.msg)}
      BY <2>1, <3>1
    <3> QED BY <3>3, <3>4 DEF AllOrNone, L!IsWhole
  <2> HIDE DEF full
  <2>3. mgr' \in Manager /\ ~mgr'.valid
    BY <1>4, <1>9 DEF Manager
  <2>4. /\ Owned(put(full), polls, {p}) /\ put(full)[p] = full
        /\ Complete(pool, polls, passed) => Complete(put(full), polls, passed)
    BY <1>7, <2>1
  <2>5. /\ Owned(pool', polls', {}) /\ Routing'
        /\ Complete(put(full), polls, passed) /\ AllOrNone(put(full)[p].parts)
             => Complete(pool', polls', passed')
    BY <1>4, <1>9, <2>4, ReceivedEffect DEF LInv
  <2>6. Reassembling' = {}
    BY <2>3 DEF Reassembling
  <2>7. WInv => WInv'
    BY <2>2, <2>3, <2>4, <2>5 DEF WInv
  <2> QED BY <1>4, <2>3, <2>5, <2>6, <2>7 DEF LInv
<1> QED BY <1>1, <1>8, <1>9

LEMMA StepLInv == LInv /\ [L!Next]_lVars => LInv' /\ (TagsDiffer /\ WInv => WInv')
<1> SUFFICES ASSUME LInv, [L!Next]_lVars PROVE LInv' /\ (TagsDiffer /\ WInv => WInv')
  OBVIOUS
<1>1. ASSUME NEW n \in stackNeighbour, L!NeighbourSends(n)
      PROVE  LInv' /\ (TagsDiffer /\ WInv => WInv')
  BY <1>1, NeighbourSendsStep
<1>2. ASSUME NEW d \in stackDest, L!UdpSend(d) PROVE LInv' /\ (TagsDiffer /\ WInv => WInv')
  BY <1>2, UdpSendStep
<1>3. ASSUME NEW f \in frames, L!Receive(f) PROVE LInv' /\ (TagsDiffer /\ WInv => WInv')
  BY <1>3, CollectFragmentStep, FirstFragmentStep, WholePacketStep DEF L!Receive
<1>4. ASSUME NEW p \in L!Slot, L!RoutingPolling(p) PROVE LInv' /\ (TagsDiffer /\ WInv => WInv')
  BY <1>4, PollingStep
<1>5. CASE UNCHANGED lVars
  BY <1>5 DEF lVars, LInv, WInv, Reassembling, Routing
<1> QED BY <1>1, <1>2, <1>3, <1>4, <1>5, TimeoutStep, SearchStep DEF L!Next

LEMMA LInvSays ==
  /\ LInv => L!TypeOK /\ L!OneOwner
  /\ WInv => L!Intact
<1>1. LInv => L!TypeOK
  <2> SUFFICES ASSUME LInv PROVE L!TypeOK
    OBVIOUS
  <2>1. ASSUME NEW p \in L!Slot
        PROVE  \/ pool[p] = L!Free
               \/ pool[p].valid /\ pool[p].dst \in stackDest \cup {stackSelf, None}
    <3>1. pool[p] \in Held
      BY DEF LInv, Owned
    <3> QED BY <3>1 DEF Held
  <2>2. /\ mgr.valid \in BOOLEAN /\ mgr.slot \in L!Slot /\ mgr.tag \in 0..stackTags - 1
        /\ {mgr.from, mgr.prevFrom} \subseteq stackNeighbour \cup {None}
    BY DEF LInv, Manager
  <2>3. L!Cardinality(table) <= stackTable
    BY SameCount DEF LInv
  <2> QED BY <2>1, <2>2, <2>3 DEF L!TypeOK, LInv, Routing, Owned
<1>2. LInv => L!OneOwner
  BY DEF LInv, Owned, Reassembling, L!OneOwner
<1>3. WInv => L!Intact
  BY DEF WInv, Complete, AllOrNone, L!Intact
<1> QED BY <1>1, <1>2, <1>3

-----------------------------------------------------------------------------
(***************************************************************************)
(* A list of messages in a buffer or in a frame: successive ones, up to    *)
(* number `most', none ending behind the last.                             *)
(***************************************************************************)
Within(k, list) == \E i \in DOMAIN list : list[i].msg = k

GoodList(most, list) ==
  /\ list \in Seq([msg : 1..most, end : 1..packBuffer])
  /\ \A i \in DOMAIN list : /\ list[i].msg = list[1].msg + i - 1
                            /\ list[i].end <= P!Position(list)

GoesTo(n, list, to) == \A i \in DOMAIN list : packSends[n][list[i].msg].to = to

Buffers == \A n \in Node : /\ GoodList(asked[n], packer[n]) /\ GoesTo(n, packer[n], receiver[n])
                           /\ packer[n] # <<>> => packer[n][Len(packer[n])].msg = asked[n]

Frames == \A f \in pAir : /\ f.from \in Node /\ f.list # <<>> /\ GoodList(asked[f.from], f.list)
                          /\ f.size = P!Position(f.list) /\ GoesTo(f.from, f.list, f.to)

Covered == \A n \in Node : \A k \in 1..asked[n] :
             Within(k, packer[n]) \/ \E f \in pAir : f.from = n /\ Within(k, f.list)

Once == \A f \in pAir : \A k \in Nat : Within(k, f.list) =>
          /\ ~Within(k, packer[f.from])
          /\ \A g \in pAir : g.from = f.from /\ Within(k, g.list) => g.list = f.list

PInv == /\ timed \subseteq Node /\ receiver \in [Node -> Node \cup {All}]
        /\ asked \in [Node -> Nat] /\ \A n \in Node : asked[n] <= Len(packSends[n])
        /\ DOMAIN packer = Node /\ DOMAIN handed = Node
        /\ Buffers /\ Frames /\ Covered /\ Once /\ P!AllUnpacked

LEMMA SeqWider ==
  ASSUME NEW S, NEW T, S \subseteq T, NEW s \in Seq(S)
  PROVE  s \in Seq(T)
OBVIOUS

LEMMA AssumedOfPacking ==
  /\ packBuffer \in 1..255 /\ All \notin Node
  /\ \A n \in Node : /\ packSends[n] \in Seq([to : Node \cup {All}, size : 0..packBuffer - 1])
  /\ packTimers \subseteq SUBSET Node
<1>1. P!PackingAssumption
  BY RadiosAssumption
<1>2. ASSUME NEW n \in Node
      PROVE  packSends[n] \in Seq([to : Node \cup {All}, size : 0..packBuffer - 1])
  <2>1. packSends[n] \in Seq([to : (Node \cup {All}) \ {n}, size : 0..packBuffer - 1])
    BY <1>1 DEF P!PackingAssumption
  <2> DEFINE S == [to : (Node \cup {All}) \ {n}, size : 0..packBuffer - 1]
             T == [to : Node \cup {All}, size : 0..packBuffer - 1]
  <2>2. S \subseteq T
    OBVIOUS
  <2>3. packSends[n] \in Seq(S)
    BY <2>1
  <2> HIDE DEF S, T
  <2>4. packSends[n] \in Seq(T)
    BY <2>2, <2>3, SeqWider
  <2> QED BY <2>4 DEF T
<1> QED BY <1>1, <1>2 DEF P!PackingAssumption

LEMMA MessageSent ==
  ASSUME NEW n \in Node, NEW k \in 1..Len(packSends[n])
  PROVE  packSends[n][k].to \in Node \cup {All} /\ packSends[n][k].size \in 0..packBuffer - 1
<1>1. packSends[n][k] \in [to : Node \cup {All}, size : 0..packBuffer - 1]
  BY AssumedOfPacking, ElementOfSeq
<1> QED BY <1>1

LEMMA InitPInv == P!Init => PInv
<1> SUFFICES ASSUME P!Init PROVE PInv
  OBVIOUS
<1>1. GoodList(0, <<>>)
  BY EmptySeq DEF GoodList
<1>2. Buffers
  BY <1>1 DEF P!Init, Buffers, GoesTo
<1>3. \A n \in Node : asked[n] <= Len(packSends[n]) /\ asked[n] = 0
  BY AssumedOfPacking DEF P!Init
<1> QED BY <1>2, <1>3, AssumedOfPacking
     DEF P!Init, PInv, Frames, Covered, Once, P!AllUnpacked

(***************************************************************************)
(* What append() makes of a list, and what is known of those there were.   *)
(***************************************************************************)
LEMMA ListGrows ==
  ASSUME NEW most \in Nat, NEW more \in Nat, most <= more, NEW list, GoodList(most, list)
  PROVE  GoodList(more, list)
<1> DEFINE S == [msg : 1..most, end : 1..packBuffer]
           T == [msg : 1..more, end : 1..packBuffer]
<1>1. S \subseteq T
  OBVIOUS
<1>2. list \in Seq(S)
  BY DEF GoodList
<1> HIDE DEF S, T
<1>3. list \in Seq(T)
  BY <1>1, <1>2, SeqWider
<1> QED BY <1>3 DEF GoodList, T

LEMMA ListFacts ==
  ASSUME NEW most \in Nat, NEW list, GoodList(most, list)
  PROVE  /\ Len(list) \in Nat /\ DOMAIN list = 1..Len(list)
         /\ \A i \in 1..Len(list) : list[i].msg \in 1..most /\ list[i].end \in 1..packBuffer
         /\ list # <<>> => Len(list) \in 1..Len(list) /\ P!Position(list) = list[Len(list)].end
         /\ P!Position(list) \in Nat
<1>1. Len(list) \in Nat /\ DOMAIN list = 1..Len(list)
  BY LenProperties DEF GoodList
<1>2. ASSUME NEW i \in 1..Len(list)
      PROVE  list[i].msg \in 1..most /\ list[i].end \in 1..packBuffer
  <2>1. list[i] \in [msg : 1..most, end : 1..packBuffer]
    BY <1>2, ElementOfSeq DEF GoodList
  <2> QED BY <2>1
<1>3. list # <<>> => Len(list) \in 1..Len(list)
  <2>1. list # <<>> => Len(list) # 0
    BY EmptySeq DEF GoodList
  <2> QED BY <1>1, <2>1
<1>4. P!Position(list) \in Nat
  BY <1>2, <1>3, AssumedOfPacking DEF P!Position
<1> QED BY <1>1, <1>2, <1>3, <1>4 DEF P!Position

LEMMA AppendGood ==
  ASSUME NEW n \in Node, NEW most \in Nat, NEW k, k = most + 1, k \in 1..Len(packSends[n]),
         NEW list, GoodList(most, list), list # <<>> => list[Len(list)].msg = most,
         P!End(n, k, list) <= packBuffer
  PROVE  /\ GoodList(k, P!Appended(n, k, list))
         /\ P!Appended(n, k, list)[Len(P!Appended(n, k, list))].msg = k
         /\ \A j : Within(j, P!Appended(n, k, list)) <=> Within(j, list) \/ j = k
         /\ \A to : GoesTo(n, list, to) /\ packSends[n][k].to = to
                      => GoesTo(n, P!Appended(n, k, list), to)
<1> DEFINE e == [msg |-> k, end |-> P!End(n, k, list)]
           new == P!Appended(n, k, list)
           T == [msg : 1..k, end : 1..packBuffer]
<1>1. k \in Nat /\ most <= k
  OBVIOUS
<1>2. /\ Len(list) \in Nat /\ DOMAIN list = 1..Len(list)
      /\ \A i \in 1..Len(list) : list[i].msg \in 1..most /\ list[i].end \in 1..packBuffer
      /\ list # <<>> => Len(list) \in 1..Len(list) /\ P!Position(list) = list[Len(list)].end
      /\ P!Position(list) \in Nat
  BY ListFacts
<1>3. packSends[n][k].size \in Nat
  BY MessageSent, AssumedOfPacking
<1>4. /\ P!End(n, k, list) = P!Position(list) + 1 + packSends[n][k].size
      /\ P!End(n, k, list) \in 1..packBuffer /\ P!Position(list) < P!End(n, k, list)
  <2>1. P!End(n, k, list) = P!Position(list) + 1 + packSends[n][k].size
    BY DEF P!End
  <2>2. packBuffer \in Nat /\ P!Position(list) \in Nat
    BY <1>2, AssumedOfPacking
  <2>3. P!End(n, k, list) <= packBuffer
    OBVIOUS
  <2> QED BY <1>3, <2>1, <2>2, <2>3
<1>5. e \in T /\ list \in Seq(T)
  <2>1. k \in 1..k
    BY <1>1
  <2>2. GoodList(k, list)
    BY <1>1, ListGrows
  <2> QED BY <1>4, <2>1, <2>2 DEF GoodList
<1>6. /\ new \in Seq(T) /\ Len(new) = Len(list) + 1 /\ DOMAIN new = 1..Len(list) + 1
      /\ \A i \in 1..Len(list) : new[i] = list[i]
      /\ new[Len(list) + 1] = e /\ new # <<>>
  <2>1. new = Append(list, e)
    BY DEF P!Appended
  <2> HIDE DEF e, new, T
  <2> QED BY <1>5, <2>1, AppendProperties, LenProperties
<1>7. P!Position(new) = P!End(n, k, list)
  BY <1>2, <1>6 DEF P!Position
<1> HIDE DEF new
<1>8. ASSUME NEW i \in DOMAIN new
      PROVE  new[i].msg = new[1].msg + i - 1 /\ new[i].end <= P!Position(new)
  <2>1. CASE i \in 1..Len(list)
    <3>1. /\ list[i].msg = list[1].msg + i - 1 /\ list[i].end <= P!Position(list)
      BY <1>2, <2>1 DEF GoodList
    <3>2. 1 \in 1..Len(list) /\ new[1] = list[1] /\ new[i] = list[i]
      BY <1>2, <1>6, <2>1
    <3> QED BY <1>2, <1>4, <1>7, <2>1, <3>1, <3>2
  <2>2. CASE i = Len(list) + 1 /\ list = <<>>
    <3>1. i = 1 /\ new[1] = e
      BY <1>6, <2>2
    <3> QED BY <1>1, <1>4, <1>7, <3>1
  <2>3. CASE i = Len(list) + 1 /\ list # <<>>
    <3>1. list[Len(list)].msg = list[1].msg + Len(list) - 1 /\ list[Len(list)].msg = most
      BY <1>2, <2>3 DEF GoodList
    <3>2. 1 \in 1..Len(list) /\ new[1] = list[1] /\ new[i] = e /\ list[1].msg \in Nat
      BY <1>2, <1>6, <2>3
    <3>3. new[i].msg = k /\ new[i].end = P!End(n, k, list) /\ P!End(n, k, list) \in Nat
      BY <1>4, <3>2
    <3>4. new[i].end <= P!Position(new)
      BY <1>7, <3>3
    <3>5. new[i].msg = new[1].msg + i - 1
      <4> DEFINE h == list[1].msg
                 len == Len(list)
      <4>1. h \in Nat /\ len \in Nat /\ most = h + len - 1 /\ new[1].msg = h
        BY <1>2, <3>1, <3>2
      <4>2. new[i].msg = most + 1 /\ i = len + 1
        BY <2>3, <3>3
      <4> HIDE DEF h, len
      <4> QED BY <4>1, <4>2
    <3> QED BY <3>4, <3>5
  <2> QED BY <1>2, <1>6, <2>1, <2>2, <2>3
<1>9. GoodList(k, new)
  <2>1. \A i \in DOMAIN new : /\ new[i].msg = new[1].msg + i - 1
                              /\ new[i].end <= P!Position(new)
    BY <1>8
  <2> QED BY <1>6, <2>1 DEF GoodList
<1>10. new[Len(new)].msg = k
  BY <1>6
<1>13. \A i \in DOMAIN new : (i \in DOMAIN list /\ new[i] = list[i]) \/ (new[i].msg = k)
  <2>1. DOMAIN list = 1..Len(list) /\ Len(list) \in Nat /\ e.msg = k
    BY <1>2
  <2>2. DOMAIN new = 1..Len(list) + 1 /\ new[Len(list) + 1] = e
        /\ \A i \in 1..Len(list) : new[i] = list[i]
    BY <1>6
  <2> HIDE DEF e
  <2> QED BY <2>1, <2>2
<1>11. ASSUME NEW j PROVE Within(j, new) <=> Within(j, list) \/ j = k
  <2>2. \A i \in DOMAIN list : i \in DOMAIN new /\ new[i] = list[i]
    BY <1>2, <1>6
  <2>3. Len(list) + 1 \in DOMAIN new /\ new[Len(list) + 1].msg = k
    BY <1>2, <1>6
  <2> QED BY <1>13, <2>2, <2>3 DEF Within
<1>12. ASSUME NEW to, GoesTo(n, list, to), packSends[n][k].to = to PROVE GoesTo(n, new, to)
  BY <1>12, <1>13 DEF GoesTo
<1> QED BY <1>9, <1>10, <1>11, <1>12 DEF new

(***************************************************************************)
(* What flush() leaves in the air.                                         *)
(***************************************************************************)
GoodFlight(f) == /\ f.from \in Node /\ f.list # <<>> /\ GoodList(asked[f.from], f.list)
                 /\ f.size = P!Position(f.list) /\ GoesTo(f.from, f.list, f.to)

LEMMA FlushedGood ==
  ASSUME PInv, NEW n \in Node
  PROVE  /\ pAir \subseteq P!Flushed(n)
         /\ \A f \in P!Flushed(n) : GoodFlight(f)
         /\ \A k \in 1..asked[n] : \E f \in P!Flushed(n) : f.from = n /\ Within(k, f.list)
         /\ \A f \in P!Flushed(n) : \A k \in Nat : Within(k, f.list) =>
              /\ f.from # n => ~Within(k, packer[f.from])
              /\ \A g \in P!Flushed(n) : g.from = f.from /\ Within(k, g.list) => g.list = f.list
<1> DEFINE new == P!Frame(n, packer[n])
<1>1. /\ new.from = n /\ new.list = packer[n] /\ new.to = receiver[n]
      /\ new.size = P!Position(packer[n])
  BY DEF P!Frame
<1>2. P!Flushed(n) = IF packer[n] = <<>> THEN pAir ELSE pAir \cup {new}
  BY DEF P!Flushed, P!Empty
<1> HIDE DEF new
<1>3. \A f \in P!Flushed(n) : GoodFlight(f)
  BY <1>1, <1>2 DEF PInv, Buffers, Frames, GoodFlight
<1>4. ASSUME NEW k \in 1..asked[n] PROVE \E f \in P!Flushed(n) : f.from = n /\ Within(k, f.list)
  <2>1. Within(k, packer[n]) => packer[n] # <<>>
    BY DEF Within
  <2> QED BY <1>1, <1>2, <2>1 DEF PInv, Covered
<1>5. \A f \in P!Flushed(n) : f \in pAir \/ (f.from = n /\ f.list = packer[n])
  BY <1>1, <1>2
<1>6. ASSUME NEW f \in P!Flushed(n), NEW k \in Nat, Within(k, f.list)
      PROVE  /\ f.from # n => ~Within(k, packer[f.from])
             /\ \A g \in P!Flushed(n) : g.from = f.from /\ Within(k, g.list) => g.list = f.list
  BY <1>5, <1>6 DEF PInv, Once
<1> QED BY <1>2, <1>3, <1>4, <1>6

LEMMA FramesOfGood == (\A f \in pAir : GoodFlight(f)) <=> Frames
BY DEF GoodFlight, Frames

LEMMA UnpackedStays ==
  ASSUME P!AllUnpacked, pAir \subseteq pAir', handed' = handed
  PROVE  P!AllUnpacked'
BY DEF P!AllUnpacked, P!Numbers

-----------------------------------------------------------------------------
LEMMA SendFacts ==
  ASSUME PInv, NEW n \in Node, NEW k, k = asked[n] + 1, P!Send(n)
  PROVE  /\ k <= Len(packSends[n]) /\ k \in 1..Len(packSends[n])
         /\ asked' = [asked EXCEPT ![n] = k]
         /\ receiver' = [receiver EXCEPT ![n] = packSends[n][k].to]
         /\ UNCHANGED <<timed, handed>>
         /\ \/ /\ packSends[n][k].to = receiver[n] /\ P!End(n, k, packer[n]) <= packBuffer
               /\ pAir' = pAir
               /\ packer' = [packer EXCEPT ![n] = P!Appended(n, k, packer[n])]
            \/ /\ pAir' = P!Flushed(n)
               /\ packer' = [packer EXCEPT ![n] = P!Appended(n, k, <<>>)]
<1>1. asked[n] \in Nat /\ Len(packSends[n]) \in Nat
  BY LenProperties, AssumedOfPacking DEF PInv
<1>2. k <= Len(packSends[n]) => k \in 1..Len(packSends[n])
  BY <1>1
<1>3. receiver[n] \in Node \cup {All} /\ n \in DOMAIN packer
  BY DEF PInv
<1>5. CASE P!OtherReceiver(n, packSends[n][k].to) \/ ~P!Fits(n, k)
  BY <1>2, <1>3, <1>5 DEF P!Send
<1>6. CASE ~(P!OtherReceiver(n, packSends[n][k].to) \/ ~P!Fits(n, k))
  BY <1>2, <1>3, <1>6 DEF P!Send, P!OtherReceiver, P!Fits
<1> QED BY <1>5, <1>6

LEMMA SendStep == ASSUME PInv, NEW n \in Node, P!Send(n) PROVE PInv'
<1>0. PICK k : k = asked[n] + 1
  OBVIOUS
<1>1. /\ k <= Len(packSends[n]) /\ k \in 1..Len(packSends[n])
      /\ asked' = [asked EXCEPT ![n] = k]
      /\ receiver' = [receiver EXCEPT ![n] = packSends[n][k].to]
      /\ UNCHANGED <<timed, handed>>
      /\ \/ /\ packSends[n][k].to = receiver[n] /\ P!End(n, k, packer[n]) <= packBuffer
            /\ pAir' = pAir
            /\ packer' = [packer EXCEPT ![n] = P!Appended(n, k, packer[n])]
         \/ /\ pAir' = P!Flushed(n)
            /\ packer' = [packer EXCEPT ![n] = P!Appended(n, k, <<>>)]
  BY <1>0, SendFacts
<1>2. asked[n] \in Nat /\ k \in Nat /\ packSends[n][k].to \in Node \cup {All}
  BY <1>0, <1>1, MessageSent DEF PInv
<1>3. \A r \in Node : /\ asked[r] \in Nat /\ asked'[r] \in Nat
                      /\ \A list : GoodList(asked[r], list) => GoodList(asked'[r], list)
  <2>1. \A r \in Node : asked[r] \in Nat /\ asked'[r] \in Nat /\ asked[r] <= asked'[r]
    BY <1>0, <1>1, <1>2 DEF PInv
  <2> QED BY <2>1, ListGrows
<1>4. /\ timed' \subseteq Node /\ receiver' \in [Node -> Node \cup {All}]
      /\ asked' \in [Node -> Nat] /\ \A r \in Node : asked'[r] <= Len(packSends[r])
      /\ DOMAIN packer' = Node /\ DOMAIN handed' = Node
  BY <1>1, <1>2 DEF PInv
<1>5. GoodList(asked[n], <<>>) /\ GoesTo(n, <<>>, packSends[n][k].to) /\ ~\E j : Within(j, <<>>)
  BY EmptySeq DEF GoodList, GoesTo, Within
<1>6. P!End(n, k, <<>>) <= packBuffer
  <2>1. packSends[n][k].size \in 0..packBuffer - 1 /\ packBuffer \in Nat
    <3>1. k \in 1..Len(packSends[n])
      BY <1>1
    <3> QED BY <3>1, MessageSent, AssumedOfPacking
  <2>2. P!End(n, k, <<>>) = 0 + 1 + packSends[n][k].size
    BY DEF P!End, P!Position
  <2> QED BY <2>1, <2>2
<1>7. PICK list : /\ GoodList(asked[n], list) /\ GoesTo(n, list, packSends[n][k].to)
                  /\ P!End(n, k, list) <= packBuffer
                  /\ list # <<>> => list[Len(list)].msg = asked[n]
                  /\ packer' = [packer EXCEPT ![n] = P!Appended(n, k, list)]
                  /\ \/ list = packer[n] /\ pAir' = pAir
                     \/ list = <<>> /\ pAir' = P!Flushed(n)
  <2>1. CASE /\ packSends[n][k].to = receiver[n] /\ P!End(n, k, packer[n]) <= packBuffer
             /\ pAir' = pAir
             /\ packer' = [packer EXCEPT ![n] = P!Appended(n, k, packer[n])]
    <3> WITNESS packer[n]
    <3> QED BY <2>1 DEF PInv, Buffers
  <2>2. CASE /\ pAir' = P!Flushed(n)
             /\ packer' = [packer EXCEPT ![n] = P!Appended(n, k, <<>>)]
    <3> WITNESS <<>>
    <3> QED BY <1>5, <1>6, <2>2
  <2> QED BY <1>1, <2>1, <2>2
<1> DEFINE new == P!Appended(n, k, list)
<1>8. /\ GoodList(k, new) /\ new[Len(new)].msg = k
      /\ \A j : Within(j, new) <=> Within(j, list) \/ j = k
      /\ GoesTo(n, new, packSends[n][k].to)
  <2>1. /\ GoodList(asked[n], list) /\ P!End(n, k, list) <= packBuffer
        /\ list # <<>> => list[Len(list)].msg = asked[n]
    BY <1>7
  <2>2. /\ GoodList(k, P!Appended(n, k, list))
        /\ P!Appended(n, k, list)[Len(P!Appended(n, k, list))].msg = k
        /\ \A j : Within(j, P!Appended(n, k, list)) <=> Within(j, list) \/ j = k
        /\ \A to : GoesTo(n, list, to) /\ packSends[n][k].to = to
                     => GoesTo(n, P!Appended(n, k, list), to)
    <3> DEFINE m == asked[n]
    <3>1. m \in Nat /\ k = m + 1 /\ k \in 1..Len(packSends[n])
      BY <1>0, <1>1, <1>2
    <3>2. GoodList(m, list) /\ P!End(n, k, list) <= packBuffer /\ (list # <<>> => list[Len(list)].msg = m)
      BY <2>1
    <3> HIDE DEF m
    <3> QED BY <3>1, <3>2, AppendGood
  <2> HIDE DEF new
  <2>3. GoesTo(n, list, packSends[n][k].to)
    BY <1>7
  <2> QED BY <2>2, <2>3 DEF new
<1>9. packer'[n] = new /\ \A r \in Node \ {n} : packer'[r] = packer[r]
  BY <1>7 DEF PInv
<1> HIDE DEF new
<1>10. asked'[n] = k /\ \A r \in Node \ {n} : asked'[r] = asked[r] /\ receiver'[r] = receiver[r]
  BY <1>1 DEF PInv
<1>11. Buffers'
  <2> SUFFICES ASSUME NEW r \in Node
               PROVE  /\ GoodList(asked'[r], packer'[r]) /\ GoesTo(r, packer'[r], receiver'[r])
                      /\ packer'[r] # <<>> => packer'[r][Len(packer'[r])].msg = asked'[r]
    BY DEF Buffers
  <2>1. CASE r = n
    <3>1. receiver'[n] = packSends[n][k].to
      BY <1>1 DEF PInv
    <3> QED BY <1>8, <1>9, <1>10, <2>1, <3>1
  <2>2. CASE r # n
    BY <1>9, <1>10, <2>2 DEF PInv, Buffers
  <2> QED BY <2>1, <2>2
<1>12. (\A f \in pAir' : GoodFlight(f)) /\ pAir \subseteq pAir'
  BY <1>7, FlushedGood, FramesOfGood DEF PInv
<1>13. Frames'
  BY <1>3, <1>12 DEF GoodFlight, Frames
<1>14. \A f \in pAir' : \A j \in Nat : Within(j, f.list) => f.from \in Node /\ j \in 1..asked[f.from]
  <2> SUFFICES ASSUME NEW f \in pAir', NEW i \in DOMAIN f.list
               PROVE  f.from \in Node /\ f.list[i].msg \in 1..asked[f.from]
    BY DEF Within
  <2>1. f.from \in Node /\ GoodList(asked[f.from], f.list) /\ asked[f.from] \in Nat
    BY <1>12 DEF GoodFlight, PInv
  <2> QED BY <2>1, ListFacts
<1>15. Covered'
  <2> SUFFICES ASSUME NEW r \in Node, NEW j \in 1..asked'[r]
               PROVE  Within(j, packer'[r]) \/ \E f \in pAir' : f.from = r /\ Within(j, f.list)
    BY DEF Covered
  <2>1. CASE r = n /\ j = k
    BY <1>8, <1>9, <2>1
  <2>2. CASE r = n /\ j # k
    <3>1. j \in 1..asked[n]
      BY <1>0, <1>2, <1>10, <2>2
    <3>2. CASE list = packer[n] /\ pAir' = pAir
      BY <1>8, <1>9, <2>2, <3>1, <3>2 DEF PInv, Covered
    <3>3. CASE list = <<>> /\ pAir' = P!Flushed(n)
      BY <2>2, <3>1, <3>3, FlushedGood
    <3> QED BY <1>7, <3>2, <3>3
  <2>3. CASE r # n
    <3>1. j \in 1..asked[r]
      BY <1>10, <2>3
    <3> QED BY <1>9, <1>12, <2>3, <3>1 DEF PInv, Covered
  <2> QED BY <2>1, <2>2, <2>3
<1>16. Once'
  <2> SUFFICES ASSUME NEW f \in pAir', NEW j \in Nat, Within(j, f.list)
               PROVE  /\ ~Within(j, packer'[f.from])
                      /\ \A g \in pAir' : g.from = f.from /\ Within(j, g.list) => g.list = f.list
    BY DEF Once
  <2>1. f.from \in Node /\ j \in 1..asked[f.from] /\ asked[f.from] \in Nat
    BY <1>14 DEF PInv
  <2>2. f.from = n => j # k
    BY <1>0, <2>1
  <2>3. CASE list = packer[n] /\ pAir' = pAir
    <3>1. ~Within(j, packer[f.from])
      BY <2>3 DEF PInv, Once
    <3>2. ~Within(j, packer'[f.from])
      BY <1>8, <1>9, <2>1, <2>2, <2>3, <3>1
    <3> QED BY <2>3, <3>2 DEF PInv, Once
  <2>4. CASE list = <<>> /\ pAir' = P!Flushed(n)
    <3>1. /\ f.from # n => ~Within(j, packer[f.from])
          /\ \A g \in P!Flushed(n) : g.from = f.from /\ Within(j, g.list) => g.list = f.list
      BY <2>4, FlushedGood
    <3>2. ~Within(j, packer'[f.from])
      BY <1>5, <1>8, <1>9, <2>1, <2>2, <2>4, <3>1
    <3> QED BY <2>4, <3>1, <3>2
  <2> QED BY <1>7, <2>3, <2>4
<1>17. P!AllUnpacked'
  BY <1>1, <1>12, UnpackedStays DEF PInv
<1> QED BY <1>4, <1>11, <1>13, <1>15, <1>16, <1>17 DEF PInv

LEMMA FlushStep == ASSUME PInv, NEW n \in Node, P!Flush(n) PROVE PInv'
<1>1. /\ pAir' = P!Flushed(n) /\ packer' = [packer EXCEPT ![n] = <<>>]
      /\ UNCHANGED <<timed, receiver, asked, handed>>
  <2>1. /\ packer' = [packer EXCEPT ![n] = IF P!Empty(@) THEN @ ELSE <<>>]
        /\ pAir' = P!Flushed(n) /\ UNCHANGED <<timed, receiver, asked, handed>>
    BY DEF P!Flush
  <2> QED BY <2>1 DEF P!Empty
<1>2. packer'[n] = <<>> /\ \A r \in Node \ {n} : packer'[r] = packer[r]
  BY <1>1 DEF PInv
<1>3. GoodList(asked[n], <<>>) /\ GoesTo(n, <<>>, receiver[n]) /\ ~\E j : Within(j, <<>>)
  BY EmptySeq DEF GoodList, GoesTo, Within
<1>4. Buffers'
  <2> SUFFICES ASSUME NEW r \in Node
               PROVE  /\ GoodList(asked'[r], packer'[r]) /\ GoesTo(r, packer'[r], receiver'[r])
                      /\ packer'[r] # <<>> => packer'[r][Len(packer'[r])].msg = asked'[r]
    BY DEF Buffers
  <2>1. CASE r = n
    BY <1>1, <1>2, <1>3, <2>1
  <2>2. CASE r # n
    BY <1>1, <1>2, <2>2 DEF PInv, Buffers
  <2> QED BY <2>1, <2>2
<1>6. Frames'
  BY <1>1, FlushedGood DEF Frames, GoodFlight
<1>7. Covered'
  <2> SUFFICES ASSUME NEW r \in Node, NEW j \in 1..asked[r]
               PROVE  Within(j, packer'[r]) \/ \E f \in pAir' : f.from = r /\ Within(j, f.list)
    BY <1>1 DEF Covered
  <2>1. CASE r = n
    BY <1>1, <2>1, FlushedGood
  <2>2. CASE r # n
    BY <1>1, <1>2, <2>2, FlushedGood DEF PInv, Covered
  <2> QED BY <2>1, <2>2
<1>8. Once'
  <2> SUFFICES ASSUME NEW f \in pAir', NEW j \in Nat, Within(j, f.list)
               PROVE  /\ ~Within(j, packer'[f.from])
                      /\ \A g \in pAir' : g.from = f.from /\ Within(j, g.list) => g.list = f.list
    BY DEF Once
  <2>1. /\ f.from # n => ~Within(j, packer[f.from])
        /\ \A g \in P!Flushed(n) : g.from = f.from /\ Within(j, g.list) => g.list = f.list
        /\ f.from \in Node
    BY <1>1, FlushedGood DEF GoodFlight
  <2> QED BY <1>1, <1>2, <1>3, <2>1
<1>9. P!AllUnpacked'
  BY <1>1, FlushedGood, UnpackedStays DEF PInv
<1> QED BY <1>1, <1>4, <1>6, <1>7, <1>8, <1>9 DEF PInv

LEMMA UnpacksAll ==
  ASSUME PInv, NEW f \in pAir
  PROVE  P!Unpacked(f) = P!Numbers(f.list)
<1> DEFINE read == {k \in 0..Len(f.list) : \A i \in 1..k : P!EndsWithin(f.list[i].end, f)}
<1>1. /\ Len(f.list) \in Nat /\ DOMAIN f.list = 1..Len(f.list)
      /\ \A i \in 1..Len(f.list) : f.list[i].end <= f.size
  <2>1. f.from \in Node /\ GoodList(asked[f.from], f.list) /\ asked[f.from] \in Nat
        /\ f.size = P!Position(f.list)
    BY DEF PInv, Frames
  <2> QED BY <2>1, ListFacts DEF GoodList
<1>2. read = 0..Len(f.list)
  BY <1>1 DEF P!EndsWithin
<1> HIDE DEF read
<1>3. P!Max(read) = Len(f.list)
  BY <1>1, <1>2 DEF P!Max
<1> QED BY <1>1, <1>3 DEF P!Unpacked, P!Numbers, read

LEMMA OnReceiveStep ==
  ASSUME PInv, NEW n \in Node, NEW f \in pAir, P!OnReceive(n, f)
  PROVE  PInv'
<1>1. /\ f.to \in {n, All}
      /\ handed' = [handed EXCEPT ![n] = @ \cup {[from |-> f.from, list |-> P!Numbers(f.list)]}]
      /\ UNCHANGED <<timed, receiver, packer, pAir, asked>>
  BY UnpacksAll DEF P!OnReceive
<1>2. P!AllUnpacked'
  <2> SUFFICES ASSUME NEW r \in Node, NEW h \in handed'[r]
               PROVE  \E g \in pAir : g.from = h.from /\ g.to \in {r, All}
                                      /\ P!Numbers(g.list) = h.list
    BY <1>1 DEF P!AllUnpacked, P!Numbers
  <2>1. CASE h \in handed[r]
    BY <2>1 DEF PInv, P!AllUnpacked
  <2>2. CASE r = n /\ h = [from |-> f.from, list |-> P!Numbers(f.list)]
    BY <1>1, <2>2
  <2> QED BY <1>1, <2>1, <2>2 DEF PInv
<1>3. Buffers' /\ Frames' /\ Covered' /\ Once'
  BY <1>1 DEF PInv, Buffers, Frames, Covered, Once
<1> QED BY <1>1, <1>2, <1>3 DEF PInv

LEMMA StepPInv == PInv /\ [P!Next]_pVars => PInv'
<1> SUFFICES ASSUME PInv, [P!Next]_pVars PROVE PInv'
  OBVIOUS
<1>1. ASSUME NEW n \in Node, P!Send(n) PROVE PInv'
  BY <1>1, SendStep
<1>2. ASSUME NEW n \in Node, P!Flush(n) \/ P!OnTime(n) PROVE PInv'
  BY <1>2, FlushStep DEF P!OnTime
<1>3. ASSUME NEW n \in Node, NEW f \in pAir, P!OnReceive(n, f) PROVE PInv'
  BY <1>3, OnReceiveStep
<1>4. CASE UNCHANGED pVars
  <2>1. P!AllUnpacked'
    BY <1>4, UnpackedStays DEF PInv, pVars
  <2> QED BY <1>4, <2>1 DEF pVars, PInv, Buffers, Frames, Covered, Once
<1> QED BY <1>1, <1>2, <1>3, <1>4 DEF P!Next

LEMMA PInvSays == PInv => P!PackedOnce /\ P!AllUnpacked
<1> SUFFICES ASSUME PInv, NEW n \in Node
             PROVE  LET sentBy == {f \in pAir : f.from = n}
                        lists  == {P!Numbers(f.list) : f \in sentBy}
                                    \cup ({P!Numbers(packer[n])} \ {<<>>})
                    IN /\ \A l \in lists : P!Run(l)
                       /\ \A k \in 1..asked[n] : \E l \in lists :
                            /\ k \in P!ToSet(l)
                            /\ \A m \in lists : k \in P!ToSet(m) => m = l
                       /\ \A f \in sentBy : \A k \in P!ToSet(P!Numbers(f.list)) :
                            packSends[n][k].to = f.to
  BY DEF P!PackedOnce, PInv
<1> DEFINE fs == {f \in pAir : f.from = n}
           lists == {P!Numbers(f.list) : f \in fs} \cup ({P!Numbers(packer[n])} \ {<<>>})
<1>1. asked[n] \in Nat
  BY DEF PInv
<1>2. ASSUME NEW list, GoodList(asked[n], list)
      PROVE  P!Run(P!Numbers(list)) /\ \A k : k \in P!ToSet(P!Numbers(list)) <=> Within(k, list)
  <2>1. DOMAIN P!Numbers(list) = DOMAIN list
        /\ \A i \in DOMAIN list : P!Numbers(list)[i] = list[i].msg
    BY DEF P!Numbers
  <2>2. \A i \in DOMAIN list : 1 \in DOMAIN list
    BY <1>1, <1>2, ListFacts
  <2> HIDE DEF P!Numbers
  <2>3. P!Run(P!Numbers(list))
    BY <1>2, <2>1, <2>2 DEF P!Run, GoodList
  <2>4. \A k : k \in P!ToSet(P!Numbers(list)) <=> Within(k, list)
    BY <2>1 DEF P!ToSet, Within
  <2> QED BY <2>3, <2>4
<1>3. GoodList(asked[n], packer[n]) /\ \A f \in fs : GoodList(asked[n], f.list)
  BY DEF PInv, Buffers, Frames
<1>4. \A l \in lists : P!Run(l)
  BY <1>2, <1>3
<1>5. ASSUME NEW k \in 1..asked[n]
      PROVE  \E l \in lists : /\ k \in P!ToSet(l)
                              /\ \A m \in lists : k \in P!ToSet(m) => m = l
  <2>1. k \in Nat
    OBVIOUS
  <2>2. CASE Within(k, packer[n])
    <3>1. P!Numbers(packer[n]) # <<>>
      BY <2>2 DEF P!Numbers, Within
    <3>2. \A f \in fs : ~Within(k, f.list)
      BY <2>1, <2>2 DEF PInv, Once
    <3>3. P!Numbers(packer[n]) \in lists /\ k \in P!ToSet(P!Numbers(packer[n]))
      BY <1>2, <1>3, <2>2, <3>1
    <3>4. ASSUME NEW m \in lists, k \in P!ToSet(m) PROVE m = P!Numbers(packer[n])
      BY <1>2, <1>3, <3>2, <3>4
    <3> HIDE DEF lists
    <3> QED BY <3>3, <3>4
  <2>3. CASE ~Within(k, packer[n])
    <3>1. PICK f \in fs : Within(k, f.list)
      BY <2>3 DEF PInv, Covered
    <3>2. \A g \in fs : Within(k, g.list) => g.list = f.list
      BY <2>1, <3>1 DEF PInv, Once
    <3>3. P!Numbers(f.list) \in lists /\ k \in P!ToSet(P!Numbers(f.list))
      BY <1>2, <1>3, <3>1
    <3>4. ASSUME NEW m \in lists, k \in P!ToSet(m) PROVE m = P!Numbers(f.list)
      BY <1>2, <1>3, <2>3, <3>2, <3>4
    <3> HIDE DEF lists
    <3> QED BY <3>3, <3>4
  <2> QED BY <2>2, <2>3
<1>6. ASSUME NEW f \in fs, NEW k \in P!ToSet(P!Numbers(f.list)) PROVE packSends[n][k].to = f.to
  <2>1. Within(k, f.list) /\ GoesTo(n, f.list, f.to)
    BY <1>2, <1>3, <1>6 DEF PInv, Frames
  <2> QED BY <2>1 DEF Within, GoesTo
<1> QED BY <1>4, <1>5, <1>6

LEMMA PInvTypes == PInv => P!TypeOK
<1> SUFFICES ASSUME PInv PROVE P!TypeOK
  OBVIOUS
<1>1. ASSUME NEW n \in Node
      PROVE  /\ asked[n] \in 0..Len(packSends[n])
             /\ packer[n] \in P!Seq([msg : 1..asked[n], end : 1..packBuffer])
             /\ \A m \in handed[n] : m.list \in P!Seq(1..asked[m.from])
  <2>1. asked[n] \in 0..Len(packSends[n])
    BY AssumedOfPacking, LenProperties DEF PInv
  <2>2. packer[n] \in Seq([msg : 1..asked[n], end : 1..packBuffer])
    BY DEF PInv, Buffers, GoodList
  <2>3. ASSUME NEW m \in handed[n] PROVE m.list \in Seq(1..asked[m.from])
    <3>1. PICK f \in pAir : f.from = m.from /\ P!Numbers(f.list) = m.list
      BY <2>3 DEF PInv, P!AllUnpacked
    <3>2. GoodList(asked[f.from], f.list) /\ asked[f.from] \in Nat
      BY DEF PInv, Frames
    <3>3. /\ Len(f.list) \in Nat /\ DOMAIN f.list = 1..Len(f.list)
          /\ \A i \in 1..Len(f.list) : f.list[i].msg \in 1..asked[f.from]
      BY <3>2, ListFacts
    <3>4. P!Numbers(f.list) = [i \in 1..Len(f.list) |-> f.list[i].msg]
      BY <3>3 DEF P!Numbers
    <3>5. [i \in 1..Len(f.list) |-> f.list[i].msg] \in Seq(1..asked[f.from])
      BY <3>3, IsASeq
    <3> QED BY <3>1, <3>4, <3>5
  <2> QED BY <2>1, <2>2, <2>3
<1>2. ASSUME NEW f \in pAir PROVE f.size \in 1..packBuffer
  <2>1. GoodList(asked[f.from], f.list) /\ asked[f.from] \in Nat /\ f.list # <<>>
    BY DEF PInv, Frames
  <2>2. f.size = f.list[Len(f.list)].end /\ Len(f.list) \in 1..Len(f.list)
    BY <2>1, ListFacts DEF PInv, Frames
  <2> QED BY <2>1, <2>2, ListFacts
<1> QED BY <1>1, <1>2 DEF P!TypeOK, PInv

-----------------------------------------------------------------------------
LEMMA StackAndPackingRun ==
  /\ PartInit => LInv /\ WInv /\ PInv
  /\ [PartNext]_<<part, cVars, lVars, kVars, pVars, vars>> => [L!Next]_lVars /\ [P!Next]_pVars
<1>1. PartInit => L!Init /\ P!Init
  BY DEF PartInit
<1>2. [PartNext]_<<part, cVars, lVars, kVars, pVars, vars>> => [L!Next]_lVars /\ [P!Next]_pVars
  BY DEF PartNext
<1> QED BY <1>1, <1>2, InitLInv, InitPInv

THEOREM RadiosInvariance == PartSpec => [](LInv /\ PInv /\ (TagsDiffer => WInv))
<1>1. PartInit => LInv /\ PInv /\ (TagsDiffer => WInv)
  BY StackAndPackingRun
<1>2. /\ LInv /\ PInv /\ (TagsDiffer => WInv)
      /\ [PartNext]_<<part, cVars, lVars, kVars, pVars, vars>>
      => (LInv /\ PInv /\ (TagsDiffer => WInv))'
  <2> SUFFICES ASSUME LInv, PInv, TagsDiffer => WInv,
                      [PartNext]_<<part, cVars, lVars, kVars, pVars, vars>>
               PROVE  (LInv /\ PInv /\ (TagsDiffer => WInv))'
    OBVIOUS
  <2>1. [L!Next]_lVars /\ [P!Next]_pVars
    BY StackAndPackingRun
  <2>2. LInv' /\ PInv' /\ (TagsDiffer /\ WInv => WInv')
    BY <2>1, StepLInv, StepPInv
  <2>3. TagsDiffer' = TagsDiffer
    BY DEF TagsDiffer
  <2> QED BY <2>2, <2>3
<1> QED BY <1>1, <1>2, PTL DEF PartSpec

-----------------------------------------------------------------------------
(***************************************************************************)
(* The CoAP service.  First what holds in any use of it.  The place of a   *)
(* message in a list: it is in the list, of the same place, and the newest *)
(* there.                                                                  *)
(***************************************************************************)
LEMMA Greatest ==
  ASSUME NEW k \in Nat, NEW S \in SUBSET (1..k), S # {}
  PROVE  K!Newest(S) \in S /\ \A w \in S : K!Newest(S) >= w
<1> DEFINE T == {k - w : w \in S}
<1>1. T # {} /\ T \subseteq Nat
  OBVIOUS
<1>2. PICK t \in T : \A u \in T : ~(<<u, t>> \in OpToRel(<, Nat))
  BY <1>1, NatLessThanWellFounded, WFMin
<1>3. PICK v \in S : t = k - v
  OBVIOUS
<1>4. ASSUME NEW w \in S PROVE v >= w
  <2>1. w \in 1..k /\ v \in 1..k
    BY <1>3
  <2>2. k - w \in T
    OBVIOUS
  <2>3. k - w \in Nat /\ t \in Nat
    BY <2>1, <1>3
  <2>4. ~(k - w < t)
    BY <1>2, <2>2, <2>3 DEF OpToRel
  <2> HIDE DEF T
  <2> QED BY <1>3, <2>1, <2>4
<1>5. K!Newest(S) = CHOOSE v1 \in S : \A w \in S : v1 >= w
  BY DEF K!Newest, K!Max
<1> QED BY <1>3, <1>4, <1>5

LEMMA PlaceFacts ==
  ASSUME NEW list, NEW most \in Nat \ {0}, Len(list) \in Nat, DOMAIN list = 1..Len(list),
         NEW i \in DOMAIN list
  PROVE  LET j == K!At(list, most, i)
         IN j \in DOMAIN list /\ j % most = i % most /\ j >= i
            /\ \A v \in DOMAIN list : v % most = i % most => j >= v
<1> DEFINE S == {v \in DOMAIN list : v % most = i % most}
<1>1. S \in SUBSET (1..Len(list)) /\ i \in S
  OBVIOUS
<1>2. K!Newest(S) \in S /\ \A w \in S : K!Newest(S) >= w
  BY <1>1, Greatest
<1>3. K!At(list, most, i) = K!Newest(S)
  BY DEF K!At
<1> QED BY <1>1, <1>2, <1>3

(***************************************************************************)
(* Numbers of the same place are as far apart as the list is long.         *)
(***************************************************************************)
LEMMA Divided ==
  ASSUME NEW most \in Nat \ {0}, NEW i \in Nat
  PROVE  i = most * (i \div most) + (i % most) /\ i \div most \in Nat /\ i % most \in Nat
<1>1. i % most \in Nat
  OBVIOUS
<1>2. i \div most \in Int
  OBVIOUS
<1>5. i % most < most
  <2>1. most > 0 /\ most \in Int
    OBVIOUS
  <2>2. i % most \in 0..(most - 1)
    BY <2>1
  <2> QED BY <2>1, <2>2
<1>3. i = most * (i \div most) + (i % most)
  OBVIOUS
<1> DEFINE u == i \div most
<1> HIDE DEF u
<1>4. u >= 0
  <2> SUFFICES ASSUME u < 0 PROVE FALSE
    BY <1>2 DEF u
  <2>1. PICK k \in Nat : u = (-1) - k
    <3>1. u \in Int /\ (-1) - u \in Nat
      BY <1>2 DEF u
    <3> QED BY <3>1
  <2>2. most * u = (-most) - most * k /\ most * k \in Nat
    BY <2>1
  <2> QED BY <1>1, <1>2, <1>5, <1>3, <2>2 DEF u
<1> QED BY <1>1, <1>2, <1>3, <1>4 DEF u

LEMMA SamePlace ==
  ASSUME NEW most \in Nat \ {0}, NEW i \in Nat, NEW j \in Nat, i < j, i % most = j % most
  PROVE  i + most <= j
<1> DEFINE u == i \div most
           v == j \div most
           rest == i % most
<1>1. i = most * u + rest /\ j = most * v + rest /\ u \in Nat /\ v \in Nat /\ rest \in Nat
  BY Divided
<1> HIDE DEF u, v, rest
<1>2. u < v
  <2> SUFFICES ASSUME v <= u PROVE FALSE
    BY <1>1
  <2>1. PICK k \in Nat : u = v + k
    BY <1>1
  <2>2. most * u = most * v + most * k
    BY <1>1, <2>1
  <2>3. most * k \in Nat
    BY <2>1
  <2> QED BY <1>1, <2>2, <2>3
<1>3. PICK k \in Nat : v = u + 1 + k
  BY <1>1, <1>2
<1>4. most * v = most * u + most + most * k /\ most * k \in Nat
  BY <1>1, <1>3
<1> QED BY <1>1, <1>4

LEMMA FoundFacts ==
  ASSUME NEW list, Len(list) \in Nat, DOMAIN list = 1..Len(list), NEW p, NEW u, NEW most
  PROVE  /\ LET r == K!ById(list, most, p, u)
            IN \/ /\ r = 0
                  /\ \A i \in K!Kept(list, most) : ~(list[i].peer = p /\ list[i].msg.id = u)
               \/ /\ r \in K!Kept(list, most)
                  /\ list[r].peer = p /\ list[r].msg.id = u
         /\ LET r == K!ByToken(list, most, p, u)
            IN r = 0 \/ (/\ r \in K!Kept(list, most)
                         /\ list[r].peer = p /\ list[r].msg.token = u)
<1>1. K!Kept(list, most) \in SUBSET (1..Len(list))
  BY DEF K!Kept
<1>2. ASSUME NEW S \in SUBSET (1..Len(list))
      PROVE  K!Newest(S) \in S \/ (S = {} /\ K!Newest(S) = 0)
  <2>1. CASE S = {}
    BY <2>1 DEF K!Newest
  <2>2. CASE S # {}
    <3>1. K!Newest(S) \in S
      BY <2>2, Greatest
    <3> QED BY <3>1
  <2> QED BY <2>1, <2>2
<1> DEFINE S == {i \in K!Kept(list, most) : list[i].peer = p /\ list[i].msg.id = u}
           T == {i \in K!Kept(list, most) : list[i].peer = p /\ list[i].msg.token = u}
<1>3. S \in SUBSET (1..Len(list)) /\ T \in SUBSET (1..Len(list))
  BY <1>1
<1>4. K!ById(list, most, p, u) = K!Newest(S) /\ K!ByToken(list, most, p, u) = K!Newest(T)
  BY DEF K!ById, K!ByToken
<1> QED BY <1>2, <1>3, <1>4

-----------------------------------------------------------------------------
(***************************************************************************)
(* What the lists, the timers and the air hold, in any use.                *)
(***************************************************************************)
Token == K!Call \cup {<<>>}

Mail == [type : {"CON", "NON", "ACK", "RST"}, id : Nat, token : Token,
         code : {"request", "response", "empty"}, body : Token]

SentEntry == [peer : Node, msg : Mail, retries : Nat, acked : BOOLEAN, answered : BOOLEAN]

GotEntry == [peer : Node, msg : Mail, ack : Nat, response : Nat]

SentShape ==
  /\ kSent \in [Node -> Seq(SentEntry)] /\ resend \in [Node -> SUBSET Nat]
  /\ \A n \in Node : resend[n] \subseteq {i \in DOMAIN kSent[n] : kSent[n][i].msg.type = "CON"}
  /\ ids \in [Node -> Nat]
  /\ kAir \subseteq [from : Node, to : Node, msg : Mail]

GotShape ==
  /\ received \in [Node -> Seq(GotEntry)]
  /\ \A n \in Node : \A i \in DOMAIN received[n] :
       /\ received[n][i].ack \in 0..Len(kSent[n])
       /\ received[n][i].response \in 0..Len(kSent[n])

DueShape ==
  /\ due \in [Node -> SUBSET Nat] /\ kOpen \in [Node -> SUBSET Nat]
  /\ \A n \in Node :
       /\ Len(received[n]) <= coapReceived
       /\ due[n] \cup kOpen[n] \subseteq
            {i \in DOMAIN received[n] : received[n][i].msg.code = "request"}

KShape == /\ setup \in coapSetups
          /\ SentShape /\ GotShape /\ DueShape
          /\ executed \in [K!Call -> Nat] /\ answers \in [K!Call -> Seq(Token)]

SameMail(l, k) == /\ Len(k) = Len(l)
              /\ \A i \in DOMAIN l : k[i].peer = l[i].peer /\ k[i].msg = l[i].msg

Longer(l, k, p, m) ==
  /\ Len(k) = Len(l) + 1
  /\ \A i \in DOMAIN l : k[i].peer = l[i].peer /\ k[i].msg = l[i].msg
  /\ k[Len(k)].peer = p /\ k[Len(k)].msg = m

LEMMA SequenceFacts ==
  ASSUME NEW S, NEW l \in Seq(S)
  PROVE  Len(l) \in Nat /\ DOMAIN l = 1..Len(l) /\ \A i \in DOMAIN l : l[i] \in S
OBVIOUS

LEMMA SendingFacts ==
  ASSUME NEW l \in Seq(SentEntry), NEW p \in Node, NEW m \in Mail
  PROVE  K!Sending(l, p, m) \in Seq(SentEntry) /\ Longer(l, K!Sending(l, p, m), p, m)
<1> DEFINE e == [peer |-> p, msg |-> m, retries |-> 0, acked |-> FALSE, answered |-> FALSE]
<1>1. e \in SentEntry
  BY DEF SentEntry
<1>2. K!Sending(l, p, m) = Append(l, e)
  BY DEF K!Sending
<1> HIDE DEF e
<1>3. /\ Append(l, e) \in Seq(SentEntry) /\ Len(Append(l, e)) = Len(l) + 1
      /\ \A i \in 1..Len(l) : Append(l, e)[i] = l[i]
      /\ Append(l, e)[Len(l) + 1] = e
  BY <1>1, AppendProperties
<1>4. e.peer = p /\ e.msg = m
  BY DEF e
<1> QED BY <1>2, <1>3, <1>4, SequenceFacts DEF Longer

LEMMA ReceivingFacts ==
  ASSUME NEW n \in Node, received[n] \in Seq(GotEntry), NEW f, f.from \in Node, f.msg \in Mail
  PROVE  /\ K!Receiving(n, f) \in Seq(GotEntry)
         /\ Longer(received[n], K!Receiving(n, f), f.from, f.msg)
         /\ \A i \in DOMAIN received[n] : K!Receiving(n, f)[i] = received[n][i]
         /\ LET e == K!Receiving(n, f)[Len(received[n]) + 1] IN e.ack = 0 /\ e.response = 0
<1> DEFINE e == [peer |-> f.from, msg |-> f.msg, ack |-> 0, response |-> 0]
<1>1. e \in GotEntry
  BY DEF GotEntry
<1>2. K!Receiving(n, f) = Append(received[n], e)
  BY DEF K!Receiving
<1> HIDE DEF e
<1>3. /\ Append(received[n], e) \in Seq(GotEntry)
      /\ Len(Append(received[n], e)) = Len(received[n]) + 1
      /\ \A i \in 1..Len(received[n]) : Append(received[n], e)[i] = received[n][i]
      /\ Append(received[n], e)[Len(received[n]) + 1] = e
  BY <1>1, AppendProperties
<1>4. e.peer = f.from /\ e.msg = f.msg /\ e.ack = 0 /\ e.response = 0
  BY DEF e
<1> QED BY <1>2, <1>3, <1>4, SequenceFacts DEF Longer

LEMMA SentMarks ==
  ASSUME NEW l \in Seq(SentEntry), NEW j \in DOMAIN l
  PROVE  /\ LET k == [l EXCEPT ![j].acked = TRUE] IN k \in Seq(SentEntry) /\ SameMail(l, k)
         /\ LET k == [l EXCEPT ![j].answered = TRUE] IN k \in Seq(SentEntry) /\ SameMail(l, k)
         /\ LET k == [l EXCEPT ![j].retries = @ + 1] IN k \in Seq(SentEntry) /\ SameMail(l, k)
<1> DEFINE d == [l[j] EXCEPT !.acked = TRUE]
           e == [l[j] EXCEPT !.answered = TRUE]
           g == [l[j] EXCEPT !.retries = @ + 1]
<1>1. Len(l) \in Nat /\ DOMAIN l = 1..Len(l) /\ l[j] \in SentEntry
  BY SequenceFacts
<1>5. l[j] \in [peer : Node, msg : Mail, retries : Nat, acked : BOOLEAN, answered : BOOLEAN]
  BY <1>1 DEF SentEntry
<1>6. l[j].retries + 1 \in Nat
  BY <1>5
<1>7. d \in SentEntry /\ d.peer = l[j].peer /\ d.msg = l[j].msg
  BY <1>5 DEF SentEntry
<1>8. e \in SentEntry /\ e.peer = l[j].peer /\ e.msg = l[j].msg
  BY <1>5 DEF SentEntry
<1>9. g \in SentEntry /\ g.peer = l[j].peer /\ g.msg = l[j].msg
  BY <1>5, <1>6 DEF SentEntry
<1>3. ASSUME NEW h \in SentEntry, h.peer = l[j].peer, h.msg = l[j].msg
      PROVE  [l EXCEPT ![j] = h] \in Seq(SentEntry) /\ SameMail(l, [l EXCEPT ![j] = h])
  BY <1>1, <1>3, ExceptSeq DEF SameMail
<1>4. /\ [l EXCEPT ![j].acked = TRUE] = [l EXCEPT ![j] = d]
      /\ [l EXCEPT ![j].answered = TRUE] = [l EXCEPT ![j] = e]
      /\ [l EXCEPT ![j].retries = @ + 1] = [l EXCEPT ![j] = g]
  OBVIOUS
<1> HIDE DEF d, e, g
<1> QED BY <1>7, <1>8, <1>9, <1>3, <1>4

PointsIn(l, most) == \A i \in DOMAIN l : l[i].ack \in 0..most /\ l[i].response \in 0..most

LEMMA GotMarks ==
  ASSUME NEW l \in Seq(GotEntry), NEW j \in DOMAIN l, NEW most \in Nat, NEW v \in 0..most,
         PointsIn(l, most)
  PROVE  /\ LET k == [l EXCEPT ![j].ack = v]
            IN k \in Seq(GotEntry) /\ SameMail(l, k) /\ PointsIn(k, most)
         /\ LET k == [l EXCEPT ![j].response = v]
            IN k \in Seq(GotEntry) /\ SameMail(l, k) /\ PointsIn(k, most)
         /\ LET k == [l EXCEPT ![j].ack = v, ![j].response = v]
            IN k \in Seq(GotEntry) /\ SameMail(l, k) /\ PointsIn(k, most)
<1> DEFINE d == [l[j] EXCEPT !.ack = v]
           e == [l[j] EXCEPT !.response = v]
           g == [l[j] EXCEPT !.ack = v, !.response = v]
<1>1. Len(l) \in Nat /\ DOMAIN l = 1..Len(l) /\ l[j] \in GotEntry
  BY SequenceFacts
<1>5. \A i \in 0..most : i \in Nat
  OBVIOUS
<1>6. l[j].ack \in 0..most /\ l[j].response \in 0..most
  BY DEF PointsIn
<1>2. /\ d \in GotEntry /\ d.peer = l[j].peer /\ d.msg = l[j].msg
      /\ d.ack \in 0..most /\ d.response \in 0..most
      /\ e \in GotEntry /\ e.peer = l[j].peer /\ e.msg = l[j].msg
      /\ e.ack \in 0..most /\ e.response \in 0..most
      /\ g \in GotEntry /\ g.peer = l[j].peer /\ g.msg = l[j].msg
      /\ g.ack \in 0..most /\ g.response \in 0..most
  BY <1>1, <1>5, <1>6 DEF GotEntry
<1>3. ASSUME NEW h \in GotEntry, h.peer = l[j].peer, h.msg = l[j].msg,
             h.ack \in 0..most, h.response \in 0..most
      PROVE  /\ [l EXCEPT ![j] = h] \in Seq(GotEntry) /\ SameMail(l, [l EXCEPT ![j] = h])
             /\ PointsIn([l EXCEPT ![j] = h], most)
  BY <1>1, <1>3, ExceptSeq DEF SameMail, PointsIn
<1>4. /\ [l EXCEPT ![j].ack = v] = [l EXCEPT ![j] = d]
      /\ [l EXCEPT ![j].response = v] = [l EXCEPT ![j] = e]
      /\ [l EXCEPT ![j].ack = v, ![j].response = v] = [l EXCEPT ![j] = g]
  OBVIOUS
<1> HIDE DEF d, e, g
<1> QED BY <1>2, <1>3, <1>4

LEMMA Setting ==
  ASSUME setup \in coapSetups
  PROVE  /\ setup.receivedSize \in Nat \ {0} /\ setup.sentSize \in Nat \ {0}
         /\ setup.requests \in [Node -> Seq([to : Node, type : {"CON", "NON"}])]
         /\ setup.firstId \in [Node -> Nat] /\ coapReceived \in Nat /\ coapCalls \in Nat
         /\ \A n \in Node : /\ Len(setup.requests[n]) <= coapCalls
                            /\ \A k \in DOMAIN setup.requests[n] : setup.requests[n][k].to # n
<1>1. setup \in K!Setup /\ coapReceived \in Nat /\ coapCalls \in Nat
  BY RadiosAssumption DEF K!CoapAssumption
<1>2. \A n \in Node : /\ Len(setup.requests[n]) <= coapCalls
                      /\ \A k \in DOMAIN setup.requests[n] : setup.requests[n][k].to # n
  BY RadiosAssumption DEF K!CoapAssumption
<1> QED BY <1>1, <1>2 DEF K!Setup

Airs == [from : Node, to : Node, msg : Mail]

LEMMA SendAsIsFacts ==
  ASSUME SentShape, NEW n \in Node, NEW p \in Node, NEW m \in Mail, NEW rest \in SUBSET Airs,
         K!SendAsIs(n, p, m, rest), ids' \in [Node -> Nat]
  PROVE  /\ SentShape'
         /\ kSent' = [kSent EXCEPT ![n] = K!Sending(kSent[n], p, m)]
         /\ Longer(kSent[n], kSent'[n], p, m)
         /\ \A q \in Node \ {n} : kSent'[q] = kSent[q]
         /\ kAir' = rest \cup {K!Frame(n, p, m)}
<1>1. kSent' = [kSent EXCEPT ![n] = K!Sending(kSent[n], p, m)]
  BY DEF K!SendAsIs
<1>2. /\ K!Sending(kSent[n], p, m) \in Seq(SentEntry)
      /\ Longer(kSent[n], K!Sending(kSent[n], p, m), p, m)
  BY SendingFacts DEF SentShape
<1>3. kSent' \in [Node -> Seq(SentEntry)] /\ kSent'[n] = K!Sending(kSent[n], p, m)
  BY <1>1, <1>2 DEF SentShape
<1>4. \A q \in Node \ {n} : kSent'[q] = kSent[q]
  BY <1>1 DEF SentShape
<1>5. resend' = [resend EXCEPT ![n] = IF m.type = "CON" THEN @ \cup {Len(kSent[n]) + 1} ELSE @]
  BY DEF K!SendAsIs
<1>6. /\ Len(kSent[n]) \in Nat /\ DOMAIN kSent[n] = 1..Len(kSent[n])
      /\ DOMAIN kSent'[n] = 1..Len(kSent'[n]) /\ Len(kSent'[n]) = Len(kSent[n]) + 1
  BY <1>2, <1>3, SequenceFacts DEF SentShape, Longer
<1>7. resend' \in [Node -> SUBSET Nat]
  BY <1>5, <1>6 DEF SentShape
<1>8. ASSUME NEW q \in Node
      PROVE  resend'[q] \subseteq {i \in DOMAIN kSent'[q] : kSent'[q][i].msg.type = "CON"}
  <2>1. CASE q # n
    BY <2>1, <1>4, <1>5 DEF SentShape
  <2>2. CASE q = n
    <3>1. ASSUME NEW i \in resend[n] PROVE i \in DOMAIN kSent'[n] /\ kSent'[n][i].msg.type = "CON"
      <4>1. i \in DOMAIN kSent[n] /\ kSent[n][i].msg.type = "CON"
        BY DEF SentShape
      <4>2. kSent'[n][i].msg = kSent[n][i].msg
        BY <1>2, <1>3, <4>1 DEF Longer
      <4> QED BY <1>6, <4>1, <4>2
    <3>2. ASSUME m.type = "CON"
          PROVE  Len(kSent[n]) + 1 \in DOMAIN kSent'[n]
                 /\ kSent'[n][Len(kSent[n]) + 1].msg.type = "CON"
      BY <1>2, <1>3, <1>6, <3>2 DEF Longer
    <3> QED BY <2>2, <3>1, <3>2, <1>5 DEF SentShape
  <2> QED BY <2>1, <2>2
<1>9. kAir' = rest \cup {K!Frame(n, p, m)} /\ K!Frame(n, p, m) \in Airs
  BY DEF K!SendAsIs, K!Frame, Airs
<1> QED BY <1>1, <1>2, <1>3, <1>4, <1>7, <1>8, <1>9 DEF SentShape, Airs

LEMMA OthersPoint ==
  ASSUME GotShape, SentShape, SentShape', NEW n \in Node, received' \in [Node -> Seq(GotEntry)],
         \A q \in Node \ {n} : kSent'[q] = kSent[q] /\ received'[q] = received[q],
         PointsIn(received'[n], Len(kSent'[n]))
  PROVE  GotShape'
BY DEF GotShape, PointsIn

LEMMA ReplyFacts ==
  ASSUME setup \in coapSetups, SentShape, GotShape, NEW n \in Node,
         NEW got \in Seq(GotEntry), PointsIn(got, Len(kSent[n])),
         NEW i \in DOMAIN got, NEW body \in Token, NEW rest \in SUBSET Airs,
         K!Reply(n, got, i, body, rest)
  PROVE  LET q == got[K!At(got, setup.receivedSize, i)]
         IN /\ SentShape' /\ GotShape'
            /\ SameMail(got, received'[n])
            /\ \A p \in Node \ {n} :
                 kSent'[p] = kSent[p] /\ received'[p] = received[p] /\ ids'[p] = ids[p]
            /\ \/ kSent' = kSent /\ ids' = ids /\ kAir' = rest
               \/ \E m \in Mail :
                    /\ Longer(kSent[n], kSent'[n], q.peer, m)
                    /\ kAir' = rest \cup {K!Frame(n, q.peer, m)}
                    /\ q.msg.type \in {"CON", "NON"} /\ m.code = "response"
                    /\ m.token = q.msg.token /\ m.body = body
                    /\ \/ m.type = "ACK" /\ ids' = ids
                       \/ m.type # "ACK" /\ m.type # "RST" /\ m.id = ids[n] /\ ids'[n] = ids[n] + 1
<1> DEFINE j == K!At(got, setup.receivedSize, i)
           q == got[j]
           next1 == Len(kSent[n]) + 1
<1>1. j \in DOMAIN got /\ q \in GotEntry
  BY Setting, PlaceFacts, SequenceFacts
<1>2. q.peer \in Node /\ q.msg \in Mail
  BY <1>1 DEF GotEntry
<1>3. Len(kSent[n]) \in Nat /\ kSent[n] \in Seq(SentEntry)
  BY SequenceFacts DEF SentShape
<1>4. received \in [Node -> Seq(GotEntry)] /\ ids \in [Node -> Nat]
  BY DEF GotShape, SentShape
<1>5. PointsIn(got, next1) /\ next1 \in Nat /\ next1 \in 0..next1
  <2>1. ASSUME NEW v \in DOMAIN got PROVE got[v].ack \in 0..next1 /\ got[v].response \in 0..next1
    BY <1>3 DEF PointsIn
  <2> QED BY <2>1, <1>3 DEF PointsIn
<1>6. CASE q.msg.type \notin {"CON", "NON"}
  <2>1. /\ received' = [received EXCEPT ![n] = got] /\ kAir' = rest
        /\ kSent' = kSent /\ resend' = resend /\ ids' = ids
    BY <1>6 DEF K!Reply, K!SendNothing
  <2>2. SentShape' /\ received' \in [Node -> Seq(GotEntry)] /\ received'[n] = got
    BY <2>1, <1>4 DEF SentShape, Airs
  <2>3. SameMail(got, got)
    BY DEF SameMail
  <2>4. \A p \in Node \ {n} : kSent'[p] = kSent[p] /\ received'[p] = received[p]
    BY <2>1, <1>4
  <2>5. GotShape'
    BY <2>1, <2>2, <2>4, OthersPoint
  <2> QED BY <2>1, <2>2, <2>3, <2>4, <2>5
<1>7. CASE q.msg.type \in {"CON", "NON"} /\ K!Piggybacked(q)
  <2> DEFINE m == K!Message("ACK", q.msg.id, q.msg.token, "response", body)
             k == [got EXCEPT ![j].ack = next1, ![j].response = next1]
  <2>1. /\ K!SendAsIs(n, q.peer, m, rest) /\ ids' = ids
        /\ received' = [received EXCEPT ![n] = k]
    BY <1>7 DEF K!Reply
  <2>2. /\ m \in Mail /\ m.code = "response" /\ m.token = q.msg.token /\ m.body = body
        /\ m.type = "ACK"
    BY <1>2 DEF Mail, K!Message
  <2>3. k \in Seq(GotEntry) /\ SameMail(got, k) /\ PointsIn(k, next1)
    BY <1>1, <1>5, GotMarks
  <2> HIDE DEF m, k
  <2>4. /\ SentShape' /\ Longer(kSent[n], kSent'[n], q.peer, m)
        /\ \A p \in Node \ {n} : kSent'[p] = kSent[p]
        /\ kAir' = rest \cup {K!Frame(n, q.peer, m)}
    BY <1>2, <1>4, <2>1, <2>2, SendAsIsFacts
  <2>5. /\ received' \in [Node -> Seq(GotEntry)] /\ received'[n] = k
        /\ \A p \in Node \ {n} : received'[p] = received[p]
    BY <1>4, <2>1, <2>3
  <2>6. Len(kSent'[n]) = next1
    BY <2>4 DEF Longer
  <2>7. GotShape'
    BY <2>3, <2>4, <2>5, <2>6, OthersPoint
  <2> QED BY <1>7, <2>1, <2>2, <2>3, <2>4, <2>5, <2>7
<1>8. CASE q.msg.type \in {"CON", "NON"} /\ ~K!Piggybacked(q)
  <2> DEFINE m == K!Message(q.msg.type, ids[n], q.msg.token, "response", body)
             k == [got EXCEPT ![j].response = next1]
  <2>1. /\ K!SendAsIs(n, q.peer, m, rest) /\ ids' = [ids EXCEPT ![n] = @ + 1]
        /\ received' = [received EXCEPT ![n] = k]
    BY <1>8 DEF K!Reply
  <2>2. /\ m \in Mail /\ m.code = "response" /\ m.token = q.msg.token /\ m.body = body
        /\ m.type # "ACK" /\ m.type # "RST" /\ m.id = ids[n]
    BY <1>2, <1>4, <1>8 DEF Mail, K!Message
  <2>3. k \in Seq(GotEntry) /\ SameMail(got, k) /\ PointsIn(k, next1)
    BY <1>1, <1>5, GotMarks
  <2> HIDE DEF m, k
  <2>4. ids' \in [Node -> Nat] /\ ids'[n] = ids[n] + 1 /\ \A p \in Node \ {n} : ids'[p] = ids[p]
    BY <1>4, <2>1
  <2>5. /\ SentShape' /\ Longer(kSent[n], kSent'[n], q.peer, m)
        /\ \A p \in Node \ {n} : kSent'[p] = kSent[p]
        /\ kAir' = rest \cup {K!Frame(n, q.peer, m)}
    BY <1>2, <2>1, <2>2, <2>4, SendAsIsFacts
  <2>6. /\ received' \in [Node -> Seq(GotEntry)] /\ received'[n] = k
        /\ \A p \in Node \ {n} : received'[p] = received[p]
    BY <1>4, <2>1, <2>3
  <2>7. Len(kSent'[n]) = next1
    BY <2>5 DEF Longer
  <2>8. GotShape'
    BY <2>3, <2>5, <2>6, <2>7, OthersPoint
  <2> QED BY <1>8, <2>2, <2>3, <2>4, <2>5, <2>6, <2>8
<1> QED BY <1>6, <1>7, <1>8

-----------------------------------------------------------------------------
(***************************************************************************)
(* What a step of node n leaves alone, and what it puts into the air: a    *)
(* message it has sent before or sends now, to a node of its lists.        *)
(***************************************************************************)
Says(l, m) == \E i \in DOMAIN l : l[i].msg = m

Meets(l, p) == \E i \in DOMAIN l : l[i].peer = p

OthersStay(n) == \A p \in Node \ {n} : /\ kSent'[p] = kSent[p] /\ received'[p] = received[p]
                                       /\ ids'[p] = ids[p] /\ kOpen'[p] = kOpen[p]

AirFrom(n) == \A f \in kAir' : f \in kAir \/ (/\ f.from = n /\ Says(kSent'[n], f.msg)
                                              /\ Meets(kSent'[n], f.to) \/ Meets(received'[n], f.to))

Turn(n) == KShape' /\ setup' = setup /\ OthersStay(n) /\ AirFrom(n)

LEMMA NowLonger ==
  ASSUME NEW S, NEW T, NEW l \in Seq(S), NEW k \in Seq(T), NEW p, NEW m, Longer(l, k, p, m)
  PROVE  /\ Says(k, m) /\ Meets(k, p) /\ Len(k) \in DOMAIN k /\ DOMAIN l \subseteq DOMAIN k
         /\ DOMAIN k = DOMAIN l \cup {Len(l) + 1} /\ Len(k) = Len(l) + 1
BY SequenceFacts DEF Longer, Says, Meets

LEMMA LongerThenSame ==
  ASSUME NEW S, NEW l \in Seq(S), NEW g \in Seq(S), NEW k \in Seq(S), NEW p, NEW m,
         Longer(l, g, p, m), SameMail(g, k)
  PROVE  Longer(l, k, p, m)
<1>1. /\ Len(l) \in Nat /\ DOMAIN l = 1..Len(l) /\ DOMAIN g = 1..Len(g)
      /\ Len(g) = Len(l) + 1 /\ Len(k) = Len(g)
  BY SequenceFacts DEF SameMail, Longer
<1>2. Len(g) \in DOMAIN g /\ \A i \in DOMAIN l : i \in DOMAIN g
  BY <1>1
<1> QED BY <1>1, <1>2 DEF Longer, SameMail

LEMMA SentStays ==
  ASSUME SentShape, NEW n \in Node, kSent' \in [Node -> Seq(SentEntry)],
         \/ SameMail(kSent[n], kSent'[n])
         \/ \E p, m : Longer(kSent[n], kSent'[n], p, m),
         \A q \in Node \ {n} : kSent'[q] = kSent[q],
         resend' \in [Node -> SUBSET Nat], \A q \in Node : resend'[q] \subseteq resend[q],
         ids' \in [Node -> Nat], kAir' \subseteq Airs
  PROVE  SentShape'
<1>1. ASSUME NEW q \in Node
      PROVE  resend'[q] \subseteq {i \in DOMAIN kSent'[q] : kSent'[q][i].msg.type = "CON"}
  <2>1. CASE q # n
    BY <2>1 DEF SentShape
  <2>2. CASE q = n
    <3> SUFFICES ASSUME NEW i \in resend[n]
                 PROVE  i \in DOMAIN kSent'[n] /\ kSent'[n][i].msg.type = "CON"
      BY <2>2
    <3>1. i \in DOMAIN kSent[n] /\ kSent[n][i].msg.type = "CON"
      BY DEF SentShape
    <3>2. DOMAIN kSent[n] = 1..Len(kSent[n]) /\ DOMAIN kSent'[n] = 1..Len(kSent'[n])
      BY SequenceFacts DEF SentShape
    <3>3. Len(kSent[n]) \in Nat /\ Len(kSent'[n]) \in Nat
      BY SequenceFacts DEF SentShape
    <3>4. Len(kSent'[n]) >= Len(kSent[n]) /\ kSent'[n][i].msg = kSent[n][i].msg
      BY <3>1, <3>3 DEF SameMail, Longer
    <3> QED BY <3>1, <3>2, <3>3, <3>4
  <2> QED BY <2>1, <2>2
<1> QED BY <1>1 DEF SentShape, Airs

LEMMA DueStays ==
  ASSUME DueShape, GotShape, GotShape', NEW n \in Node,
         \A q \in Node \ {n} : received'[q] = received[q],
         \/ SameMail(received[n], received'[n])
         \/ Len(received[n]) < coapReceived /\ \E p, m : Longer(received[n], received'[n], p, m),
         coapReceived \in Nat,
         due' \in [Node -> SUBSET Nat], kOpen' \in [Node -> SUBSET Nat],
         \A q \in Node : \A i \in due'[q] \cup kOpen'[q] :
           i \in due[q] \cup kOpen[q]
           \/ (q = n /\ i \in DOMAIN received'[n] /\ received'[n][i].msg.code = "request")
  PROVE  DueShape'
<1>1. ASSUME NEW q \in Node
      PROVE  /\ Len(received'[q]) <= coapReceived
             /\ due'[q] \cup kOpen'[q] \subseteq
                  {i \in DOMAIN received'[q] : received'[q][i].msg.code = "request"}
  <2>1. CASE q # n
    BY <2>1 DEF DueShape
  <2>2. CASE q = n
    <3>1. DOMAIN received[n] = 1..Len(received[n]) /\ DOMAIN received'[n] = 1..Len(received'[n])
      BY SequenceFacts DEF GotShape
    <3>2. Len(received[n]) \in Nat /\ Len(received'[n]) \in Nat
      BY SequenceFacts DEF GotShape
    <3>3. Len(received'[n]) >= Len(received[n]) /\ Len(received'[n]) <= coapReceived
      BY <3>2 DEF SameMail, Longer, DueShape
    <3>4. ASSUME NEW i \in due[n] \cup kOpen[n]
          PROVE  i \in DOMAIN received'[n] /\ received'[n][i].msg.code = "request"
      <4>1. i \in DOMAIN received[n] /\ received[n][i].msg.code = "request"
        BY DEF DueShape
      <4>2. received'[n][i].msg = received[n][i].msg
        BY <4>1 DEF SameMail, Longer
      <4> QED BY <3>1, <3>2, <3>3, <4>1, <4>2
    <3> QED BY <2>2, <3>3, <3>4
  <2> QED BY <2>1, <2>2
<1> QED BY <1>1 DEF DueShape

LEMMA RequestFacts ==
  ASSUME KShape, NEW n \in Node, NEW k, k \in DOMAIN setup.requests[n], K!Request(n, k)
  PROVE  /\ Turn(n)
         /\ \E m \in Mail :
              /\ Longer(kSent[n], kSent'[n], setup.requests[n][k].to, m)
              /\ m.code = "request" /\ m.type \in {"CON", "NON"}
              /\ m.token = <<n, k>> /\ m.body = <<n, k>>
              /\ m.id = ids[n] /\ ids'[n] = ids[n] + 1
         /\ received' = received /\ kOpen' = kOpen /\ executed' = executed /\ answers' = answers
         /\ \A i \in DOMAIN kSent[n] :
              ~(kSent[n][i].msg.code = "request" /\ kSent[n][i].msg.token = <<n, k>>)
<1> DEFINE r == setup.requests[n][k]
           m == K!Message(r.type, ids[n], <<n, k>>, "request", <<n, k>>)
<1> USE DEF KShape
<1>1. setup.requests[n] \in Seq([to : Node, type : {"CON", "NON"}]) /\ Len(setup.requests[n]) <= coapCalls
      /\ coapCalls \in Nat
  BY Setting
<1>2. r \in [to : Node, type : {"CON", "NON"}] /\ k \in 1..coapCalls
  <2>1. /\ Len(setup.requests[n]) \in Nat /\ DOMAIN setup.requests[n] = 1..Len(setup.requests[n])
        /\ r \in [to : Node, type : {"CON", "NON"}]
    BY <1>1, SequenceFacts
  <2> QED BY <1>1, <2>1
<1>3. <<n, k>> \in K!Call
  BY <1>2 DEF K!Call
<1>4. /\ m \in Mail /\ m.code = "request" /\ m.type \in {"CON", "NON"}
      /\ m.token = <<n, k>> /\ m.body = <<n, k>> /\ m.id = ids[n]
  BY <1>2, <1>3 DEF Mail, Token, K!Message, SentShape
<1>5. /\ K!SendAsIs(n, r.to, m, kAir) /\ ids' = [ids EXCEPT ![n] = @ + 1]
      /\ UNCHANGED <<setup, received, due, kOpen, executed, answers>>
      /\ \A j \in DOMAIN setup.requests[n] : <<n, j>> \in K!Asked <=> j < k
  BY DEF K!Request, K!Requests
<1> HIDE DEF m, r
<1>6. ids' \in [Node -> Nat] /\ ids'[n] = ids[n] + 1 /\ \A q \in Node \ {n} : ids'[q] = ids[q]
  BY <1>5 DEF SentShape
<1>7. /\ SentShape' /\ Longer(kSent[n], kSent'[n], r.to, m)
      /\ \A q \in Node \ {n} : kSent'[q] = kSent[q]
      /\ kAir' = kAir \cup {K!Frame(n, r.to, m)}
  <2>1. kAir \in SUBSET Airs /\ r.to \in Node
    BY <1>2 DEF SentShape, Airs
  <2> QED BY <1>4, <1>5, <1>6, <2>1, SendAsIsFacts
<1>8. PointsIn(received'[n], Len(kSent'[n]))
  <2>1. Len(kSent[n]) \in Nat /\ Len(kSent'[n]) = Len(kSent[n]) + 1
    BY <1>7, SequenceFacts DEF SentShape, Longer
  <2>2. \A i \in DOMAIN received[n] :
          received[n][i].ack \in 0..Len(kSent[n]) /\ received[n][i].response \in 0..Len(kSent[n])
    BY DEF GotShape
  <2> QED BY <1>5, <2>1, <2>2 DEF PointsIn
<1>9. GotShape' /\ DueShape'
  <2>1. GotShape'
    BY <1>5, <1>7, <1>8, OthersPoint DEF GotShape
  <2>2. DueShape'
    BY <1>5 DEF DueShape
  <2> QED BY <2>1, <2>2
<1>10. KShape'
  BY <1>5, <1>7, <1>9
<1>11. OthersStay(n)
  BY <1>5, <1>6, <1>7 DEF OthersStay
<1>12. AirFrom(n)
  <2>1. Says(kSent'[n], m) /\ Meets(kSent'[n], r.to)
    BY <1>7, NowLonger DEF SentShape
  <2>2. K!Frame(n, r.to, m).from = n /\ K!Frame(n, r.to, m).to = r.to /\ K!Frame(n, r.to, m).msg = m
    BY DEF K!Frame
  <2> QED BY <1>7, <2>1, <2>2 DEF AirFrom
<1>13. ASSUME NEW i \in DOMAIN kSent[n], kSent[n][i].msg.code = "request",
              kSent[n][i].msg.token = <<n, k>>
       PROVE  FALSE
  <2>1. <<n, k>> \in K!Asked
    BY <1>3, <1>13 DEF K!Asked
  <2>2. ~(k < k)
    BY <1>2
  <2> QED BY <1>5, <2>1, <2>2
<1> QED BY <1>4, <1>5, <1>6, <1>7, <1>10, <1>11, <1>12, <1>13 DEF Turn, r

(***************************************************************************)
(* ack(): what went out before goes out again, or an acknowledgement that  *)
(* says nothing else.                                                      *)
(***************************************************************************)
LEMMA EmptyMail ==
  ASSUME NEW t \in {"ACK", "RST"}, NEW u \in Nat
  PROVE  LET m == K!EmptyMessage(t, u)
         IN m \in Mail /\ m.code = "empty" /\ m.type = t /\ m.id = u
BY DEF K!EmptyMessage, K!Message, Mail, Token

LEMMA AckFacts ==
  ASSUME setup \in coapSetups, SentShape, GotShape, NEW n \in Node, NEW j \in DOMAIN received[n],
         NEW rest \in SUBSET Airs, K!Ack(n, j, rest), ids' = ids
  PROVE  LET q == received[n][j]
         IN /\ SentShape' /\ GotShape' /\ SameMail(received[n], received'[n])
            /\ \A p \in Node \ {n} : kSent'[p] = kSent[p] /\ received'[p] = received[p]
            /\ \/ /\ q.ack # 0 /\ kSent' = kSent /\ received' = received
                  /\ \E i \in DOMAIN kSent[n] :
                       kAir' = rest \cup {K!Frame(n, q.peer, kSent[n][i].msg)}
               \/ LET m == K!EmptyMessage("ACK", q.msg.id)
                  IN /\ q.ack = 0 /\ m \in Mail /\ m.code = "empty" /\ m.type = "ACK"
                     /\ kSent'[n] = K!Sending(kSent[n], q.peer, m)
                     /\ Longer(kSent[n], kSent'[n], q.peer, m)
                     /\ kAir' = rest \cup {K!Frame(n, q.peer, m)}
<1> DEFINE q == received[n][j]
           m == K!EmptyMessage("ACK", q.msg.id)
           i == K!At(kSent[n], setup.sentSize, q.ack)
<1>1. /\ q \in GotEntry /\ received[n] \in Seq(GotEntry) /\ kSent[n] \in Seq(SentEntry)
      /\ q.ack \in 0..Len(kSent[n]) /\ PointsIn(received[n], Len(kSent[n]))
  BY SequenceFacts DEF GotShape, SentShape, PointsIn
<1>2. q.peer \in Node /\ q.msg \in Mail
  BY <1>1 DEF GotEntry
<1>3. q.msg.id \in Nat
  BY <1>2 DEF Mail
<1>4. Len(kSent[n]) \in Nat /\ DOMAIN kSent[n] = 1..Len(kSent[n])
  BY <1>1, SequenceFacts
<1>5. CASE q.ack # 0
  <2>1. /\ kAir' = rest \cup {K!Frame(n, q.peer, kSent[n][i].msg)}
        /\ kSent' = kSent /\ resend' = resend /\ received' = received
    BY <1>5 DEF K!Ack, K!SendNothing
  <2>2. i \in DOMAIN kSent[n]
    <3>1. q.ack \in DOMAIN kSent[n]
      BY <1>1, <1>4, <1>5
    <3> QED BY <1>4, <3>1, Setting, PlaceFacts
  <2>3. kSent[n][i].msg \in Mail
    <3>1. kSent[n][i] \in SentEntry
      BY <1>1, <2>2, SequenceFacts
    <3> QED BY <3>1 DEF SentEntry
  <2>4. K!Frame(n, q.peer, kSent[n][i].msg) \in Airs
    BY <1>2, <2>3 DEF K!Frame, Airs
  <2>5. SentShape' /\ GotShape'
    BY <2>1, <2>4 DEF SentShape, GotShape, Airs
  <2> QED BY <1>5, <2>1, <2>2, <2>5 DEF SameMail
<1>6. CASE q.ack = 0
  <2> DEFINE k == [received[n] EXCEPT ![j].ack = Len(kSent[n]) + 1]
  <2>1. /\ K!SendAsIs(n, q.peer, m, rest)
        /\ received' = [received EXCEPT ![n] = k]
    BY <1>6 DEF K!Ack
  <2>2. m \in Mail /\ m.code = "empty" /\ m.type = "ACK"
    BY <1>3, EmptyMail
  <2>3. PointsIn(received[n], Len(kSent[n]) + 1)
    <3>1. \A v \in 0..Len(kSent[n]) : v \in 0..(Len(kSent[n]) + 1)
      BY <1>4
    <3> QED BY <1>1, <3>1 DEF PointsIn
  <2>4. k \in Seq(GotEntry) /\ SameMail(received[n], k) /\ PointsIn(k, Len(kSent[n]) + 1)
    <3>1. Len(kSent[n]) + 1 \in Nat /\ Len(kSent[n]) + 1 \in 0..(Len(kSent[n]) + 1)
      BY <1>4
    <3> QED BY <1>1, <2>3, <3>1, GotMarks
  <2> HIDE DEF m, k
  <2>5. /\ SentShape' /\ Longer(kSent[n], kSent'[n], q.peer, m)
        /\ kSent' = [kSent EXCEPT ![n] = K!Sending(kSent[n], q.peer, m)]
        /\ \A p \in Node \ {n} : kSent'[p] = kSent[p]
        /\ kAir' = rest \cup {K!Frame(n, q.peer, m)}
    <3>1. ids' \in [Node -> Nat]
      BY DEF SentShape
    <3> QED BY <1>2, <2>1, <2>2, <3>1, SendAsIsFacts
  <2>6. /\ received' \in [Node -> Seq(GotEntry)] /\ received'[n] = k
        /\ \A p \in Node \ {n} : received'[p] = received[p]
    BY <2>1, <2>4 DEF GotShape
  <2>7. Len(kSent'[n]) = Len(kSent[n]) + 1
    BY <2>5 DEF Longer
  <2>8. GotShape'
    BY <2>4, <2>5, <2>6, <2>7, OthersPoint
  <2>9. kSent'[n] = K!Sending(kSent[n], q.peer, m)
    BY <2>5 DEF SentShape
  <2> QED BY <1>6, <2>2, <2>4, <2>5, <2>6, <2>8, <2>9 DEF m
<1> QED BY <1>5, <1>6

LEMMA SameFacts ==
  ASSUME NEW S, NEW l \in Seq(S), NEW k \in Seq(S), SameMail(l, k)
  PROVE  /\ DOMAIN k = DOMAIN l /\ Len(k) = Len(l)
         /\ \A i \in DOMAIN l : k[i].peer = l[i].peer /\ k[i].msg = l[i].msg
         /\ \A p : Meets(k, p) <=> Meets(l, p)
         /\ \A m : Says(k, m) <=> Says(l, m)
BY SequenceFacts DEF SameMail, Meets, Says

(***************************************************************************)
(* What reply() sends: the answer to the message in the place of the one   *)
(* the application replies to.                                             *)
(***************************************************************************)
Replies(n, q, body) ==
  \/ kSent' = kSent /\ ids' = ids
  \/ \E m \in Mail :
       /\ Longer(kSent[n], kSent'[n], q.peer, m)
       /\ q.msg.type \in {"CON", "NON"} /\ m.code = "response"
       /\ m.token = q.msg.token /\ m.body = body
       /\ \/ m.type = "ACK" /\ ids' = ids
          \/ m.type # "ACK" /\ m.type # "RST" /\ m.id = ids[n] /\ ids'[n] = ids[n] + 1

LEMMA SentHere ==
  ASSUME SentShape, SentShape', NEW n \in Node, NEW p, NEW m, Longer(kSent[n], kSent'[n], p, m),
         NEW rest \in SUBSET kAir, kAir' = rest \cup {K!Frame(n, p, m)}
  PROVE  AirFrom(n)
<1>1. Says(kSent'[n], m) /\ Meets(kSent'[n], p)
  BY NowLonger DEF SentShape
<1>2. K!Frame(n, p, m).from = n /\ K!Frame(n, p, m).to = p /\ K!Frame(n, p, m).msg = m
  BY DEF K!Frame
<1> QED BY <1>1, <1>2 DEF AirFrom

LEMMA ReplyLaterFacts ==
  ASSUME KShape, NEW n \in Node, NEW i \in kOpen[n], K!ReplyLater(n, i)
  PROVE  /\ Turn(n) /\ SameMail(received[n], received'[n]) /\ i \in DOMAIN received[n]
         /\ kOpen'[n] = kOpen[n] \ {i} /\ executed' = executed /\ answers' = answers
         /\ Replies(n, received[n][K!At(received[n], setup.receivedSize, i)],
                    received[n][i].msg.body)
<1> DEFINE body == received[n][i].msg.body
           q == received[n][K!At(received[n], setup.receivedSize, i)]
<1> USE DEF KShape
<1>1. /\ kOpen' = [kOpen EXCEPT ![n] = @ \ {i}]
      /\ K!Reply(n, received[n], i, body, kAir)
      /\ UNCHANGED <<setup, due, faults, executed, answers>>
  BY DEF K!ReplyLater
<1>2. i \in DOMAIN received[n] /\ received[n] \in Seq(GotEntry) /\ kAir \in SUBSET Airs
      /\ PointsIn(received[n], Len(kSent[n]))
  BY DEF DueShape, GotShape, SentShape, Airs, PointsIn
<1>3. body \in Token
  <2>1. received[n][i] \in GotEntry
    BY <1>2, SequenceFacts
  <2> QED BY <2>1 DEF GotEntry, Mail
<1> HIDE DEF body
<1>4. /\ SentShape' /\ GotShape' /\ SameMail(received[n], received'[n])
      /\ \A p \in Node \ {n} :
           kSent'[p] = kSent[p] /\ received'[p] = received[p] /\ ids'[p] = ids[p]
      /\ \/ kSent' = kSent /\ ids' = ids /\ kAir' = kAir
         \/ \E m \in Mail :
              /\ Longer(kSent[n], kSent'[n], q.peer, m)
              /\ kAir' = kAir \cup {K!Frame(n, q.peer, m)}
              /\ q.msg.type \in {"CON", "NON"} /\ m.code = "response"
              /\ m.token = q.msg.token /\ m.body = body
              /\ \/ m.type = "ACK" /\ ids' = ids
                 \/ m.type # "ACK" /\ m.type # "RST" /\ m.id = ids[n] /\ ids'[n] = ids[n] + 1
  BY <1>1, <1>2, <1>3, ReplyFacts
<1> HIDE DEF q
<1>5. Replies(n, q, body)
  BY <1>4 DEF Replies
<1>6. AirFrom(n)
  <2>1. CASE kAir' = kAir
    BY <2>1 DEF AirFrom
  <2>2. CASE kAir' # kAir
    BY <1>4, <2>2, SentHere
  <2> QED BY <2>1, <2>2
<1>7. /\ kOpen' \in [Node -> SUBSET Nat] /\ kOpen'[n] = kOpen[n] \ {i}
      /\ \A p \in Node \ {n} : kOpen'[p] = kOpen[p]
      /\ due' \in [Node -> SUBSET Nat]
  BY <1>1 DEF DueShape
<1>8. DueShape'
  <2>1. \A p \in Node : due'[p] \cup kOpen'[p] \subseteq due[p] \cup kOpen[p]
    BY <1>1, <1>7
  <2>2. coapReceived \in Nat
    BY Setting
  <2> QED BY <1>4, <1>7, <2>1, <2>2, DueStays
<1>9. Turn(n)
  BY <1>1, <1>4, <1>6, <1>7, <1>8 DEF Turn, OthersStay
<1> QED BY <1>1, <1>2, <1>4, <1>5, <1>7, <1>9 DEF q, body

LEMMA AckTimeoutFacts ==
  ASSUME KShape, NEW n \in Node, NEW i, K!AckTimeout(n, i)
  PROVE  /\ Turn(n) /\ SameMail(received[n], received'[n])
         /\ ids' = ids /\ kOpen' = kOpen /\ executed' = executed /\ answers' = answers
         /\ \/ kSent' = kSent
            \/ \E p \in Node, m \in Mail :
                 /\ Longer(kSent[n], kSent'[n], p, m) /\ Meets(received[n], p)
                 /\ m.code = "empty" /\ m.type = "ACK"
<1> DEFINE j == K!At(received[n], setup.receivedSize, i)
<1> USE DEF KShape
<1>1. /\ i \in due[n] /\ due' = [due EXCEPT ![n] = @ \ {i}]
      /\ UNCHANGED <<setup, ids, kOpen, faults, executed, answers>>
      /\ IF received[n][j].ack = 0 THEN K!Ack(n, j, kAir)
         ELSE K!SendNothing(kAir) /\ UNCHANGED received
  BY DEF K!AckTimeout
<1>2. i \in DOMAIN received[n] /\ received[n] \in Seq(GotEntry) /\ kAir \in SUBSET Airs
  BY <1>1 DEF DueShape, GotShape, SentShape, Airs
<1>3. j \in DOMAIN received[n]
  BY <1>2, SequenceFacts, Setting, PlaceFacts
<1> HIDE DEF j
<1>4. due' \in [Node -> SUBSET Nat] /\ \A p \in Node : due'[p] \subseteq due[p]
  BY <1>1 DEF DueShape
<1>5. CASE received[n][j].ack = 0
  <2> DEFINE q == received[n][j]
             m == K!EmptyMessage("ACK", q.msg.id)
  <2>1. /\ SentShape' /\ GotShape' /\ SameMail(received[n], received'[n])
        /\ \A p \in Node \ {n} : kSent'[p] = kSent[p] /\ received'[p] = received[p]
        /\ m \in Mail /\ m.code = "empty" /\ m.type = "ACK"
        /\ Longer(kSent[n], kSent'[n], q.peer, m)
        /\ kAir' = kAir \cup {K!Frame(n, q.peer, m)}
    BY <1>1, <1>2, <1>3, <1>5, AckFacts
  <2> HIDE DEF m
  <2>2. AirFrom(n)
    BY <2>1, SentHere
  <2>3. DueShape'
    <3>1. \A p \in Node : due'[p] \cup kOpen'[p] \subseteq due[p] \cup kOpen[p]
      BY <1>1, <1>4
    <3>2. coapReceived \in Nat /\ kOpen' \in [Node -> SUBSET Nat]
      BY <1>1, Setting DEF DueShape
    <3> QED BY <1>4, <2>1, <3>1, <3>2, DueStays
  <2>4. Turn(n)
    BY <1>1, <2>1, <2>2, <2>3 DEF Turn, OthersStay
  <2>5. q.peer \in Node /\ Meets(received[n], q.peer)
    <3>1. q \in GotEntry
      BY <1>2, <1>3, SequenceFacts
    <3> QED BY <1>3, <3>1 DEF GotEntry, Meets
  <2> QED BY <1>1, <2>1, <2>4, <2>5
<1>6. CASE received[n][j].ack # 0
  <2>1. kAir' = kAir /\ kSent' = kSent /\ resend' = resend /\ received' = received
    BY <1>1, <1>6 DEF K!SendNothing
  <2>2. SentShape' /\ GotShape' /\ SameMail(received[n], received'[n])
    BY <1>1, <2>1 DEF SentShape, GotShape, SameMail
  <2>3. DueShape'
    BY <1>1, <1>4, <2>1 DEF DueShape
  <2>4. Turn(n)
    BY <1>1, <2>1, <2>2, <2>3 DEF Turn, OthersStay, AirFrom
  <2> QED BY <1>1, <2>1, <2>2, <2>4
<1> QED BY <1>5, <1>6

LEMMA RetransmitFacts ==
  ASSUME KShape, NEW n \in Node, NEW i, K!RetransmitTimeout(n, i)
  PROVE  /\ Turn(n) /\ SameMail(kSent[n], kSent'[n])
         /\ UNCHANGED <<received, ids, kOpen, executed, answers>>
<1> DEFINE j == K!At(kSent[n], setup.sentSize, i)
           m == kSent[n][j]
<1> USE DEF KShape
<1>1. /\ i \in resend[n]
      /\ UNCHANGED <<setup, received, ids, due, kOpen, faults, executed, answers>>
      /\ IF K!Settled(m)
         THEN resend' = [resend EXCEPT ![n] = @ \ {i}] /\ UNCHANGED <<kSent, kAir>>
         ELSE /\ kAir' = kAir \cup {K!Frame(n, m.peer, m.msg)}
              /\ kSent' = [kSent EXCEPT ![n][j].retries = @ + 1]
              /\ resend' = IF m.retries + 1 < coapRetransmit THEN resend
                           ELSE [resend EXCEPT ![n] = @ \ {i}]
  BY DEF K!RetransmitTimeout
<1>2. i \in DOMAIN kSent[n] /\ kSent[n] \in Seq(SentEntry) /\ kAir \in SUBSET Airs
  BY <1>1 DEF SentShape, Airs
<1>3. j \in DOMAIN kSent[n]
  BY <1>2, SequenceFacts, Setting, PlaceFacts
<1>4. m \in SentEntry
  BY <1>2, <1>3, SequenceFacts
<1>5. resend' \in [Node -> SUBSET Nat] /\ \A p \in Node : resend'[p] \subseteq resend[p]
  <2>1. resend' = resend \/ resend' = [resend EXCEPT ![n] = @ \ {i}]
    BY <1>1
  <2>2. resend \in [Node -> SUBSET Nat]
    BY DEF SentShape
  <2> QED BY <2>1, <2>2
<1>6. /\ kSent' \in [Node -> Seq(SentEntry)] /\ SameMail(kSent[n], kSent'[n])
      /\ \A p \in Node \ {n} : kSent'[p] = kSent[p]
  <2>1. CASE K!Settled(m)
    BY <1>1, <2>1 DEF SentShape, SameMail
  <2>2. CASE ~K!Settled(m)
    <3>1. kSent' = [kSent EXCEPT ![n] = [kSent[n] EXCEPT ![j].retries = @ + 1]]
      <4>1. kSent' = [kSent EXCEPT ![n][j].retries = @ + 1]
        BY <1>1, <2>2
      <4> QED BY <4>1
    <3> HIDE DEF j
    <3>2. /\ [kSent[n] EXCEPT ![j].retries = @ + 1] \in Seq(SentEntry)
          /\ SameMail(kSent[n], [kSent[n] EXCEPT ![j].retries = @ + 1])
      BY <1>2, <1>3, SentMarks
    <3> QED BY <3>1, <3>2 DEF SentShape
  <2> QED BY <2>1, <2>2
<1>7. kAir' \subseteq Airs
  <2>1. m.peer \in Node /\ m.msg \in Mail
    BY <1>4 DEF SentEntry
  <2> HIDE DEF m
  <2> QED BY <1>1, <1>2, <2>1 DEF Airs, K!Frame
<1>8. SentShape' /\ GotShape' /\ DueShape'
  <2>1. SentShape'
    <3>1. ids' \in [Node -> Nat]
      BY <1>1 DEF SentShape
    <3> QED BY <1>5, <1>6, <1>7, <3>1, SentStays
  <2>2. \A p \in Node : Len(kSent'[p]) = Len(kSent[p])
    BY <1>6 DEF SameMail
  <2>3. GotShape' /\ DueShape'
    BY <1>1, <2>2 DEF GotShape, DueShape
  <2> QED BY <2>1, <2>3
<1>9. AirFrom(n)
  <2>1. Says(kSent'[n], m.msg) /\ Meets(kSent'[n], m.peer)
    <3>1. Says(kSent[n], m.msg) /\ Meets(kSent[n], m.peer)
      BY <1>3 DEF Says, Meets
    <3>2. kSent[n] \in Seq(SentEntry) /\ kSent'[n] \in Seq(SentEntry)
      BY <1>2, <1>6
    <3> HIDE DEF m
    <3> QED BY <1>6, <3>1, <3>2, SameFacts
  <2>2. /\ K!Frame(n, m.peer, m.msg).from = n /\ K!Frame(n, m.peer, m.msg).to = m.peer
        /\ K!Frame(n, m.peer, m.msg).msg = m.msg
    BY DEF K!Frame
  <2> HIDE DEF m
  <2> QED BY <1>1, <2>1, <2>2 DEF AirFrom
<1> QED BY <1>1, <1>6, <1>8, <1>9 DEF Turn, OthersStay

-----------------------------------------------------------------------------
(***************************************************************************)
(* receive(): a new message takes its place at the end of the list.        *)
(***************************************************************************)
Unknown(n, f) == /\ Len(received[n]) < coapReceived
                 /\ \A i \in K!Kept(received[n], setup.receivedSize) :
                      ~(received[n][i].peer = f.from /\ received[n][i].msg.id = f.msg.id)

LEMMA NewFacts ==
  ASSUME KShape, NEW n \in Node, NEW f \in kAir, K!New(n, f)
  PROVE  /\ Unknown(n, f) /\ f.from \in Node /\ f.to \in Node /\ f.msg \in Mail
         /\ K!Receiving(n, f) \in Seq(GotEntry) /\ PointsIn(K!Receiving(n, f), Len(kSent[n]))
         /\ Longer(received[n], K!Receiving(n, f), f.from, f.msg)
         /\ DOMAIN K!Receiving(n, f) = 1..(Len(received[n]) + 1)
         /\ Len(received[n]) \in Nat /\ DOMAIN received[n] = 1..Len(received[n])
         /\ Len(K!Receiving(n, f)) = Len(received[n]) + 1
         /\ Len(K!Receiving(n, f)) \in DOMAIN K!Receiving(n, f)
<1> USE DEF KShape
<1>1. f.from \in Node /\ f.to \in Node /\ f.msg \in Mail
  BY DEF SentShape
<1>2. received[n] \in Seq(GotEntry) /\ Len(received[n]) \in Nat /\ DOMAIN received[n] = 1..Len(received[n])
  BY SequenceFacts DEF GotShape
<1>3. Unknown(n, f)
  <2>1. K!ById(received[n], setup.receivedSize, f.from, f.msg.id) = 0 /\ Len(received[n]) < coapReceived
    BY DEF K!New, K!Original
  <2>2. \A i \in K!Kept(received[n], setup.receivedSize) : i # 0
    BY <1>2 DEF K!Kept
  <2> QED BY <1>2, <2>1, <2>2, FoundFacts DEF Unknown
<1> DEFINE got == K!Receiving(n, f)
<1>4. /\ got \in Seq(GotEntry) /\ Longer(received[n], got, f.from, f.msg)
      /\ \A i \in DOMAIN received[n] : got[i] = received[n][i]
      /\ got[Len(received[n]) + 1].ack = 0 /\ got[Len(received[n]) + 1].response = 0
  BY <1>1, <1>2, ReceivingFacts
<1> HIDE DEF got
<1>5. Len(got) = Len(received[n]) + 1 /\ DOMAIN got = 1..(Len(received[n]) + 1)
  BY <1>4, SequenceFacts DEF Longer
<1>6. PointsIn(got, Len(kSent[n]))
  <2>1. Len(kSent[n]) \in Nat
    BY SequenceFacts DEF SentShape
  <2>2. ASSUME NEW i \in DOMAIN got
        PROVE  got[i].ack \in 0..Len(kSent[n]) /\ got[i].response \in 0..Len(kSent[n])
    <3>1. CASE i \in DOMAIN received[n]
      BY <1>4, <3>1 DEF GotShape
    <3>2. CASE i = Len(received[n]) + 1
      BY <1>4, <2>1, <3>2
    <3> QED BY <1>2, <1>5, <3>1, <3>2
  <2> QED BY <2>2 DEF PointsIn
<1>7. Len(got) \in DOMAIN got
  BY <1>2, <1>5
<1> QED BY <1>1, <1>2, <1>3, <1>4, <1>5, <1>6, <1>7 DEF got

LEMMA ReceiveRequestFacts ==
  ASSUME KShape, NEW n \in Node, NEW f \in kAir, NEW rest \in SUBSET kAir,
         K!ReceiveRequest(n, f, rest), setup' = setup
  PROVE  /\ Turn(n) /\ Unknown(n, f) /\ f.from \in Node /\ f.msg \in Mail
         /\ f.msg.code = "request" /\ Longer(received[n], received'[n], f.from, f.msg)
         /\ executed' = [executed EXCEPT ![f.msg.body] = @ + 1] /\ answers' = answers
         /\ \/ /\ kOpen' = kOpen
               /\ \E q : q.peer = f.from /\ q.msg = f.msg /\ Replies(n, q, f.msg.body)
            \/ /\ n \in setup.deferring /\ kSent' = kSent /\ ids' = ids
               /\ kOpen'[n] = kOpen[n] \cup {Len(received'[n])}
<1> DEFINE got == K!Receiving(n, f)
           i == Len(got)
           j == K!At(got, setup.receivedSize, i)
<1> USE DEF KShape
<1>1. /\ K!New(n, f) /\ f.msg.code = "request"
      /\ due' = [due EXCEPT ![n] = IF f.msg.type = "CON" THEN @ \cup {i} ELSE @]
      /\ executed' = [executed EXCEPT ![f.msg.body] = @ + 1] /\ answers' = answers
      /\ \/ K!Reply(n, got, i, f.msg.body, rest) /\ UNCHANGED kOpen
         \/ /\ n \in setup.deferring
            /\ kOpen' = [kOpen EXCEPT ![n] = @ \cup {i}]
            /\ received' = [received EXCEPT ![n] = got]
            /\ K!SendNothing(rest) /\ UNCHANGED ids
  BY DEF K!ReceiveRequest
<1>2. /\ Unknown(n, f) /\ f.from \in Node /\ f.msg \in Mail
      /\ got \in Seq(GotEntry) /\ PointsIn(got, Len(kSent[n]))
      /\ Longer(received[n], got, f.from, f.msg) /\ DOMAIN got = 1..Len(got) /\ i \in DOMAIN got
      /\ i = Len(received[n]) + 1 /\ Len(received[n]) \in Nat
  BY <1>1, NewFacts
<1>3. rest \in SUBSET Airs /\ f.msg.body \in Token /\ received[n] \in Seq(GotEntry)
  BY <1>2 DEF SentShape, GotShape, Airs, Mail
<1>4. j = i
  <2>1. Len(got) \in Nat /\ setup.receivedSize \in Nat \ {0}
    BY <1>2, Setting
  <2> HIDE DEF got
  <2>2. j \in DOMAIN got /\ j >= i
    BY <1>2, <2>1, PlaceFacts
  <2> QED BY <1>2, <2>1, <2>2
<1>5. got[i].peer = f.from /\ got[i].msg = f.msg
  BY <1>2 DEF Longer
<1> HIDE DEF got, i, j
<1>6. executed' \in [K!Call -> Nat]
  <2>1. executed \in [K!Call -> Nat]
    OBVIOUS
  <2>2. ASSUME NEW k \in K!Call PROVE executed'[k] \in Nat
    <3>1. executed[k] \in Nat
      BY <2>1
    <3>2. CASE k = f.msg.body
      BY <1>1, <2>1, <3>1, <3>2
    <3>3. CASE k # f.msg.body
      BY <1>1, <2>1, <3>1, <3>3
    <3> QED BY <3>2, <3>3
  <2>3. executed' = [k \in K!Call |-> executed'[k]]
    BY <1>1, <2>1
  <2> QED BY <2>2, <2>3
<1>7. due' \in [Node -> SUBSET Nat] /\ \A p \in Node : due'[p] \subseteq due[p] \cup (IF p = n THEN {i} ELSE {})
  BY <1>1, <1>2 DEF DueShape
<1>8. ASSUME GotShape', Longer(received[n], received'[n], f.from, f.msg),
             \A p \in Node \ {n} : received'[p] = received[p],
             kOpen' \in [Node -> SUBSET Nat],
             \A p \in Node : kOpen'[p] \subseteq kOpen[p] \cup (IF p = n THEN {i} ELSE {})
      PROVE  DueShape'
  <2>1. received'[n] \in Seq(GotEntry)
    BY <1>8 DEF GotShape
  <2>2. i \in DOMAIN received'[n] /\ received'[n][i].msg = f.msg /\ Len(received'[n]) = i
    BY <1>2, <1>8, <2>1, SequenceFacts DEF Longer
  <2>3. coapReceived \in Nat /\ Len(received[n]) < coapReceived
    BY <1>2, Setting DEF Unknown
  <2>4. \A p \in Node : \A v \in due'[p] \cup kOpen'[p] :
           v \in due[p] \cup kOpen[p]
           \/ (p = n /\ v \in DOMAIN received'[n] /\ received'[n][v].msg.code = "request")
    BY <1>1, <1>7, <1>8, <2>2
  <2> QED BY <1>7, <1>8, <2>3, <2>4, DueStays
<1>9. CASE K!Reply(n, got, i, f.msg.body, rest) /\ UNCHANGED kOpen
  <2> DEFINE q == got[i]
             body == f.msg.body
  <2>1. got[K!At(got, setup.receivedSize, i)] = q
    BY <1>4 DEF j
  <2> HIDE DEF body
  <2>2. /\ SentShape' /\ GotShape' /\ SameMail(got, received'[n])
        /\ \A p \in Node \ {n} :
             kSent'[p] = kSent[p] /\ received'[p] = received[p] /\ ids'[p] = ids[p]
        /\ \/ kSent' = kSent /\ ids' = ids /\ kAir' = rest
           \/ \E m \in Mail :
                /\ Longer(kSent[n], kSent'[n], q.peer, m)
                /\ kAir' = rest \cup {K!Frame(n, q.peer, m)}
                /\ q.msg.type \in {"CON", "NON"} /\ m.code = "response"
                /\ m.token = q.msg.token /\ m.body = body
                /\ \/ m.type = "ACK" /\ ids' = ids
                   \/ m.type # "ACK" /\ m.type # "RST" /\ m.id = ids[n] /\ ids'[n] = ids[n] + 1
    <3>1. SentShape /\ GotShape /\ setup \in coapSetups
      OBVIOUS
    <3>2. body \in Token /\ K!Reply(n, got, i, body, rest)
      BY <1>3, <1>9 DEF body
    <3> HIDE DEF KShape
    <3> QED BY <1>2, <1>3, <2>1, <3>1, <3>2, ReplyFacts
  <2>8. Replies(n, q, f.msg.body)
    BY <2>2 DEF Replies, body
  <2>3. q.peer = f.from /\ q.msg = f.msg
    BY <1>5
  <2> HIDE DEF q
  <2>4. Longer(received[n], received'[n], f.from, f.msg)
    <3>1. received'[n] \in Seq(GotEntry)
      BY <2>2 DEF GotShape
    <3> QED BY <1>2, <1>3, <2>2, <3>1, LongerThenSame
  <2>5. AirFrom(n)
    <3>1. CASE kAir' = rest
      BY <3>1 DEF AirFrom
    <3>2. CASE kAir' # rest
      BY <2>2, <3>2, SentHere
    <3> QED BY <3>1, <3>2
  <2>6. DueShape'
    <3>1. kOpen' \in [Node -> SUBSET Nat] /\ \A p \in Node : kOpen'[p] = kOpen[p]
      BY <1>9 DEF DueShape
    <3> QED BY <1>8, <2>2, <2>4, <3>1
  <2>7. Turn(n)
    BY <1>1, <1>6, <1>9, <2>2, <2>5, <2>6 DEF Turn, OthersStay
  <2> QED BY <1>1, <1>2, <1>9, <2>3, <2>4, <2>7, <2>8
<1>10. CASE /\ n \in setup.deferring
            /\ kOpen' = [kOpen EXCEPT ![n] = @ \cup {i}]
            /\ received' = [received EXCEPT ![n] = got]
            /\ K!SendNothing(rest) /\ UNCHANGED ids
  <2>1. kSent' = kSent /\ resend' = resend /\ kAir' = rest /\ ids' = ids
    BY <1>10 DEF K!SendNothing
  <2>2. SentShape' /\ received' \in [Node -> Seq(GotEntry)] /\ received'[n] = got
        /\ \A p \in Node \ {n} : received'[p] = received[p]
    BY <1>2, <1>3, <1>10, <2>1 DEF SentShape, GotShape, Airs
  <2>3. GotShape'
    BY <1>2, <2>1, <2>2, OthersPoint
  <2>4. /\ kOpen' \in [Node -> SUBSET Nat] /\ kOpen'[n] = kOpen[n] \cup {i}
        /\ \A p \in Node \ {n} : kOpen'[p] = kOpen[p]
    BY <1>2, <1>10 DEF DueShape
  <2>5. DueShape'
    <3>1. \A p \in Node : kOpen'[p] \subseteq kOpen[p] \cup (IF p = n THEN {i} ELSE {})
      BY <2>4
    <3> QED BY <1>2, <1>8, <2>2, <2>3, <2>4, <3>1
  <2>6. Turn(n)
    BY <1>1, <1>6, <2>1, <2>2, <2>3, <2>4, <2>5 DEF Turn, OthersStay, AirFrom
  <2> QED BY <1>1, <1>2, <1>10, <2>1, <2>2, <2>4, <2>6 DEF i
<1> QED BY <1>1, <1>9, <1>10

(***************************************************************************)
(* A message that is kept is in its place, unless the one sent since has   *)
(* pushed it out.                                                          *)
(***************************************************************************)
LEMMA PlaceOfKept ==
  ASSUME NEW S, NEW l \in Seq(S), NEW k \in Seq(S), NEW most \in Nat \ {0},
         Len(k) = Len(l) \/ Len(k) = Len(l) + 1, NEW r \in K!Kept(l, most)
  PROVE  K!At(k, most, r) = r \/ (Len(k) = Len(l) + 1 /\ K!At(k, most, r) = Len(k))
<1> DEFINE j == K!At(k, most, r)
           u == Len(l)
           v == Len(k)
<1>1. u \in Nat /\ v \in Nat /\ DOMAIN l = 1..u /\ DOMAIN k = 1..v
  BY SequenceFacts
<1>2. r \in DOMAIN l /\ r > u - most
  BY DEF K!Kept
<1>3. v = u \/ v = u + 1
  OBVIOUS
<1> HIDE DEF u, v
<1>4. r \in 1..v /\ r \in 1..u
  BY <1>1, <1>2, <1>3
<1>5. j \in 1..v /\ j % most = r % most /\ j >= r
  BY <1>1, <1>4, PlaceFacts DEF v
<1> HIDE DEF j
<1>6. ASSUME j # r PROVE v = u + 1 /\ j = v
  <2>1. j \in Nat /\ r \in Nat /\ r < j
    BY <1>4, <1>5, <1>6
  <2>2. r + most <= j
    BY <1>5, <2>1, SamePlace
  <2> QED BY <1>1, <1>2, <1>3, <1>4, <1>5, <2>1, <2>2
<1> QED BY <1>6 DEF j, u, v

AnswersOne(n, f) ==
  answers' = answers \/
  \E i \in DOMAIN kSent[n] :
    /\ kSent[n][i].peer = f.from
    /\ kSent[n][i].msg.code = "request" /\ kSent[n][i].msg.token = f.msg.token
    /\ answers' = [answers EXCEPT ![f.msg.token] = Append(@, f.msg.body)]

LEMMA GivenTyped ==
  ASSUME answers \in [K!Call -> Seq(Token)], NEW m, NEW body \in Token
  PROVE  K!Given(m, body) \in [K!Call -> Seq(Token)]
<1>1. \A s \in Seq(Token) : Append(s, body) \in Seq(Token)
  OBVIOUS
<1> DEFINE g == [answers EXCEPT ![m.token] = Append(@, body)]
<1>2. ASSUME NEW k \in K!Call PROVE g[k] \in Seq(Token)
  <2>1. CASE k = m.token
    BY <1>1, <2>1
  <2>2. CASE k # m.token
    BY <2>2
  <2> QED BY <2>1, <2>2
<1>3. g = [k \in K!Call |-> g[k]]
  OBVIOUS
<1>4. g \in [K!Call -> Seq(Token)]
  <2> HIDE DEF g
  <2> QED BY <1>2, <1>3
<1> QED BY <1>4 DEF K!Given

LEMMA MatchingFacts ==
  ASSUME KShape, NEW n \in Node, NEW f, NEW r,
         r # 0 => r \in K!Kept(kSent[n], setup.sentSize) /\ kSent[n][r].peer = f.from,
         K!Matching(n, f, r) # 0
  PROVE  LET q == K!Matching(n, f, r)
         IN /\ q \in K!Kept(kSent[n], setup.sentSize) /\ q \in DOMAIN kSent[n]
            /\ kSent[n][q].peer = f.from /\ kSent[n][q].msg.token = f.msg.token
<1>1. Len(kSent[n]) \in Nat /\ DOMAIN kSent[n] = 1..Len(kSent[n])
  BY SequenceFacts DEF KShape, SentShape
<1> DEFINE v == K!ByToken(kSent[n], setup.sentSize, f.from, f.msg.token)
<1>2. v = 0 \/ (/\ v \in K!Kept(kSent[n], setup.sentSize)
                /\ kSent[n][v].peer = f.from /\ kSent[n][v].msg.token = f.msg.token)
  BY <1>1, FoundFacts
<1>3. K!Matching(n, f, r) = IF r # 0 /\ kSent[n][r].msg.token = f.msg.token THEN r ELSE v
  BY DEF K!Matching
<1> HIDE DEF v
<1>4. K!Kept(kSent[n], setup.sentSize) \subseteq DOMAIN kSent[n]
  BY DEF K!Kept
<1> QED BY <1>2, <1>3, <1>4

(***************************************************************************)
(* What the end of every receive of a new message has in common.           *)
(***************************************************************************)
LEMMA ReceivedTurn ==
  ASSUME KShape, NEW n \in Node, NEW f \in kAir, Unknown(n, f),
         SentShape', GotShape', setup' = setup, UNCHANGED <<ids, due, kOpen, executed>>,
         answers' \in [K!Call -> Seq(Token)],
         Longer(received[n], received'[n], f.from, f.msg),
         \A p \in Node \ {n} : kSent'[p] = kSent[p] /\ received'[p] = received[p],
         AirFrom(n)
  PROVE  Turn(n)
<1>1. coapReceived \in Nat /\ DueShape /\ GotShape
  BY Setting DEF KShape
<1>2. due' \in [Node -> SUBSET Nat] /\ kOpen' \in [Node -> SUBSET Nat]
  BY DEF KShape, DueShape
<1>3. DueShape'
  BY <1>1, <1>2, DueStays DEF Unknown
<1> QED BY <1>3 DEF KShape, Turn, OthersStay

LEMMA ReceiveAckFacts ==
  ASSUME KShape, NEW n \in Node, NEW f \in kAir, NEW rest \in SUBSET kAir,
         K!ReceiveAck(n, f, rest), setup' = setup
  PROVE  /\ Turn(n) /\ Unknown(n, f) /\ f.from \in Node /\ f.msg \in Mail
         /\ f.msg.type = "ACK" /\ Longer(received[n], received'[n], f.from, f.msg)
         /\ SameMail(kSent[n], kSent'[n]) /\ UNCHANGED <<ids, kOpen, executed>>
         /\ AnswersOne(n, f) /\ (answers' # answers => f.msg.code = "response")
<1> DEFINE r == K!ById(kSent[n], setup.sentSize, f.from, f.msg.id)
           q == K!Matching(n, f, r)
           answered == r # 0 /\ f.msg.code = "response" /\ q # 0
           marked == IF r = 0 THEN kSent[n] ELSE [kSent[n] EXCEPT ![r].acked = TRUE]
           list == IF answered THEN [marked EXCEPT ![q].answered = TRUE] ELSE marked
<1>1. /\ K!New(n, f) /\ f.msg.type = "ACK"
      /\ received' = [received EXCEPT ![n] = K!Receiving(n, f)]
      /\ kSent' = [kSent EXCEPT ![n] = list]
      /\ answers' = IF answered THEN K!Given(kSent[n][q].msg, f.msg.body) ELSE answers
      /\ kAir' = rest
      /\ UNCHANGED <<ids, resend, due, kOpen, executed>>
  BY DEF K!ReceiveAck
<1>2. /\ Unknown(n, f) /\ f.from \in Node /\ f.msg \in Mail
      /\ K!Receiving(n, f) \in Seq(GotEntry) /\ PointsIn(K!Receiving(n, f), Len(kSent[n]))
      /\ Longer(received[n], K!Receiving(n, f), f.from, f.msg)
  BY <1>1, NewFacts
<1>3. /\ kSent \in [Node -> Seq(SentEntry)] /\ received \in [Node -> Seq(GotEntry)]
      /\ Len(kSent[n]) \in Nat /\ DOMAIN kSent[n] = 1..Len(kSent[n])
  BY SequenceFacts DEF KShape, SentShape, GotShape
<1>4. r = 0 \/ (r \in K!Kept(kSent[n], setup.sentSize) /\ r \in DOMAIN kSent[n] /\ kSent[n][r].peer = f.from)
  <2>1. K!Kept(kSent[n], setup.sentSize) \subseteq DOMAIN kSent[n]
    BY DEF K!Kept
  <2> QED BY <1>3, <2>1, FoundFacts
<1> HIDE DEF r
<1>5. q # 0 => /\ q \in DOMAIN kSent[n]
               /\ kSent[n][q].peer = f.from /\ kSent[n][q].msg.token = f.msg.token
  <2>1. r # 0 => r \in K!Kept(kSent[n], setup.sentSize) /\ kSent[n][r].peer = f.from
    BY <1>4
  <2>2. CASE q # 0
    BY <2>1, <2>2, MatchingFacts
  <2> QED BY <2>2
<1> HIDE DEF q
<1>6. marked \in Seq(SentEntry) /\ SameMail(kSent[n], marked) /\ DOMAIN marked = DOMAIN kSent[n]
  <2>1. CASE r = 0
    BY <1>3, <2>1 DEF SameMail
  <2>2. CASE r # 0
    <3>1. /\ [kSent[n] EXCEPT ![r].acked = TRUE] \in Seq(SentEntry)
          /\ SameMail(kSent[n], [kSent[n] EXCEPT ![r].acked = TRUE])
      BY <1>3, <1>4, <2>2, SentMarks
    <3> QED BY <1>3, <2>2, <3>1
  <2> QED BY <2>1, <2>2
<1> HIDE DEF marked
<1>7. list \in Seq(SentEntry) /\ SameMail(kSent[n], list)
  <2>1. CASE ~answered
    BY <1>6, <2>1
  <2>2. CASE answered
    <3>1. /\ [marked EXCEPT ![q].answered = TRUE] \in Seq(SentEntry)
          /\ SameMail(marked, [marked EXCEPT ![q].answered = TRUE])
      BY <1>5, <1>6, <2>2, SentMarks
    <3> QED BY <1>6, <2>2, <3>1 DEF SameMail
  <2> QED BY <2>1, <2>2
<1> HIDE DEF list
<1>8. /\ kSent' \in [Node -> Seq(SentEntry)] /\ kSent'[n] = list
      /\ \A p \in Node \ {n} : kSent'[p] = kSent[p]
      /\ received' \in [Node -> Seq(GotEntry)] /\ received'[n] = K!Receiving(n, f)
      /\ \A p \in Node \ {n} : received'[p] = received[p]
  BY <1>1, <1>2, <1>3, <1>7
<1>9. SentShape' /\ GotShape'
  <2>1. SentShape /\ GotShape /\ kAir' \subseteq Airs /\ ids' \in [Node -> Nat]
        /\ resend' \in [Node -> SUBSET Nat] /\ \A p \in Node : resend'[p] \subseteq resend[p]
    BY <1>1 DEF KShape, SentShape, Airs
  <2>2. SentShape'
    BY <1>7, <1>8, <2>1, SentStays
  <2>3. Len(list) = Len(kSent[n])
    BY <1>7 DEF SameMail
  <2> QED BY <1>2, <1>8, <2>1, <2>2, <2>3, OthersPoint
<1>10. answers' \in [K!Call -> Seq(Token)]
  <2>1. answers \in [K!Call -> Seq(Token)] /\ f.msg.body \in Token
    BY <1>2 DEF KShape, Mail
  <2> QED BY <1>1, <2>1, GivenTyped
<1>11. AirFrom(n)
  BY <1>1 DEF AirFrom
<1>12. Turn(n)
  BY <1>1, <1>2, <1>8, <1>9, <1>10, <1>11, ReceivedTurn
<1>13. AnswersOne(n, f) /\ (answers' # answers => f.msg.code = "response")
  <2>1. CASE ~answered
    BY <1>1, <2>1 DEF AnswersOne
  <2>2. CASE answered
    BY <1>1, <1>5, <2>2 DEF AnswersOne, K!Given
  <2> QED BY <2>1, <2>2
<1> QED BY <1>1, <1>2, <1>7, <1>8, <1>12, <1>13

LEMMA ReceiveResetFacts ==
  ASSUME KShape, NEW n \in Node, NEW f \in kAir, NEW rest \in SUBSET kAir,
         K!ReceiveReset(n, f, rest), setup' = setup
  PROVE  /\ Turn(n) /\ Unknown(n, f) /\ f.from \in Node /\ f.msg \in Mail
         /\ f.msg.type = "RST" /\ Longer(received[n], received'[n], f.from, f.msg)
         /\ UNCHANGED <<kSent, ids, kOpen, executed>>
         /\ answers' # answers =>
              \E i \in DOMAIN kSent[n] :
                kSent[n][i].msg.code = "request" /\ kSent[n][i].msg.id = f.msg.id
<1> DEFINE r == K!ById(kSent[n], setup.sentSize, f.from, f.msg.id)
<1>1. /\ K!New(n, f) /\ f.msg.type = "RST"
      /\ received' = [received EXCEPT ![n] = K!Receiving(n, f)]
      /\ answers' = IF r = 0 THEN answers ELSE K!Given(kSent[n][r].msg, f.msg.body)
      /\ kAir' = rest
      /\ UNCHANGED <<kSent, ids, resend, due, kOpen, executed>>
  BY DEF K!ReceiveReset, K!SendNothing
<1>2. /\ Unknown(n, f) /\ f.from \in Node /\ f.msg \in Mail
      /\ K!Receiving(n, f) \in Seq(GotEntry) /\ PointsIn(K!Receiving(n, f), Len(kSent[n]))
      /\ Longer(received[n], K!Receiving(n, f), f.from, f.msg)
  BY <1>1, NewFacts
<1>3. /\ received \in [Node -> Seq(GotEntry)]
      /\ Len(kSent[n]) \in Nat /\ DOMAIN kSent[n] = 1..Len(kSent[n])
  BY SequenceFacts DEF KShape, SentShape, GotShape
<1>4. r = 0 \/ (r \in DOMAIN kSent[n] /\ kSent[n][r].msg.id = f.msg.id)
  <2>1. K!Kept(kSent[n], setup.sentSize) \subseteq DOMAIN kSent[n]
    BY DEF K!Kept
  <2> QED BY <1>3, <2>1, FoundFacts
<1> HIDE DEF r
<1>5. /\ received' \in [Node -> Seq(GotEntry)] /\ received'[n] = K!Receiving(n, f)
      /\ \A p \in Node \ {n} : received'[p] = received[p]
  BY <1>1, <1>2, <1>3
<1>6. SentShape' /\ GotShape'
  <2>1. SentShape /\ GotShape /\ SentShape'
    BY <1>1 DEF KShape, SentShape
  <2> QED BY <1>1, <1>2, <1>5, <2>1, OthersPoint
<1>7. answers' \in [K!Call -> Seq(Token)]
  <2>1. answers \in [K!Call -> Seq(Token)] /\ f.msg.body \in Token
    BY <1>2 DEF KShape, Mail
  <2> QED BY <1>1, <2>1, GivenTyped
<1>8. AirFrom(n)
  BY <1>1 DEF AirFrom
<1>9. Turn(n)
  BY <1>1, <1>2, <1>5, <1>6, <1>7, <1>8, ReceivedTurn
<1> QED BY <1>1, <1>2, <1>4, <1>5, <1>9 DEF K!Given

LEMMA ReceiveResponseFacts ==
  ASSUME KShape, NEW n \in Node, NEW f \in kAir, NEW rest \in SUBSET kAir,
         K!ReceiveResponse(n, f, rest), setup' = setup
  PROVE  /\ Turn(n) /\ Unknown(n, f) /\ f.from \in Node /\ f.msg \in Mail
         /\ f.msg.code = "response" /\ Longer(received[n], received'[n], f.from, f.msg)
         /\ UNCHANGED <<ids, kOpen, executed>> /\ AnswersOne(n, f)
         /\ \/ SameMail(kSent[n], kSent'[n])
            \/ \E m \in Mail :
                 /\ Longer(kSent[n], kSent'[n], f.from, m) /\ m.code = "empty"
                 /\ m.type = "ACK" \/ (m.type = "RST" /\ f.msg.type = "CON" /\ m.id = f.msg.id)
<1> DEFINE got == K!Receiving(n, f)
           i == Len(got)
           r == K!Matching(n, f, 0)
           ack == K!EmptyMessage("ACK", f.msg.id)
           reset == K!EmptyMessage("RST", f.msg.id)
           acked == K!Sending(kSent[n], f.from, ack)
           list == IF f.msg.type = "CON" THEN acked ELSE kSent[n]
           place == K!At(list, setup.sentSize, r)
           most == Len(kSent[n]) + 1
<1>1. /\ K!New(n, f) /\ f.msg.code = "response"
      /\ IF r = 0
         THEN /\ answers' = answers
              /\ IF f.msg.type = "CON"
                 THEN /\ K!SendAsIs(n, f.from, reset, rest)
                      /\ received' = [received EXCEPT ![n] = [got EXCEPT ![i].response = most]]
                 ELSE K!SendNothing(rest) /\ received' = [received EXCEPT ![n] = got]
         ELSE /\ answers' = K!Given(list[place].msg, f.msg.body)
              /\ kSent' = [kSent EXCEPT ![n] = [list EXCEPT ![place].answered = TRUE]]
              /\ kAir' = IF f.msg.type = "CON" THEN rest \cup {K!Frame(n, f.from, ack)} ELSE rest
              /\ received' = [received EXCEPT ![n] =
                                IF f.msg.type = "CON" THEN [got EXCEPT ![i].ack = Len(acked)]
                                ELSE got]
              /\ UNCHANGED resend
      /\ UNCHANGED <<ids, due, kOpen, executed>>
  BY DEF K!ReceiveResponse
<1>2. /\ Unknown(n, f) /\ f.from \in Node /\ f.msg \in Mail
      /\ got \in Seq(GotEntry) /\ PointsIn(got, Len(kSent[n]))
      /\ Longer(received[n], got, f.from, f.msg) /\ i \in DOMAIN got
  BY <1>1, NewFacts
<1>3. /\ kSent \in [Node -> Seq(SentEntry)] /\ received \in [Node -> Seq(GotEntry)]
      /\ Len(kSent[n]) \in Nat /\ DOMAIN kSent[n] = 1..Len(kSent[n])
      /\ ids' \in [Node -> Nat] /\ kAir \subseteq Airs
      /\ SentShape /\ GotShape /\ answers \in [K!Call -> Seq(Token)]
  BY <1>1, SequenceFacts DEF KShape, SentShape, GotShape, Airs
<1>4. f.msg.id \in Nat /\ f.msg.body \in Token
  BY <1>2 DEF Mail
<1>5. /\ ack \in Mail /\ ack.code = "empty" /\ ack.type = "ACK"
      /\ reset \in Mail /\ reset.code = "empty" /\ reset.type = "RST" /\ reset.id = f.msg.id
  BY <1>4, EmptyMail
<1> HIDE DEF ack, reset
<1>6. acked \in Seq(SentEntry) /\ Longer(kSent[n], acked, f.from, ack)
  BY <1>2, <1>3, <1>5, SendingFacts
<1>7. Len(acked) = most /\ most \in Nat /\ most \in 0..most /\ DOMAIN acked = 1..most
  BY <1>3, <1>6, SequenceFacts DEF Longer
<1>8. PointsIn(got, most)
  <2>1. \A v \in 0..Len(kSent[n]) : v \in 0..most
    BY <1>3
  <2> QED BY <1>2, <2>1 DEF PointsIn
<1>9. r # 0 => /\ r \in K!Kept(kSent[n], setup.sentSize) /\ r \in DOMAIN kSent[n]
               /\ kSent[n][r].peer = f.from /\ kSent[n][r].msg.token = f.msg.token
  <2> SUFFICES ASSUME r # 0 PROVE /\ r \in K!Kept(kSent[n], setup.sentSize) /\ r \in DOMAIN kSent[n]
               /\ kSent[n][r].peer = f.from /\ kSent[n][r].msg.token = f.msg.token
    OBVIOUS
  <2> QED BY MatchingFacts
<1> HIDE DEF acked, got, r, most, i
<1>10. ASSUME NEW g \in Seq(GotEntry), SameMail(got, g), received' = [received EXCEPT ![n] = g]
       PROVE  /\ received' \in [Node -> Seq(GotEntry)] /\ received'[n] = g
              /\ \A p \in Node \ {n} : received'[p] = received[p]
              /\ Longer(received[n], received'[n], f.from, f.msg)
  <2>1. /\ received' \in [Node -> Seq(GotEntry)] /\ received'[n] = g
        /\ \A p \in Node \ {n} : received'[p] = received[p]
    BY <1>3, <1>10
  <2>2. Longer(received[n], g, f.from, f.msg)
    <3>1. received[n] \in Seq(GotEntry)
      BY <1>3
    <3> QED BY <1>2, <1>10, <3>1, LongerThenSame
  <2> QED BY <2>1, <2>2
<1>11. SameMail(got, got)
  BY DEF SameMail
<1>12. CASE r = 0 /\ f.msg.type = "CON"
  <2> DEFINE g == [got EXCEPT ![i].response = most]
  <2>1. /\ answers' = answers /\ K!SendAsIs(n, f.from, reset, rest)
        /\ received' = [received EXCEPT ![n] = g]
    BY <1>1, <1>12
  <2>2. g \in Seq(GotEntry) /\ SameMail(got, g) /\ PointsIn(g, most)
    BY <1>2, <1>7, <1>8, GotMarks
  <2> HIDE DEF g
  <2>3. /\ SentShape' /\ Longer(kSent[n], kSent'[n], f.from, reset)
        /\ \A p \in Node \ {n} : kSent'[p] = kSent[p]
        /\ kAir' = rest \cup {K!Frame(n, f.from, reset)}
    <3>1. rest \in SUBSET Airs
      BY <1>3
    <3> QED BY <1>2, <1>3, <1>5, <2>1, <3>1, SendAsIsFacts
  <2>4. /\ received' \in [Node -> Seq(GotEntry)] /\ received'[n] = g
        /\ \A p \in Node \ {n} : received'[p] = received[p]
        /\ Longer(received[n], received'[n], f.from, f.msg)
    BY <1>10, <2>1, <2>2
  <2>5. Len(kSent'[n]) = most
    BY <2>3 DEF Longer, most
  <2>6. GotShape'
    BY <1>3, <2>2, <2>3, <2>4, <2>5, OthersPoint
  <2>7. AirFrom(n)
    BY <1>3, <2>3, SentHere
  <2>8. Turn(n)
    BY <1>1, <1>2, <1>3, <2>1, <2>3, <2>4, <2>6, <2>7, ReceivedTurn
  <2> QED BY <1>1, <1>2, <1>5, <1>12, <2>1, <2>3, <2>4, <2>8 DEF AnswersOne
<1>13. CASE r = 0 /\ f.msg.type # "CON"
  <2>1. /\ answers' = answers /\ kSent' = kSent /\ resend' = resend /\ kAir' = rest
        /\ received' = [received EXCEPT ![n] = got]
    BY <1>1, <1>13 DEF K!SendNothing
  <2>2. /\ received' \in [Node -> Seq(GotEntry)] /\ received'[n] = got
        /\ \A p \in Node \ {n} : received'[p] = received[p]
        /\ Longer(received[n], received'[n], f.from, f.msg)
    BY <1>2, <1>10, <1>11, <2>1
  <2>3. SentShape'
    BY <1>1, <1>3, <2>1 DEF SentShape, Airs
  <2>4. GotShape'
    BY <1>2, <1>3, <2>1, <2>2, <2>3, OthersPoint
  <2>5. AirFrom(n) /\ SameMail(kSent[n], kSent'[n])
    BY <2>1 DEF AirFrom, SameMail
  <2>6. Turn(n)
    BY <1>1, <1>2, <1>3, <2>1, <2>2, <2>3, <2>4, <2>5, ReceivedTurn
  <2> QED BY <1>1, <1>2, <2>1, <2>2, <2>5, <2>6 DEF AnswersOne
<1>14. CASE r # 0
  <2>1. list \in Seq(SentEntry) /\ DOMAIN kSent[n] \subseteq DOMAIN list
    BY <1>3, <1>6, <1>7 DEF most
  <2>2. /\ place \in DOMAIN list
        /\ place = r \/ (f.msg.type = "CON" /\ place = most)
    <3>1. r \in DOMAIN list
      BY <1>9, <1>14, <2>1
    <3>2. place \in DOMAIN list
      <4> HIDE DEF list
      <4> QED BY <2>1, <3>1, SequenceFacts, Setting, PlaceFacts DEF KShape
    <3>3. setup.sentSize \in Nat \ {0} /\ r \in K!Kept(kSent[n], setup.sentSize)
      BY <1>9, <1>14, Setting DEF KShape
    <3>4. CASE f.msg.type = "CON"
      <4>1. place = K!At(acked, setup.sentSize, r)
        BY <3>4
      <4>2. kSent[n] \in Seq(SentEntry) /\ Len(acked) = Len(kSent[n]) + 1
        BY <1>3, <1>7 DEF most
      <4> QED BY <1>6, <1>7, <3>2, <3>3, <3>4, <4>1, <4>2, PlaceOfKept
    <3>5. CASE f.msg.type # "CON"
      <4>1. place = K!At(kSent[n], setup.sentSize, r)
        BY <3>5
      <4>2. kSent[n] \in Seq(SentEntry) /\ Len(kSent[n]) # Len(kSent[n]) + 1
        <5>1. kSent[n] \in Seq(SentEntry)
          BY <1>3
        <5>2. \A v \in Nat : v # v + 1
          OBVIOUS
        <5> QED BY <1>3, <5>1, <5>2
      <4> QED BY <3>2, <3>3, <4>1, <4>2, PlaceOfKept
    <3> QED BY <3>4, <3>5
  <2>3. place = r => list[place].msg = kSent[n][r].msg
    BY <1>6, <1>9, <1>14 DEF Longer
  <2>4. place = most /\ f.msg.type = "CON" => list[place].msg = ack
    BY <1>6, <1>7 DEF Longer
  <2> HIDE DEF place
  <2>5. AnswersOne(n, f)
    <3>1. answers' = K!Given(list[place].msg, f.msg.body)
      BY <1>1, <1>14 DEF place
    <3> HIDE DEF list
    <3>2. CASE place = r
      BY <1>9, <1>14, <2>3, <3>1, <3>2 DEF AnswersOne, K!Given
    <3>3. CASE f.msg.type = "CON" /\ place = most
      BY <1>5, <2>4, <3>1, <3>3 DEF AnswersOne, K!Given
    <3> QED BY <2>2, <3>2, <3>3
  <2>6. answers' \in [K!Call -> Seq(Token)]
    BY <1>1, <1>3, <1>4, <1>14, GivenTyped
  <2> DEFINE k == [list EXCEPT ![place].answered = TRUE]
  <2>7. k \in Seq(SentEntry) /\ SameMail(list, k)
    <3> HIDE DEF list
    <3> QED BY <2>1, <2>2, SentMarks
  <2>8. kSent' = [kSent EXCEPT ![n] = k]
    BY <1>1, <1>14 DEF place
  <2> HIDE DEF k
  <2>9. /\ kSent' \in [Node -> Seq(SentEntry)] /\ kSent'[n] = k
        /\ \A p \in Node \ {n} : kSent'[p] = kSent[p]
    BY <1>3, <2>7, <2>8
  <2>10. /\ resend' = resend /\ resend' \in [Node -> SUBSET Nat]
    BY <1>1, <1>3, <1>14 DEF SentShape
  <2>11. CASE f.msg.type = "CON"
    <3> DEFINE g == [got EXCEPT ![i].ack = Len(acked)]
    <3>1. received' = [received EXCEPT ![n] = g] /\ kAir' = rest \cup {K!Frame(n, f.from, ack)}
      BY <1>1, <1>14, <2>11
    <3>2. g \in Seq(GotEntry) /\ SameMail(got, g) /\ PointsIn(g, most)
      <4>1. Len(acked) \in 0..most
        BY <1>7
      <4> QED BY <1>2, <1>7, <1>8, <4>1, GotMarks
    <3> HIDE DEF g
    <3>3. /\ received' \in [Node -> Seq(GotEntry)] /\ received'[n] = g
          /\ \A p \in Node \ {n} : received'[p] = received[p]
          /\ Longer(received[n], received'[n], f.from, f.msg)
      BY <1>10, <3>1, <3>2
    <3>4. Longer(kSent[n], kSent'[n], f.from, ack) /\ Len(kSent'[n]) = most
      <4>1. SameMail(acked, k)
        BY <2>7, <2>11
      <4>2. Longer(kSent[n], k, f.from, ack)
        BY <1>3, <1>6, <2>7, <4>1, LongerThenSame
      <4>3. Len(k) = most
        BY <1>7, <4>1 DEF SameMail
      <4> QED BY <2>9, <4>2, <4>3
    <3>5. SentShape'
      <4>1. kAir' \subseteq Airs
        BY <1>2, <1>3, <1>5, <3>1 DEF Airs, K!Frame
      <4> QED BY <1>3, <2>9, <2>10, <3>4, <4>1, SentStays
    <3>6. GotShape'
      BY <1>3, <2>9, <3>2, <3>3, <3>4, <3>5, OthersPoint
    <3>7. AirFrom(n)
      BY <1>3, <3>1, <3>4, <3>5, SentHere
    <3>8. Turn(n)
      BY <1>1, <1>2, <2>6, <2>9, <3>3, <3>5, <3>6, <3>7, ReceivedTurn
    <3> QED BY <1>1, <1>2, <1>5, <2>5, <3>3, <3>4, <3>8
  <2>12. CASE f.msg.type # "CON"
    <3>1. received' = [received EXCEPT ![n] = got] /\ kAir' = rest
      BY <1>1, <1>14, <2>12
    <3>2. /\ received' \in [Node -> Seq(GotEntry)] /\ received'[n] = got
          /\ \A p \in Node \ {n} : received'[p] = received[p]
          /\ Longer(received[n], received'[n], f.from, f.msg)
      BY <1>2, <1>10, <1>11, <3>1
    <3>3. SameMail(kSent[n], kSent'[n]) /\ Len(kSent'[n]) = Len(kSent[n])
      BY <2>7, <2>9, <2>12 DEF SameMail
    <3>4. SentShape'
      <4>1. kAir' \subseteq Airs
        BY <1>3, <3>1
      <4> QED BY <1>3, <2>9, <2>10, <3>3, <4>1, SentStays
    <3>5. GotShape'
      BY <1>2, <1>3, <2>9, <3>2, <3>3, <3>4, OthersPoint
    <3>6. AirFrom(n)
      BY <3>1 DEF AirFrom
    <3>7. Turn(n)
      BY <1>1, <1>2, <2>6, <2>9, <3>2, <3>4, <3>5, <3>6, ReceivedTurn
    <3> QED BY <1>1, <1>2, <2>5, <3>2, <3>3, <3>7
  <2> QED BY <2>11, <2>12
<1> QED BY <1>12, <1>13, <1>14

(***************************************************************************)
(* A copy: the acknowledgement goes out, and what was the response if it   *)
(* was no acknowledgement.                                                 *)
(***************************************************************************)
LEMMA ReceiveCopyFacts ==
  ASSUME KShape, NEW n \in Node, NEW f \in kAir, NEW rest \in SUBSET kAir,
         K!ReceiveCopy(n, f, rest), setup' = setup
  PROVE  /\ Turn(n) /\ SameMail(received[n], received'[n])
         /\ UNCHANGED <<ids, kOpen, executed, answers>>
         /\ \/ kSent' = kSent
            \/ \E p \in Node, m \in Mail :
                 /\ Longer(kSent[n], kSent'[n], p, m) /\ Meets(received[n], p)
                 /\ m.code = "empty" /\ m.type = "ACK"
<1> DEFINE d == K!Original(n, f)
           e == received[n][d]
           list == IF f.msg.type = "CON" /\ e.ack = 0
                   THEN K!Sending(kSent[n], e.peer, K!EmptyMessage("ACK", e.msg.id))
                   ELSE kSent[n]
           again == K!ResponseAgain(n, d, list)
           all == rest \cup again
<1>1. /\ d # 0
      /\ IF f.msg.type = "CON" THEN K!Ack(n, d, all) ELSE K!SendNothing(all) /\ UNCHANGED received
      /\ UNCHANGED <<ids, due, kOpen, executed, answers>>
  BY DEF K!ReceiveCopy
<1>2. /\ kSent \in [Node -> Seq(SentEntry)] /\ received[n] \in Seq(GotEntry)
      /\ Len(received[n]) \in Nat /\ DOMAIN received[n] = 1..Len(received[n])
      /\ Len(kSent[n]) \in Nat /\ DOMAIN kSent[n] = 1..Len(kSent[n])
      /\ SentShape /\ GotShape /\ DueShape /\ setup \in coapSetups /\ kAir \subseteq Airs
      /\ rest \subseteq Airs
  BY SequenceFacts DEF KShape, SentShape, GotShape, Airs
<1>3. d \in DOMAIN received[n]
  <2>1. K!Kept(received[n], setup.receivedSize) \subseteq DOMAIN received[n]
    BY DEF K!Kept
  <2> QED BY <1>1, <1>2, <2>1, FoundFacts DEF K!Original
<1> HIDE DEF d
<1>4. e \in GotEntry /\ e.ack \in 0..Len(kSent[n]) /\ e.response \in 0..Len(kSent[n])
  BY <1>2, <1>3, SequenceFacts DEF GotShape
<1>5. e.peer \in Node /\ e.msg.id \in Nat
  BY <1>4 DEF GotEntry, Mail
<1> DEFINE m == K!EmptyMessage("ACK", e.msg.id)
<1>6. m \in Mail /\ m.code = "empty" /\ m.type = "ACK"
  BY <1>5, EmptyMail
<1> HIDE DEF m, e
<1>7. list \in Seq(SentEntry) /\ Len(list) >= Len(kSent[n])
  <2>1. K!Sending(kSent[n], e.peer, m) \in Seq(SentEntry) /\ Len(K!Sending(kSent[n], e.peer, m)) = Len(kSent[n]) + 1
    BY <1>2, <1>5, <1>6, SendingFacts DEF Longer
  <2>2. CASE f.msg.type = "CON" /\ e.ack = 0
    BY <1>2, <2>1, <2>2 DEF m
  <2>3. CASE ~(f.msg.type = "CON" /\ e.ack = 0)
    BY <1>2, <2>3
  <2> QED BY <2>2, <2>3
<1> HIDE DEF list
<1>8. ASSUME NEW g \in again
      PROVE  g \in Airs /\ g.from = n /\ g.to = e.peer /\ Says(list, g.msg)
  <2> DEFINE w == K!At(list, setup.sentSize, e.response)
  <2>1. e.response # 0 /\ g = K!Frame(n, e.peer, list[w].msg)
    <3>1. again = IF e.response # 0 /\ list[w].msg.type # "ACK"
                  THEN {K!Frame(n, e.peer, list[w].msg)} ELSE {}
      BY DEF K!ResponseAgain, e
    <3> HIDE DEF w, again
    <3> QED BY <1>8, <3>1
  <2>2. Len(list) \in Nat /\ DOMAIN list = 1..Len(list)
    BY <1>7, SequenceFacts
  <2>3. e.response \in DOMAIN list
    BY <1>2, <1>4, <1>7, <2>1, <2>2
  <2>4. w \in DOMAIN list
    BY <1>2, <2>2, <2>3, Setting, PlaceFacts
  <2> HIDE DEF w
  <2>5. list[w].msg \in Mail
    <3>1. list[w] \in SentEntry
      BY <1>7, <2>4, SequenceFacts
    <3> QED BY <3>1 DEF SentEntry
  <2>6. Says(list, list[w].msg)
    BY <2>4 DEF Says
  <2> QED BY <1>5, <2>1, <2>5, <2>6 DEF K!Frame, Airs
<1> HIDE DEF again
<1>9. all \subseteq Airs /\ Meets(received[n], e.peer)
  BY <1>2, <1>3, <1>8 DEF Meets, e
<1> HIDE DEF all
<1>10. ASSUME SentShape', GotShape', SameMail(received[n], received'[n]), kSent'[n] = list,
              \A p \in Node \ {n} : kSent'[p] = kSent[p] /\ received'[p] = received[p],
              \A g \in kAir' : g \in all \/ (/\ g.from = n /\ Says(kSent'[n], g.msg)
                                             /\ g.to = e.peer)
       PROVE  Turn(n)
  <2>1. DueShape'
    <3>1. coapReceived \in Nat /\ due' \in [Node -> SUBSET Nat] /\ kOpen' \in [Node -> SUBSET Nat]
          /\ due' = due /\ kOpen' = kOpen
      BY <1>1, Setting DEF KShape, DueShape
    <3> QED BY <1>2, <1>10, <3>1, DueStays
  <2>2. AirFrom(n)
    <3>1. received'[n] \in Seq(GotEntry)
      BY <1>10 DEF GotShape
    <3>2. Meets(received'[n], e.peer)
      BY <1>2, <1>9, <1>10, <3>1, SameFacts
    <3>3. \A g \in all : g \in rest \/ (g.from = n /\ g.to = e.peer /\ Says(kSent'[n], g.msg))
      BY <1>8, <1>10 DEF all
    <3> QED BY <1>10, <3>2, <3>3 DEF AirFrom
  <2> QED BY <1>1, <1>10, <2>1, <2>2 DEF Turn, KShape, OthersStay
<1>11. CASE f.msg.type = "CON"
  <2>1. K!Ack(n, d, all) /\ ids' = ids
    BY <1>1, <1>11
  <2>2. /\ SentShape' /\ GotShape' /\ SameMail(received[n], received'[n])
        /\ \A p \in Node \ {n} : kSent'[p] = kSent[p] /\ received'[p] = received[p]
        /\ \/ /\ e.ack # 0 /\ kSent' = kSent /\ received' = received
              /\ \E i \in DOMAIN kSent[n] :
                   kAir' = all \cup {K!Frame(n, e.peer, kSent[n][i].msg)}
           \/ /\ e.ack = 0
              /\ kSent'[n] = K!Sending(kSent[n], e.peer, m)
              /\ Longer(kSent[n], kSent'[n], e.peer, m)
              /\ kAir' = all \cup {K!Frame(n, e.peer, m)}
    BY <1>2, <1>3, <1>9, <2>1, AckFacts DEF e, m
  <2>3. CASE e.ack # 0
    <3>1. kSent' = kSent /\ list = kSent[n]
      BY <2>2, <2>3 DEF list
    <3>2. PICK i \in DOMAIN kSent[n] : kAir' = all \cup {K!Frame(n, e.peer, kSent[n][i].msg)}
      BY <2>2, <2>3
    <3>3. \A g \in kAir' : g \in all \/ (/\ g.from = n /\ Says(kSent'[n], g.msg)
                                         /\ g.to = e.peer)
      BY <3>1, <3>2 DEF Says, K!Frame
    <3>4. Turn(n)
      BY <1>10, <2>2, <3>1, <3>3
    <3> QED BY <1>1, <2>2, <3>1, <3>4
  <2>4. CASE e.ack = 0
    <3>1. /\ kSent'[n] = K!Sending(kSent[n], e.peer, m)
          /\ Longer(kSent[n], kSent'[n], e.peer, m)
          /\ kAir' = all \cup {K!Frame(n, e.peer, m)}
      BY <2>2, <2>4
    <3>2. kSent'[n] = list
      BY <1>11, <2>4, <3>1 DEF list, m
    <3>3. Says(kSent'[n], m)
      BY <2>2, <3>1, NowLonger, <1>2 DEF SentShape
    <3>4. \A g \in kAir' : g \in all \/ (/\ g.from = n /\ Says(kSent'[n], g.msg)
                                         /\ g.to = e.peer)
      BY <3>1, <3>3 DEF K!Frame
    <3>5. Turn(n)
      BY <1>10, <2>2, <3>2, <3>4
    <3> QED BY <1>1, <1>5, <1>6, <1>9, <2>2, <3>1, <3>5
  <2> QED BY <2>3, <2>4
<1>12. CASE f.msg.type # "CON"
  <2>1. kAir' = all /\ kSent' = kSent /\ resend' = resend /\ received' = received
    BY <1>1, <1>12 DEF K!SendNothing
  <2>2. list = kSent[n]
    BY <1>12 DEF list
  <2>3. SentShape' /\ GotShape' /\ SameMail(received[n], received'[n])
    BY <1>1, <1>2, <1>9, <2>1 DEF SentShape, GotShape, SameMail, Airs
  <2>4. Turn(n)
    BY <1>10, <2>1, <2>2, <2>3
  <2> QED BY <1>1, <2>1, <2>3, <2>4
<1> QED BY <1>11, <1>12

-----------------------------------------------------------------------------
LEMMA InitKShape == K!Init => KShape
<1> SUFFICES ASSUME K!Init PROVE KShape
  OBVIOUS
<1>1. /\ setup \in coapSetups
      /\ kSent = [n \in Node |-> <<>>] /\ received = [n \in Node |-> <<>>]
      /\ ids = setup.firstId
      /\ resend = [n \in Node |-> {}] /\ due = [n \in Node |-> {}] /\ kOpen = [n \in Node |-> {}]
      /\ kAir = {}
      /\ executed = [k \in K!Call |-> 0] /\ answers = [k \in K!Call |-> <<>>]
  BY DEF K!Init
<1>2. setup.firstId \in [Node -> Nat] /\ coapReceived \in Nat
  BY <1>1, Setting
<1>3. <<>> \in Seq(SentEntry) /\ <<>> \in Seq(GotEntry) /\ <<>> \in Seq(Token) /\ Len(<<>>) = 0
  OBVIOUS
<1>4. SentShape
  BY <1>1, <1>2, <1>3 DEF SentShape
<1>5. GotShape
  BY <1>1, <1>3 DEF GotShape
<1>6. DueShape
  BY <1>1, <1>2, <1>3 DEF DueShape
<1> QED BY <1>1, <1>3, <1>4, <1>5, <1>6 DEF KShape

(***************************************************************************)
(* What a step of the service is.                                          *)
(***************************************************************************)
Takes(n, f, rest) == \/ K!ReceiveRequest(n, f, rest) \/ K!ReceiveResponse(n, f, rest)
                     \/ K!ReceiveAck(n, f, rest) \/ K!ReceiveReset(n, f, rest)
                     \/ K!ReceiveCopy(n, f, rest)

Quiet == /\ UNCHANGED <<setup, kSent, received, ids, resend, due, kOpen, executed, answers>>
         /\ kAir' \subseteq kAir

LEMMA StepCases ==
  ASSUME KShape, [K!Next]_kVars
  PROVE  \/ \E n \in Node : \E k \in DOMAIN setup.requests[n] : K!Request(n, k)
         \/ \E n \in Node : \E i \in kOpen[n] : K!ReplyLater(n, i)
         \/ \E n \in Node : \E i \in due[n] : K!AckTimeout(n, i)
         \/ \E n \in Node : \E i \in resend[n] : K!RetransmitTimeout(n, i)
         \/ \E f \in kAir, rest \in SUBSET kAir :
              f.to \in Node /\ Takes(f.to, f, rest) /\ setup' = setup
         \/ Quiet
<1>1. CASE UNCHANGED kVars
  BY <1>1 DEF kVars, Quiet
<1>2. CASE \E n \in Node : \E k \in DOMAIN K!Requests(n) : K!Request(n, k)
  BY <1>2 DEF K!Requests
<1>3. ASSUME NEW f \in kAir, K!Deliver(f) \/ K!DeliverAndRepeat(f)
      PROVE  \E rest \in SUBSET kAir : f.to \in Node /\ Takes(f.to, f, rest) /\ setup' = setup
  <2>1. f.to \in Node
    BY DEF KShape, SentShape
  <2>2. CASE K!Deliver(f)
    <3>1. Takes(f.to, f, kAir \ {f}) /\ setup' = setup
      BY <2>2 DEF K!Deliver, K!Take, Takes
    <3> QED BY <2>1, <3>1
  <2>3. CASE K!DeliverAndRepeat(f)
    <3>1. Takes(f.to, f, kAir) /\ setup' = setup
      BY <2>3 DEF K!DeliverAndRepeat, K!Take, Takes
    <3> QED BY <2>1, <3>1
  <2> QED BY <1>3, <2>2, <2>3
<1>4. ASSUME NEW f \in kAir, K!Lose(f) PROVE Quiet
  BY <1>4 DEF K!Lose, Quiet
<1>5. CASE K!Next
  BY <1>2, <1>3, <1>4, <1>5 DEF K!Next, K!GoesOn
<1> QED BY <1>1, <1>5

LEMMA StepKShape == KShape /\ [K!Next]_kVars => KShape'
<1> SUFFICES ASSUME KShape, [K!Next]_kVars PROVE KShape'
  OBVIOUS
<1>1. ASSUME NEW n \in Node, NEW k \in DOMAIN setup.requests[n], K!Request(n, k) PROVE KShape'
  BY <1>1, RequestFacts DEF Turn
<1>2. ASSUME NEW n \in Node, NEW i \in kOpen[n], K!ReplyLater(n, i) PROVE KShape'
  BY <1>2, ReplyLaterFacts DEF Turn
<1>3. ASSUME NEW n \in Node, NEW i, K!AckTimeout(n, i) PROVE KShape'
  BY <1>3, AckTimeoutFacts DEF Turn
<1>4. ASSUME NEW n \in Node, NEW i, K!RetransmitTimeout(n, i) PROVE KShape'
  BY <1>4, RetransmitFacts DEF Turn
<1>5. ASSUME NEW f \in kAir, NEW rest \in SUBSET kAir, f.to \in Node,
             Takes(f.to, f, rest), setup' = setup
      PROVE  KShape'
  <2>1. CASE K!ReceiveRequest(f.to, f, rest)
    BY <1>5, <2>1, ReceiveRequestFacts DEF Turn
  <2>2. CASE K!ReceiveResponse(f.to, f, rest)
    BY <1>5, <2>2, ReceiveResponseFacts DEF Turn
  <2>3. CASE K!ReceiveAck(f.to, f, rest)
    BY <1>5, <2>3, ReceiveAckFacts DEF Turn
  <2>4. CASE K!ReceiveReset(f.to, f, rest)
    BY <1>5, <2>4, ReceiveResetFacts DEF Turn
  <2>5. CASE K!ReceiveCopy(f.to, f, rest)
    BY <1>5, <2>5, ReceiveCopyFacts DEF Turn
  <2> QED BY <1>5, <2>1, <2>2, <2>3, <2>4, <2>5 DEF Takes
<1>6. ASSUME Quiet PROVE KShape'
  BY <1>6 DEF Quiet, KShape, SentShape, GotShape, DueShape
<1> QED BY <1>1, <1>2, <1>3, <1>4, <1>5, <1>6, StepCases

LEMMA KShapeTypes == KShape => K!TypeOK
<1> SUFFICES ASSUME KShape, NEW n \in Node
             PROVE  /\ Len(received[n]) <= coapReceived
                    /\ resend[n] \subseteq {i \in DOMAIN kSent[n] : kSent[n][i].msg.type = "CON"}
                    /\ due[n] \cup kOpen[n] \subseteq
                         {i \in DOMAIN received[n] : received[n][i].msg.code = "request"}
                    /\ \A i \in DOMAIN received[n] :
                         {received[n][i].ack, received[n][i].response} \subseteq 0..Len(kSent[n])
  BY DEF K!TypeOK
<1> QED BY DEF KShape, SentShape, GotShape, DueShape

-----------------------------------------------------------------------------
(***************************************************************************)
(* The promise of RemoteCalls, kept by every service where a node that     *)
(* asks speaks to one other node, and that does not reply after the        *)
(* callback unless its list of received messages is long enough.  Asked by *)
(* k is the request k[2] of node k[1].                                     *)
(***************************************************************************)
Asks(s, n, p) == \E k \in DOMAIN s.requests[n] : s.requests[n][k].to = p

Speak(s, n, p) == Asks(s, n, p) \/ Asks(s, p, n)

OnePartner ==
  \A s \in coapSetups :
    /\ s.deferring = {} \/ s.receivedSize >= coapReceived
    /\ \A n, p, q \in Node : Asks(s, n, p) /\ Speak(s, n, q) => q = p

Real(k) == k \in K!Call /\ k[2] \in DOMAIN setup.requests[k[1]]

Target(k) == setup.requests[k[1]][k[2]].to

Keeps == setup.receivedSize >= coapReceived

\* What is in a list, whatever is noted about it.
MailIn(l) == {<<l[i].peer, l[i].msg>> : i \in DOMAIN l}

SentBy(n) == MailIn(kSent[n])

GotBy(n) == MailIn(received[n])

Request1(m) == m.code = "request"

Response1(m) == m.code = "response"

Numbered(m) == m.code # "empty" /\ m.type # "ACK"

(***************************************************************************)
(* A reset refuses a response of p with its number; a message for p says   *)
(* what its sender may say.                                                *)
(***************************************************************************)
Refuses(n, p, id) ==
  /\ Asks(setup, n, p)
  /\ \E o \in SentBy(p) : Response1(o[2]) /\ o[2].type = "CON" /\ o[2].id = id

Truthful(n, p, m) ==
  \/ /\ Request1(m) /\ Real(m.token) /\ m.body = m.token
     /\ n = m.token[1] /\ p = Target(m.token) /\ m.type \in {"CON", "NON"}
  \/ /\ Response1(m) /\ Real(m.token) /\ m.body = m.token
     /\ n = Target(m.token) /\ p = m.token[1] /\ executed[m.token] > 0
     /\ m.type \in {"CON", "NON", "ACK"}
  \/ m.code = "empty" /\ m.type \in {"ACK", "RST"} /\ (m.type = "RST" => Refuses(n, p, m.id))

SentTrue == \A n \in Node : \A o \in SentBy(n) :
  /\ Speak(setup, n, o[1]) /\ Truthful(n, o[1], o[2])
  /\ Numbered(o[2]) => o[2].id < ids[n]

NumbersDiffer == \A n \in Node : \A o, q \in SentBy(n) :
  Numbered(o[2]) /\ Numbered(q[2]) /\ o[2].id = q[2].id => o = q

AskedOnce == \A n \in Node : \A o, q \in SentBy(n) :
  Request1(o[2]) /\ Request1(q[2]) /\ o[2].token = q[2].token => o = q

FrameTrue(f) ==
  /\ Speak(setup, f.from, f.to) /\ \E o \in SentBy(f.from) : o[2] = f.msg
  /\ Request1(f.msg) => f.to = Target(f.msg.token)
  /\ f.msg.type = "RST" => Refuses(f.from, f.to, f.msg.id)

FramesTrue == \A f \in kAir : FrameTrue(f)

GotTrue == \A n \in Node : \A e \in GotBy(n) :
  /\ Speak(setup, n, e[1]) /\ \E o \in SentBy(e[1]) : o[2] = e[2]
  /\ Request1(e[2]) => n = Target(e[2].token) /\ executed[e[2].token] > 0

ExecutedGot == \A k \in K!Call : executed[k] > 0 =>
  /\ Real(k)
  /\ \E e \in GotBy(Target(k)) : e[1] = k[1] /\ Request1(e[2]) /\ e[2].token = k

AnswersGot == \A k \in K!Call : answers[k] # <<>> =>
  /\ Real(k)
  /\ \E e \in GotBy(k[1]) : e[1] = Target(k) /\ Response1(e[2]) /\ e[2].token = k

AnswersOnceSent == Keeps => \A n \in Node : \A o, q \in SentBy(n) :
  Response1(o[2]) /\ Response1(q[2]) /\ o[2].token = q[2].token => o = q

OpenUnanswered(n) == \A i \in kOpen[n] : \A o \in SentBy(n) :
  ~(Response1(o[2]) /\ o[2].token = received[n][i].msg.token)

GotOnce(n) == \A i, j \in DOMAIN received[n] :
  /\ Request1(received[n][i].msg) /\ Request1(received[n][j].msg)
  /\ received[n][i].msg.token = received[n][j].msg.token
  => i = j

OpenOnes == \A n \in Node : /\ kOpen[n] # {} => n \in setup.deferring
                            /\ Keeps => OpenUnanswered(n) /\ GotOnce(n)

KSays == /\ SentTrue /\ NumbersDiffer /\ AskedOnce /\ FramesTrue /\ GotTrue
         /\ ExecutedGot /\ AnswersGot /\ AnswersOnceSent /\ OpenOnes

-----------------------------------------------------------------------------
LEMMA MailFacts ==
  ASSUME NEW S, NEW T, NEW l \in Seq(S), NEW k \in Seq(T)
  PROVE  /\ SameMail(l, k) => MailIn(k) = MailIn(l)
         /\ \A p, m : Longer(l, k, p, m) => MailIn(k) = MailIn(l) \cup {<<p, m>>}
<1>1. /\ Len(l) \in Nat /\ DOMAIN l = 1..Len(l) /\ Len(k) \in Nat /\ DOMAIN k = 1..Len(k)
  BY SequenceFacts
<1>2. ASSUME SameMail(l, k) PROVE MailIn(k) = MailIn(l)
  <2>1. DOMAIN k = DOMAIN l
    BY <1>1, <1>2 DEF SameMail
  <2> QED BY <1>2, <2>1 DEF SameMail, MailIn
<1>3. ASSUME NEW p, NEW m, Longer(l, k, p, m) PROVE MailIn(k) = MailIn(l) \cup {<<p, m>>}
  <2>1. /\ DOMAIN k = DOMAIN l \cup {Len(k)} /\ Len(k) \notin DOMAIN l
        /\ k[Len(k)].peer = p /\ k[Len(k)].msg = m
    BY <1>1, <1>3 DEF Longer
  <2>2. \A i \in DOMAIN l : <<k[i].peer, k[i].msg>> = <<l[i].peer, l[i].msg>>
    BY <1>3 DEF Longer
  <2>3. ASSUME NEW o \in MailIn(k) PROVE o \in MailIn(l) \cup {<<p, m>>}
    <3>1. PICK i \in DOMAIN k : o = <<k[i].peer, k[i].msg>>
      BY DEF MailIn
    <3>2. CASE i \in DOMAIN l
      BY <2>2, <3>1, <3>2 DEF MailIn
    <3>3. CASE i = Len(k)
      BY <2>1, <3>1, <3>3
    <3> QED BY <2>1, <3>2, <3>3
  <2>4. ASSUME NEW o \in MailIn(l) \cup {<<p, m>>} PROVE o \in MailIn(k)
    <3>1. CASE o \in MailIn(l)
      <4>1. PICK i \in DOMAIN l : o = <<l[i].peer, l[i].msg>>
        BY <3>1 DEF MailIn
      <4> QED BY <2>1, <2>2, <4>1 DEF MailIn
    <3>2. CASE o = <<p, m>>
      BY <2>1, <3>2 DEF MailIn
    <3> QED BY <3>1, <3>2
  <2> QED BY <2>3, <2>4
<1> QED BY <1>2, <1>3

LEMMA MailHas ==
  ASSUME NEW l
  PROVE  /\ \A m : Says(l, m) <=> \E o \in MailIn(l) : o[2] = m
         /\ \A p : Meets(l, p) <=> \E o \in MailIn(l) : o[1] = p
         /\ \A i \in DOMAIN l : <<l[i].peer, l[i].msg>> \in MailIn(l)
<1>1. \A i \in DOMAIN l : <<l[i].peer, l[i].msg>> \in MailIn(l)
  BY DEF MailIn
<1>2. \A o \in MailIn(l) : \E i \in DOMAIN l : o[1] = l[i].peer /\ o[2] = l[i].msg
  BY DEF MailIn
<1>3. ASSUME NEW m PROVE Says(l, m) <=> \E o \in MailIn(l) : o[2] = m
  BY <1>1, <1>2 DEF Says
<1>4. ASSUME NEW p PROVE Meets(l, p) <=> \E o \in MailIn(l) : o[1] = p
  BY <1>1, <1>2 DEF Meets
<1> QED BY <1>1, <1>3, <1>4

LEMMA MailTyped ==
  ASSUME KShape, NEW n \in Node
  PROVE  /\ \A o \in SentBy(n) : o[1] \in Node /\ o[2] \in Mail /\ o = <<o[1], o[2]>>
         /\ \A e \in GotBy(n) : e[1] \in Node /\ e[2] \in Mail /\ e = <<e[1], e[2]>>
<1>1. kSent[n] \in Seq(SentEntry) /\ received[n] \in Seq(GotEntry)
  BY DEF KShape, SentShape, GotShape
<1>2. ASSUME NEW o \in SentBy(n) PROVE o[1] \in Node /\ o[2] \in Mail /\ o = <<o[1], o[2]>>
  <2>1. PICK i \in DOMAIN kSent[n] : o = <<kSent[n][i].peer, kSent[n][i].msg>>
    BY DEF SentBy, MailIn
  <2>2. kSent[n][i] \in SentEntry
    BY <1>1, SequenceFacts
  <2> QED BY <2>1, <2>2 DEF SentEntry
<1>3. ASSUME NEW e \in GotBy(n) PROVE e[1] \in Node /\ e[2] \in Mail /\ e = <<e[1], e[2]>>
  <2>1. PICK i \in DOMAIN received[n] : e = <<received[n][i].peer, received[n][i].msg>>
    BY DEF GotBy, MailIn
  <2>2. received[n][i] \in GotEntry
    BY <1>1, SequenceFacts
  <2> QED BY <2>1, <2>2 DEF GotEntry
<1> QED BY <1>2, <1>3

(***************************************************************************)
(* What a step of n adds to its mail: to what it has sent, O, and to what  *)
(* it has received, G.                                                     *)
(***************************************************************************)
Adds(n, O, G) == /\ MailIn(kSent'[n]) = SentBy(n) \cup O
                 /\ MailIn(received'[n]) = GotBy(n) \cup G
                 /\ \A o, q \in O : o = q

FineSent(n, O) ==
  /\ ids'[n] >= ids[n]
  /\ \A o \in O :
       /\ Speak(setup, n, o[1])
       /\ Numbered(o[2]) => o[2].id = ids[n] /\ ids'[n] = ids[n] + 1
       /\ Request1(o[2]) => \A q \in SentBy(n) : ~(Request1(q[2]) /\ q[2].token = o[2].token)
       /\ Keeps /\ Response1(o[2]) =>
            \A q \in SentBy(n) : ~(Response1(q[2]) /\ q[2].token = o[2].token)

FineGot(n, G) == \A e \in G :
  /\ e[1] \in Node /\ Speak(setup, n, e[1]) /\ \E o \in SentBy(e[1]) : o[2] = e[2]
  /\ Request1(e[2]) => n = Target(e[2].token) /\ executed'[e[2].token] > 0

FineCalls(n, G) == \A k \in K!Call :
  /\ executed[k] > 0 => executed'[k] > 0
  /\ executed'[k] > 0 => executed[k] > 0 \/ (/\ Real(k) /\ n = Target(k)
       /\ \E e \in G : e[1] = k[1] /\ Request1(e[2]) /\ e[2].token = k)
  /\ answers'[k] # <<>> => answers[k] # <<>> \/ (/\ Real(k) /\ n = k[1]
       /\ \E e \in G : e[1] = Target(k) /\ Response1(e[2]) /\ e[2].token = k)

LEMMA SameSetting ==
  ASSUME setup' = setup
  PROVE  /\ Keeps' = Keeps
         /\ \A k : Real(k)' = Real(k) /\ Target(k)' = Target(k)
         /\ \A n, p : Asks(setup, n, p)' = Asks(setup, n, p) /\ Speak(setup, n, p)' = Speak(setup, n, p)
BY DEF Keeps, Real, Target, Asks, Speak

LEMMA MailStays ==
  ASSUME KShape, NEW n \in Node, Turn(n), NEW O, NEW G, Adds(n, O, G), FineCalls(n, G)
  PROVE  /\ SentBy(n)' = SentBy(n) \cup O /\ GotBy(n)' = GotBy(n) \cup G
         /\ \A p \in Node : p # n => SentBy(p)' = SentBy(p) /\ GotBy(p)' = GotBy(p)
         /\ \A p \in Node : SentBy(p) \subseteq SentBy(p)' /\ GotBy(p) \subseteq GotBy(p)'
         /\ \A p, q, u : q \in Node /\ Refuses(p, q, u) => Refuses(p, q, u)'
         /\ \A p, q, m : q \in Node /\ Truthful(p, q, m) => Truthful(p, q, m)'
<1>1. SentBy(n)' = SentBy(n) \cup O /\ GotBy(n)' = GotBy(n) \cup G
  BY DEF Adds, SentBy, GotBy
<1>2. \A p \in Node : p # n => SentBy(p)' = SentBy(p) /\ GotBy(p)' = GotBy(p)
  BY DEF Turn, OthersStay, SentBy, GotBy
<1>3. \A p \in Node : SentBy(p) \subseteq SentBy(p)' /\ GotBy(p) \subseteq GotBy(p)'
  BY <1>1, <1>2
<1>4. ASSUME NEW p, NEW q \in Node, NEW u, Refuses(p, q, u) PROVE Refuses(p, q, u)'
  <2>1. PICK o \in SentBy(q) : Response1(o[2]) /\ o[2].type = "CON" /\ o[2].id = u
    BY <1>4 DEF Refuses
  <2>2. o \in SentBy(q)' /\ Asks(setup, p, q)'
    BY <1>3, <1>4, <2>1, SameSetting DEF Turn, Refuses
  <2> QED BY <2>1, <2>2 DEF Refuses, Response1
<1>5. ASSUME NEW p, NEW q \in Node, NEW m, Truthful(p, q, m) PROVE Truthful(p, q, m)'
  <2>1. /\ Real(m.token)' = Real(m.token) /\ Target(m.token)' = Target(m.token)
    BY SameSetting DEF Turn
  <2>2. Refuses(p, q, m.id) => Refuses(p, q, m.id)'
    BY <1>4
  <2>3. Real(m.token) /\ executed[m.token] > 0 => executed'[m.token] > 0
    BY DEF FineCalls, Real
  <2> QED BY <1>5, <2>1, <2>2, <2>3 DEF Truthful, Request1, Response1
<1> QED BY <1>1, <1>2, <1>3, <1>4, <1>5

FineOpen(n) == /\ kOpen[n] # {} => n \in setup.deferring
               /\ Keeps => OpenUnanswered(n) /\ GotOnce(n)

LEMMA SaysStep ==
  ASSUME OnePartner, KShape, KSays, NEW n \in Node, Turn(n), NEW O, NEW G,
         Adds(n, O, G), FineCalls(n, G), FineSent(n, O), FineGot(n, G),
         \A o \in O : Truthful(n, o[1], o[2])', FineOpen(n)'
  PROVE  KSays'
<1>1. /\ SentBy(n)' = SentBy(n) \cup O /\ GotBy(n)' = GotBy(n) \cup G
      /\ \A p \in Node : p # n => SentBy(p)' = SentBy(p) /\ GotBy(p)' = GotBy(p)
      /\ \A p \in Node : SentBy(p) \subseteq SentBy(p)' /\ GotBy(p) \subseteq GotBy(p)'
      /\ \A p, q, u : q \in Node /\ Refuses(p, q, u) => Refuses(p, q, u)'
      /\ \A p, q, m : q \in Node /\ Truthful(p, q, m) => Truthful(p, q, m)'
  BY MailStays
<1>2. KShape' /\ setup' = setup
  BY DEF Turn
<1>3. /\ Keeps' = Keeps
      /\ \A k : Real(k)' = Real(k) /\ Target(k)' = Target(k)
      /\ \A p, q : Asks(setup, p, q)' = Asks(setup, p, q) /\ Speak(setup, p, q)' = Speak(setup, p, q)
  BY <1>2, SameSetting
<1>4. \A p \in Node : \A o \in SentBy(p) : o[1] \in Node
  BY MailTyped
<1>5. \A p \in Node : (p # n => ids'[p] = ids[p]) /\ ids'[p] \in Nat /\ ids[p] \in Nat
  BY <1>2 DEF Turn, OthersStay, KShape, SentShape
<1>6. /\ SentTrue /\ NumbersDiffer /\ AskedOnce /\ FramesTrue /\ GotTrue
      /\ ExecutedGot /\ AnswersGot /\ AnswersOnceSent /\ OpenOnes
  BY DEF KSays
<1>7. \A p \in Node : \A o \in SentBy(p)' : o \in SentBy(p) \/ (p = n /\ o \in O)
  BY <1>1
<1>8. \A p \in Node : \A e \in GotBy(p)' : e \in GotBy(p) \/ (p = n /\ e \in G)
  BY <1>1
<1>9. SentTrue'
  <2> SUFFICES ASSUME NEW p \in Node, NEW o \in SentBy(p)'
               PROVE  /\ Speak(setup, p, o[1])' /\ Truthful(p, o[1], o[2])'
                      /\ Numbered(o[2]) => o[2].id < ids'[p]
    BY DEF SentTrue, Numbered
  <2>1. CASE o \in SentBy(p)
    <3>1. /\ Speak(setup, p, o[1]) /\ Truthful(p, o[1], o[2]) /\ o[1] \in Node
          /\ Numbered(o[2]) => o[2].id < ids[p]
      BY <1>4, <1>6, <2>1 DEF SentTrue
    <3>2. ids'[p] >= ids[p]
      BY <1>5 DEF FineSent
    <3>3. o[2] \in Mail
      BY <2>1, MailTyped
    <3>4. o[2].id \in Nat
      BY <3>3 DEF Mail
    <3> QED BY <1>1, <1>3, <1>5, <3>1, <3>2, <3>4
  <2>2. CASE p = n /\ o \in O
    <3>1. Speak(setup, p, o[1])' /\ Truthful(p, o[1], o[2])'
      BY <1>3, <2>2 DEF FineSent
    <3>2. Numbered(o[2]) => o[2].id = ids[p] /\ ids'[p] = ids[p] + 1
      BY <2>2 DEF FineSent
    <3> QED BY <1>5, <3>1, <3>2
  <2> QED BY <1>7, <2>1, <2>2
<1>10. NumbersDiffer'
  <2> SUFFICES ASSUME NEW p \in Node, NEW o \in SentBy(p)', NEW q \in SentBy(p)',
                      Numbered(o[2]), Numbered(q[2]), o[2].id = q[2].id
               PROVE  o = q
    BY DEF NumbersDiffer, Numbered
  <2>1. CASE o \in SentBy(p) /\ q \in SentBy(p)
    BY <1>6, <2>1 DEF NumbersDiffer
  <2>2. \A w \in SentBy(p) : Numbered(w[2]) => w[2].id < ids[p]
    BY <1>6 DEF SentTrue
  <2>3. p = n => \A w \in O : Numbered(w[2]) => w[2].id = ids[p]
    BY DEF FineSent
  <2>4. ids[p] \in Nat /\ ~(ids[p] < ids[p])
    BY <1>5
  <2> QED BY <1>7, <2>1, <2>2, <2>3, <2>4 DEF Adds
<1>11. AskedOnce'
  <2> SUFFICES ASSUME NEW p \in Node, NEW o \in SentBy(p)', NEW q \in SentBy(p)',
                      Request1(o[2]), Request1(q[2]), o[2].token = q[2].token
               PROVE  o = q
    BY DEF AskedOnce, Request1
  <2>1. CASE o \in SentBy(p) /\ q \in SentBy(p)
    BY <1>6, <2>1 DEF AskedOnce
  <2>2. p = n => \A w \in O : Request1(w[2]) =>
                   \A v \in SentBy(n) : ~(Request1(v[2]) /\ v[2].token = w[2].token)
    BY DEF FineSent
  <2> QED BY <1>7, <2>1, <2>2 DEF Adds
<1>12. AnswersOnceSent'
  <2> SUFFICES ASSUME Keeps, NEW p \in Node, NEW o \in SentBy(p)', NEW q \in SentBy(p)',
                      Response1(o[2]), Response1(q[2]), o[2].token = q[2].token
               PROVE  o = q
    BY <1>3 DEF AnswersOnceSent, Response1
  <2>1. CASE o \in SentBy(p) /\ q \in SentBy(p)
    BY <1>6, <2>1 DEF AnswersOnceSent
  <2>2. p = n => \A w \in O : Response1(w[2]) =>
                   \A v \in SentBy(n) : ~(Response1(v[2]) /\ v[2].token = w[2].token)
    BY DEF FineSent
  <2> QED BY <1>7, <2>1, <2>2 DEF Adds
<1>13. GotTrue'
  <2> SUFFICES ASSUME NEW p \in Node, NEW e \in GotBy(p)'
               PROVE  /\ Speak(setup, p, e[1])' /\ \E o \in SentBy(e[1])' : o[2] = e[2]
                      /\ Request1(e[2]) => p = Target(e[2].token)' /\ executed'[e[2].token] > 0
    BY DEF GotTrue, Request1
  <2>1. CASE e \in GotBy(p)
    <3>1. /\ e[1] \in Node /\ Speak(setup, p, e[1]) /\ \E o \in SentBy(e[1]) : o[2] = e[2]
          /\ Request1(e[2]) => p = Target(e[2].token) /\ executed[e[2].token] > 0
      BY <1>6, <2>1, MailTyped DEF GotTrue
    <3>2. Request1(e[2]) => e[2].token \in K!Call
      <4> SUFFICES ASSUME Request1(e[2]) PROVE e[2].token \in K!Call
        OBVIOUS
      <4>1. PICK o \in SentBy(e[1]) : o[2] = e[2]
        BY <3>1
      <4>2. Truthful(e[1], o[1], e[2])
        BY <1>6, <3>1, <4>1 DEF SentTrue
      <4> QED BY <4>2 DEF Truthful, Request1, Response1, Real
    <3>3. Request1(e[2]) => executed'[e[2].token] > 0
      BY <3>1, <3>2 DEF FineCalls
    <3> QED BY <1>1, <1>3, <3>1, <3>3
  <2>2. CASE p = n /\ e \in G
    <3>1. /\ e[1] \in Node /\ Speak(setup, n, e[1]) /\ \E o \in SentBy(e[1]) : o[2] = e[2]
          /\ Request1(e[2]) => n = Target(e[2].token) /\ executed'[e[2].token] > 0
      BY <2>2 DEF FineGot
    <3> QED BY <1>1, <1>3, <2>2, <3>1
  <2> QED BY <1>8, <2>1, <2>2
<1>14. FramesTrue'
  <2> SUFFICES ASSUME NEW f \in kAir' PROVE FrameTrue(f)'
    BY DEF FramesTrue
  <2>0. f.from \in Node /\ f.to \in Node
    BY <1>2 DEF KShape, SentShape
  <2>1. CASE f \in kAir
    <3>1. FrameTrue(f)
      BY <1>6, <2>1 DEF FramesTrue
    <3>2. Speak(setup, f.from, f.to)' /\ \E o \in SentBy(f.from)' : o[2] = f.msg
      BY <1>1, <1>3, <2>0, <3>1 DEF FrameTrue
    <3>3. Request1(f.msg) => f.to = Target(f.msg.token)'
      BY <1>3, <3>1 DEF FrameTrue
    <3>4. f.msg.type = "RST" => Refuses(f.from, f.to, f.msg.id)'
      BY <1>1, <2>0, <3>1 DEF FrameTrue
    <3> QED BY <3>2, <3>3, <3>4 DEF FrameTrue, Request1
  <2>2. CASE f \notin kAir
    <3>1. f.from = n /\ Says(kSent'[n], f.msg) /\ (Meets(kSent'[n], f.to) \/ Meets(received'[n], f.to))
      BY <2>2 DEF Turn, AirFrom
    <3>2. PICK o \in SentBy(n)' : o[2] = f.msg
      BY <3>1, MailHas DEF SentBy
    <3>3. Speak(setup, n, f.to)
      <4>1. CASE Meets(kSent'[n], f.to)
        <5>1. PICK q \in SentBy(n)' : q[1] = f.to
          BY <4>1, MailHas DEF SentBy
        <5> QED BY <1>3, <1>9, <5>1 DEF SentTrue
      <4>2. CASE Meets(received'[n], f.to)
        <5>1. PICK e \in GotBy(n)' : e[1] = f.to
          BY <4>2, MailHas DEF GotBy
        <5> QED BY <1>3, <1>13, <5>1 DEF GotTrue
      <4> QED BY <3>1, <4>1, <4>2
    <3>4. Truthful(n, o[1], f.msg)' /\ o[1] \in Node
      <4>1. Truthful(n, o[1], o[2])'
        BY <1>9 DEF SentTrue
      <4>2. o[1] \in Node
        <5>1. kSent'[n] \in Seq(SentEntry)
          BY <1>2 DEF KShape, SentShape
        <5>2. PICK i \in DOMAIN kSent'[n] : o = <<kSent'[n][i].peer, kSent'[n][i].msg>>
          BY DEF SentBy, MailIn
        <5>3. kSent'[n][i] \in SentEntry
          BY <5>1, SequenceFacts
        <5> QED BY <5>2, <5>3 DEF SentEntry
      <4> QED BY <3>2, <4>1, <4>2
    <3>5. \A p \in Node : Asks(setup, n, p) => p = f.to
      <4>1. setup \in coapSetups
        BY DEF KShape
      <4> QED BY <2>0, <3>3, <4>1 DEF OnePartner
    <3>6. ASSUME Request1(f.msg) PROVE f.to = Target(f.msg.token)'
      <4>1. Real(f.msg.token) /\ n = f.msg.token[1] /\ o[1] = Target(f.msg.token)
        BY <1>3, <3>4, <3>6 DEF Truthful, Request1, Response1
      <4>2. Asks(setup, n, o[1])
        BY <4>1 DEF Asks, Real, Target
      <4> QED BY <1>3, <3>4, <3>5, <4>1, <4>2
    <3>7. ASSUME f.msg.type = "RST" PROVE Refuses(n, f.to, f.msg.id)'
      <4>1. Refuses(n, o[1], f.msg.id)'
        BY <3>4, <3>7 DEF Truthful
      <4>2. Asks(setup, n, o[1])
        BY <1>3, <4>1 DEF Refuses
      <4> QED BY <3>4, <3>5, <4>1, <4>2
    <3>8. Speak(setup, n, f.to)' /\ \E q \in SentBy(n)' : q[2] = f.msg
      BY <1>3, <3>2, <3>3
    <3> QED BY <3>1, <3>6, <3>7, <3>8 DEF FrameTrue, Request1
  <2> QED BY <2>1, <2>2
<1>15. ExecutedGot'
  <2> SUFFICES ASSUME NEW k \in K!Call, executed'[k] > 0
               PROVE  /\ Real(k)'
                      /\ \E e \in GotBy(Target(k))' : e[1] = k[1] /\ Request1(e[2]) /\ e[2].token = k
    BY DEF ExecutedGot, Request1, K!Call
  <2>1. Real(k) => Target(k) \in Node
    <3> SUFFICES ASSUME Real(k) PROVE Target(k) \in Node
      OBVIOUS
    <3>1. setup.requests[k[1]] \in Seq([to : Node, type : {"CON", "NON"}])
      BY Setting DEF KShape, Real, K!Call
    <3>2. setup.requests[k[1]][k[2]] \in [to : Node, type : {"CON", "NON"}]
      BY <3>1, SequenceFacts DEF Real
    <3> QED BY <3>2 DEF Target
  <2>2. CASE executed[k] > 0
    BY <1>1, <1>3, <1>6, <2>1, <2>2 DEF ExecutedGot
  <2>3. CASE ~(executed[k] > 0)
    BY <1>1, <1>3, <2>3 DEF FineCalls
  <2> QED BY <2>2, <2>3
<1>16. AnswersGot'
  <2> SUFFICES ASSUME NEW k \in K!Call, answers'[k] # <<>>
               PROVE  /\ Real(k)'
                      /\ \E e \in GotBy(k[1])' : e[1] = Target(k)' /\ Response1(e[2]) /\ e[2].token = k
    BY DEF AnswersGot, Response1, K!Call
  <2>1. k[1] \in Node
    BY DEF K!Call
  <2>2. CASE answers[k] # <<>>
    BY <1>1, <1>3, <1>6, <2>1, <2>2 DEF AnswersGot
  <2>3. CASE answers[k] = <<>>
    BY <1>1, <1>3, <2>3 DEF FineCalls
  <2> QED BY <2>2, <2>3
<1>17. OpenOnes'
  <2>1. ASSUME NEW p \in Node, p # n PROVE FineOpen(p)'
    <3>1. FineOpen(p)
      BY <1>6 DEF OpenOnes, FineOpen
    <3>2. kOpen'[p] = kOpen[p] /\ received'[p] = received[p] /\ SentBy(p)' = SentBy(p)
      BY <1>1, <2>1 DEF Turn, OthersStay
    <3>3. OpenUnanswered(p) => OpenUnanswered(p)'
      BY <3>2 DEF OpenUnanswered, Response1
    <3>4. GotOnce(p) => GotOnce(p)'
      BY <3>2 DEF GotOnce, Request1
    <3> QED BY <1>2, <1>3, <3>1, <3>2, <3>3, <3>4 DEF FineOpen
  <2> QED BY <2>1 DEF OpenOnes, FineOpen
<1> QED BY <1>9, <1>10, <1>11, <1>12, <1>13, <1>14, <1>15, <1>16, <1>17 DEF KSays

-----------------------------------------------------------------------------
(***************************************************************************)
(* What a frame in the air says is true, and it comes from whom it claims. *)
(***************************************************************************)
LEMMA FrameSays ==
  ASSUME OnePartner, KShape, KSays, NEW f \in kAir
  PROVE  /\ f.from \in Node /\ f.to \in Node /\ f.msg \in Mail
         /\ Speak(setup, f.to, f.from) /\ \E o \in SentBy(f.from) : o[2] = f.msg
         /\ Request1(f.msg) =>
              /\ Real(f.msg.token) /\ f.msg.body = f.msg.token /\ f.from = f.msg.token[1]
              /\ f.to = Target(f.msg.token) /\ f.msg.type \in {"CON", "NON"}
         /\ Response1(f.msg) =>
              /\ Real(f.msg.token) /\ f.msg.body = f.msg.token /\ f.from = Target(f.msg.token)
              /\ executed[f.msg.token] > 0 /\ Asks(setup, f.to, f.from)
<1>1. f.from \in Node /\ f.to \in Node /\ f.msg \in Mail
  BY DEF KShape, SentShape
<1>2. FrameTrue(f)
  BY DEF KSays, FramesTrue
<1>3. PICK o \in SentBy(f.from) : o[2] = f.msg
  BY <1>2 DEF FrameTrue
<1>4. Truthful(f.from, o[1], f.msg) /\ Speak(setup, f.from, o[1]) /\ o[1] \in Node
  BY <1>1, <1>3, MailTyped DEF KSays, SentTrue
<1>5. Speak(setup, f.to, f.from)
  BY <1>2 DEF FrameTrue, Speak
<1>6. ASSUME Request1(f.msg)
      PROVE  /\ Real(f.msg.token) /\ f.msg.body = f.msg.token /\ f.from = f.msg.token[1]
             /\ f.to = Target(f.msg.token) /\ f.msg.type \in {"CON", "NON"}
  BY <1>2, <1>4, <1>6 DEF FrameTrue, Truthful, Request1, Response1
<1>7. ASSUME Response1(f.msg)
      PROVE  /\ Real(f.msg.token) /\ f.msg.body = f.msg.token /\ f.from = Target(f.msg.token)
             /\ executed[f.msg.token] > 0 /\ Asks(setup, f.to, f.from)
  <2>1. /\ Real(f.msg.token) /\ f.msg.body = f.msg.token /\ f.from = Target(f.msg.token)
        /\ executed[f.msg.token] > 0 /\ o[1] = f.msg.token[1]
    BY <1>4, <1>7 DEF Truthful, Request1, Response1
  <2>2. Asks(setup, o[1], f.from)
    BY <2>1 DEF Asks, Real, Target
  <2>3. o[1] = f.to \/ Asks(setup, f.to, f.from)
    <3>1. CASE Asks(setup, f.from, f.to)
      <4>1. setup \in coapSetups
        BY DEF KShape
      <4> QED BY <1>1, <1>4, <3>1, <4>1 DEF OnePartner
    <3> QED BY <1>5, <3>1 DEF Speak
  <2> QED BY <2>1, <2>2, <2>3
<1> QED BY <1>1, <1>3, <1>5, <1>6, <1>7

(***************************************************************************)
(* A list that is long enough forgets nothing.                             *)
(***************************************************************************)
LEMMA NothingForgotten ==
  ASSUME KShape, Keeps, NEW n \in Node, NEW f, Unknown(n, f), NEW e \in GotBy(n)
  PROVE  ~(e[1] = f.from /\ e[2].id = f.msg.id)
<1>1. /\ Len(received[n]) \in Nat /\ DOMAIN received[n] = 1..Len(received[n])
      /\ Len(received[n]) <= coapReceived /\ coapReceived \in Nat
      /\ setup.receivedSize \in Nat /\ setup.receivedSize >= coapReceived
  <2>1. received[n] \in Seq(GotEntry) /\ Len(received[n]) <= coapReceived
    BY DEF KShape, GotShape, DueShape
  <2>2. setup.receivedSize \in Nat /\ coapReceived \in Nat
    BY Setting DEF KShape
  <2> QED BY <2>1, <2>2, SequenceFacts DEF Keeps
<1>2. PICK i \in DOMAIN received[n] : e = <<received[n][i].peer, received[n][i].msg>>
  BY DEF GotBy, MailIn
<1>3. i \in K!Kept(received[n], setup.receivedSize)
  <2>1. i > Len(received[n]) - setup.receivedSize
    BY <1>1, <1>2
  <2> QED BY <2>1 DEF K!Kept
<1> QED BY <1>2, <1>3 DEF Unknown

LEMMA FirstTime ==
  ASSUME OnePartner, KShape, KSays, Keeps, NEW f \in kAir, Unknown(f.to, f), Request1(f.msg)
  PROVE  executed[f.msg.token] = 0
<1> DEFINE k == f.msg.token
<1>1. /\ Real(k) /\ f.from = k[1] /\ f.to = Target(k) /\ k \in K!Call
      /\ f.from \in Node /\ f.to \in Node
  BY FrameSays DEF Real
<1>2. executed[k] \in Nat
  BY <1>1 DEF KShape
<1> SUFFICES ASSUME executed[k] > 0 PROVE FALSE
  BY <1>2
<1>3. PICK e \in GotBy(f.to) : e[1] = f.from /\ Request1(e[2]) /\ e[2].token = k
  BY <1>1 DEF KSays, ExecutedGot
<1>4. PICK q \in SentBy(f.from) : q[2] = e[2]
  BY <1>1, <1>3 DEF KSays, GotTrue
<1>5. PICK o \in SentBy(f.from) : o[2] = f.msg
  BY FrameSays
<1>6. o = q
  BY <1>1, <1>3, <1>4, <1>5 DEF KSays, AskedOnce
<1> QED BY <1>1, <1>3, <1>4, <1>5, <1>6, NothingForgotten

LEMMA FirstAnswer ==
  ASSUME OnePartner, KShape, KSays, Keeps, NEW f \in kAir, Unknown(f.to, f), Response1(f.msg),
         NEW k \in K!Call, f.msg.token = k, f.to = k[1]
  PROVE  answers[k] = <<>>
<1> SUFFICES ASSUME answers[k] # <<>> PROVE FALSE
  OBVIOUS
<1>1. f.from = Target(k) /\ f.from \in Node /\ f.to \in Node
  BY FrameSays
<1>2. PICK e \in GotBy(f.to) : e[1] = f.from /\ Response1(e[2]) /\ e[2].token = k
  BY <1>1 DEF KSays, AnswersGot
<1>3. PICK q \in SentBy(f.from) : q[2] = e[2]
  BY <1>1, <1>2 DEF KSays, GotTrue
<1>4. PICK o \in SentBy(f.from) : o[2] = f.msg
  BY FrameSays
<1>5. o = q
  BY <1>1, <1>2, <1>3, <1>4 DEF KSays, AnswersOnceSent
<1> QED BY <1>1, <1>2, <1>3, <1>4, <1>5, NothingForgotten

(***************************************************************************)
(* Where nothing is open that was not, and no request has come, the open   *)
(* ones stay as they are if nothing answers them.                          *)
(***************************************************************************)
LEMMA OpenStays ==
  ASSUME KShape, KSays, NEW n \in Node, Turn(n), NEW O, SentBy(n)' = SentBy(n) \cup O,
         kOpen'[n] \subseteq kOpen[n],
         \/ SameMail(received[n], received'[n])
         \/ \E p, m : Longer(received[n], received'[n], p, m) /\ ~Request1(m),
         \A o \in O : Keeps /\ Response1(o[2]) =>
           \A i \in kOpen'[n] : o[2].token # received[n][i].msg.token
  PROVE  FineOpen(n)'
<1>1. /\ kOpen[n] # {} => n \in setup.deferring
      /\ Keeps => OpenUnanswered(n) /\ GotOnce(n)
  BY DEF KSays, OpenOnes
<1>2. setup' = setup /\ Keeps' = Keeps
  BY SameSetting DEF Turn
<1>3. /\ DOMAIN received[n] = 1..Len(received[n]) /\ DOMAIN received'[n] = 1..Len(received'[n])
      /\ Len(received[n]) \in Nat /\ Len(received'[n]) \in Nat
  BY SequenceFacts DEF Turn, KShape, GotShape
<1>4. \A i \in DOMAIN received[n] : received'[n][i].msg = received[n][i].msg
  BY DEF SameMail, Longer
<1>5. \A i \in kOpen[n] : i \in DOMAIN received[n]
  BY DEF KShape, DueShape
<1>6. ASSUME NEW i \in DOMAIN received'[n], Request1(received'[n][i].msg) PROVE i \in DOMAIN received[n]
  BY <1>3, <1>6 DEF SameMail, Longer
<1>7. ASSUME Keeps PROVE OpenUnanswered(n)'
  <2> SUFFICES ASSUME NEW i \in kOpen'[n], NEW o \in SentBy(n)', Response1(o[2]),
                      o[2].token = received'[n][i].msg.token
               PROVE  FALSE
    BY DEF OpenUnanswered, Response1
  <2>1. i \in kOpen[n] /\ received'[n][i].msg = received[n][i].msg
    BY <1>4, <1>5
  <2> QED BY <1>1, <1>7, <2>1 DEF OpenUnanswered
<1>8. ASSUME Keeps PROVE GotOnce(n)'
  <2> SUFFICES ASSUME NEW i \in DOMAIN received'[n], NEW j \in DOMAIN received'[n],
                      Request1(received'[n][i].msg), Request1(received'[n][j].msg),
                      received'[n][i].msg.token = received'[n][j].msg.token
               PROVE  i = j
    BY DEF GotOnce, Request1
  <2>1. i \in DOMAIN received[n] /\ j \in DOMAIN received[n]
    BY <1>6
  <2> QED BY <1>1, <1>4, <1>8, <2>1 DEF GotOnce
<1> QED BY <1>1, <1>2, <1>7, <1>8 DEF FineOpen

-----------------------------------------------------------------------------
(***************************************************************************)
(* Each step keeps this, and is a step of RemoteCalls.                     *)
(***************************************************************************)
CallStep == [Calls!Next]_(Calls!callVars)

LEMMA NoCall ==
  ASSUME setup' = setup, executed' = executed, answers' = answers
  PROVE  CallStep /\ \A n, G : FineCalls(n, G)
BY DEF CallStep, Calls!callVars, FineCalls

(***************************************************************************)
(* A step that says nothing new but perhaps an acknowledgement.            *)
(***************************************************************************)
LEMMA SmallSays ==
  ASSUME OnePartner, KShape, KSays, NEW n \in Node, Turn(n), SameMail(received[n], received'[n]),
         UNCHANGED <<ids, kOpen, executed, answers>>,
         \/ SameMail(kSent[n], kSent'[n])
         \/ \E p \in Node, m \in Mail :
              /\ Longer(kSent[n], kSent'[n], p, m) /\ Meets(received[n], p)
              /\ m.code = "empty" /\ m.type = "ACK"
  PROVE  KSays' /\ CallStep
<1>1. /\ kSent[n] \in Seq(SentEntry) /\ kSent'[n] \in Seq(SentEntry)
      /\ received[n] \in Seq(GotEntry) /\ received'[n] \in Seq(GotEntry)
  BY DEF Turn, KShape, SentShape, GotShape
<1>2. CallStep /\ FineCalls(n, {}) /\ FineGot(n, {}) /\ MailIn(received'[n]) = GotBy(n) \cup {}
  BY <1>1, NoCall, MailFacts DEF Turn, FineGot, GotBy
<1>3. ids'[n] >= ids[n]
  BY DEF KShape, SentShape
<1>4. CASE SameMail(kSent[n], kSent'[n])
  <2>1. Adds(n, {}, {})
    BY <1>1, <1>2, <1>4, MailFacts DEF Adds, SentBy
  <2>2. FineSent(n, {})
    BY <1>3 DEF FineSent
  <2>3. SentBy(n)' = SentBy(n) \cup {}
    BY <2>1 DEF Adds, SentBy
  <2>4. FineOpen(n)'
    <3> DEFINE O == {}
    <3>1. SentBy(n)' = SentBy(n) \cup O /\ \A o \in O : ~Response1(o[2])
      BY <2>3
    <3> HIDE DEF O
    <3>2. kOpen'[n] \subseteq kOpen[n]
      OBVIOUS
    <3> QED BY <3>1, <3>2, OpenStays
  <2> QED BY <1>2, <2>1, <2>2, <2>4, SaysStep
<1>5. ASSUME NEW p \in Node, NEW m \in Mail, Longer(kSent[n], kSent'[n], p, m),
             Meets(received[n], p), m.code = "empty", m.type = "ACK"
      PROVE  KSays'
  <2> DEFINE O == {<<p, m>>}
  <2>1. Adds(n, O, {})
    BY <1>1, <1>2, <1>5, MailFacts DEF Adds, SentBy
  <2>2. \A o \in O : o[1] = p /\ o[2] = m
    OBVIOUS
  <2> HIDE DEF O
  <2>3. Speak(setup, n, p)
    <3>1. PICK e \in GotBy(n) : e[1] = p
      BY <1>5, MailHas DEF GotBy
    <3> QED BY <3>1 DEF KSays, GotTrue
  <2>4. FineSent(n, O)
    BY <1>3, <1>5, <2>2, <2>3 DEF FineSent, Numbered, Request1, Response1
  <2>5. \A o \in O : Truthful(n, o[1], o[2])'
    BY <1>5, <2>2 DEF Truthful, Request1, Response1
  <2>6. SentBy(n)' = SentBy(n) \cup O
    BY <2>1 DEF Adds, SentBy
  <2>7. \A o \in O : ~Response1(o[2])
    BY <1>5, <2>2 DEF Response1
  <2>8. FineOpen(n)'
    BY <2>6, <2>7, OpenStays
  <2> QED BY <1>2, <2>1, <2>4, <2>5, <2>8, SaysStep
<1> QED BY <1>2, <1>4, <1>5

LEMMA RequestSays ==
  ASSUME OnePartner, KShape, KSays, NEW n \in Node, NEW k \in DOMAIN setup.requests[n],
         K!Request(n, k)
  PROVE  KSays' /\ CallStep
<1>13. PICK p : p = setup.requests[n][k].to
  OBVIOUS
<1>1. /\ Turn(n) /\ received' = received /\ kOpen' = kOpen
      /\ executed' = executed /\ answers' = answers
      /\ \A i \in DOMAIN kSent[n] :
           ~(kSent[n][i].msg.code = "request" /\ kSent[n][i].msg.token = <<n, k>>)
  BY RequestFacts
<1>14. \E m \in Mail :
        /\ Longer(kSent[n], kSent'[n], setup.requests[n][k].to, m)
        /\ m.code = "request" /\ m.type \in {"CON", "NON"}
        /\ m.token = <<n, k>> /\ m.body = <<n, k>>
        /\ m.id = ids[n] /\ ids'[n] = ids[n] + 1
  BY RequestFacts
<1>2. PICK m \in Mail :
        /\ Longer(kSent[n], kSent'[n], p, m)
        /\ m.code = "request" /\ m.type \in {"CON", "NON"}
        /\ m.token = <<n, k>> /\ m.body = <<n, k>>
        /\ m.id = ids[n] /\ ids'[n] = ids[n] + 1
  BY <1>13, <1>14
<1>3. /\ kSent[n] \in Seq(SentEntry) /\ kSent'[n] \in Seq(SentEntry) /\ ids[n] \in Nat
      /\ setup' = setup
  BY <1>1 DEF Turn, KShape, SentShape
<1>4. CallStep /\ FineCalls(n, {}) /\ FineGot(n, {}) /\ SameMail(received[n], received'[n])
  BY <1>1, <1>3, NoCall DEF FineGot, SameMail
<1> DEFINE O == {<<p, m>>}
<1>5. Adds(n, O, {})
  BY <1>1, <1>2, <1>3, MailFacts DEF Adds, SentBy, GotBy
<1>6. \A o \in O : o[1] = p /\ o[2] = m
  OBVIOUS
<1> HIDE DEF O
<1>7. Asks(setup, n, p)
  BY <1>13 DEF Asks
<1>8. ASSUME NEW q \in SentBy(n) PROVE ~(Request1(q[2]) /\ q[2].token = <<n, k>>)
  <2>1. PICK i \in DOMAIN kSent[n] : q = <<kSent[n][i].peer, kSent[n][i].msg>>
    BY DEF SentBy, MailIn
  <2> QED BY <1>1, <2>1 DEF Request1
<1>9. FineSent(n, O)
  BY <1>2, <1>3, <1>6, <1>7, <1>8 DEF FineSent, Speak, Response1
<1>10. Real(<<n, k>>)' /\ Target(<<n, k>>)' = p
  <2>1. k \in 1..coapCalls
    <3>1. /\ setup.requests[n] \in Seq([to : Node, type : {"CON", "NON"}])
          /\ Len(setup.requests[n]) <= coapCalls /\ coapCalls \in Nat
      BY Setting DEF KShape
    <3>2. Len(setup.requests[n]) \in Nat /\ k \in 1..Len(setup.requests[n])
      BY <3>1, SequenceFacts
    <3> QED BY <3>1, <3>2
  <2> QED BY <1>3, <1>13, <2>1 DEF Real, Target, K!Call
<1>11. \A o \in O : Truthful(n, o[1], o[2])'
  <2>1. Truthful(n, p, m)'
    BY <1>2, <1>10 DEF Truthful, Request1
  <2> QED BY <1>6, <2>1
<1>12. FineOpen(n)'
  <2>1. SentBy(n)' = SentBy(n) \cup O
    BY <1>5 DEF Adds, SentBy
  <2>2. \A o \in O : ~Response1(o[2])
    BY <1>2, <1>6 DEF Response1
  <2>3. kOpen'[n] \subseteq kOpen[n]
    BY <1>1
  <2> QED BY <1>1, <1>4, <2>1, <2>2, <2>3, OpenStays
<1> QED BY <1>1, <1>4, <1>5, <1>9, <1>11, <1>12, SaysStep

AnswerSent(n, k) ==
  \E O : /\ MailIn(kSent'[n]) = SentBy(n) \cup O
         /\ \A o, w \in O : o = w
         /\ FineSent(n, O) /\ \A o \in O : Truthful(n, o[1], o[2])'
         /\ \A o \in O : o[2].token = k

(***************************************************************************)
(* What reply() sends is the answer of this node, the first one.           *)
(***************************************************************************)
LEMMA RepliesSay ==
  ASSUME KShape, KSays, NEW n \in Node, Turn(n), NEW q, NEW body, Replies(n, q, body),
         q.peer \in Node, q.msg.token = body, Real(body), n = Target(body), q.peer = body[1],
         executed'[body] > 0, Speak(setup, n, q.peer),
         Keeps => \A o \in SentBy(n) : ~(Response1(o[2]) /\ o[2].token = body)
  PROVE  AnswerSent(n, body)
<1>1. /\ kSent[n] \in Seq(SentEntry) /\ kSent'[n] \in Seq(SentEntry) /\ ids[n] \in Nat
      /\ setup' = setup /\ Real(body)' = Real(body) /\ Target(body)' = Target(body)
  BY SameSetting DEF Turn, KShape, SentShape
<1>2. CASE kSent' = kSent /\ ids' = ids
  <2>1. MailIn(kSent'[n]) = SentBy(n) \cup {} /\ FineSent(n, {})
    BY <1>1, <1>2 DEF SentBy, FineSent
  <2> QED BY <2>1 DEF AnswerSent
<1>3. ASSUME NEW m \in Mail, Longer(kSent[n], kSent'[n], q.peer, m),
             m.code = "response", m.token = q.msg.token, m.body = body,
             \/ m.type = "ACK" /\ ids' = ids
             \/ m.type # "ACK" /\ m.type # "RST" /\ m.id = ids[n] /\ ids'[n] = ids[n] + 1
      PROVE  AnswerSent(n, body)
  <2> DEFINE p == q.peer
             O == {<<p, m>>}
  <2>1. MailIn(kSent'[n]) = SentBy(n) \cup O
    BY <1>1, <1>3, MailFacts DEF SentBy
  <2>2. \A o \in O : o[1] = p /\ o[2] = m
    OBVIOUS
  <2>3. \A o, w \in O : o = w
    OBVIOUS
  <2> HIDE DEF O
  <2>4. FineSent(n, O)
    BY <1>1, <1>3, <2>2 DEF FineSent, Numbered, Request1, Response1
  <2>5. Truthful(n, p, m)'
    <3>1. m.type \in {"CON", "NON", "ACK"}
      BY <1>3 DEF Mail
    <3> QED BY <1>1, <1>3, <3>1 DEF Truthful, Response1
  <2>6. \A o \in O : o[2].token = body
    BY <1>3, <2>2
  <2> HIDE DEF p
  <2>7. \A o \in O : Truthful(n, o[1], o[2])'
    BY <2>2, <2>5
  <2> QED BY <2>1, <2>3, <2>4, <2>6, <2>7 DEF AnswerSent
<1> QED BY <1>2, <1>3 DEF Replies
LEMMA SamePlaceStays ==
  ASSUME KShape, Keeps, NEW n \in Node, NEW i \in DOMAIN received[n]
  PROVE  K!At(received[n], setup.receivedSize, i) = i
<1> DEFINE j == K!At(received[n], setup.receivedSize, i)
           most == setup.receivedSize
<1>1. /\ Len(received[n]) \in Nat /\ DOMAIN received[n] = 1..Len(received[n])
      /\ Len(received[n]) <= coapReceived
  BY SequenceFacts DEF KShape, GotShape, DueShape
<1>2. most \in Nat \ {0} /\ coapReceived \in Nat /\ most >= coapReceived
  BY Setting DEF KShape, Keeps
<1>3. j \in DOMAIN received[n] /\ j % most = i % most /\ j >= i
  BY <1>1, <1>2, PlaceFacts
<1> HIDE DEF j, most
<1>4. ASSUME j # i PROVE FALSE
  <2>1. i \in Nat /\ j \in Nat /\ i < j /\ i >= 1
    BY <1>1, <1>3, <1>4
  <2>2. i + most <= j
    BY <1>2, <1>3, <2>1, SamePlace
  <2> QED BY <1>1, <1>2, <1>3, <2>1, <2>2
<1> QED BY <1>4 DEF j, most

LEMMA ReplyLaterSays ==
  ASSUME OnePartner, KShape, KSays, NEW n \in Node, NEW i \in kOpen[n], K!ReplyLater(n, i)
  PROVE  KSays' /\ CallStep
<1>13. PICK q : q = received[n][i]
  OBVIOUS
<1>14. PICK k : k = q.msg.token
  OBVIOUS
<1>1. setup.deferring # {} /\ Keeps
  BY DEF KSays, OpenOnes, OnePartner, KShape, Keeps
<1>2. /\ Turn(n) /\ SameMail(received[n], received'[n]) /\ i \in DOMAIN received[n]
      /\ kOpen'[n] = kOpen[n] \ {i} /\ executed' = executed /\ answers' = answers
      /\ Replies(n, q, q.msg.body)
  <2>1. i \in DOMAIN received[n]
    BY ReplyLaterFacts
  <2>2. K!At(received[n], setup.receivedSize, i) = i
    BY <1>1, <2>1, SamePlaceStays
  <2> QED BY <1>13, <2>2, ReplyLaterFacts
<1>3. Request1(q.msg) /\ <<q.peer, q.msg>> \in GotBy(n)
  BY <1>2, <1>13, MailHas DEF KShape, DueShape, Request1, GotBy
<1>4. /\ Speak(setup, n, q.peer) /\ n = Target(k) /\ executed[k] > 0
      /\ \E o \in SentBy(q.peer) : o[2] = q.msg
  BY <1>3, <1>14 DEF KSays, GotTrue
<1>5. q.peer \in Node
  BY <1>3, MailTyped
<1>6. Real(k) /\ q.msg.body = k /\ q.peer = k[1]
  BY <1>3, <1>4, <1>5, <1>14 DEF KSays, SentTrue, Truthful, Request1, Response1
<1>7. \A o \in SentBy(n) : ~(Response1(o[2]) /\ o[2].token = k)
  BY <1>1, <1>13, <1>14 DEF KSays, OpenOnes, OpenUnanswered
<1>8. setup' = setup /\ received[n] \in Seq(GotEntry) /\ received'[n] \in Seq(GotEntry)
  BY <1>2 DEF Turn, KShape, GotShape
<1>9. PICK O : /\ MailIn(kSent'[n]) = SentBy(n) \cup O
               /\ \A o, w \in O : o = w
               /\ FineSent(n, O) /\ \A o \in O : Truthful(n, o[1], o[2])'
               /\ \A o \in O : o[2].token = k
  <2>1. executed'[k] > 0
    BY <1>2, <1>4
  <2>2. Replies(n, q, k)
    BY <1>2, <1>6
  <2>3. AnswerSent(n, k)
    BY <1>2, <1>4, <1>5, <1>6, <1>7, <1>14, <2>1, <2>2, RepliesSay
  <2> QED BY <2>3 DEF AnswerSent
<1>10. CallStep /\ FineCalls(n, {}) /\ FineGot(n, {})
  BY <1>2, <1>8, NoCall DEF FineGot
<1>11. Adds(n, O, {})
  BY <1>2, <1>8, <1>9, MailFacts DEF Adds, GotBy
<1>12. FineOpen(n)'
  <2>1. SentBy(n)' = SentBy(n) \cup O
    BY <1>11 DEF Adds, SentBy
  <2>2. ASSUME NEW o \in O, NEW w \in kOpen'[n] PROVE o[2].token # received[n][w].msg.token
    <3>1. w \in kOpen[n] /\ w # i
      BY <1>2
    <3>2. w \in DOMAIN received[n] /\ Request1(received[n][w].msg)
      BY <3>1 DEF KShape, DueShape, Request1
    <3>3. received[n][w].msg.token # k
      BY <1>1, <1>2, <1>3, <1>13, <1>14, <3>1, <3>2 DEF KSays, OpenOnes, GotOnce
    <3> QED BY <1>9, <3>3
  <2>3. kOpen'[n] \subseteq kOpen[n]
    BY <1>2
  <2> QED BY <1>2, <2>1, <2>2, <2>3, OpenStays
<1> QED BY <1>2, <1>9, <1>10, <1>11, <1>12, SaysStep

(***************************************************************************)
(* A request is new: it was not answered, and with a long list not handed  *)
(* up; so it is unlike those the list already has.                         *)
(***************************************************************************)
LEMMA UnlikeOthers ==
  ASSUME OnePartner, KShape, KSays, Keeps, NEW f \in kAir, Unknown(f.to, f), Request1(f.msg)
  PROVE  /\ \A o \in SentBy(f.to) : ~(Response1(o[2]) /\ o[2].token = f.msg.token)
         /\ \A i \in DOMAIN received[f.to] :
              Request1(received[f.to][i].msg) => received[f.to][i].msg.token # f.msg.token
<1> DEFINE n == f.to
<1>1. executed[f.msg.token] = 0 /\ n \in Node
  BY FirstTime, FrameSays
<1> HIDE DEF n
<1>2. ASSUME NEW o \in SentBy(n), Response1(o[2]), o[2].token = f.msg.token PROVE FALSE
  <2>1. Truthful(n, o[1], o[2])
    BY <1>1 DEF KSays, SentTrue
  <2> QED BY <1>1, <1>2, <2>1 DEF Truthful, Request1, Response1
<1>3. ASSUME NEW i \in DOMAIN received[n], Request1(received[n][i].msg),
             received[n][i].msg.token = f.msg.token
      PROVE  FALSE
  <2>1. <<received[n][i].peer, received[n][i].msg>> \in GotBy(n)
    BY MailHas DEF GotBy
  <2>2. executed[received[n][i].msg.token] > 0
    BY <1>1, <1>3, <2>1 DEF KSays, GotTrue
  <2> QED BY <1>1, <1>3, <2>2
<1> QED BY <1>2, <1>3 DEF n

LEMMA ReceiveRequestSays ==
  ASSUME OnePartner, KShape, KSays, NEW f \in kAir, NEW rest \in SUBSET kAir,
         K!ReceiveRequest(f.to, f, rest), setup' = setup
  PROVE  KSays' /\ CallStep
<1>1. PICK n \in Node : n = f.to
  BY FrameSays
<1>2. PICK k : k = f.msg.token
  OBVIOUS
<1>3. /\ Turn(n) /\ Unknown(n, f) /\ Request1(f.msg)
      /\ Longer(received[n], received'[n], f.from, f.msg)
      /\ executed' = [executed EXCEPT ![f.msg.body] = @ + 1] /\ answers' = answers
      /\ \/ /\ kOpen' = kOpen
            /\ \E q : q.peer = f.from /\ q.msg = f.msg /\ Replies(n, q, f.msg.body)
         \/ /\ n \in setup.deferring /\ kSent' = kSent /\ ids' = ids
            /\ kOpen'[n] = kOpen[n] \cup {Len(received'[n])}
  BY <1>1, ReceiveRequestFacts DEF Request1
<1>4. /\ f.from \in Node /\ f.msg \in Mail /\ Speak(setup, n, f.from)
      /\ \E o \in SentBy(f.from) : o[2] = f.msg
      /\ Real(k) /\ f.msg.body = k /\ f.from = k[1] /\ n = Target(k)
  BY <1>1, <1>2, <1>3, FrameSays
<1>5. k \in K!Call /\ executed \in [K!Call -> Nat]
  BY <1>4 DEF Real, KShape
<1>6. /\ executed'[k] = executed[k] + 1 /\ executed'[k] > 0 /\ executed[k] \in Nat
      /\ \A w \in K!Call : w # k => executed'[w] = executed[w]
  BY <1>3, <1>4, <1>5
<1>7. /\ received[n] \in Seq(GotEntry) /\ received'[n] \in Seq(GotEntry) /\ ids[n] \in Nat
      /\ Keeps' = Keeps
  BY <1>3, SameSetting DEF Turn, KShape, GotShape, SentShape
<1>8. Keeps => /\ executed[k] = 0
               /\ \A o \in SentBy(n) : ~(Response1(o[2]) /\ o[2].token = k)
               /\ \A i \in DOMAIN received[n] :
                    Request1(received[n][i].msg) => received[n][i].msg.token # k
  BY <1>1, <1>2, <1>3, FirstTime, UnlikeOthers
<1>9. CallStep
  <2>1. setup.receivedSize < coapReceived \/ executed[k] = 0
    <3>1. setup.receivedSize \in Nat /\ coapReceived \in Nat
      BY Setting DEF KShape
    <3> QED BY <1>8, <3>1 DEF Keeps
  <2>2. Calls!Execute(k)
    BY <1>3, <1>4, <2>1 DEF Calls!Execute
  <2> QED BY <1>5, <2>2 DEF CallStep, Calls!Next
<1> DEFINE G == {<<f.from, f.msg>>}
<1>10. MailIn(received'[n]) = GotBy(n) \cup G
  BY <1>3, <1>7, MailFacts DEF GotBy
<1>11. \E e \in G : e[1] = k[1] /\ Request1(e[2]) /\ e[2].token = k
  BY <1>2, <1>3, <1>4
<1>12. \A e \in G : e[1] = f.from /\ e[2] = f.msg
  OBVIOUS
<1> HIDE DEF G
<1>13. FineCalls(n, G)
  BY <1>3, <1>4, <1>5, <1>6, <1>11 DEF FineCalls
<1>14. FineGot(n, G)
  BY <1>2, <1>4, <1>6, <1>12 DEF FineGot
<1>15. \E O : /\ MailIn(kSent'[n]) = SentBy(n) \cup O
              /\ \A o, w \in O : o = w
              /\ FineSent(n, O) /\ \A o \in O : Truthful(n, o[1], o[2])'
              /\ \A o \in O : o[2].token = k
              /\ kOpen' = kOpen \/ O = {}
  <2>1. CASE kOpen' = kOpen /\ \E q : q.peer = f.from /\ q.msg = f.msg /\ Replies(n, q, f.msg.body)
    <3>1. PICK q : q.peer = f.from /\ q.msg = f.msg /\ Replies(n, q, k)
      BY <1>4, <2>1
    <3>2. /\ q.peer \in Node /\ q.msg.token = k /\ q.peer = k[1] /\ Speak(setup, n, q.peer)
      BY <1>2, <1>4, <3>1
    <3>3. AnswerSent(n, k)
      BY <1>3, <1>4, <1>6, <1>8, <3>1, <3>2, RepliesSay
    <3> QED BY <2>1, <3>3 DEF AnswerSent
  <2>2. CASE kSent' = kSent /\ ids' = ids
    <3>1. MailIn(kSent'[n]) = SentBy(n) \cup {} /\ FineSent(n, {})
      BY <1>7, <2>2 DEF SentBy, FineSent
    <3> QED BY <3>1
  <2> QED BY <1>3, <2>1, <2>2
<1>16. PICK O : /\ MailIn(kSent'[n]) = SentBy(n) \cup O
                /\ \A o, w \in O : o = w
                /\ FineSent(n, O) /\ \A o \in O : Truthful(n, o[1], o[2])'
                /\ \A o \in O : o[2].token = k
                /\ kOpen' = kOpen \/ O = {}
  BY <1>15
<1>17. Adds(n, O, G)
  BY <1>10, <1>16 DEF Adds
<1>18. SentBy(n)' = SentBy(n) \cup O
  BY <1>16 DEF SentBy
<1>19. /\ DOMAIN received'[n] = DOMAIN received[n] \cup {Len(received'[n])}
       /\ \A i \in DOMAIN received[n] : received'[n][i].msg = received[n][i].msg
       /\ received'[n][Len(received'[n])].msg = f.msg
       /\ Len(received'[n]) \notin DOMAIN received[n]
  <2>1. /\ DOMAIN received[n] = 1..Len(received[n]) /\ DOMAIN received'[n] = 1..Len(received'[n])
        /\ Len(received[n]) \in Nat
    BY <1>7, SequenceFacts
  <2> QED BY <1>3, <2>1 DEF Longer
<1>20. \A i \in kOpen[n] : i \in DOMAIN received[n] /\ Request1(received[n][i].msg)
  BY DEF KShape, DueShape, Request1
<1>21. \A i \in kOpen'[n] : i \in kOpen[n] \/ (i = Len(received'[n]) /\ O = {})
  <2>1. CASE kOpen' = kOpen
    BY <2>1
  <2>2. CASE kOpen' # kOpen
    BY <1>3, <1>16, <2>2
  <2> QED BY <2>1, <2>2
<1>22. kOpen'[n] # {} => n \in setup'.deferring
  BY <1>3 DEF KSays, OpenOnes
<1>23. ASSUME Keeps PROVE OpenUnanswered(n)'
  <2> SUFFICES ASSUME NEW i \in kOpen'[n], NEW o \in SentBy(n)', Response1(o[2]),
                      o[2].token = received'[n][i].msg.token
               PROVE  FALSE
    BY DEF OpenUnanswered, Response1
  <2>1. CASE i \in kOpen[n]
    <3>1. received[n][i].msg.token # k /\ received'[n][i].msg = received[n][i].msg
      BY <1>8, <1>19, <1>20, <1>23, <2>1
    <3>2. o \in SentBy(n)
      BY <1>16, <1>18, <3>1
    <3> QED BY <1>23, <2>1, <3>1, <3>2 DEF KSays, OpenOnes, OpenUnanswered
  <2>2. CASE i = Len(received'[n]) /\ O = {}
    BY <1>2, <1>8, <1>18, <1>19, <1>23, <2>2
  <2> QED BY <1>21, <2>1, <2>2
<1>24. ASSUME Keeps PROVE GotOnce(n)'
  <2> SUFFICES ASSUME NEW i \in DOMAIN received'[n], NEW j \in DOMAIN received'[n],
                      Request1(received'[n][i].msg), Request1(received'[n][j].msg),
                      received'[n][i].msg.token = received'[n][j].msg.token
               PROVE  i = j
    BY DEF GotOnce, Request1
  <2>1. CASE i \in DOMAIN received[n] /\ j \in DOMAIN received[n]
    BY <1>19, <1>24, <2>1 DEF KSays, OpenOnes, GotOnce
  <2>2. CASE i = Len(received'[n]) /\ j \in DOMAIN received[n]
    BY <1>2, <1>8, <1>19, <1>24, <2>2
  <2>3. CASE i \in DOMAIN received[n] /\ j = Len(received'[n])
    BY <1>2, <1>8, <1>19, <1>24, <2>3
  <2> QED BY <1>19, <2>1, <2>2, <2>3
<1>25. FineOpen(n)'
  BY <1>7, <1>22, <1>23, <1>24 DEF FineOpen
<1> QED BY <1>3, <1>9, <1>13, <1>14, <1>16, <1>17, <1>25, SaysStep

(***************************************************************************)
(* What a message found in the list of those sent does: a response is the  *)
(* first answer to its request.                                            *)
(***************************************************************************)
LEMMA AnswerSays ==
  ASSUME OnePartner, KShape, KSays, NEW f \in kAir, Unknown(f.to, f), AnswersOne(f.to, f),
         answers' # answers => Response1(f.msg), setup' = setup, executed' = executed
  PROVE  CallStep /\ FineCalls(f.to, {<<f.from, f.msg>>})
<1>1. CASE answers' = answers
  BY <1>1, NoCall
<1>2. CASE answers' # answers
  <2>1. PICK n \in Node : n = f.to
    BY FrameSays
  <2>2. PICK k : k = f.msg.token
    OBVIOUS
  <2>3. Response1(f.msg)
    BY <1>2
  <2>4. PICK i \in DOMAIN kSent[n] :
          /\ Request1(kSent[n][i].msg) /\ kSent[n][i].msg.token = k
          /\ answers' = [answers EXCEPT ![k] = Append(@, f.msg.body)]
    BY <1>2, <2>1, <2>2 DEF AnswersOne, Request1
  <2>5. /\ Real(k) /\ f.msg.body = k /\ f.from = Target(k) /\ executed[k] > 0
        /\ f.from \in Node /\ f.msg \in Mail
    BY <2>2, <2>3, FrameSays
  <2>6. k \in K!Call /\ answers \in [K!Call -> Seq(Token)]
    BY <2>5 DEF Real, KShape
  <2>7. n = k[1]
    <3>1. <<kSent[n][i].peer, kSent[n][i].msg>> \in SentBy(n)
      BY MailHas DEF SentBy
    <3>2. Truthful(n, kSent[n][i].peer, kSent[n][i].msg)
      BY <3>1 DEF KSays, SentTrue
    <3> QED BY <2>4, <3>2 DEF Truthful, Request1, Response1
  <2>8. Keeps => answers[k] = <<>>
    BY <2>1, <2>2, <2>3, <2>6, <2>7, FirstAnswer
  <2>9. CallStep
    <3>1. setup.receivedSize < coapReceived \/ answers[k] = <<>>
      <4>1. setup.receivedSize \in Nat /\ coapReceived \in Nat
        BY Setting DEF KShape
      <4> QED BY <2>8, <4>1 DEF Keeps
    <3>2. Calls!Answer(k)
      BY <2>4, <2>5, <3>1 DEF Calls!Answer
    <3> QED BY <2>6, <3>2 DEF CallStep, Calls!Next
  <2> DEFINE G == {<<f.from, f.msg>>}
  <2>10. \E e \in G : e[1] = Target(k) /\ Response1(e[2]) /\ e[2].token = k
    BY <2>2, <2>3, <2>5
  <2> HIDE DEF G
  <2>11. \A w \in K!Call : w # k => answers'[w] = answers[w]
    BY <2>4, <2>6
  <2>12. FineCalls(n, G)
    BY <2>5, <2>7, <2>10, <2>11 DEF FineCalls
  <2> QED BY <2>1, <2>9, <2>12 DEF G
<1> QED BY <1>1, <1>2

EmptySent(n, p, O) ==
  /\ MailIn(kSent'[n]) = SentBy(n) \cup O
  /\ \A o, w \in O : o = w
  /\ \A o \in O : /\ o[1] = p /\ o[2].code = "empty"
                  /\ o[2].type = "ACK" \/ (o[2].type = "RST" /\ Refuses(n, p, o[2].id))

(***************************************************************************)
(* A message that is no request has come; at most an empty one is sent.    *)
(***************************************************************************)
LEMMA OtherSays ==
  ASSUME OnePartner, KShape, KSays, NEW f \in kAir, Turn(f.to), ~Request1(f.msg),
         Longer(received[f.to], received'[f.to], f.from, f.msg),
         UNCHANGED <<ids, kOpen, executed>>, FineCalls(f.to, {<<f.from, f.msg>>}),
         \/ SameMail(kSent[f.to], kSent'[f.to])
         \/ \E m \in Mail :
              /\ Longer(kSent[f.to], kSent'[f.to], f.from, m) /\ m.code = "empty"
              /\ m.type = "ACK" \/ (m.type = "RST" /\ Refuses(f.to, f.from, m.id))
  PROVE  KSays'
<1> DEFINE G == {<<f.from, f.msg>>}
<1>1. PICK n \in Node : n = f.to
  BY FrameSays
<1>2. /\ kSent[n] \in Seq(SentEntry) /\ kSent'[n] \in Seq(SentEntry) /\ ids'[n] >= ids[n]
      /\ received[n] \in Seq(GotEntry) /\ received'[n] \in Seq(GotEntry)
  BY <1>1 DEF Turn, KShape, SentShape, GotShape
<1>3. f.from \in Node /\ Speak(setup, n, f.from) /\ \E o \in SentBy(f.from) : o[2] = f.msg
  BY <1>1, FrameSays
<1>4. MailIn(received'[n]) = GotBy(n) \cup G
  BY <1>1, <1>2, MailFacts DEF GotBy
<1>5. \A e \in G : e[1] = f.from /\ e[2] = f.msg
  OBVIOUS
<1>6. Turn(n) /\ FineCalls(n, G) /\ Longer(received[n], received'[n], f.from, f.msg)
  BY <1>1
<1> HIDE DEF G
<1>7. FineGot(n, G)
  BY <1>3, <1>5 DEF FineGot
<1>8. \E O : EmptySent(n, f.from, O)
  <2>1. CASE SameMail(kSent[n], kSent'[n])
    <3> DEFINE O == {}
    <3>1. MailIn(kSent'[n]) = SentBy(n) \cup O
      BY <1>2, <2>1, MailFacts DEF SentBy
    <3>2. O = {}
      OBVIOUS
    <3> HIDE DEF O
    <3>3. \A o, w \in O : o = w
      BY <3>2
    <3>4. \A o \in O : /\ o[1] = f.from /\ o[2].code = "empty"
                       /\ o[2].type = "ACK" \/ (o[2].type = "RST" /\ Refuses(n, f.from, o[2].id))
      BY <3>2
    <3> QED BY <3>1, <3>3, <3>4 DEF EmptySent
  <2>2. ASSUME NEW m \in Mail, Longer(kSent[n], kSent'[n], f.from, m), m.code = "empty",
               m.type = "ACK" \/ (m.type = "RST" /\ Refuses(n, f.from, m.id))
        PROVE  \E O : EmptySent(n, f.from, O)
    <3> DEFINE O == {<<f.from, m>>}
    <3>1. MailIn(kSent'[n]) = SentBy(n) \cup O
      BY <1>2, <2>2, MailFacts DEF SentBy
    <3>2. \A o, w \in O : o = w
      OBVIOUS
    <3>3. \A o \in O : o[1] = f.from /\ o[2] = m
      OBVIOUS
    <3> HIDE DEF O
    <3> QED BY <2>2, <3>1, <3>2, <3>3 DEF EmptySent
  <2> QED BY <1>1, <2>1, <2>2
<1>14. PICK O : EmptySent(n, f.from, O)
  BY <1>8
<1>9. /\ MailIn(kSent'[n]) = SentBy(n) \cup O
      /\ \A o, w \in O : o = w
      /\ \A o \in O : /\ o[1] = f.from /\ o[2].code = "empty"
                      /\ o[2].type = "ACK"
                         \/ (o[2].type = "RST" /\ Refuses(n, f.from, o[2].id))
  BY <1>14 DEF EmptySent
<1>10. Adds(n, O, G)
  BY <1>4, <1>9 DEF Adds
<1>11. FineSent(n, O)
  BY <1>2, <1>3, <1>9 DEF FineSent, Numbered, Request1, Response1
<1>12. \A o \in O : Truthful(n, o[1], o[2])'
  <2>1. \A u : Refuses(n, f.from, u) => Refuses(n, f.from, u)'
    BY <1>3, <1>6, <1>10, MailStays
  <2> QED BY <1>9, <2>1 DEF Truthful
<1>13. FineOpen(n)'
  <2>1. SentBy(n)' = SentBy(n) \cup O
    BY <1>9 DEF SentBy
  <2>2. \A o \in O : ~Response1(o[2])
    BY <1>9 DEF Response1
  <2>3. kOpen'[n] \subseteq kOpen[n]
    OBVIOUS
  <2> QED BY <1>6, <2>1, <2>2, <2>3, OpenStays
<1> QED BY <1>6, <1>7, <1>10, <1>11, <1>12, <1>13, SaysStep

LEMMA ReceiveResponseSays ==
  ASSUME OnePartner, KShape, KSays, NEW f \in kAir, NEW rest \in SUBSET kAir,
         K!ReceiveResponse(f.to, f, rest), setup' = setup
  PROVE  KSays' /\ CallStep
<1>1. PICK n \in Node : n = f.to
  BY FrameSays
<1>2. /\ Turn(n) /\ Unknown(n, f) /\ Response1(f.msg)
      /\ Longer(received[n], received'[n], f.from, f.msg)
      /\ UNCHANGED <<ids, kOpen, executed>> /\ AnswersOne(n, f)
      /\ \/ SameMail(kSent[n], kSent'[n])
         \/ \E m \in Mail :
              /\ Longer(kSent[n], kSent'[n], f.from, m) /\ m.code = "empty"
              /\ m.type = "ACK" \/ (m.type = "RST" /\ f.msg.type = "CON" /\ m.id = f.msg.id)
  BY <1>1, ReceiveResponseFacts DEF Response1
<1>3. CallStep /\ FineCalls(n, {<<f.from, f.msg>>})
  BY <1>1, <1>2, AnswerSays
<1>4. f.msg.type = "CON" => Refuses(n, f.from, f.msg.id)
  BY <1>1, <1>2, FrameSays DEF Refuses
<1>5. ~Request1(f.msg)
  BY <1>2 DEF Request1, Response1
<1> QED BY <1>1, <1>2, <1>3, <1>4, <1>5, OtherSays

LEMMA ReceiveAckSays ==
  ASSUME OnePartner, KShape, KSays, NEW f \in kAir, NEW rest \in SUBSET kAir,
         K!ReceiveAck(f.to, f, rest), setup' = setup
  PROVE  KSays' /\ CallStep
<1>1. PICK n \in Node : n = f.to
  BY FrameSays
<1>2. /\ Turn(n) /\ Unknown(n, f) /\ f.msg.type = "ACK"
      /\ Longer(received[n], received'[n], f.from, f.msg)
      /\ SameMail(kSent[n], kSent'[n]) /\ UNCHANGED <<ids, kOpen, executed>>
      /\ AnswersOne(n, f) /\ (answers' # answers => Response1(f.msg))
  BY <1>1, ReceiveAckFacts DEF Response1
<1>3. CallStep /\ FineCalls(n, {<<f.from, f.msg>>})
  BY <1>1, <1>2, AnswerSays
<1>4. ~Request1(f.msg)
  BY <1>2, FrameSays
<1> QED BY <1>1, <1>2, <1>3, <1>4, OtherSays

(***************************************************************************)
(* A reset is never taken for the answer to a request: it carries the      *)
(* number of a response, and no request has the same.                      *)
(***************************************************************************)
LEMMA ReceiveResetSays ==
  ASSUME OnePartner, KShape, KSays, NEW f \in kAir, NEW rest \in SUBSET kAir,
         K!ReceiveReset(f.to, f, rest), setup' = setup
  PROVE  KSays' /\ CallStep
<1>1. PICK n \in Node : n = f.to
  BY FrameSays
<1>2. /\ Turn(n) /\ Unknown(n, f) /\ f.msg.type = "RST"
      /\ Longer(received[n], received'[n], f.from, f.msg)
      /\ UNCHANGED <<kSent, ids, kOpen, executed>>
      /\ answers' # answers =>
           \E i \in DOMAIN kSent[n] :
             kSent[n][i].msg.code = "request" /\ kSent[n][i].msg.id = f.msg.id
  BY <1>1, ReceiveResetFacts
<1>3. PICK o \in SentBy(n) : Response1(o[2]) /\ o[2].type = "CON" /\ o[2].id = f.msg.id
  BY <1>1, <1>2 DEF KSays, FramesTrue, FrameTrue, Refuses
<1>4. ASSUME NEW i \in DOMAIN kSent[n], kSent[n][i].msg.code = "request",
             kSent[n][i].msg.id = f.msg.id
      PROVE  FALSE
  <2> DEFINE m == kSent[n][i].msg
             q == <<kSent[n][i].peer, m>>
  <2>1. q \in SentBy(n) /\ q[2] = m
    BY MailHas DEF SentBy
  <2>2. Request1(m)
    BY <1>4 DEF Request1
  <2>3. Truthful(n, q[1], m)
    BY <2>1 DEF KSays, SentTrue
  <2> HIDE DEF q, m
  <2>4. m.type \in {"CON", "NON"}
    BY <2>2, <2>3 DEF Truthful, Request1, Response1
  <2>5. Numbered(m) /\ Numbered(o[2])
    BY <1>3, <2>2, <2>4 DEF Numbered, Request1, Response1
  <2>6. o = q
    <3>1. m.id = f.msg.id
      BY <1>4 DEF m
    <3> QED BY <1>3, <2>1, <2>5, <3>1 DEF KSays, NumbersDiffer
  <2> QED BY <1>3, <2>1, <2>2, <2>6 DEF Request1, Response1
<1>5. answers' = answers
  BY <1>2, <1>4
<1>6. CallStep /\ FineCalls(n, {<<f.from, f.msg>>})
  BY <1>2, <1>5, NoCall
<1>7. SameMail(kSent[n], kSent'[n])
  BY <1>2 DEF SameMail
<1>8. ~Request1(f.msg)
  BY <1>2, FrameSays
<1> QED BY <1>1, <1>2, <1>6, <1>7, <1>8, OtherSays

-----------------------------------------------------------------------------
LEMMA QuietSays ==
  ASSUME OnePartner, KShape, KSays, Quiet
  PROVE  KSays' /\ CallStep
<1>1. /\ setup' = setup /\ kSent' = kSent /\ received' = received /\ ids' = ids
      /\ kOpen' = kOpen /\ executed' = executed /\ answers' = answers /\ kAir' \subseteq kAir
  BY DEF Quiet
<1>2. CallStep
  BY <1>1, NoCall
<1>3. /\ Keeps' = Keeps
      /\ \A k : Real(k)' = Real(k) /\ Target(k)' = Target(k)
      /\ \A n, p : Asks(setup, n, p)' = Asks(setup, n, p) /\ Speak(setup, n, p)' = Speak(setup, n, p)
      /\ \A n : SentBy(n)' = SentBy(n) /\ GotBy(n)' = GotBy(n)
  BY <1>1, SameSetting DEF SentBy, GotBy
<1>4. \A n, p, u : Refuses(n, p, u)' = Refuses(n, p, u)
  BY <1>1, <1>3 DEF Refuses, Response1
<1>5. \A n, p, m : Truthful(n, p, m)' = Truthful(n, p, m)
  BY <1>1, <1>3, <1>4 DEF Truthful, Request1, Response1
<1>6. SentTrue' /\ NumbersDiffer' /\ AskedOnce'
  BY <1>1, <1>3, <1>5 DEF KSays, SentTrue, NumbersDiffer, AskedOnce, Numbered, Request1
<1>7. FramesTrue'
  <2>1. \A f : FrameTrue(f)' = FrameTrue(f)
    BY <1>1, <1>3, <1>4 DEF FrameTrue, Request1
  <2> QED BY <1>1, <2>1 DEF KSays, FramesTrue
<1>8. GotTrue' /\ ExecutedGot' /\ AnswersGot'
  BY <1>1, <1>3 DEF KSays, GotTrue, ExecutedGot, AnswersGot, Request1, Response1
<1>9. AnswersOnceSent'
  BY <1>1, <1>3 DEF KSays, AnswersOnceSent, Response1
<1>10. OpenOnes'
  BY <1>1, <1>3 DEF KSays, OpenOnes, OpenUnanswered, GotOnce, Response1, Request1
<1> QED BY <1>2, <1>6, <1>7, <1>8, <1>9, <1>10 DEF KSays

LEMMA InitKSays == K!Init => KSays /\ Calls!Init
<1> SUFFICES ASSUME K!Init PROVE KSays /\ Calls!Init
  OBVIOUS
<1>1. /\ kSent = [n \in Node |-> <<>>] /\ received = [n \in Node |-> <<>>]
      /\ kOpen = [n \in Node |-> {}] /\ kAir = {}
      /\ executed = [k \in K!Call |-> 0] /\ answers = [k \in K!Call |-> <<>>]
  BY DEF K!Init
<1>2. \A n \in Node : SentBy(n) = {} /\ GotBy(n) = {}
  <2>1. DOMAIN <<>> = {}
    OBVIOUS
  <2> QED BY <1>1, <2>1 DEF SentBy, GotBy, MailIn
<1>3. \A n \in Node : kOpen[n] = {} /\ DOMAIN received[n] = {}
  BY <1>1
<1>4. SentTrue /\ NumbersDiffer /\ AskedOnce /\ FramesTrue /\ GotTrue /\ AnswersOnceSent
  BY <1>1, <1>2 DEF SentTrue, NumbersDiffer, AskedOnce, FramesTrue, GotTrue, AnswersOnceSent
<1>5. ExecutedGot /\ AnswersGot
  BY <1>1 DEF ExecutedGot, AnswersGot
<1>6. OpenOnes
  BY <1>3 DEF OpenOnes, OpenUnanswered, GotOnce
<1> QED BY <1>1, <1>4, <1>5, <1>6 DEF KSays, Calls!Init

LEMMA StepKSays == OnePartner /\ KShape /\ KSays /\ [K!Next]_kVars => KSays' /\ CallStep
<1> SUFFICES ASSUME OnePartner, KShape, KSays, [K!Next]_kVars PROVE KSays' /\ CallStep
  OBVIOUS
<1>1. ASSUME NEW n \in Node, NEW k \in DOMAIN setup.requests[n], K!Request(n, k)
      PROVE  KSays' /\ CallStep
  BY <1>1, RequestSays
<1>2. ASSUME NEW n \in Node, NEW i \in kOpen[n], K!ReplyLater(n, i) PROVE KSays' /\ CallStep
  BY <1>2, ReplyLaterSays
<1>3. ASSUME NEW n \in Node, NEW i \in due[n], K!AckTimeout(n, i) PROVE KSays' /\ CallStep
  <2>1. kSent' = kSent => SameMail(kSent[n], kSent'[n])
    BY DEF SameMail
  <2> QED BY <1>3, <2>1, AckTimeoutFacts, SmallSays
<1>4. ASSUME NEW n \in Node, NEW i \in resend[n], K!RetransmitTimeout(n, i)
      PROVE  KSays' /\ CallStep
  <2>1. received' = received => SameMail(received[n], received'[n])
    BY DEF SameMail
  <2> QED BY <1>4, <2>1, RetransmitFacts, SmallSays
<1>5. ASSUME NEW f \in kAir, NEW rest \in SUBSET kAir, f.to \in Node,
             Takes(f.to, f, rest), setup' = setup
      PROVE  KSays' /\ CallStep
  <2>1. CASE K!ReceiveRequest(f.to, f, rest)
    BY <1>5, <2>1, ReceiveRequestSays
  <2>2. CASE K!ReceiveResponse(f.to, f, rest)
    BY <1>5, <2>2, ReceiveResponseSays
  <2>3. CASE K!ReceiveAck(f.to, f, rest)
    BY <1>5, <2>3, ReceiveAckSays
  <2>4. CASE K!ReceiveReset(f.to, f, rest)
    BY <1>5, <2>4, ReceiveResetSays
  <2>5. CASE K!ReceiveCopy(f.to, f, rest)
    <3>1. kSent' = kSent => SameMail(kSent[f.to], kSent'[f.to])
      BY DEF SameMail
    <3> QED BY <1>5, <2>5, <3>1, ReceiveCopyFacts, SmallSays
  <2> QED BY <1>5, <2>1, <2>2, <2>3, <2>4, <2>5 DEF Takes
<1>6. CASE Quiet
  BY <1>6, QuietSays
<1> QED BY <1>1, <1>2, <1>3, <1>4, <1>5, <1>6, StepCases

(***************************************************************************)
(* In MCRadios nothing else changes what belongs to the service.           *)
(***************************************************************************)
LEMMA ServiceRuns ==
  /\ PartInit => K!Init
  /\ [PartNext]_<<part, cVars, lVars, kVars, pVars, vars>> => [K!Next]_kVars
<1>1. PartInit => K!Init
  BY DEF PartInit
<1>2. [PartNext]_<<part, cVars, lVars, kVars, pVars, vars>> => [K!Next]_kVars
  BY DEF PartNext
<1> QED BY <1>1, <1>2

-----------------------------------------------------------------------------
(***************************************************************************)
(* The connection-based radio, the stack with its manager and its pool,    *)
(* the service with its lists and the pointers into them, and the packing  *)
(* radio keep to the types and sizes of their members (reliableradio.h:    *)
(* 629-650, ipv6_packet_pool_manager.h:140, reassembling_manager.h:172-    *)
(* 238, coap_service_static.h:231-238, 604-618, message_packer.h:57-68).   *)
(***************************************************************************)
THEOREM RadiosTypeCorrect == PartSpec => []TypesOK
<1>1. PartSpec => []CP!TypeOK
  BY PartsRun, AssumedOfConnections, CP!TypeCorrect, PTL
<1>2. CP!TypeOK => C!TypeOK
  BY ConnectionsTyped
<1>3. LInv /\ PInv => L!TypeOK /\ P!TypeOK
  BY LInvSays, PInvTypes
<1>4. PartSpec => []KShape
  <2>1. PartInit => KShape
    BY ServiceRuns, InitKShape
  <2>2. KShape /\ [PartNext]_<<part, cVars, lVars, kVars, pVars, vars>> => KShape'
    BY ServiceRuns, StepKShape
  <2> QED BY <2>1, <2>2, PTL DEF PartSpec
<1>5. C!TypeOK /\ L!TypeOK /\ P!TypeOK /\ KShape => TypesOK
  BY KShapeTypes DEF TypesOK
<1> QED BY <1>1, <1>2, <1>3, <1>4, <1>5, RadiosInvariance, PTL

(***************************************************************************)
(* The service does what RemoteCalls says: whatever the radio below loses, *)
(* repeats and reorders and however short the lists are, a request is      *)
(* answered with what its own resource has computed, and none that was not *)
(* executed; and with a list as long as the messages received it is        *)
(* executed and answered at most once.  A node that asks speaks to one     *)
(* other node, and only where the list is long are there later replies     *)
(* (coap_service_static.h:810-889, 1127-1200, 1250-1296).                  *)
(***************************************************************************)
THEOREM RadiosCalls == OnePartner /\ PartSpec => CallSpec
<1> SUFFICES ASSUME OnePartner PROVE PartSpec => CallSpec
  OBVIOUS
<1>1. PartInit => KShape /\ KSays /\ Calls!Init
  BY ServiceRuns, InitKShape, InitKSays
<1>2. KShape /\ KSays /\ [PartNext]_<<part, cVars, lVars, kVars, pVars, vars>>
      => KShape' /\ KSays' /\ CallStep
  BY ServiceRuns, StepKShape, StepKSays
<1> QED BY <1>1, <1>2, PTL DEF PartSpec, CallSpec, Calls!Spec, CallStep

(***************************************************************************)
(* A packet of the pool belongs to the reassembling manager or to one      *)
(* timer of routing_polling(), whatever tags the senders use (udp.h:513-   *)
(* 518, ipv6.h:1103-1161, reassembling_manager.h:82-170).                  *)
(***************************************************************************)
THEOREM RadiosOneOwner == PartSpec => []L!OneOwner
<1>1. LInv => L!OneOwner
  BY LInvSays
<1> QED BY <1>1, RadiosInvariance, PTL

(***************************************************************************)
(* What goes on is all of one packet when no sender uses a tag twice, and  *)
(* what the packing radio takes is sent once, in order, and comes out of   *)
(* the frame as it went in (lowpan.h:1192-1217, 1343-1379,                 *)
(* packing_radio.h:113-169, message_packer.h:57-94).                       *)
(***************************************************************************)
THEOREM RadiosPacketsIntact == TagsDiffer /\ PartSpec => []PacketsIntact
<1> SUFFICES ASSUME TagsDiffer PROVE PartSpec => []PacketsIntact
  OBVIOUS
<1>1. LInv /\ PInv /\ (TagsDiffer => WInv) => PacketsIntact
  BY LInvSays, PInvSays DEF PacketsIntact
<1> QED BY <1>1, RadiosInvariance, PTL
=============================================================================
