-------------------------- MODULE DsrRoutingProofs ---------------------------
(***************************************************************************)
(* What TLAPS proves about DsrRouting: that its members keep their types   *)
(* and that the paths in the tables are walks from their owner to their    *)
(* destination, for any use; and that where the tables and the paths have  *)
(* room, nothing is repeated or restarted and no destination sends, data   *)
(* keeps to its path and is delivered once.                                *)
(***************************************************************************)
EXTENDS DsrRouting, FiniteSetTheorems, TLAPS

(***************************************************************************)
(* The inductive invariant of any use.  What is said of a frame, a table   *)
(* or a message does not depend on the state.                              *)
(***************************************************************************)
Short == {p \in Path : Len(p) <= PathSize}
Byte == 0..ByteMod - 1
RouteEntry == [path : Short, hops : Byte, seq : Nat]
Message == [dst : Node, body : Nat, path : Short]

\* A request has come over a walk from its source, a reply holds one to the
\* destination, unless the path has been cut off.
GoodRequest(f) ==
  /\ f.path # <<>>
  /\ Len(f.path) < PathSize => /\ f.path[1] = f.src /\ IsWalk(f.path)
                               /\ <<f.path[Len(f.path)], f.to>> \in Link

GoodReply(f) == Len(f.path) < PathSize => IsWalk(f.path) /\ Leads(f.path, f.src, f.dst)

GoodFrame(f) == /\ f \in Frame /\ Len(f.path) <= PathSize
                /\ f.type = "request" => GoodRequest(f)
                /\ f.type = "reply" => GoodReply(f)

GoodTable(n, t) ==
  /\ DOMAIN t \subseteq Node /\ Cardinality(DOMAIN t) <= TableSize
  /\ \A d \in DOMAIN t :
       /\ t[d] \in RouteEntry
       /\ Len(t[d].path) \in 1..PathSize - 1 => IsWalk(t[d].path) /\ Leads(t[d].path, n, d)

GoodMessage(m) == m = None \/ m \in Message

Typed == /\ up \in [Node -> BOOLEAN] /\ busy \in [Node -> BOOLEAN]
         /\ seqNr \in [Node -> Nat] /\ sent \in [Node -> 0..MaxSends]
         /\ DOMAIN table = Node /\ DOMAIN message = Node
         /\ delivered \in [Node -> SUBSET (Node \X Nat)]
         /\ again \in [Node -> SUBSET (Node \X Nat)]

IInv == /\ Typed
        /\ \A n \in Node : /\ GoodTable(n, table[n]) /\ GoodMessage(message[n])
                           /\ again[n] \subseteq delivered[n]
        /\ \A f \in air : GoodFrame(f)

-----------------------------------------------------------------------------
(***************************************************************************)
(* The helpers of the handlers.                                            *)
(***************************************************************************)
LEMMA Bytes == \A k \in Int : k % ByteMod \in Byte
<1>1. ByteMod \in Nat /\ ByteMod > 0
  BY DsrAssumption
<1> QED BY <1>1 DEF Byte

LEMMA PushedBack ==
  ASSUME NEW p \in Short, NEW n \in Node
  PROVE  /\ PushBack(p, n) \in Short /\ PushBack(p, n) # <<>>
         /\ Len(p) < PathSize => /\ Len(PushBack(p, n)) = Len(p) + 1
                                 /\ PushBack(p, n)[Len(p) + 1] = n
                                 /\ \A i \in 1..Len(p) : PushBack(p, n)[i] = p[i]
         /\ Len(PushBack(p, n)) < PathSize => Len(p) < PathSize
<1>1. PathSize \in Nat \ {0} /\ p \in Seq(Node) /\ Len(p) \in Nat /\ Len(p) <= PathSize
  BY DsrAssumption DEF Short, Path
<1> QED BY <1>1 DEF PushBack, Short, Path

LEMMA ReadAt ==
  ASSUME NEW p \in Short, NEW idx \in Nat
  PROVE  At(p, idx) \subseteq Node
<1>1. p \in Seq(Node) /\ Len(p) \in Nat
  BY DEF Short, Path
<1> QED BY <1>1 DEF At

\* A walk goes on to a node in range of its end.
LEMMA WalkOn ==
  ASSUME NEW p \in Short, NEW n \in Node, p # <<>>, Len(p) < PathSize,
         IsWalk(p), <<p[Len(p)], n>> \in Link
  PROVE  /\ IsWalk(PushBack(p, n))
         /\ PushBack(p, n)[1] = p[1]
         /\ PushBack(p, n)[Len(PushBack(p, n))] = n
<1>1. p \in Seq(Node) /\ Len(p) \in Nat /\ Len(p) >= 1
  BY DEF Short, Path
<1> DEFINE q == PushBack(p, n)
<1>2. Len(q) = Len(p) + 1 /\ q[Len(p) + 1] = n /\ \A i \in 1..Len(p) : q[i] = p[i]
  BY PushedBack
<1> HIDE DEF q
<1>3. ASSUME NEW i \in 1..Len(q) - 1
      PROVE  <<q[i], q[i + 1]>> \in Link
  <2>1. CASE i = Len(p)
    <3>1. q[i] = p[Len(p)] /\ q[i + 1] = n
      BY <1>1, <1>2, <2>1
    <3> QED BY <3>1
  <2>2. CASE i # Len(p)
    <3>1. i \in 1..Len(p) - 1 /\ i \in 1..Len(p) /\ i + 1 \in 1..Len(p)
      BY <1>1, <1>2, <2>2
    <3> QED BY <1>2, <3>1 DEF IsWalk
  <2> QED BY <2>1, <2>2
<1> QED BY <1>1, <1>2, <1>3 DEF IsWalk, q

LEMMA EmptyTable ==
  ASSUME NEW n \in Node
  PROVE  GoodTable(n, <<>>)
<1>1. DOMAIN <<>> = {} /\ Cardinality({}) = 0 /\ TableSize \in Nat
  BY DsrAssumption, FS_EmptySet
<1> QED BY <1>1 DEF GoodTable

LEMMA Written ==
  ASSUME NEW n \in Node, GoodTable(n, table[n]), NEW d \in Node, NEW e \in RouteEntry,
         Len(e.path) \in 1..PathSize - 1 => IsWalk(e.path) /\ Leads(e.path, n, d)
  PROVE  GoodTable(n, Write(n, d, e))
<1> DEFINE D == DOMAIN table[n]
<1>1. CASE d \in D \/ Cardinality(D) < TableSize
  <2> DEFINE t == [x \in D \cup {d} |-> IF x = d THEN e ELSE table[n][x]]
  <2>1. Write(n, d, e) = t
    BY <1>1 DEF Write
  <2>2. D \subseteq Node /\ IsFiniteSet(D) /\ Cardinality(D) <= TableSize
        /\ Cardinality(D) \in Nat /\ TableSize \in Nat
    BY DsrAssumption, FS_Subset, FS_CardinalityType DEF GoodTable
  <2>3. Cardinality(D \cup {d}) <= TableSize
    <3>1. CASE d \in D
      <4>1. D \cup {d} = D
        BY <3>1
      <4> QED BY <2>2, <4>1
    <3>2. CASE d \notin D
      <4>1. Cardinality(D \cup {d}) = Cardinality(D) + 1
        BY <2>2, <3>2, FS_AddElement
      <4> QED BY <1>1, <2>2, <3>2, <4>1
    <3> QED BY <3>1, <3>2
  <2>4. ASSUME NEW x \in DOMAIN t
        PROVE  /\ t[x] \in RouteEntry
               /\ Len(t[x].path) \in 1..PathSize - 1 => IsWalk(t[x].path) /\ Leads(t[x].path, n, x)
    BY <2>4 DEF GoodTable
  <2>5. DOMAIN t = D \cup {d}
    OBVIOUS
  <2> HIDE DEF t, D
  <2> QED BY <2>1, <2>2, <2>3, <2>4, <2>5 DEF GoodTable
<1>2. CASE ~(d \in D \/ Cardinality(D) < TableSize)
  BY <1>2 DEF Write
<1> QED BY <1>1, <1>2

LEMMA Updated ==
  ASSUME NEW n \in Node, GoodTable(n, table[n]), NEW d \in Node, NEW seq \in Nat
  PROVE  GoodTable(n, UpdateSeqNr(n, d, seq))
<1>1. CASE d \in DOMAIN table[n]
  <2> DEFINE t == [table[n] EXCEPT ![d].seq = seq]
  <2>1. UpdateSeqNr(n, d, seq) = t /\ DOMAIN t = DOMAIN table[n]
    BY <1>1 DEF UpdateSeqNr
  <2>2. ASSUME NEW x \in DOMAIN table[n]
        PROVE  t[x] \in RouteEntry /\ t[x].path = table[n][x].path
    <3>1. table[n][x] \in RouteEntry
      BY DEF GoodTable
    <3> QED BY <1>1, <3>1 DEF RouteEntry
  <2> HIDE DEF t
  <2> QED BY <2>1, <2>2 DEF GoodTable
<1>2. CASE d \notin DOMAIN table[n]
  <2> DEFINE e == Entry(<<>>, 0, seq)
  <2>1. e \in RouteEntry /\ e.path = <<>>
    <3>1. 0 \in Byte /\ <<>> \in Short
      BY DsrAssumption DEF Byte, Short, Path
    <3> QED BY <3>1 DEF Entry, RouteEntry
  <2>2. UpdateSeqNr(n, d, seq) = Write(n, d, e)
    BY <1>2 DEF UpdateSeqNr
  <2> HIDE DEF e
  <2>3. Len(e.path) \notin 1..PathSize - 1
    BY <2>1
  <2> QED BY <2>1, <2>2, <2>3, Written
<1> QED BY <1>1, <1>2

LEMMA DataGood ==
  ASSUME NEW n \in Node, NEW m \in Message, NEW to \in Node, NEW idx \in Byte
  PROVE  GoodFrame(Data(to, n, m, idx))
BY DEF Data, Message, GoodFrame, Frame, Byte, Short

-----------------------------------------------------------------------------
(***************************************************************************)
(* The steps of any use.  A handler writes its own table and message and   *)
(* puts good frames into the air.                                          *)
(***************************************************************************)
TableStep(n) == /\ DOMAIN table' = Node /\ GoodTable(n, table'[n])
                /\ \A m \in Node \ {n} : table'[m] = table[m]

MessageStep(n) == /\ DOMAIN message' = Node /\ GoodMessage(message'[n])
                  /\ \A m \in Node \ {n} : message'[m] = message[m]

Handled(n) == TableStep(n) /\ MessageStep(n) /\ \A f \in air' : GoodFrame(f)

LEMMA Steps ==
  ASSUME IInv, NEW n \in Node
  PROVE  /\ UNCHANGED table => TableStep(n)
         /\ \A t : GoodTable(n, t) /\ table' = [table EXCEPT ![n] = t] => TableStep(n)
         /\ UNCHANGED message => MessageStep(n)
         /\ \A m : GoodMessage(m) /\ message' = [message EXCEPT ![n] = m] => MessageStep(n)
<1>1. DOMAIN table = Node /\ DOMAIN message = Node
      /\ GoodTable(n, table[n]) /\ GoodMessage(message[n])
  BY DEF IInv, Typed
<1>2. UNCHANGED table => TableStep(n)
  BY <1>1 DEF TableStep
<1>3. \A t : GoodTable(n, t) /\ table' = [table EXCEPT ![n] = t] => TableStep(n)
  BY <1>1 DEF TableStep
<1>4. UNCHANGED message => MessageStep(n)
  BY <1>1 DEF MessageStep
<1>5. \A m : GoodMessage(m) /\ message' = [message EXCEPT ![n] = m] => MessageStep(n)
  BY <1>1 DEF MessageStep
<1> QED BY <1>2, <1>3, <1>4, <1>5

LEMMA RequestHandled ==
  ASSUME IInv, NEW n \in Node, NEW f \in air, f.to = n, HandleRouteRequest(n, f)
  PROVE  Handled(n)
<1>1. /\ GoodFrame(f) /\ f.type = "request" /\ GoodTable(n, table[n])
      /\ \A g \in air : GoodFrame(g)
  BY DEF IInv, HandleRouteRequest
<1>2. /\ f \in [type : {"request", "reply"}, to : Node, src : Node, dst : Node, seq : Nat,
                hops : Byte, idx : Byte, path : Path]
      /\ f.path \in Short /\ GoodRequest(f)
  BY <1>1 DEF GoodFrame, Frame, Byte, Short
<1>3. UNCHANGED message
  BY DEF HandleRouteRequest
<1>4. TableStep(n)
  <2>1. CASE UNCHANGED table
    BY <2>1, Steps
  <2>2. CASE table' = [table EXCEPT ![n] = UpdateSeqNr(n, f.src, f.seq)]
    BY <1>1, <1>2, <2>2, Updated, Steps
  <2> QED BY <2>1, <2>2 DEF HandleRouteRequest
<1>5. Inc(f.hops) \in Byte /\ Inc(f.idx) \in Byte /\ f.idx \in Nat
  BY <1>2, Bytes DEF Inc, Byte
<1> DEFINE path == PushBack(f.path, n)
<1>6. /\ path \in Short /\ path # <<>> /\ Len(f.path) \in Nat /\ Len(f.path) >= 1
      /\ Len(path) < PathSize => Len(f.path) < PathSize
  <2>1. Len(f.path) \in Nat /\ Len(f.path) >= 1
    BY <1>2 DEF Short, Path, GoodRequest
  <2> QED BY <1>2, <2>1, PushedBack
<1>7. ASSUME Len(path) < PathSize
      PROVE  /\ IsWalk(path) /\ path[1] = f.src /\ path[Len(path)] = n
  BY <1>2, <1>6, <1>7, WalkOn DEF GoodRequest
<1> HIDE DEF path
<1>8. ASSUME NEW to \in Node
      PROVE  /\ f.dst = n => GoodFrame(Discovery("reply", to, f, Inc(f.hops), f.idx, path))
             /\ to \in InRange(n) =>
                  GoodFrame(Discovery("request", to, f, Inc(f.hops), Inc(f.idx), path))
  <2>1. ASSUME f.dst = n
        PROVE  GoodFrame(Discovery("reply", to, f, Inc(f.hops), f.idx, path))
    <3> DEFINE g == Discovery("reply", to, f, Inc(f.hops), f.idx, path)
    <3>1. /\ g \in Frame /\ g.type = "reply" /\ g.path = path /\ g.src = f.src /\ g.dst = n
      BY <1>2, <1>5, <1>6, <2>1 DEF Discovery, Frame, Byte, Short
    <3> HIDE DEF g
    <3>2. GoodReply(g)
      BY <1>6, <1>7, <3>1 DEF GoodReply, Leads
    <3>3. GoodFrame(g)
      BY <1>6, <3>1, <3>2 DEF GoodFrame, Short
    <3> QED BY <3>3 DEF g
  <2>2. ASSUME to \in InRange(n)
        PROVE  GoodFrame(Discovery("request", to, f, Inc(f.hops), Inc(f.idx), path))
    <3> DEFINE g == Discovery("request", to, f, Inc(f.hops), Inc(f.idx), path)
    <3>1. /\ g \in Frame /\ g.type = "request" /\ g.path = path /\ g.src = f.src /\ g.to = to
      BY <1>2, <1>5, <1>6 DEF Discovery, Frame, Byte, Short
    <3> HIDE DEF g
    <3>2. GoodRequest(g)
      BY <1>6, <1>7, <2>2, <3>1 DEF GoodRequest, InRange
    <3>3. GoodFrame(g)
      BY <1>6, <3>1, <3>2 DEF GoodFrame, Short
    <3> QED BY <3>3 DEF g
  <2> QED BY <2>1, <2>2
<1>9. \A g \in Rest(f) : GoodFrame(g)
  BY <1>1 DEF Rest
<1>10. \A g \in air' : GoodFrame(g)
  <2>1. CASE air' = Rest(f)
    BY <1>9, <2>1
  <2>2. CASE f.dst = n /\ \E to \in At(path, f.idx) :
               air' = Put(n, Rest(f), {Discovery("reply", to, f, Inc(f.hops), f.idx, path)})
    <3>1. At(path, f.idx) \subseteq Node
      BY <1>5, <1>6, ReadAt
    <3> QED BY <1>8, <1>9, <2>2, <3>1 DEF Put
  <2>3. CASE air' = Put(n, Rest(f), Forward(n, f))
    <3>1. \A g \in Forward(n, f) : g.to \in InRange(n) => GoodFrame(g)
      <4> SUFFICES ASSUME NEW to \in Node,
                          Discovery("request", to, f, Inc(f.hops), Inc(f.idx), path).to
                            \in InRange(n)
                   PROVE  GoodFrame(Discovery("request", to, f, Inc(f.hops), Inc(f.idx), path))
        BY DEF Forward, path
      <4>1. to \in InRange(n)
        BY DEF Discovery
      <4> QED BY <1>8, <4>1
    <3> QED BY <1>9, <2>3, <3>1 DEF Put
  <2> QED BY <2>1, <2>2, <2>3 DEF HandleRouteRequest, path
<1> QED BY <1>3, <1>4, <1>10, Steps DEF Handled

LEMMA ReplyHandled ==
  ASSUME IInv, NEW n \in Node, NEW f \in air, f.to = n, HandleRouteReply(n, f)
  PROVE  Handled(n)
<1>1. /\ GoodFrame(f) /\ f.type = "reply" /\ GoodTable(n, table[n])
      /\ GoodMessage(message[n])
      /\ \A g \in air : GoodFrame(g)
  BY DEF IInv, HandleRouteReply
<1>2. /\ f \in [type : {"request", "reply"}, to : Node, src : Node, dst : Node, seq : Nat,
                hops : Byte, idx : Byte, path : Path]
      /\ f.path \in Short /\ GoodReply(f)
  BY <1>1 DEF GoodFrame, Frame, Byte, Short
<1>3. \A g \in Rest(f) : GoodFrame(g)
  BY <1>1 DEF Rest
<1>4. CASE f.src = n
  <2> DEFINE e == Entry(f.path, f.hops, f.seq)
  <2>1. e \in RouteEntry /\ e.path = f.path
    BY <1>2 DEF Entry, RouteEntry
  <2>2. Len(e.path) \in 1..PathSize - 1 => IsWalk(e.path) /\ Leads(e.path, n, f.dst)
    <3>1. Len(e.path) \in 1..PathSize - 1 => Len(f.path) < PathSize
      BY <2>1, DsrAssumption
    <3> QED BY <1>2, <1>4, <2>1, <3>1 DEF GoodReply
  <2>3. table' = [table EXCEPT ![n] = Write(n, f.dst, e)]
    BY <1>4 DEF HandleRouteReply
  <2> HIDE DEF e
  <2>4. TableStep(n)
    BY <1>1, <1>2, <2>1, <2>2, <2>3, Written, Steps
  <2>5. CASE message[n] = None
    <3>1. air' = Rest(f) /\ UNCHANGED message
      BY <1>4, <2>5 DEF HandleRouteReply
    <3> QED BY <1>3, <2>4, <3>1, Steps DEF Handled
  <2>6. CASE message[n] # None
    <3> DEFINE m == [message[n] EXCEPT !.path = f.path]
    <3>1. m \in Message /\ m.path = f.path
      BY <1>1, <1>2, <2>6 DEF GoodMessage, Message
    <3>2. /\ message' = [message EXCEPT ![n] = m]
          /\ \E to \in At(m.path, 1) : air' = Put(n, Rest(f), {Data(to, n, m, 1)})
      BY <1>4, <2>6 DEF HandleRouteReply
    <3> HIDE DEF m
    <3>3. At(m.path, 1) \subseteq Node /\ 1 \in Byte
      BY <1>2, <3>1, ReadAt, DsrAssumption DEF Byte
    <3>4. \A to \in At(m.path, 1) : GoodFrame(Data(to, n, m, 1))
      BY <3>1, <3>3, DataGood
    <3>5. \A g \in air' : GoodFrame(g)
      BY <1>3, <3>2, <3>4 DEF Put
    <3> QED BY <2>4, <3>1, <3>2, <3>5, Steps DEF Handled, GoodMessage
  <2> QED BY <2>5, <2>6
<1>5. CASE f.src # n
  <2>1. /\ UNCHANGED <<table, message>>
        /\ \E to \in At(f.path, Back(f)) :
             air' = Put(n, Rest(f), {Discovery("reply", to, f, f.hops, Back(f), f.path)})
    BY <1>5 DEF HandleRouteReply
  <2>2. Back(f) \in Byte /\ Back(f) \in Nat
    BY <1>2, Bytes DEF Back, Byte
  <2>3. ASSUME NEW to \in At(f.path, Back(f))
        PROVE  GoodFrame(Discovery("reply", to, f, f.hops, Back(f), f.path))
    <3>1. to \in Node
      BY <1>2, <2>2, ReadAt
    <3> DEFINE g == Discovery("reply", to, f, f.hops, Back(f), f.path)
    <3>2. /\ g \in Frame /\ g.type = "reply" /\ g.path = f.path
          /\ g.src = f.src /\ g.dst = f.dst
      BY <1>2, <2>2, <3>1 DEF Discovery, Frame, Byte
    <3> HIDE DEF g
    <3>3. GoodFrame(g)
      BY <1>1, <1>2, <3>2 DEF GoodFrame, GoodReply
    <3> QED BY <3>3 DEF g
  <2>4. \A g \in air' : GoodFrame(g)
    BY <1>3, <2>1, <2>3 DEF Put
  <2> QED BY <2>1, <2>4, Steps DEF Handled
<1> QED BY <1>4, <1>5

LEMMA DataHandled ==
  ASSUME IInv, NEW n \in Node, NEW f \in air, f.to = n, HandleRoutingMessage(n, f)
  PROVE  /\ Handled(n)
         /\ \/ UNCHANGED <<delivered, again>>
            \/ \E m \in Node \X Nat :
                 /\ delivered' = [delivered EXCEPT ![n] = @ \cup {m}]
                 /\ again' = [again EXCEPT ![n] = @ \cup ({m} \cap delivered[n])]
<1>1. /\ GoodFrame(f) /\ f.type = "data" /\ \A g \in air : GoodFrame(g)
  BY DEF IInv, HandleRoutingMessage
<1>2. /\ f \in [type : {"data"}, to : Node, src : Node, dst : Node, body : Nat,
                idx : Byte, path : Path]
      /\ f.path \in Short
  BY <1>1 DEF GoodFrame, Frame, Byte, Short
<1>3. \A g \in Rest(f) : GoodFrame(g)
  BY <1>1 DEF Rest
<1>4. UNCHANGED <<table, message>>
  BY DEF HandleRoutingMessage
<1>5. CASE f.dst = n
  <2>1. air' = Rest(f) /\ <<f.src, f.body>> \in Node \X Nat
    BY <1>2, <1>5 DEF HandleRoutingMessage
  <2>2. Handled(n)
    BY <1>3, <1>4, <2>1, Steps DEF Handled
  <2> QED BY <1>5, <2>1, <2>2 DEF HandleRoutingMessage
<1>6. CASE f.dst # n
  <2> DEFINE idx == Inc(f.idx)
  <2>1. idx \in Byte /\ idx \in Nat
    BY <1>2, Bytes DEF Inc, Byte
  <2>2. /\ UNCHANGED <<delivered, again>>
        /\ \E to \in At(f.path, idx) :
             air' = Put(n, Rest(f), {[f EXCEPT !.to = to, !.idx = idx]})
    BY <1>6 DEF HandleRoutingMessage
  <2> HIDE DEF idx
  <2>3. ASSUME NEW to \in At(f.path, idx)
        PROVE  GoodFrame([f EXCEPT !.to = to, !.idx = idx])
    <3>1. to \in Node
      BY <1>2, <2>1, ReadAt
    <3> QED BY <1>2, <2>1, <3>1 DEF GoodFrame, Frame, Byte, Short
  <2>4. \A g \in air' : GoodFrame(g)
    BY <1>3, <2>2, <2>3 DEF Put
  <2> QED BY <1>4, <2>2, <2>4, Steps DEF Handled
<1> QED BY <1>5, <1>6
LEMMA ReceiveIInv ==
  ASSUME IInv, NEW n \in Node, NEW f \in air, Receive(n, f)
  PROVE  IInv'
<1>1. f.to = n /\ UNCHANGED <<up, seqNr, sent>>
  BY DEF Receive
<1>2. /\ Handled(n)
      /\ \/ UNCHANGED <<delivered, again>>
         \/ \E m \in Node \X Nat :
              /\ delivered' = [delivered EXCEPT ![n] = @ \cup {m}]
              /\ again' = [again EXCEPT ![n] = @ \cup ({m} \cap delivered[n])]
  <2>1. CASE HandleRouteRequest(n, f)
    BY <1>1, <2>1, RequestHandled DEF HandleRouteRequest
  <2>2. CASE HandleRouteReply(n, f)
    BY <1>1, <2>2, ReplyHandled DEF HandleRouteReply
  <2>3. CASE HandleRoutingMessage(n, f)
    BY <1>1, <2>3, DataHandled
  <2> QED BY <2>1, <2>2, <2>3 DEF Receive
<1>3. busy' \in [Node -> BOOLEAN]
  BY DEF IInv, Typed, Receive, HandleRouteRequest, HandleRouteReply, HandleRoutingMessage,
         NoLongerBusy
<1>4. /\ delivered' \in [Node -> SUBSET (Node \X Nat)]
      /\ again' \in [Node -> SUBSET (Node \X Nat)]
      /\ \A m \in Node : again'[m] \subseteq delivered'[m]
  <2>1. CASE UNCHANGED <<delivered, again>>
    BY <2>1 DEF IInv, Typed
  <2>2. ASSUME NEW m \in Node \X Nat,
               delivered' = [delivered EXCEPT ![n] = @ \cup {m}],
               again' = [again EXCEPT ![n] = @ \cup ({m} \cap delivered[n])]
        PROVE  /\ delivered' \in [Node -> SUBSET (Node \X Nat)]
               /\ again' \in [Node -> SUBSET (Node \X Nat)]
               /\ \A x \in Node : again'[x] \subseteq delivered'[x]
    BY <2>2 DEF IInv, Typed
  <2> QED BY <1>2, <2>1, <2>2
<1>5. Typed'
  BY <1>1, <1>2, <1>3, <1>4 DEF IInv, Typed, Handled, TableStep, MessageStep
<1>6. ASSUME NEW m \in Node
      PROVE  GoodTable(m, table'[m]) /\ GoodMessage(message'[m])
  BY <1>2 DEF IInv, Handled, TableStep, MessageStep
<1> QED BY <1>2, <1>4, <1>5, <1>6 DEF IInv, Handled

LEMMA InitRoutingIInv ==
  ASSUME IInv, NEW n \in Node, InitRouting(n)
  PROVE  IInv'
<1>1. Typed'
  BY DEF IInv, Typed, InitRouting
<1>2. ASSUME NEW m \in Node
      PROVE  GoodTable(m, table'[m]) /\ GoodMessage(message'[m]) /\ again'[m] \subseteq delivered'[m]
  BY EmptyTable DEF IInv, Typed, InitRouting, GoodMessage
<1>3. \A f \in air' : GoodFrame(f)
  BY DEF IInv, InitRouting
<1> QED BY <1>1, <1>2, <1>3 DEF IInv

LEMMA SendIInv ==
  ASSUME IInv, NEW n \in Node, NEW d \in Node, Send(n, d)
  PROVE  IInv'
<1>1. /\ sent' = [sent EXCEPT ![n] = @ + 1] /\ sent[n] < MaxSends
      /\ UNCHANGED <<up, table, delivered, again>>
  BY DEF Send
<1>2. sent' \in [Node -> 0..MaxSends] /\ sent[n] + 1 \in Nat
  BY <1>1, DsrAssumption DEF IInv, Typed
<1>3. /\ seqNr' \in [Node -> Nat] /\ busy' \in [Node -> BOOLEAN]
      /\ MessageStep(n) /\ \A f \in air' : GoodFrame(f)
  <2>1. CASE SendOnRoute(n, d)
    <3> DEFINE m == [dst |-> d, body |-> sent[n] + 1, path |-> table[n][d].path]
    <3>1. d \in DOMAIN table[n] /\ UNCHANGED <<seqNr, busy>>
      BY <2>1 DEF SendOnRoute
    <3>2. table[n][d].path \in Short
      BY <3>1 DEF IInv, GoodTable, RouteEntry
    <3>3. m \in Message
      BY <1>2, <3>2 DEF Message
    <3>4. /\ message' = [message EXCEPT ![n] = m]
          /\ \E to \in At(m.path, 1) : air' = Put(n, air, {Data(to, n, m, 1)})
      BY <2>1 DEF SendOnRoute
    <3> HIDE DEF m
    <3>5. MessageStep(n)
      BY <3>3, <3>4, Steps DEF GoodMessage
    <3>6. At(m.path, 1) \subseteq Node /\ 1 \in Byte
      BY <3>3, ReadAt, DsrAssumption DEF Byte, Message
    <3>7. \A to \in At(m.path, 1) : GoodFrame(Data(to, n, m, 1))
      BY <3>3, <3>6, DataGood
    <3>8. \A f \in air' : GoodFrame(f)
      BY <3>4, <3>7 DEF Put, IInv
    <3> QED BY <3>1, <3>5, <3>8 DEF IInv, Typed
  <2>2. CASE SendRequest(n, d)
    <3> DEFINE m == [dst |-> d, body |-> sent[n] + 1, path |-> <<>>]
               r == [src |-> n, dst |-> d, seq |-> seqNr[n]]
    <3>1. /\ busy' = [busy EXCEPT ![n] = TRUE]
          /\ seqNr' = [seqNr EXCEPT ![n] = @ + 1]
          /\ message' = [message EXCEPT ![n] = m]
          /\ air' = Put(n, air, {Discovery("request", to, r, 0, 0, <<n>>) : to \in Node})
      BY <2>2 DEF SendRequest
    <3>2. m \in Message
      <4>1. <<>> \in Short
        BY DsrAssumption DEF Short, Path
      <4> QED BY <1>2, <4>1 DEF Message
    <3>3. MessageStep(n)
      BY <3>1, <3>2, Steps DEF GoodMessage
    <3>4. ASSUME NEW to \in Node, Discovery("request", to, r, 0, 0, <<n>>).to \in InRange(n)
          PROVE  GoodFrame(Discovery("request", to, r, 0, 0, <<n>>))
      <4> DEFINE g == Discovery("request", to, r, 0, 0, <<n>>)
      <4>1. 0 \in Byte /\ <<n>> \in Path /\ seqNr[n] \in Nat /\ Len(<<n>>) <= PathSize
        BY DsrAssumption DEF Byte, Path, IInv, Typed
      <4>2. /\ g \in Frame /\ g.type = "request" /\ g.path = <<n>> /\ g.src = n /\ g.to = to
        BY <4>1 DEF Discovery, Frame, Byte
      <4>3. <<n, to>> \in Link
        BY <3>4 DEF Discovery, InRange
      <4> HIDE DEF g
      <4>4. GoodRequest(g)
        BY <4>2, <4>3 DEF GoodRequest, IsWalk
      <4>5. GoodFrame(g)
        BY <4>1, <4>2, <4>4 DEF GoodFrame
      <4> QED BY <4>5 DEF g
    <3> HIDE DEF r
    <3>5. \A f \in air' : GoodFrame(f)
      BY <3>1, <3>4 DEF Put, IInv
    <3>6. seqNr' \in [Node -> Nat] /\ busy' \in [Node -> BOOLEAN]
      BY <3>1 DEF IInv, Typed
    <3> QED BY <3>3, <3>5, <3>6
  <2> QED BY <2>1, <2>2 DEF Send
<1>4. Typed'
  BY <1>1, <1>2, <1>3 DEF IInv, Typed, MessageStep
<1>5. \A m \in Node : /\ GoodTable(m, table'[m]) /\ GoodMessage(message'[m])
                      /\ again'[m] \subseteq delivered'[m]
  BY <1>1, <1>3 DEF IInv, MessageStep
<1> QED BY <1>3, <1>4, <1>5 DEF IInv

LEMMA InitIInv == Init => IInv
<1> SUFFICES ASSUME Init PROVE IInv
  OBVIOUS
<1>1. Typed
  BY DsrAssumption DEF Init, Typed
<1> QED BY <1>1, EmptyTable DEF Init, IInv, GoodMessage

LEMMA NextIInv == IInv /\ [ChurnNext]_vars => IInv'
<1> SUFFICES ASSUME IInv, [ChurnNext]_vars PROVE IInv'
  OBVIOUS
<1>1. ASSUME NEW n \in Node, Enable(n) \/ Restart(n)
      PROVE  IInv'
  BY <1>1, InitRoutingIInv DEF Enable, Restart
<1>2. ASSUME NEW n \in Node, NEW f \in air, Receive(n, f)
      PROVE  IInv'
  BY <1>2, ReceiveIInv
<1>3. ASSUME NEW e \in Flow, Send(e[1], e[2])
      PROVE  IInv'
  <2>1. e[1] \in Node /\ e[2] \in Node
    BY DsrAssumption
  <2> QED BY <1>3, <2>1, SendIInv
<1>4. ASSUME NEW f \in air, Lose(f)
      PROVE  IInv'
  BY <1>4 DEF Lose, IInv, Typed
<1>5. CASE UNCHANGED vars
  BY <1>5 DEF vars, IInv, Typed
<1>6. Restarting \subseteq Node
  BY DsrAssumption
<1> QED BY <1>1, <1>2, <1>3, <1>4, <1>5, <1>6 DEF ChurnNext, Next, Operate

LEMMA AlwaysIInv == ChurnSpec => []IInv
<1> QED BY InitIInv, NextIInv, PTL DEF ChurnSpec

LEMMA InvTypes == IInv => TypeOK
<1> SUFFICES ASSUME IInv PROVE TypeOK
  OBVIOUS
<1>1. ASSUME NEW n \in Node
      PROVE  /\ DOMAIN table[n] \subseteq Node /\ Cardinality(DOMAIN table[n]) <= TableSize
             /\ \A d \in DOMAIN table[n] :
                  /\ table[n][d] \in [path : Path, hops : 0..ByteMod - 1, seq : Nat]
                  /\ Len(table[n][d].path) <= PathSize
             /\ message[n] = None \/ message[n] \in [dst : Node, body : Nat, path : Path]
             /\ again[n] \subseteq delivered[n] /\ delivered[n] \subseteq Node \X Nat
  <2>1. GoodTable(n, table[n]) /\ GoodMessage(message[n])
    BY DEF IInv
  <2>2. message[n] = None \/ message[n] \in [dst : Node, body : Nat, path : Path]
    BY <2>1 DEF GoodMessage, Message, Short
  <2>3. \A d \in DOMAIN table[n] :
          /\ table[n][d] \in [path : Path, hops : 0..ByteMod - 1, seq : Nat]
          /\ Len(table[n][d].path) <= PathSize
    BY <2>1 DEF GoodTable, RouteEntry, Short, Byte
  <2> QED BY <2>1, <2>2, <2>3 DEF GoodTable, IInv, Typed
<1>2. \A f \in air : f \in Frame /\ Len(f.path) <= PathSize
  BY DEF IInv, GoodFrame
<1> QED BY <1>1, <1>2 DEF TypeOK, IInv, Typed

LEMMA InvWalks == IInv => RoutesAreWalks
<1> QED BY DEF IInv, GoodTable, RoutesAreWalks

(***************************************************************************)
(* The members of DsrRouting keep their types, the table and the paths     *)
(* stay within their sizes, whatever is lost, repeated or restarted        *)
(* (dsr_routing.h:152-157, dsr_routing_types.h:50-52).                     *)
(***************************************************************************)
THEOREM TypeCorrect == ChurnSpec => []TypeOK
<1> QED BY InvTypes, AlwaysIInv, PTL

(***************************************************************************)
(* A path in a table leads from its owner to the destination of the entry  *)
(* over links that exist, whatever is lost, repeated or restarted; one as  *)
(* long as its vector may have been cut off (handle_route_request(),       *)
(* handle_route_reply(): dsr_routing.h:333-439).                           *)
(***************************************************************************)
THEOREM PathsAreWalks == ChurnSpec => []RoutesAreWalks
<1> QED BY InvWalks, AlwaysIInv, PTL
-----------------------------------------------------------------------------
(***************************************************************************)
(* Orderly use: tables and paths have room for every node, the radio       *)
(* repeats nothing, and no node that sends is sent to.  (One that is may   *)
(* hold an entry without a path, which send() takes for a route.)          *)
(***************************************************************************)
Orderly == /\ TableSize >= Cardinality(Node) /\ PathSize > Cardinality(Node)
           /\ ~Duplicates
           /\ \A e, g \in Flow : e[2] # g[1]

Source == {e[1] : e \in Flow}

Kind(type) == {f \in air : f.type = type}

(***************************************************************************)
(* Its inductive invariant.  A path in a table leads to its destination; a *)
(* node not yet enabled has done nothing; a node that is busy waits for    *)
(* the route of the message it sent last.                                  *)
(***************************************************************************)
TablesLead ==
  \A n \in Node : \A d \in DOMAIN table[n] :
    IF table[n][d].path = <<>> THEN d \in Source
    ELSE Leads(table[n][d].path, n, d) /\ <<n, d>> \in Flow

Fallow == \A n \in Node : ~up[n] => seqNr[n] = 1 /\ ~busy[n] /\ table[n] = <<>>

Waiting == \A n \in Node : busy[n] =>
  message[n] \in Message /\ message[n].body = sent[n] /\ <<n, message[n].dst>> \in Flow

(***************************************************************************)
(* The nodes a request has passed after its source have noted it and       *)
(* differ, so that its path is never full.  Its destination has noted it   *)
(* too, or the source still waits for the only reply there will be.        *)
(***************************************************************************)
Noted(n, f) == GetSeqNr(n, f.src) >= f.seq

Sought(f) == /\ busy[f.src] /\ f.seq + 1 = seqNr[f.src] /\ f.dst = message[f.src].dst
             /\ \A g \in Kind("reply") : g.src # f.src

Requests == \A f \in Kind("request") :
  /\ <<f.src, f.dst>> \in Flow /\ f.seq < seqNr[f.src]
  /\ f.path[1] = f.src /\ f.idx + 1 = Len(f.path)
  /\ \A i \in 2..Len(f.path) : Noted(f.path[i], f)
  /\ \A i, j \in 2..Len(f.path) : i # j => f.path[i] # f.path[j]
  /\ Noted(f.dst, f) \/ Sought(f)

\* The index of a frame is the place on its path of the node it goes to.
Indexed(f) == /\ f.idx < Len(f.path) /\ f.to = f.path[f.idx + 1]
              /\ Leads(f.path, f.src, f.dst) /\ <<f.src, f.dst>> \in Flow

Replies == \A f \in Kind("reply") :
  /\ Indexed(f) /\ busy[f.src] /\ f.dst = message[f.src].dst
  /\ \A g \in Kind("reply") : g.src = f.src => g = f

(***************************************************************************)
(* A message is under way once at most, and not both under way and         *)
(* delivered, nor either while it waits for its route.                     *)
(***************************************************************************)
Begun(s, body) == body <= sent[s] /\ (busy[s] => body < sent[s])

DataOnce == \A f \in Kind("data") :
  /\ Indexed(f) /\ Begun(f.src, f.body)
  /\ \A g \in Kind("data") : g.src = f.src /\ g.body = f.body => g = f
  /\ \A n \in Node : <<f.src, f.body>> \notin delivered[n]

GivenBegun == \A n \in Node : \A m \in delivered[n] : Begun(m[1], m[2])

OInv == /\ IInv /\ TablesLead /\ Fallow /\ Waiting
        /\ Requests /\ Replies /\ DataOnce /\ GivenBegun /\ DeliveredOnce
-----------------------------------------------------------------------------
(***************************************************************************)
(* What orderly use gives the handlers: what a node notes it keeps, and a  *)
(* path has room for a node that has not noted its request.                *)
(***************************************************************************)
LEMMA FrameTypes ==
  ASSUME IInv, NEW f \in air
  PROVE  /\ f.to \in Node /\ f.src \in Node /\ f.dst \in Node /\ f.idx \in Byte
         /\ f.type \in {"request", "reply", "data"}
         /\ f.type \in {"request", "reply"} => f.seq \in Nat /\ f.hops \in Byte
         /\ f.type = "data" => f.body \in Nat
         /\ f.path \in Short /\ Len(f.path) \in Nat
         /\ \A i \in 1..Len(f.path) : f.path[i] \in Node
<1>1. GoodFrame(f)
  BY DEF IInv
<1>2. f \in Frame /\ f.path \in Short
  BY <1>1 DEF GoodFrame, Frame, Short
<1>3. Len(f.path) \in Nat /\ \A i \in 1..Len(f.path) : f.path[i] \in Node
  BY <1>2 DEF Short, Path
<1> QED BY <1>2, <1>3 DEF Frame, Byte

LEMMA SourceTypes ==
  /\ Source \subseteq Node
  /\ \A n, d : <<n, d>> \in Flow => n \in Source /\ n \in Node /\ d \in Node
  /\ Orderly => \A n, d : <<n, d>> \in Flow => d \notin Source /\ n # d
<1>1. \A e \in Flow : e = <<e[1], e[2]>> /\ e[1] \in Node /\ e[2] \in Node
  BY DsrAssumption
<1>2. Source \subseteq Node
  BY <1>1 DEF Source
<1>3. ASSUME NEW n, NEW d, <<n, d>> \in Flow
      PROVE  n \in Source /\ n \in Node /\ d \in Node
  BY <1>1, <1>3 DEF Source
<1>4. ASSUME Orderly, NEW n, NEW d, <<n, d>> \in Flow
      PROVE  d \notin Source /\ n # d
  BY <1>4 DEF Orderly, Source
<1> QED BY <1>2, <1>3, <1>4

LEMMA RoomToWrite ==
  ASSUME Orderly, IInv, NEW n \in Node, NEW d \in Node
  PROVE  d \in DOMAIN table[n] \/ Cardinality(DOMAIN table[n]) < TableSize
<1> DEFINE D == DOMAIN table[n]
<1>1. D \subseteq Node /\ IsFiniteSet(Node) /\ TableSize \in Nat
      /\ TableSize >= Cardinality(Node)
  BY DsrAssumption DEF IInv, GoodTable, Orderly
<1> SUFFICES ASSUME d \notin D PROVE Cardinality(D) < TableSize
  OBVIOUS
<1>2. /\ IsFiniteSet(D) /\ Cardinality(D) \in Nat /\ Cardinality(Node) \in Nat
      /\ Cardinality(D) <= Cardinality(Node)
      /\ Cardinality(D) = Cardinality(Node) => D = Node
  BY <1>1, FS_Subset, FS_CardinalityType
<1> QED BY <1>1, <1>2

\* The table u is the table t with a number noted for s.
Notes(t, u, s, seq) == /\ DOMAIN u = DOMAIN t \cup {s} /\ u[s].seq = seq
                       /\ \A x \in DOMAIN t : u[x].path = t[x].path
                       /\ \A x \in DOMAIN t \ {s} : u[x] = t[x]
                       /\ s \notin DOMAIN t => u[s].path = <<>>

LEMMA Noting ==
  ASSUME Orderly, IInv, NEW n \in Node, NEW s \in Node, NEW seq \in Nat
  PROVE  Notes(table[n], UpdateSeqNr(n, s, seq), s, seq)
<1> DEFINE t == UpdateSeqNr(n, s, seq)
<1> SUFFICES Notes(table[n], t, s, seq)
  OBVIOUS
<1>1. CASE s \in DOMAIN table[n]
  <2>1. t = [table[n] EXCEPT ![s].seq = seq]
    BY <1>1 DEF UpdateSeqNr
  <2> HIDE DEF t
  <2>2. table[n][s] \in RouteEntry
    BY <1>1 DEF IInv, GoodTable
  <2>3. DOMAIN t = DOMAIN table[n] \cup {s} /\ t[s].seq = seq
    BY <1>1, <2>1, <2>2 DEF RouteEntry
  <2>4. \A x \in DOMAIN table[n] : t[x].path = table[n][x].path
    BY <1>1, <2>1, <2>2 DEF RouteEntry
  <2>5. \A x \in DOMAIN table[n] \ {s} : t[x] = table[n][x]
    BY <1>1, <2>1
  <2> QED BY <1>1, <2>3, <2>4, <2>5 DEF Notes
<1>2. CASE s \notin DOMAIN table[n]
  <2> DEFINE e == Entry(<<>>, 0, seq)
  <2>1. e.seq = seq /\ e.path = <<>>
    BY DEF Entry
  <2>2. t = Write(n, s, e)
    BY <1>2 DEF UpdateSeqNr
  <2> HIDE DEF t, e
  <2>3. t = [x \in DOMAIN table[n] \cup {s} |-> IF x = s THEN e ELSE table[n][x]]
    BY <2>2, RoomToWrite DEF Write
  <2> QED BY <1>2, <2>1, <2>3 DEF Notes
<1> QED BY <1>1, <1>2

\* No node forgets a number of a source.
Remembered == \A n \in Node, s \in Source : /\ GetSeqNr(n, s) \in Nat /\ GetSeqNr(n, s)' \in Nat
                                            /\ GetSeqNr(n, s) <= GetSeqNr(n, s)'

LEMMA SeqNrTypes ==
  ASSUME IInv, NEW n \in Node, NEW s \in Node
  PROVE  GetSeqNr(n, s) \in Nat
<1>1. s \in DOMAIN table[n] => table[n][s].seq \in Nat
  BY DEF IInv, GoodTable, RouteEntry
<1> QED BY <1>1 DEF GetSeqNr

LEMMA TablesSame ==
  ASSUME IInv, UNCHANGED table
  PROVE  Remembered
<1>1. ASSUME NEW n \in Node, NEW s \in Source
      PROVE  /\ GetSeqNr(n, s) \in Nat /\ GetSeqNr(n, s)' \in Nat
             /\ GetSeqNr(n, s) <= GetSeqNr(n, s)'
  <2>1. GetSeqNr(n, s) \in Nat
    BY SourceTypes, SeqNrTypes
  <2>2. GetSeqNr(n, s)' = GetSeqNr(n, s)
    BY DEF GetSeqNr
  <2> QED BY <2>1, <2>2
<1> QED BY <1>1 DEF Remembered

LEMMA UpTo ==
  ASSUME NEW k \in Nat
  PROVE  IsFiniteSet(1..k) /\ Cardinality(1..k) = k
<1>1. 1 \in Int /\ k \in Int
  OBVIOUS
<1>2. IsFiniteSet(1..k) /\ Cardinality(1..k) = IF 1 > k THEN 0 ELSE k - 1 + 1
  BY <1>1, FS_Interval, Zenon
<1> QED BY <1>2

LEMMA PathHasRoom ==
  ASSUME Orderly, OInv, NEW f \in Kind("request"), NEW n \in Node, ~Noted(n, f)
  PROVE  /\ Len(f.path) < PathSize
         /\ \A i \in 2..Len(f.path) : f.path[i] # n
<1> DEFINE L == Len(f.path)
           S == Node \ {n}
           q == [i \in 1..L - 1 |-> f.path[i + 1]]
<1>1. f \in air /\ IInv
  BY DEF Kind, OInv
<1>2. /\ \A i \in 2..L : Noted(f.path[i], f)
      /\ \A i, j \in 2..L : i # j => f.path[i] # f.path[j]
      /\ L \in Nat /\ \A i \in 1..L : f.path[i] \in Node
  BY <1>1, FrameTypes DEF OInv, Requests
<1>3. \A i \in 2..L : f.path[i] # n
  BY <1>2
<1>4. /\ IsFiniteSet(S) /\ Cardinality(S) = Cardinality(Node) - 1
      /\ Cardinality(Node) \in Nat
  BY DsrAssumption, FS_RemoveElement, FS_CardinalityType
<1>5. PathSize \in Nat /\ PathSize > Cardinality(Node)
  BY DsrAssumption DEF Orderly
<1>6. CASE L = 0
  BY <1>4, <1>5, <1>6, <1>3
<1>7. CASE L # 0
  <2>1. q \in [1..L - 1 -> S]
    <3> SUFFICES ASSUME NEW i \in 1..L - 1 PROVE f.path[i + 1] \in S
      OBVIOUS
    <3>1. i + 1 \in 2..L /\ i + 1 \in 1..L
      BY <1>2
    <3> QED BY <1>2, <1>3, <3>1
  <2>2. \A i, j \in 1..L - 1 : i # j => q[i] # q[j]
    <3> SUFFICES ASSUME NEW i \in 1..L - 1, NEW j \in 1..L - 1, i # j
                 PROVE  f.path[i + 1] # f.path[j + 1]
      OBVIOUS
    <3>1. i + 1 \in 2..L /\ j + 1 \in 2..L /\ i + 1 # j + 1
      BY <1>2
    <3> QED BY <1>2, <3>1
  <2> HIDE DEF q
  <2>3. q \in Injection(1..L - 1, S)
    BY <2>1, <2>2 DEF Injection, IsInjective
  <2>4. L - 1 \in Nat
    BY <1>2, <1>7
  <2>5. IsFiniteSet(1..L - 1) /\ Cardinality(1..L - 1) = L - 1
    BY <2>4, UpTo
  <2>6. Cardinality(1..L - 1) <= Cardinality(S)
    BY <1>4, <2>3, FS_Injection
  <2> QED BY <1>2, <1>3, <1>4, <1>5, <2>5, <2>6
<1> QED BY <1>6, <1>7
(***************************************************************************)
(* What a step has to show of each kind of frame: that what it says of the *)
(* old ones still holds, and that it holds of the new.                     *)
(***************************************************************************)
RequestMade(f) ==
  /\ <<f.src, f.dst>> \in Flow /\ f.seq < seqNr[f.src]
  /\ f.path[1] = f.src /\ f.idx + 1 = Len(f.path)
  /\ \A i \in 2..Len(f.path) : Noted(f.path[i], f)
  /\ \A i, j \in 2..Len(f.path) : i # j => f.path[i] # f.path[j]
  /\ Noted(f.dst, f) \/ Sought(f)

LEMMA RequestsStep ==
  ASSUME OInv, Remembered, NEW New, Kind("request")' \subseteq Kind("request") \cup New,
         seqNr' \in [Node -> Nat], \A s \in Node : seqNr[s] <= seqNr'[s],
         \A f \in Kind("request") : Sought(f) => Noted(f.dst, f)' \/ Sought(f)',
         \A f \in New : RequestMade(f)'
  PROVE  Requests'
<1> SUFFICES ASSUME NEW f \in Kind("request")' PROVE RequestMade(f)'
  BY DEF Requests, RequestMade
<1>1. CASE f \in New
  BY <1>1
<1>2. CASE f \in Kind("request")
  <2>1. RequestMade(f) /\ f \in air /\ IInv
    BY <1>2 DEF OInv, Requests, RequestMade, Kind
  <2>2. /\ f.src \in Source /\ f.src \in Node /\ f.dst \in Node /\ f.seq \in Nat
        /\ \A i \in 1..Len(f.path) : f.path[i] \in Node
    <3>1. f.type = "request"
      BY <1>2 DEF Kind
    <3> QED BY <2>1, <3>1, FrameTypes, SourceTypes DEF RequestMade
  <2>3. \A n \in Node : Noted(n, f) => Noted(n, f)'
    BY <2>2 DEF Remembered, Noted
  <2>4. f.seq < seqNr'[f.src]
    BY <2>1, <2>2 DEF RequestMade, IInv, Typed
  <2>5. \A i \in 2..Len(f.path) : i \in 1..Len(f.path)
    BY <2>1, FrameTypes
  <2>6. Noted(f.dst, f)' \/ Sought(f)'
    BY <1>2, <2>1, <2>2, <2>3 DEF RequestMade
  <2>7. \A i \in 2..Len(f.path) : Noted(f.path[i], f)'
    BY <2>1, <2>2, <2>3, <2>5 DEF RequestMade
  <2> QED BY <2>1, <2>4, <2>6, <2>7 DEF RequestMade
<1> QED BY <1>1, <1>2

LEMMA RequestsKept ==
  ASSUME OInv, Remembered, Kind("request")' \subseteq Kind("request"),
         seqNr' \in [Node -> Nat], \A s \in Node : seqNr[s] <= seqNr'[s],
         \A f \in Kind("request") : Sought(f) => Noted(f.dst, f)' \/ Sought(f)'
  PROVE  Requests'
<1>1. PICK New : New = {}
  OBVIOUS
<1>2. Kind("request")' \subseteq Kind("request") \cup New /\ \A f \in New : RequestMade(f)'
  BY <1>1
<1> QED BY <1>2, RequestsStep

LEMMA RepliesStep ==
  ASSUME OInv, NEW Old \in SUBSET Kind("reply"), NEW New,
         Kind("reply")' \subseteq Old \cup New,
         \A f \in Old : busy'[f.src] /\ message'[f.src].dst = message[f.src].dst,
         \A f \in New : /\ Indexed(f) /\ busy'[f.src] /\ f.dst = message'[f.src].dst
                        /\ \A g \in Old : g.src # f.src
                        /\ \A g \in New : g.src = f.src => g = f
  PROVE  Replies'
<1> SUFFICES ASSUME NEW f \in Kind("reply")'
             PROVE  /\ Indexed(f) /\ busy'[f.src] /\ f.dst = message'[f.src].dst
                    /\ \A g \in Kind("reply")' : g.src = f.src => g = f
  BY DEF Replies, Indexed
<1>1. CASE f \in New
  BY <1>1
<1>2. CASE f \in Old
  <2>1. /\ Indexed(f) /\ f.dst = message[f.src].dst
        /\ \A g \in Old : g.src = f.src => g = f
    BY <1>2 DEF OInv, Replies
  <2> QED BY <1>2, <2>1
<1> QED BY <1>1, <1>2

LEMMA RepliesKept ==
  ASSUME OInv, Kind("reply")' \subseteq Kind("reply"),
         \A f \in Kind("reply")' : busy'[f.src] /\ message'[f.src].dst = message[f.src].dst
  PROVE  Replies'
<1>1. PICK Old, New : Old = Kind("reply")' /\ New = {}
  OBVIOUS
<1>2. /\ Old \in SUBSET Kind("reply") /\ Kind("reply")' \subseteq Old \cup New
      /\ \A f \in Old : busy'[f.src] /\ message'[f.src].dst = message[f.src].dst
      /\ \A f \in New : /\ Indexed(f) /\ busy'[f.src] /\ f.dst = message'[f.src].dst
                        /\ \A g \in Old : g.src # f.src
                        /\ \A g \in New : g.src = f.src => g = f
  BY <1>1
<1> QED BY <1>2, RepliesStep

LEMMA DataStep ==
  ASSUME OInv, NEW Old \in SUBSET Kind("data"), NEW New,
         Kind("data")' \subseteq Old \cup New,
         \A s \in Node, body \in Nat : Begun(s, body) => Begun(s, body)',
         \A f \in Old : \A n \in Node : <<f.src, f.body>> \notin delivered'[n],
         \A f \in New : /\ Indexed(f) /\ Begun(f.src, f.body)'
                        /\ \A g \in Old : ~(g.src = f.src /\ g.body = f.body)
                        /\ \A g \in New : g = f
                        /\ \A n \in Node : <<f.src, f.body>> \notin delivered'[n]
  PROVE  DataOnce'
<1> SUFFICES ASSUME NEW f \in Kind("data")'
             PROVE  /\ Indexed(f) /\ Begun(f.src, f.body)'
                    /\ \A g \in Kind("data")' : g.src = f.src /\ g.body = f.body => g = f
                    /\ \A n \in Node : <<f.src, f.body>> \notin delivered'[n]
  BY DEF DataOnce, Indexed
<1>1. CASE f \in New
  BY <1>1
<1>2. CASE f \in Old
  <2>1. /\ Indexed(f) /\ Begun(f.src, f.body)
        /\ \A g \in Old : g.src = f.src /\ g.body = f.body => g = f
    BY <1>2 DEF OInv, DataOnce
  <2>2. f.src \in Node /\ f.body \in Nat
    BY <1>2, FrameTypes DEF OInv, Kind
  <2>3. Begun(f.src, f.body)'
    BY <2>1, <2>2
  <2> QED BY <1>2, <2>1, <2>3
<1> QED BY <1>1, <1>2

LEMMA DataKept ==
  ASSUME OInv, Kind("data")' \subseteq Kind("data"),
         \A s \in Node, body \in Nat : Begun(s, body) => Begun(s, body)',
         \A f \in Kind("data")' : \A n \in Node : <<f.src, f.body>> \notin delivered'[n]
  PROVE  DataOnce'
<1>1. PICK Old, New : Old = Kind("data")' /\ New = {}
  OBVIOUS
<1>2. /\ Old \in SUBSET Kind("data") /\ Kind("data")' \subseteq Old \cup New
      /\ \A f \in Old : \A n \in Node : <<f.src, f.body>> \notin delivered'[n]
      /\ \A f \in New : /\ Indexed(f) /\ Begun(f.src, f.body)'
                        /\ \A g \in Old : ~(g.src = f.src /\ g.body = f.body)
                        /\ \A g \in New : g = f
                        /\ \A n \in Node : <<f.src, f.body>> \notin delivered'[n]
  BY <1>1
<1> QED BY <1>2, DataStep

\* A frame is of one kind; what is put into the air goes to nodes in range.
LEMMA Kinds ==
  ASSUME NEW n, NEW Old, NEW F, air' = Put(n, Old, F), Old \subseteq air, NEW type
  PROVE  Kind(type)' \subseteq {f \in Old : f.type = type} \cup {f \in F : f.type = type}
BY DEF Kind, Put
-----------------------------------------------------------------------------
(***************************************************************************)
(* The steps of orderly use.                                               *)
(***************************************************************************)
LEMMA DataSame ==
  ASSUME OInv, Kind("data")' \subseteq Kind("data"),
         UNCHANGED <<busy, sent, delivered, again>>
  PROVE  DataOnce' /\ GivenBegun' /\ DeliveredOnce'
<1>1. \A s, body : Begun(s, body) => Begun(s, body)'
  BY DEF Begun
<1>2. \A f \in Kind("data")' : \A n \in Node : <<f.src, f.body>> \notin delivered'[n]
  BY DEF OInv, DataOnce
<1>3. DataOnce'
  BY <1>1, <1>2, DataKept
<1>4. GivenBegun' /\ DeliveredOnce'
  BY DEF OInv, GivenBegun, DeliveredOnce, Begun
<1> QED BY <1>3, <1>4

LEMMA FewerFrames ==
  ASSUME OInv, IInv', air' \subseteq air,
         UNCHANGED <<up, seqNr, busy, table, message, sent, delivered, again>>
  PROVE  OInv'
<1>1. \A type : Kind(type)' \subseteq Kind(type)
  BY DEF Kind
<1>2. TablesLead' /\ Fallow' /\ Waiting'
  BY DEF OInv, TablesLead, Fallow, Waiting
<1>3. Requests'
  <2>1. Remembered
    BY TablesSame DEF OInv
  <2>2. \A f : Sought(f) => Sought(f)'
    BY <1>1 DEF Sought
  <2>3. seqNr' \in [Node -> Nat] /\ \A s \in Node : seqNr[s] <= seqNr'[s]
    BY DEF OInv, IInv, Typed
  <2>4. Kind("request")' \subseteq Kind("request")
    BY <1>1
  <2> QED BY <2>1, <2>2, <2>3, <2>4, RequestsKept
<1>4. Replies'
  <2>1. Kind("reply")' \subseteq Kind("reply")
    BY <1>1
  <2>2. \A f \in Kind("reply")' : busy'[f.src] /\ message'[f.src].dst = message[f.src].dst
    BY <2>1 DEF OInv, Replies
  <2> QED BY <2>1, <2>2, RepliesKept
<1>5. DataOnce' /\ GivenBegun' /\ DeliveredOnce'
  BY <1>1, DataSame
<1> QED BY <1>2, <1>3, <1>4, <1>5 DEF OInv

LEMMA EnableOInv ==
  ASSUME OInv, IInv', NEW n \in Node, Enable(n)
  PROVE  OInv'
<1>1. /\ ~up[n] /\ seqNr[n] = 1 /\ ~busy[n] /\ table[n] = <<>>
      /\ up' = [up EXCEPT ![n] = TRUE] /\ seqNr' = [seqNr EXCEPT ![n] = 1]
      /\ busy' = [busy EXCEPT ![n] = FALSE] /\ table' = [table EXCEPT ![n] = <<>>]
      /\ message' = [message EXCEPT ![n] = None]
      /\ UNCHANGED <<air, sent, delivered, again>>
  BY DEF OInv, Fallow, Enable, InitRouting
<1>2. /\ \A m \in Node : /\ seqNr'[m] = seqNr[m] /\ busy'[m] = busy[m] /\ table'[m] = table[m]
                         /\ busy[m] => message'[m] = message[m]
                         /\ m # n => up'[m] = up[m]
      /\ up'[n]
  BY <1>1 DEF OInv, IInv, Typed
<1>3. \A type : Kind(type)' = Kind(type)
  BY <1>1 DEF Kind
<1>4. TablesLead' /\ Fallow' /\ Waiting'
  <2>1. ASSUME NEW m \in Node, NEW d \in DOMAIN table'[m]
        PROVE  IF table'[m][d].path = <<>> THEN d \in Source
               ELSE Leads(table'[m][d].path, m, d) /\ <<m, d>> \in Flow
    BY <1>2 DEF OInv, TablesLead
  <2>2. Fallow'
    BY <1>2 DEF OInv, Fallow
  <2>3. Waiting'
    BY <1>1, <1>2 DEF OInv, Waiting
  <2> QED BY <2>1, <2>2, <2>3 DEF TablesLead, Leads
<1>5. Requests'
  <2>1. Remembered
    <3> SUFFICES ASSUME NEW m \in Node, NEW s \in Source
                 PROVE  /\ GetSeqNr(m, s) \in Nat /\ GetSeqNr(m, s)' \in Nat
                        /\ GetSeqNr(m, s) <= GetSeqNr(m, s)'
      BY DEF Remembered
    <3>1. GetSeqNr(m, s) \in Nat
      BY SourceTypes, SeqNrTypes DEF OInv
    <3>2. GetSeqNr(m, s)' = GetSeqNr(m, s)
      BY <1>2 DEF GetSeqNr
    <3> QED BY <3>1, <3>2
  <2>2. ASSUME NEW f \in Kind("request"), Sought(f)
        PROVE  Sought(f)'
    <3>1. f.src \in Node
      BY FrameTypes DEF OInv, Kind
    <3> QED BY <1>2, <1>3, <2>2, <3>1 DEF Sought
  <2>3. seqNr' \in [Node -> Nat] /\ \A s \in Node : seqNr[s] <= seqNr'[s]
    BY <1>2 DEF OInv, IInv, Typed
  <2>4. Kind("request")' \subseteq Kind("request")
    BY <1>3
  <2> QED BY <2>1, <2>2, <2>3, <2>4, RequestsKept
<1>6. Replies'
  <2>1. ASSUME NEW f \in Kind("reply")
        PROVE  busy'[f.src] /\ message'[f.src].dst = message[f.src].dst
    <3>1. f.src \in Node /\ busy[f.src]
      BY FrameTypes DEF OInv, Kind, Replies
    <3> QED BY <1>2, <3>1
  <2>2. Kind("reply")' = Kind("reply")
    BY <1>3
  <2> QED BY <2>1, <2>2, RepliesKept
<1>7. DataOnce' /\ GivenBegun' /\ DeliveredOnce'
  <2>1. busy' = busy
    BY <1>1 DEF OInv, IInv, Typed
  <2> QED BY <1>1, <1>3, <2>1, DataSame
<1> QED BY <1>4, <1>5, <1>6, <1>7 DEF OInv

LEMMA FreshNoted ==
  ASSUME Orderly, OInv, NEW n \in Node, up[n], UNCHANGED <<up, seqNr, busy>>,
         NEW f \in Kind("request"),
         table' = [table EXCEPT ![n] = UpdateSeqNr(n, f.src, f.seq)], Fresh(n, f)
  PROVE  Remembered /\ ~Noted(n, f) /\ Noted(n, f)' /\ TablesLead' /\ Fallow'
<1> DEFINE t == UpdateSeqNr(n, f.src, f.seq)
<1>1. f \in air /\ f.type = "request" /\ IInv /\ <<f.src, f.dst>> \in Flow
  BY DEF OInv, Requests, Kind
<1>2. f.src \in Node /\ f.src \in Source /\ f.seq \in Nat /\ Source \subseteq Node
  BY <1>1, FrameTypes, SourceTypes
<1>3. /\ DOMAIN t = DOMAIN table[n] \cup {f.src} /\ t[f.src].seq = f.seq
      /\ \A x \in DOMAIN table[n] : t[x].path = table[n][x].path
      /\ \A x \in DOMAIN table[n] \ {f.src} : t[x] = table[n][x]
      /\ f.src \notin DOMAIN table[n] => t[f.src].path = <<>>
  <2>1. Notes(table[n], t, f.src, f.seq)
    BY <1>1, <1>2, Noting
  <2> HIDE DEF t
  <2> QED BY <2>1 DEF Notes
<1>4. table'[n] = t /\ \A m \in Node \ {n} : table'[m] = table[m]
  BY <1>1 DEF IInv, Typed
<1> HIDE DEF t
<1>5. GetSeqNr(n, f.src) \in Nat /\ GetSeqNr(n, f.src) < f.seq
  BY <1>1, <1>2, SeqNrTypes DEF Fresh
<1>6. GetSeqNr(n, f.src)' = f.seq
  BY <1>3, <1>4 DEF GetSeqNr
<1>7. ASSUME NEW m \in Node, NEW s \in Source
      PROVE  /\ GetSeqNr(m, s) \in Nat /\ GetSeqNr(m, s)' \in Nat
             /\ GetSeqNr(m, s) <= GetSeqNr(m, s)'
  <2>1. GetSeqNr(m, s) \in Nat
    BY <1>1, <1>2, SeqNrTypes
  <2>2. CASE m = n /\ s = f.src
    BY <1>2, <1>5, <1>6, <2>1, <2>2
  <2>3. CASE ~(m = n /\ s = f.src)
    <3>1. GetSeqNr(m, s)' = GetSeqNr(m, s)
      BY <1>3, <1>4, <2>3 DEF GetSeqNr
    <3> QED BY <2>1, <3>1
  <2> QED BY <2>2, <2>3
<1>8. TablesLead'
  <2>1. ASSUME NEW m \in Node, NEW d \in DOMAIN table'[m]
        PROVE  IF table'[m][d].path = <<>> THEN d \in Source
               ELSE Leads(table'[m][d].path, m, d) /\ <<m, d>> \in Flow
    <3>1. CASE d \in DOMAIN table[m]
      <4>1. table'[m][d].path = table[m][d].path
        BY <1>3, <1>4, <3>1
      <4> QED BY <3>1, <4>1 DEF OInv, TablesLead
    <3>2. CASE d \notin DOMAIN table[m]
      <4>1. table'[m][d].path = <<>> /\ d = f.src
        BY <1>3, <1>4, <3>2
      <4> QED BY <1>2, <4>1
    <3> QED BY <3>1, <3>2
  <2> QED BY <2>1 DEF TablesLead, Leads
<1>9. Fallow'
  BY <1>4 DEF OInv, Fallow
<1>10. Noted(n, f)' /\ ~Noted(n, f)
  BY <1>2, <1>5, <1>6 DEF Noted
<1> QED BY <1>7, <1>8, <1>9, <1>10 DEF Remembered
\* The destination answers, once, the request that is sought.
LEMMA AnswerOInv ==
  ASSUME Orderly, OInv, IInv', NEW n \in Node, up[n], NEW f \in Kind("request"), f.dst = n,
         Fresh(n, f), table' = [table EXCEPT ![n] = UpdateSeqNr(n, f.src, f.seq)],
         NEW to \in At(PushBack(f.path, n), f.idx),
         air' = Put(n, air \ {f}, {Discovery("reply", to, f, Inc(f.hops), f.idx,
                                             PushBack(f.path, n))}),
         UNCHANGED <<up, seqNr, busy, message, sent, delivered, again>>
  PROVE  OInv'
<1> DEFINE path == PushBack(f.path, n)
           g == Discovery("reply", to, f, Inc(f.hops), f.idx, path)
<1>1. /\ f \in air /\ f.type = "request" /\ IInv /\ <<f.src, f.dst>> \in Flow
      /\ f.path[1] = f.src /\ f.idx + 1 = Len(f.path) /\ (Noted(n, f) \/ Sought(f))
  BY DEF OInv, Requests, Kind
<1>2. Remembered /\ ~Noted(n, f) /\ Noted(n, f)' /\ TablesLead' /\ Fallow'
  BY FreshNoted
<1>3. Sought(f)
  BY <1>1, <1>2
<1>4. /\ f.path \in Short /\ f.idx \in Nat /\ f.src \in Node /\ f.seq \in Nat
  BY <1>1, FrameTypes DEF Byte
<1>5. Len(f.path) < PathSize
  BY <1>2, PathHasRoom
<1>6. /\ Len(path) = Len(f.path) + 1 /\ path[Len(f.path) + 1] = n
      /\ \A i \in 1..Len(f.path) : path[i] = f.path[i]
  BY <1>4, <1>5, PushedBack
<1>7. /\ g.type = "reply" /\ g.to = to /\ g.src = f.src /\ g.dst = f.dst
      /\ g.idx = f.idx /\ g.path = path
  BY DEF Discovery
<1> HIDE DEF path, g
<1>8. Indexed(g)
  <2>1. path # <<>> /\ path[1] = f.src
    <3>1. 1 \in 1..Len(f.path)
      BY <1>1, <1>4
    <3> QED BY <1>1, <1>4, <1>6, <3>1
  <2>2. f.idx < Len(path) /\ to = path[f.idx + 1]
    BY <1>1, <1>4, <1>6 DEF At, path
  <2>3. Leads(path, f.src, n)
    BY <1>6, <2>1 DEF Leads
  <2> QED BY <1>1, <1>7, <2>2, <2>3 DEF Indexed
<1>9. /\ Kind("request")' \subseteq Kind("request") /\ Kind("data")' \subseteq Kind("data")
      /\ Kind("reply")' \subseteq Kind("reply") \cup {g}
  BY <1>7 DEF Kind, Put, g, path
<1>10. Waiting'
  BY DEF OInv, Waiting
<1>11. Requests'
  <2>1. ASSUME NEW h \in Kind("request"), Sought(h)
        PROVE  Noted(h.dst, h)' \/ Sought(h)'
    <3>1. CASE h.src = f.src
      <4>1. h.dst = f.dst /\ h.seq = f.seq
        <5>1. h.seq \in Nat
          BY FrameTypes DEF OInv, Kind
        <5> QED BY <1>3, <1>4, <2>1, <3>1, <5>1 DEF Sought
      <4> QED BY <1>2, <3>1, <4>1 DEF Noted
    <3>2. CASE h.src # f.src
      BY <1>7, <1>9, <2>1, <3>2 DEF Sought
    <3> QED BY <3>1, <3>2
  <2>2. seqNr' \in [Node -> Nat] /\ \A s \in Node : seqNr[s] <= seqNr'[s]
    BY <1>1 DEF IInv, Typed
  <2> QED BY <1>2, <1>9, <2>1, <2>2, RequestsKept
<1>12. Replies'
  <2>1. PICK New : New = {g}
    OBVIOUS
  <2>2. /\ Kind("reply")' \subseteq Kind("reply") \cup New
        /\ Kind("reply") \in SUBSET Kind("reply")
    BY <1>9, <2>1
  <2>3. \A h \in Kind("reply") : busy'[h.src] /\ message'[h.src].dst = message[h.src].dst
    BY DEF OInv, Replies
  <2>4. \A h \in New : /\ Indexed(h) /\ busy'[h.src] /\ h.dst = message'[h.src].dst
                       /\ \A x \in Kind("reply") : x.src # h.src
                       /\ \A x \in New : x.src = h.src => x = h
    BY <1>3, <1>7, <1>8, <2>1 DEF Sought
  <2>5. PICK Old : Old = Kind("reply")
    OBVIOUS
  <2> QED BY <2>2, <2>3, <2>4, <2>5, RepliesStep
<1>13. DataOnce' /\ GivenBegun' /\ DeliveredOnce'
  BY <1>9, DataSame
<1> QED BY <1>2, <1>10, <1>11, <1>12, <1>13 DEF OInv

\* The others add themselves to the path.
LEMMA ForwardOInv ==
  ASSUME Orderly, OInv, IInv', NEW n \in Node, up[n], NEW f \in Kind("request"),
         Fresh(n, f), table' = [table EXCEPT ![n] = UpdateSeqNr(n, f.src, f.seq)],
         air' = Put(n, air \ {f}, Forward(n, f)),
         UNCHANGED <<up, seqNr, busy, message, sent, delivered, again>>
  PROVE  OInv'
<1> DEFINE path == PushBack(f.path, n)
           L == Len(f.path)
<1>1. /\ f \in air /\ f.type = "request" /\ IInv /\ RequestMade(f)
  BY DEF OInv, Requests, RequestMade, Kind
<1>2. Remembered /\ ~Noted(n, f) /\ Noted(n, f)' /\ TablesLead' /\ Fallow'
  BY FreshNoted
<1>3. /\ f.path \in Short /\ f.idx \in Nat /\ f.src \in Node /\ f.dst \in Node
      /\ f.src \in Source /\ f.seq \in Nat
      /\ L \in Nat /\ \A i \in 1..L : f.path[i] \in Node
  BY <1>1, FrameTypes, SourceTypes DEF Byte, RequestMade
<1>4. L < PathSize /\ \A i \in 2..L : f.path[i] # n
  BY <1>2, PathHasRoom
<1>5. /\ Len(path) = L + 1 /\ path[L + 1] = n
      /\ \A i \in 1..L : path[i] = f.path[i]
  BY <1>3, <1>4, PushedBack
<1>6. f.idx + 1 = L /\ L >= 1 /\ Inc(f.idx) = f.idx + 1
  <2>1. f.idx + 1 = L
    BY <1>1 DEF RequestMade
  <2>2. f.idx + 1 \in 0..ByteMod - 1 /\ ByteMod \in Nat /\ ByteMod > 0
    BY <1>3, <1>4, <2>1, DsrAssumption
  <2>3. \A k \in 0..ByteMod - 1 : k % ByteMod = k
    BY <2>2
  <2> QED BY <1>3, <2>1, <2>2, <2>3 DEF Inc
<1>7. ASSUME NEW g \in Forward(n, f)
      PROVE  /\ g.type = "request" /\ g.src = f.src /\ g.dst = f.dst /\ g.seq = f.seq
             /\ g.idx = Inc(f.idx) /\ g.path = path
  BY DEF Forward, Discovery
<1> HIDE DEF path, L
<1>8. /\ Kind("request")' \subseteq Kind("request") \cup Forward(n, f)
      /\ Kind("data")' \subseteq Kind("data")
      /\ Kind("reply")' \subseteq Kind("reply")
  BY <1>7 DEF Kind, Put
<1>9. ASSUME NEW m \in Node, Noted(m, f)
      PROVE  Noted(m, f)'
  BY <1>2, <1>3, <1>9 DEF Noted, Remembered
<1>10. Sought(f) => Sought(f)'
  BY <1>8 DEF Sought
<1>11. Waiting'
  BY DEF OInv, Waiting
<1>12. Requests'
  <2>1. PICK New : New = Forward(n, f)
    OBVIOUS
  <2>2. ASSUME NEW g \in New
        PROVE  RequestMade(g)'
    <3>1. /\ g.src = f.src /\ g.dst = f.dst /\ g.seq = f.seq
          /\ g.idx = f.idx + 1 /\ g.path = path
      BY <1>6, <1>7, <2>1
    <3>2. /\ <<f.src, f.dst>> \in Flow /\ f.seq < seqNr'[f.src]
      BY <1>1 DEF RequestMade
    <3>3. path[1] = f.src /\ f.idx + 1 + 1 = Len(path)
      <4>1. 1 \in 1..L
        BY <1>3, <1>6
      <4> QED BY <1>1, <1>5, <1>6, <4>1 DEF RequestMade
    <3>4. ASSUME NEW i \in 2..Len(path)
          PROVE  Noted(path[i], f)'
      <4>1. CASE i = L + 1
        BY <1>2, <1>5, <4>1
      <4>2. CASE i # L + 1
        <5>1. i \in 2..L /\ i \in 1..L
          BY <1>3, <1>5, <4>2
        <5>2. Noted(f.path[i], f)
          BY <1>1, <5>1 DEF RequestMade, L
        <5> QED BY <1>3, <1>5, <1>9, <5>1, <5>2
      <4> QED BY <4>1, <4>2
    <3>5. ASSUME NEW i \in 2..Len(path), NEW j \in 2..Len(path), i # j
          PROVE  path[i] # path[j]
      <4>1. \A k \in 2..Len(path) : k = L + 1 \/ (k \in 2..L /\ k \in 1..L)
        BY <1>3, <1>5
      <4>2. \A k, l \in 2..L : k # l => f.path[k] # f.path[l]
        BY <1>1 DEF RequestMade, L
      <4> QED BY <1>4, <1>5, <3>5, <4>1, <4>2
    <3>6. Noted(f.dst, f)' \/ Sought(f)'
      BY <1>1, <1>3, <1>9, <1>10 DEF RequestMade
    <3>7. \A m : Noted(m, f)' => Noted(m, g)'
      BY <3>1 DEF Noted
    <3>8. Sought(f)' => Sought(g)'
      BY <3>1 DEF Sought
    <3> QED BY <3>1, <3>2, <3>3, <3>4, <3>5, <3>6, <3>7, <3>8 DEF RequestMade
  <2>3. seqNr' \in [Node -> Nat] /\ \A s \in Node : seqNr[s] <= seqNr'[s]
    BY <1>1 DEF IInv, Typed
  <2>4. \A h : Sought(h) => Sought(h)'
    BY <1>8 DEF Sought
  <2>5. Kind("request")' \subseteq Kind("request") \cup New
    BY <1>8, <2>1
  <2> QED BY <1>2, <2>2, <2>3, <2>4, <2>5, RequestsStep
<1>13. Replies'
  <2>1. \A h \in Kind("reply")' : busy'[h.src] /\ message'[h.src].dst = message[h.src].dst
    BY <1>8 DEF OInv, Replies
  <2> QED BY <1>8, <2>1, RepliesKept
<1>14. DataOnce' /\ GivenBegun' /\ DeliveredOnce'
  BY <1>8, DataSame
<1> QED BY <1>2, <1>11, <1>12, <1>13, <1>14 DEF OInv
\* Bytes of an index on a path are the index.
LEMMA OnBytes ==
  ASSUME NEW k \in Nat, k <= PathSize
  PROVE  k % ByteMod = k /\ k \in Byte
<1>1. k \in 0..ByteMod - 1 /\ ByteMod \in Nat /\ ByteMod > 0
  BY DsrAssumption
<1>2. \A x \in 0..ByteMod - 1 : x % ByteMod = x
  BY <1>1
<1> QED BY <1>1, <1>2 DEF Byte

\* The source takes the route and sends what waits for it.
LEMMA RouteOInv ==
  ASSUME Orderly, OInv, IInv', NEW n \in Node, up[n], NEW f \in Kind("reply"), f.src = n,
         table' = [table EXCEPT ![n] = Write(n, f.dst, Entry(f.path, f.hops, f.seq))],
         busy' = [busy EXCEPT ![n] = FALSE],
         NEW m, m = [message[n] EXCEPT !.path = f.path],
         message' = [message EXCEPT ![n] = m],
         NEW to \in At(m.path, 1), air' = Put(n, air \ {f}, {Data(to, n, m, 1)}),
         UNCHANGED <<up, seqNr, sent, delivered, again>>
  PROVE  OInv'
<1> DEFINE g == Data(to, n, m, 1)
           e == Entry(f.path, f.hops, f.seq)
<1>1. /\ f \in air /\ f.type = "reply" /\ IInv /\ Indexed(f) /\ busy[n]
      /\ f.dst = message[n].dst
      /\ \A h \in Kind("reply") : h.src = n => h = f
  BY DEF OInv, Replies, Kind
<1>2. /\ f.path \in Short /\ Len(f.path) \in Nat /\ Leads(f.path, n, f.dst)
      /\ <<n, f.dst>> \in Flow /\ f.dst \in Node /\ f.dst \notin Source /\ n # f.dst
  BY <1>1, FrameTypes, SourceTypes DEF Indexed
<1>3. message[n] \in Message /\ message[n].body = sent[n]
  BY <1>1 DEF OInv, Waiting
<1>4. m.dst = f.dst /\ m.body = sent[n] /\ m.path = f.path
  BY <1>1, <1>3 DEF Message
<1>5. /\ g.type = "data" /\ g.to = to /\ g.src = n /\ g.dst = f.dst /\ g.body = sent[n]
      /\ g.idx = 1 /\ g.path = f.path
  BY <1>4 DEF Data
<1>6. Len(f.path) >= 2 /\ to = f.path[2]
  <2>1. Len(f.path) >= 2
    BY <1>2 DEF Leads, Short, Path
  <2> QED BY <1>2, <1>4, <2>1 DEF At
<1>7. e.path = f.path
  BY DEF Entry
<1> HIDE DEF g, e
<1>8. /\ table'[n] = [x \in DOMAIN table[n] \cup {f.dst} |->
                        IF x = f.dst THEN e ELSE table[n][x]]
      /\ \A k \in Node \ {n} : table'[k] = table[k]
  <2>1. PICK d \in Node : d = f.dst
    BY <1>2
  <2>2. Write(n, d, e) = [x \in DOMAIN table[n] \cup {d} |-> IF x = d THEN e ELSE table[n][x]]
    BY <1>1, RoomToWrite DEF Write
  <2>3. table' = [table EXCEPT ![n] = Write(n, d, e)]
    BY <2>1 DEF e
  <2> QED BY <1>1, <2>1, <2>2, <2>3 DEF IInv, Typed
<1>9. /\ ~busy'[n] /\ \A k \in Node \ {n} : busy'[k] = busy[k]
      /\ \A k \in Node \ {n} : message'[k] = message[k]
  BY <1>1 DEF IInv, Typed
<1>10. /\ Kind("request")' \subseteq Kind("request")
       /\ Kind("reply")' \subseteq Kind("reply") \ {f}
       /\ Kind("data")' \subseteq Kind("data") \cup {g}
  BY <1>5 DEF Kind, Put, g
<1>11. Remembered
  <2>1. ASSUME NEW k \in Node, NEW s \in Source
        PROVE  /\ GetSeqNr(k, s) \in Nat /\ GetSeqNr(k, s)' \in Nat
               /\ GetSeqNr(k, s) <= GetSeqNr(k, s)'
    <3>1. GetSeqNr(k, s) \in Nat
      BY <1>1, SourceTypes, SeqNrTypes
    <3>2. s # f.dst
      BY <1>2
    <3>3. GetSeqNr(k, s)' = GetSeqNr(k, s)
      BY <1>8, <3>2 DEF GetSeqNr
    <3> QED BY <3>1, <3>3
  <2> QED BY <2>1 DEF Remembered
<1>12. TablesLead' /\ Fallow' /\ Waiting'
  <2>1. ASSUME NEW k \in Node, NEW d \in DOMAIN table'[k]
        PROVE  IF table'[k][d].path = <<>> THEN d \in Source
               ELSE Leads(table'[k][d].path, k, d) /\ <<k, d>> \in Flow
    <3>1. CASE k = n /\ d = f.dst
      BY <1>2, <1>7, <1>8, <3>1 DEF Leads
    <3>2. CASE ~(k = n /\ d = f.dst)
      <4>1. d \in DOMAIN table[k] /\ table'[k][d] = table[k][d]
        BY <1>8, <3>2
      <4> QED BY <4>1 DEF OInv, TablesLead
    <3> QED BY <3>1, <3>2
  <2>2. Fallow'
    BY <1>8, <1>9 DEF OInv, Fallow
  <2>3. Waiting'
    BY <1>9 DEF OInv, Waiting
  <2> QED BY <2>1, <2>2, <2>3 DEF TablesLead, Leads
<1>13. Requests'
  <2>1. ASSUME NEW h \in Kind("request"), Sought(h)
        PROVE  Sought(h)'
    <3>1. h.src \in Node /\ h.src # n
      BY <2>1, FrameTypes DEF OInv, Kind, Sought
    <3> QED BY <1>9, <1>10, <2>1, <3>1 DEF Sought
  <2>2. seqNr' \in [Node -> Nat] /\ \A s \in Node : seqNr[s] <= seqNr'[s]
    BY <1>1 DEF IInv, Typed
  <2> QED BY <1>10, <1>11, <2>1, <2>2, RequestsKept
<1>14. Replies'
  <2>1. ASSUME NEW h \in Kind("reply")'
        PROVE  busy'[h.src] /\ message'[h.src].dst = message[h.src].dst
    <3>1. h \in Kind("reply") /\ h.src # n /\ h.src \in Node /\ busy[h.src]
      BY <1>1, <1>10, FrameTypes DEF OInv, Kind, Replies
    <3> QED BY <1>9, <3>1
  <2> QED BY <1>10, <2>1, RepliesKept
<1>15. \A s, body : Begun(s, body) => Begun(s, body)'
  <2> SUFFICES ASSUME NEW s, NEW body, Begun(s, body) PROVE busy'[s] => busy[s]
    BY DEF Begun
  <2> QED BY <1>1 DEF IInv, Typed
<1>16. sent[n] \in Nat /\ \A body : Begun(n, body) => body # sent[n]
  <2>1. sent[n] \in Nat
    BY <1>1, DsrAssumption DEF IInv, Typed
  <2> QED BY <1>1, <2>1 DEF Begun
<1>17. DataOnce'
  <2>1. PICK Old, New : Old = Kind("data") /\ New = {g}
    OBVIOUS
  <2>2. Old \in SUBSET Kind("data") /\ Kind("data")' \subseteq Old \cup New
    BY <1>10, <2>1
  <2>3. \A h \in Old : \A k \in Node : <<h.src, h.body>> \notin delivered'[k]
    BY <2>1 DEF OInv, DataOnce
  <2>4. Indexed(g)
    BY <1>2, <1>5, <1>6 DEF Indexed
  <2>5. Begun(n, sent[n])'
    BY <1>9, <1>16 DEF Begun
  <2>6. \A h \in Old : ~(h.src = n /\ h.body = sent[n])
    BY <1>16, <2>1 DEF OInv, DataOnce
  <2>7. \A k \in Node : <<n, sent[n]>> \notin delivered'[k]
    BY <1>16 DEF OInv, GivenBegun
  <2>8. \A h \in New : /\ Indexed(h) /\ Begun(h.src, h.body)'
                       /\ \A x \in Old : ~(x.src = h.src /\ x.body = h.body)
                       /\ \A x \in New : x = h
                       /\ \A k \in Node : <<h.src, h.body>> \notin delivered'[k]
    BY <1>5, <2>1, <2>4, <2>5, <2>6, <2>7 DEF Begun
  <2> QED BY <1>15, <2>2, <2>3, <2>8, DataStep
<1>18. GivenBegun' /\ DeliveredOnce'
  <2>1. GivenBegun'
    <3>1. ASSUME NEW k \in Node, NEW x \in delivered[k]
          PROVE  Begun(x[1], x[2])'
      BY <1>15 DEF OInv, GivenBegun
    <3> QED BY <3>1 DEF GivenBegun, Begun
  <2> QED BY <2>1 DEF OInv, DeliveredOnce
<1> QED BY <1>12, <1>13, <1>14, <1>17, <1>18 DEF OInv

\* The others hand the reply back to the node before them.
LEMMA BackOInv ==
  ASSUME Orderly, OInv, IInv', NEW n \in Node, up[n], NEW f \in Kind("reply"),
         f.to = n, f.src # n, NEW to \in At(f.path, Back(f)),
         air' = Put(n, air \ {f}, {Discovery("reply", to, f, f.hops, Back(f), f.path)}),
         UNCHANGED <<up, seqNr, busy, table, message, sent, delivered, again>>
  PROVE  OInv'
<1> DEFINE g == Discovery("reply", to, f, f.hops, Back(f), f.path)
<1>1. /\ f \in air /\ f.type = "reply" /\ IInv /\ Indexed(f) /\ busy[f.src]
      /\ f.dst = message[f.src].dst
      /\ \A h \in Kind("reply") : h.src = f.src => h = f
  BY DEF OInv, Replies, Kind
<1>2. /\ f.path \in Short /\ Len(f.path) \in Nat /\ f.idx \in Nat /\ f.src \in Node
      /\ Len(f.path) <= PathSize /\ PathSize \in Nat
  BY <1>1, FrameTypes, DsrAssumption DEF Byte, Short
<1>3. f.idx >= 1 /\ f.idx < Len(f.path)
  BY <1>1, <1>2 DEF Indexed, Leads
<1>4. Back(f) = f.idx - 1
  <2>1. f.idx - 1 \in Nat /\ f.idx - 1 <= PathSize
    BY <1>2, <1>3
  <2> QED BY <2>1, OnBytes DEF Back
<1>5. /\ g.type = "reply" /\ g.to = to /\ g.src = f.src /\ g.dst = f.dst
      /\ g.idx = f.idx - 1 /\ g.path = f.path
  BY <1>4 DEF Discovery
<1> HIDE DEF g
<1>6. Indexed(g)
  <2>1. to = f.path[f.idx - 1 + 1]
    BY <1>2, <1>3, <1>4 DEF At
  <2> QED BY <1>1, <1>2, <1>3, <1>5, <2>1 DEF Indexed
<1>7. /\ Kind("request")' \subseteq Kind("request") /\ Kind("data")' \subseteq Kind("data")
      /\ Kind("reply")' \subseteq (Kind("reply") \ {f}) \cup {g}
  BY <1>5 DEF Kind, Put, g
<1>8. TablesLead' /\ Fallow' /\ Waiting'
  BY DEF OInv, TablesLead, Fallow, Waiting
<1>9. Requests'
  <2>1. Remembered
    BY <1>1, TablesSame
  <2>2. ASSUME NEW h \in Kind("request"), Sought(h)
        PROVE  Sought(h)'
    BY <1>5, <1>7, <2>2 DEF Sought
  <2>3. seqNr' \in [Node -> Nat] /\ \A s \in Node : seqNr[s] <= seqNr'[s]
    BY <1>1 DEF IInv, Typed
  <2> QED BY <1>7, <2>1, <2>2, <2>3, RequestsKept
<1>10. Replies'
  <2>1. PICK Old, New : Old = Kind("reply") \ {f} /\ New = {g}
    OBVIOUS
  <2>2. Old \in SUBSET Kind("reply") /\ Kind("reply")' \subseteq Old \cup New
    BY <1>7, <2>1
  <2>3. \A h \in Old : busy'[h.src] /\ message'[h.src].dst = message[h.src].dst
    BY <2>1 DEF OInv, Replies
  <2>4. \A h \in New : /\ Indexed(h) /\ busy'[h.src] /\ h.dst = message'[h.src].dst
                       /\ \A x \in Old : x.src # h.src
                       /\ \A x \in New : x.src = h.src => x = h
    BY <1>1, <1>5, <1>6, <2>1
  <2> QED BY <2>2, <2>3, <2>4, RepliesStep
<1>11. DataOnce' /\ GivenBegun' /\ DeliveredOnce'
  BY <1>7, DataSame
<1> QED BY <1>8, <1>9, <1>10, <1>11 DEF OInv
\* Data is given to the receivers at its destination.
LEMMA DeliverOInv ==
  ASSUME Orderly, OInv, IInv', NEW n \in Node, NEW f \in Kind("data"), f.dst = n,
         delivered' = [delivered EXCEPT ![n] = @ \cup {<<f.src, f.body>>}],
         again' = [again EXCEPT ![n] = @ \cup ({<<f.src, f.body>>} \cap delivered[n])],
         air' = air \ {f},
         UNCHANGED <<up, seqNr, busy, table, message, sent>>
  PROVE  OInv'
<1>1. /\ IInv /\ Begun(f.src, f.body)
      /\ \A h \in Kind("data") : h.src = f.src /\ h.body = f.body => h = f
      /\ \A k \in Node : <<f.src, f.body>> \notin delivered[k]
  BY DEF OInv, DataOnce
<1>2. \A type : Kind(type)' = Kind(type) \ {f}
  BY DEF Kind
<1>3. TablesLead' /\ Fallow' /\ Waiting'
  BY DEF OInv, TablesLead, Fallow, Waiting
<1>4. Requests'
  <2>1. Remembered
    BY <1>1, TablesSame
  <2>2. \A h : Sought(h) => Sought(h)'
    BY <1>2 DEF Sought
  <2>3. seqNr' \in [Node -> Nat] /\ \A s \in Node : seqNr[s] <= seqNr'[s]
    BY <1>1 DEF IInv, Typed
  <2>4. Kind("request")' \subseteq Kind("request")
    BY <1>2
  <2> QED BY <2>1, <2>2, <2>3, <2>4, RequestsKept
<1>5. Replies'
  <2>1. Kind("reply")' \subseteq Kind("reply")
    BY <1>2
  <2>2. \A h \in Kind("reply")' : busy'[h.src] /\ message'[h.src].dst = message[h.src].dst
    BY <2>1 DEF OInv, Replies
  <2> QED BY <2>1, <2>2, RepliesKept
<1>6. \A s, body : Begun(s, body) => Begun(s, body)'
  BY DEF Begun
<1>7. \A k \in Node : \A x \in delivered'[k] : x \in delivered[k] \/ x = <<f.src, f.body>>
  BY <1>1 DEF IInv, Typed
<1>8. DataOnce'
  <2>1. ASSUME NEW h \in Kind("data")', NEW k \in Node
        PROVE  <<h.src, h.body>> \notin delivered'[k]
    <3>1. h \in Kind("data") /\ h # f
      BY <1>2
    <3>2. <<h.src, h.body>> # <<f.src, f.body>>
      BY <1>1, <3>1
    <3>3. <<h.src, h.body>> \notin delivered[k]
      BY <3>1 DEF OInv, DataOnce
    <3> QED BY <1>7, <3>2, <3>3
  <2>2. Kind("data")' \subseteq Kind("data")
    BY <1>2
  <2> QED BY <1>6, <2>1, <2>2, DataKept
<1>9. GivenBegun'
  <2>1. ASSUME NEW k \in Node, NEW x \in delivered'[k]
        PROVE  Begun(x[1], x[2])'
    <3>1. Begun(x[1], x[2])
      BY <1>1, <1>7 DEF OInv, GivenBegun
    <3> QED BY <1>6, <3>1
  <2> QED BY <2>1 DEF GivenBegun, Begun
<1>10. DeliveredOnce'
  BY <1>1 DEF OInv, DeliveredOnce, IInv, Typed
<1> QED BY <1>3, <1>4, <1>5, <1>8, <1>9, <1>10 DEF OInv

\* The others hand it on to the node after them.
LEMMA DataOnOInv ==
  ASSUME Orderly, OInv, IInv', NEW n \in Node, NEW f \in Kind("data"), f.to = n, f.dst # n,
         NEW to \in At(f.path, Inc(f.idx)),
         air' = Put(n, air \ {f}, {[f EXCEPT !.to = to, !.idx = Inc(f.idx)]}),
         UNCHANGED <<up, seqNr, busy, table, message, sent, delivered, again>>
  PROVE  OInv'
<1> DEFINE g == [f EXCEPT !.to = to, !.idx = Inc(f.idx)]
<1>1. /\ f \in air /\ f.type = "data" /\ IInv /\ Indexed(f) /\ Begun(f.src, f.body)
      /\ \A h \in Kind("data") : h.src = f.src /\ h.body = f.body => h = f
      /\ \A k \in Node : <<f.src, f.body>> \notin delivered[k]
  BY DEF OInv, DataOnce, Kind
<1>2. /\ f.path \in Short /\ Len(f.path) \in Nat /\ f.idx \in Nat
      /\ Len(f.path) <= PathSize /\ PathSize \in Nat
  BY <1>1, FrameTypes, DsrAssumption DEF Byte, Short
<1>3. f.idx + 1 < Len(f.path)
  BY <1>1, <1>2 DEF Indexed, Leads
<1>4. Inc(f.idx) = f.idx + 1
  <2>1. f.idx + 1 \in Nat /\ f.idx + 1 <= PathSize
    BY <1>2, <1>3
  <2> QED BY <2>1, OnBytes DEF Inc
<1>5. /\ g.type = "data" /\ g.to = to /\ g.src = f.src /\ g.dst = f.dst /\ g.body = f.body
      /\ g.idx = f.idx + 1 /\ g.path = f.path
  <2>1. GoodFrame(f)
    BY <1>1 DEF IInv
  <2>2. f \in [type : {"data"}, to : Node, src : Node, dst : Node, body : Nat,
               idx : 0..ByteMod - 1, path : Path]
    BY <1>1, <2>1 DEF GoodFrame, Frame
  <2> QED BY <1>4, <2>2
<1> HIDE DEF g
<1>6. Indexed(g)
  <2>1. to = f.path[f.idx + 1 + 1]
    BY <1>2, <1>3, <1>4 DEF At
  <2> QED BY <1>1, <1>2, <1>3, <1>5, <2>1 DEF Indexed
<1>7. /\ Kind("request")' \subseteq Kind("request") /\ Kind("reply")' \subseteq Kind("reply")
      /\ Kind("data")' \subseteq (Kind("data") \ {f}) \cup {g}
  BY <1>5 DEF Kind, Put, g
<1>8. TablesLead' /\ Fallow' /\ Waiting'
  BY DEF OInv, TablesLead, Fallow, Waiting
<1>9. Requests'
  <2>1. Remembered
    BY <1>1, TablesSame
  <2>2. \A h : Sought(h) => Sought(h)'
    BY <1>7 DEF Sought
  <2>3. seqNr' \in [Node -> Nat] /\ \A s \in Node : seqNr[s] <= seqNr'[s]
    BY <1>1 DEF IInv, Typed
  <2> QED BY <1>7, <2>1, <2>2, <2>3, RequestsKept
<1>10. Replies'
  <2>1. \A h \in Kind("reply")' : busy'[h.src] /\ message'[h.src].dst = message[h.src].dst
    BY <1>7 DEF OInv, Replies
  <2> QED BY <1>7, <2>1, RepliesKept
<1>11. DataOnce'
  <2>1. PICK Old, New : Old = Kind("data") \ {f} /\ New = {g}
    OBVIOUS
  <2>2. Old \in SUBSET Kind("data") /\ Kind("data")' \subseteq Old \cup New
    BY <1>7, <2>1
  <2>3. \A h \in Old : \A k \in Node : <<h.src, h.body>> \notin delivered'[k]
    BY <2>1 DEF OInv, DataOnce
  <2>4. \A s, body : Begun(s, body) => Begun(s, body)'
    BY DEF Begun
  <2>5. Begun(f.src, f.body)'
    BY <1>1 DEF Begun
  <2>6. \A h \in New : /\ Indexed(h) /\ Begun(h.src, h.body)'
                       /\ \A x \in Old : ~(x.src = h.src /\ x.body = h.body)
                       /\ \A x \in New : x = h
                       /\ \A k \in Node : <<h.src, h.body>> \notin delivered'[k]
    BY <1>1, <1>5, <1>6, <2>1, <2>5 DEF Begun
  <2> QED BY <2>2, <2>3, <2>4, <2>6, DataStep
<1>12. GivenBegun' /\ DeliveredOnce'
  BY DEF OInv, GivenBegun, DeliveredOnce, Begun
<1> QED BY <1>8, <1>9, <1>10, <1>11, <1>12 DEF OInv
\* With a route, a message goes out at once.
LEMMA SendOnRouteOInv ==
  ASSUME Orderly, OInv, IInv', NEW n \in Node, NEW d \in Node, <<n, d>> \in Flow,
         up[n], ~busy[n], SendOnRoute(n, d), sent' = [sent EXCEPT ![n] = @ + 1],
         UNCHANGED <<up, table, delivered, again>>
  PROVE  OInv'
<1> DEFINE m == [dst |-> d, body |-> sent[n] + 1, path |-> table[n][d].path]
<1>1. IInv /\ d \in DOMAIN table[n] /\ UNCHANGED <<seqNr, busy>>
  BY DEF OInv, SendOnRoute
<1>2. d \notin Source /\ n # d
  BY SourceTypes
<1>3. table[n][d].path \in Short /\ Leads(table[n][d].path, n, d)
  <2>1. table[n][d] \in RouteEntry
    BY <1>1 DEF IInv, GoodTable
  <2> QED BY <1>1, <1>2, <2>1 DEF OInv, TablesLead, RouteEntry
<1>4. m.dst = d /\ m.body = sent[n] + 1 /\ m.path = table[n][d].path
  OBVIOUS
<1>5. PICK to \in At(m.path, 1) : air' = Put(n, air, {Data(to, n, m, 1)})
  BY DEF SendOnRoute
<1>6. message' = [message EXCEPT ![n] = m]
  BY DEF SendOnRoute
<1> DEFINE g == Data(to, n, m, 1)
<1> HIDE DEF m
<1>7. /\ g.type = "data" /\ g.to = to /\ g.src = n /\ g.dst = d /\ g.body = sent[n] + 1
      /\ g.idx = 1 /\ g.path = m.path
  BY <1>4 DEF Data
<1> HIDE DEF g
<1>8. Indexed(g)
  <2>1. Len(m.path) >= 2 /\ Len(m.path) \in Nat
    BY <1>2, <1>3, <1>4 DEF Leads, Short, Path
  <2>2. to = m.path[2]
    BY <1>5, <2>1 DEF At
  <2> QED BY <1>3, <1>4, <1>7, <2>1, <2>2 DEF Indexed
<1>9. /\ Kind("request")' \subseteq Kind("request") /\ Kind("reply")' \subseteq Kind("reply")
      /\ Kind("data")' \subseteq Kind("data") \cup {g}
  BY <1>5, <1>7 DEF Kind, Put, g
<1>10. /\ \A k \in Node \ {n} : message'[k] = message[k] /\ sent'[k] = sent[k]
       /\ sent'[n] = sent[n] + 1 /\ sent[n] \in Nat
  BY <1>1, <1>6, DsrAssumption DEF IInv, Typed
<1>11. TablesLead' /\ Fallow' /\ Waiting'
  <2>1. Waiting'
    BY <1>1, <1>10 DEF OInv, Waiting
  <2> QED BY <1>1, <2>1 DEF OInv, TablesLead, Fallow
<1>12. Requests'
  <2>1. Remembered
    BY <1>1, TablesSame
  <2>2. ASSUME NEW h \in Kind("request"), Sought(h)
        PROVE  Sought(h)'
    <3>1. h.src \in Node /\ h.src # n
      BY <2>2, FrameTypes DEF OInv, Kind, Sought
    <3> QED BY <1>1, <1>9, <1>10, <2>2, <3>1 DEF Sought
  <2>3. seqNr' \in [Node -> Nat] /\ \A s \in Node : seqNr[s] <= seqNr'[s]
    BY <1>1 DEF IInv, Typed
  <2> QED BY <1>9, <2>1, <2>2, <2>3, RequestsKept
<1>13. Replies'
  <2>1. ASSUME NEW h \in Kind("reply")'
        PROVE  busy'[h.src] /\ message'[h.src].dst = message[h.src].dst
    <3>1. h \in Kind("reply") /\ h.src \in Node /\ busy[h.src]
      BY <1>9, FrameTypes DEF OInv, Kind, Replies
    <3> QED BY <1>1, <1>10, <3>1
  <2> QED BY <1>9, <2>1, RepliesKept
<1>14. ASSUME NEW s \in Node, NEW body \in Nat, Begun(s, body)
       PROVE  Begun(s, body)' /\ (s = n => body # sent[n] + 1)
  <2>1. sent[s] \in Nat
    BY <1>1, DsrAssumption DEF IInv, Typed
  <2>2. CASE s = n
    BY <1>1, <1>10, <1>14, <2>1, <2>2 DEF Begun
  <2>3. CASE s # n
    BY <1>1, <1>10, <1>14, <2>3 DEF Begun
  <2> QED BY <2>2, <2>3
<1>15. DataOnce'
  <2>1. PICK Old, New, b : Old = Kind("data") /\ New = {g} /\ b = sent[n] + 1
    OBVIOUS
  <2>2. Old \in SUBSET Kind("data") /\ Kind("data")' \subseteq Old \cup New
    BY <1>9, <2>1
  <2>3. \A h \in Old : \A k \in Node : <<h.src, h.body>> \notin delivered'[k]
    BY <2>1 DEF OInv, DataOnce
  <2>4. b \in Nat /\ Begun(n, b)'
    BY <1>1, <1>10, <2>1 DEF Begun
  <2>5. ASSUME NEW h \in Old
        PROVE  ~(h.src = n /\ h.body = b)
    <3>1. Begun(h.src, h.body) /\ h.src \in Node /\ h.body \in Nat
      BY <2>1, FrameTypes DEF OInv, DataOnce, Kind
    <3> QED BY <1>14, <2>1, <3>1
  <2>6. ASSUME NEW k \in Node
        PROVE  <<n, b>> \notin delivered'[k]
    <3>1. <<n, b>> \in delivered[k] => Begun(n, b)
      BY DEF OInv, GivenBegun
    <3> QED BY <1>14, <2>1, <2>4, <3>1
  <2>7. ASSUME NEW h \in New
        PROVE  /\ Indexed(h) /\ Begun(h.src, h.body)'
               /\ \A x \in Old : ~(x.src = h.src /\ x.body = h.body)
               /\ \A x \in New : x = h
               /\ \A k \in Node : <<h.src, h.body>> \notin delivered'[k]
    <3>1. h = g /\ h.src = n /\ h.body = b
      BY <1>7, <2>1
    <3>2. Begun(h.src, h.body)'
      BY <2>4, <3>1 DEF Begun
    <3> QED BY <1>8, <2>1, <2>5, <2>6, <3>1, <3>2
  <2> QED BY <1>14, <2>2, <2>3, <2>7, DataStep
<1>16. GivenBegun' /\ DeliveredOnce'
  <2>1. ASSUME NEW k \in Node, NEW x \in delivered[k]
        PROVE  Begun(x[1], x[2])'
    <3>1. Begun(x[1], x[2]) /\ x[1] \in Node /\ x[2] \in Nat
      BY <1>1 DEF OInv, GivenBegun, IInv, Typed
    <3> QED BY <1>14, <3>1
  <2>2. GivenBegun'
    BY <2>1 DEF GivenBegun, Begun
  <2> QED BY <2>2 DEF OInv, DeliveredOnce
<1> QED BY <1>11, <1>12, <1>13, <1>15, <1>16 DEF OInv

\* Without one it waits, and a request is sent.
LEMMA SendRequestOInv ==
  ASSUME Orderly, OInv, IInv', NEW n \in Node, NEW d \in Node, <<n, d>> \in Flow,
         up[n], ~busy[n], SendRequest(n, d), sent' = [sent EXCEPT ![n] = @ + 1],
         UNCHANGED <<up, table, delivered, again>>
  PROVE  OInv'
<1> DEFINE m == [dst |-> d, body |-> sent[n] + 1, path |-> <<>>]
           r == [src |-> n, dst |-> d, seq |-> seqNr[n]]
           F == {Discovery("request", to, r, 0, 0, <<n>>) : to \in Node}
<1>1. /\ IInv /\ message' = [message EXCEPT ![n] = m] /\ busy' = [busy EXCEPT ![n] = TRUE]
      /\ seqNr' = [seqNr EXCEPT ![n] = @ + 1] /\ air' = Put(n, air, F)
  BY DEF OInv, SendRequest
<1>2. m.dst = d /\ m.body = sent[n] + 1 /\ m \in Message
  <2>1. sent[n] + 1 \in Nat /\ <<>> \in Short
    BY <1>1, DsrAssumption DEF IInv, Typed, Short, Path
  <2> QED BY <2>1 DEF Message
<1>3. ASSUME NEW g \in F
      PROVE  /\ g.type = "request" /\ g.src = n /\ g.dst = d /\ g.seq = seqNr[n]
             /\ g.idx = 0 /\ g.path = <<n>>
  BY DEF Discovery
<1> HIDE DEF m, F
<1>4. /\ \A k \in Node \ {n} : /\ message'[k] = message[k] /\ sent'[k] = sent[k]
                               /\ busy'[k] = busy[k] /\ seqNr'[k] = seqNr[k]
      /\ sent'[n] = sent[n] + 1 /\ sent[n] \in Nat /\ busy'[n] /\ message'[n] = m
      /\ seqNr'[n] = seqNr[n] + 1 /\ seqNr[n] \in Nat /\ seqNr \in [Node -> Nat]
  BY <1>1, DsrAssumption DEF IInv, Typed
<1>5. /\ Kind("request")' \subseteq Kind("request") \cup F
      /\ Kind("reply")' \subseteq Kind("reply") /\ Kind("data")' \subseteq Kind("data")
  BY <1>1, <1>3 DEF Kind, Put
<1>6. TablesLead' /\ Fallow' /\ Waiting'
  <2>1. Waiting'
    BY <1>2, <1>4 DEF OInv, Waiting
  <2>2. Fallow'
    BY <1>4 DEF OInv, Fallow
  <2> QED BY <2>1, <2>2 DEF OInv, TablesLead
<1>7. ASSUME NEW h \in Kind("reply")
      PROVE  h.src \in Node /\ h.src # n /\ busy[h.src]
  BY FrameTypes DEF OInv, Kind, Replies
<1>8. Requests'
  <2>1. Remembered
    BY <1>1, TablesSame
  <2>2. ASSUME NEW h \in Kind("request"), Sought(h)
        PROVE  Sought(h)'
    <3>1. h.src \in Node /\ h.src # n
      BY <2>2, FrameTypes DEF OInv, Kind, Sought
    <3> QED BY <1>4, <1>5, <2>2, <3>1 DEF Sought
  <2>3. seqNr' \in [Node -> Nat] /\ \A s \in Node : seqNr[s] <= seqNr'[s]
    <3>1. seqNr' \in [Node -> Nat]
      BY <1>1, <1>4
    <3>2. \A s \in Node : seqNr[s] <= seqNr'[s]
      BY <1>4
    <3> QED BY <3>1, <3>2
  <2>4. PICK New : New = F
    OBVIOUS
  <2>5. ASSUME NEW g \in New
        PROVE  RequestMade(g)'
    <3>1. Sought(g)'
      BY <1>2, <1>3, <1>4, <1>5, <1>7, <2>4 DEF Sought
    <3>2. g.path = <<n>>
      BY <1>3, <2>4
    <3>3. Len(g.path) = 1 /\ g.path[1] = n
      BY <3>2
    <3>4. 2..Len(g.path) = {}
      BY <3>3
    <3> QED BY <1>3, <1>4, <2>4, <3>1, <3>3, <3>4 DEF RequestMade
  <2>6. Kind("request")' \subseteq Kind("request") \cup New
    BY <1>5, <2>4
  <2> QED BY <2>1, <2>2, <2>3, <2>5, <2>6, RequestsStep
<1>9. Replies'
  <2>1. ASSUME NEW h \in Kind("reply")'
        PROVE  busy'[h.src] /\ message'[h.src].dst = message[h.src].dst
    BY <1>4, <1>5, <1>7
  <2> QED BY <1>5, <2>1, RepliesKept
<1>10. ASSUME NEW s \in Node, NEW body \in Nat, Begun(s, body)
       PROVE  Begun(s, body)'
  <2>1. sent[s] \in Nat
    BY <1>1, DsrAssumption DEF IInv, Typed
  <2>2. CASE s = n
    BY <1>4, <1>10, <2>1, <2>2 DEF Begun
  <2>3. CASE s # n
    BY <1>4, <1>10, <2>3 DEF Begun
  <2> QED BY <2>2, <2>3
<1>11. DataOnce'
  <2>1. \A h \in Kind("data")' : \A k \in Node : <<h.src, h.body>> \notin delivered'[k]
    BY <1>5 DEF OInv, DataOnce
  <2> QED BY <1>5, <1>10, <2>1, DataKept
<1>12. GivenBegun' /\ DeliveredOnce'
  <2>1. ASSUME NEW k \in Node, NEW x \in delivered[k]
        PROVE  Begun(x[1], x[2])'
    <3>1. Begun(x[1], x[2]) /\ x[1] \in Node /\ x[2] \in Nat
      BY <1>1 DEF OInv, GivenBegun, IInv, Typed
    <3> QED BY <1>10, <3>1
  <2>2. GivenBegun'
    BY <2>1 DEF GivenBegun, Begun
  <2> QED BY <2>2 DEF OInv, DeliveredOnce
<1> QED BY <1>6, <1>8, <1>9, <1>11, <1>12 DEF OInv
LEMMA RequestOInv ==
  ASSUME Orderly, OInv, IInv', NEW n \in Node, NEW f \in air, Receive(n, f),
         HandleRouteRequest(n, f)
  PROVE  OInv'
<1>1. /\ f.type = "request" /\ up[n] /\ f.to = n /\ f \in Kind("request")
      /\ UNCHANGED <<up, seqNr, busy, message, sent, delivered, again>>
  BY DEF Receive, HandleRouteRequest, Kind
<1>2. Rest(f) = air \ {f}
  BY DEF Rest, Orderly
<1>3. CASE air' = Rest(f) /\ UNCHANGED table
  BY <1>1, <1>2, <1>3, FewerFrames
<1>4. CASE /\ Fresh(n, f) /\ table' = [table EXCEPT ![n] = UpdateSeqNr(n, f.src, f.seq)]
           /\ f.dst = n
           /\ \E to \in At(PushBack(f.path, n), f.idx) :
                air' = Put(n, Rest(f), {Discovery("reply", to, f, Inc(f.hops), f.idx,
                                                  PushBack(f.path, n))})
  BY <1>1, <1>2, <1>4, AnswerOInv
<1>5. CASE /\ Fresh(n, f) /\ table' = [table EXCEPT ![n] = UpdateSeqNr(n, f.src, f.seq)]
           /\ air' = Put(n, Rest(f), Forward(n, f))
  BY <1>1, <1>2, <1>5, ForwardOInv
<1> QED BY <1>3, <1>4, <1>5 DEF HandleRouteRequest

LEMMA ReplyOInv ==
  ASSUME Orderly, OInv, IInv', NEW n \in Node, NEW f \in air, Receive(n, f),
         HandleRouteReply(n, f)
  PROVE  OInv'
<1>1. /\ f.type = "reply" /\ up[n] /\ f.to = n /\ f \in Kind("reply")
      /\ UNCHANGED <<up, seqNr, sent, delivered, again>>
  BY DEF Receive, HandleRouteReply, Kind
<1>2. Rest(f) = air \ {f}
  BY DEF Rest, Orderly
<1>3. CASE f.src = n
  <2>1. message[n] # None
    <3>1. message[n] \in Message
      BY <1>1, <1>3 DEF OInv, Replies, Waiting
    <3>2. None \notin Message
      BY DEF None, Message
    <3> QED BY <3>1, <3>2
  <2> DEFINE m == [message[n] EXCEPT !.path = f.path]
  <2>2. /\ table' = [table EXCEPT ![n] = Write(n, f.dst, Entry(f.path, f.hops, f.seq))]
        /\ busy' = [busy EXCEPT ![n] = FALSE]
        /\ message' = [message EXCEPT ![n] = m]
        /\ \E to \in At(m.path, 1) : air' = Put(n, air \ {f}, {Data(to, n, m, 1)})
    BY <1>2, <1>3, <2>1 DEF HandleRouteReply, NoLongerBusy
  <2>3. PICK x : x = m
    OBVIOUS
  <2>4. PICK to \in At(x.path, 1) : air' = Put(n, air \ {f}, {Data(to, n, x, 1)})
    BY <2>2, <2>3
  <2>5. x = [message[n] EXCEPT !.path = f.path] /\ message' = [message EXCEPT ![n] = x]
    BY <2>2, <2>3
  <2> HIDE DEF m
  <2> QED BY <1>1, <1>3, <2>2, <2>4, <2>5, RouteOInv
<1>4. CASE f.src # n
  <2>1. /\ UNCHANGED <<busy, table, message>>
        /\ \E to \in At(f.path, Back(f)) :
             air' = Put(n, air \ {f}, {Discovery("reply", to, f, f.hops, Back(f), f.path)})
    BY <1>2, <1>4 DEF HandleRouteReply
  <2> QED BY <1>1, <1>4, <2>1, BackOInv
<1> QED BY <1>3, <1>4

LEMMA RoutingMessageOInv ==
  ASSUME Orderly, OInv, IInv', NEW n \in Node, NEW f \in air, Receive(n, f),
         HandleRoutingMessage(n, f)
  PROVE  OInv'
<1>1. /\ f.type = "data" /\ f.to = n /\ f \in Kind("data")
      /\ UNCHANGED <<up, seqNr, busy, table, message, sent>>
  BY DEF Receive, HandleRoutingMessage, Kind
<1>2. Rest(f) = air \ {f}
  BY DEF Rest, Orderly
<1>3. CASE f.dst = n
  <2>1. /\ delivered' = [delivered EXCEPT ![n] = @ \cup {<<f.src, f.body>>}]
        /\ again' = [again EXCEPT ![n] = @ \cup ({<<f.src, f.body>>} \cap delivered[n])]
        /\ air' = air \ {f}
    BY <1>2, <1>3 DEF HandleRoutingMessage
  <2> QED BY <1>1, <1>3, <2>1, DeliverOInv
<1>4. CASE f.dst # n
  <2>1. /\ UNCHANGED <<delivered, again>>
        /\ \E to \in At(f.path, Inc(f.idx)) :
             air' = Put(n, air \ {f}, {[f EXCEPT !.to = to, !.idx = Inc(f.idx)]})
    BY <1>2, <1>4 DEF HandleRoutingMessage
  <2> QED BY <1>1, <1>4, <2>1, DataOnOInv
<1> QED BY <1>3, <1>4

LEMMA InitOInv == Init => OInv
<1> SUFFICES ASSUME Init PROVE OInv
  OBVIOUS
<1>1. IInv
  BY InitIInv
<1>2. \A type : Kind(type) = {}
  BY DEF Init, Kind
<1>3. TablesLead /\ Fallow /\ Waiting
  BY DEF Init, TablesLead, Fallow, Waiting
<1>4. Requests /\ Replies /\ DataOnce
  BY <1>2 DEF Requests, Replies, DataOnce
<1>5. GivenBegun /\ DeliveredOnce
  BY DEF Init, GivenBegun, DeliveredOnce
<1> QED BY <1>1, <1>3, <1>4, <1>5 DEF OInv

LEMMA NextOInv == Orderly /\ OInv /\ [Next]_vars => OInv'
<1> SUFFICES ASSUME Orderly, OInv, [Next]_vars PROVE OInv'
  OBVIOUS
<1>1. IInv'
  <2>1. IInv /\ [ChurnNext]_vars
    BY DEF OInv, ChurnNext
  <2> QED BY <2>1, NextIInv
<1>2. ASSUME NEW n \in Node, Enable(n)
      PROVE  OInv'
  BY <1>1, <1>2, EnableOInv
<1>3. ASSUME NEW n \in Node, NEW f \in air, Receive(n, f)
      PROVE  OInv'
  BY <1>1, <1>3, RequestOInv, ReplyOInv, RoutingMessageOInv DEF Receive
<1>4. ASSUME NEW e \in Flow, Send(e[1], e[2])
      PROVE  OInv'
  <2>1. e[1] \in Node /\ e[2] \in Node /\ <<e[1], e[2]>> \in Flow
    <3>1. e \in Node \X Node
      BY DsrAssumption
    <3>2. e = <<e[1], e[2]>>
      BY <3>1
    <3> QED BY <3>1, <3>2
  <2>2. /\ up[e[1]] /\ ~busy[e[1]] /\ sent' = [sent EXCEPT ![e[1]] = @ + 1]
        /\ UNCHANGED <<up, table, delivered, again>>
        /\ SendOnRoute(e[1], e[2]) \/ SendRequest(e[1], e[2])
    BY <1>4 DEF Send
  <2> QED BY <1>1, <2>1, <2>2, SendOnRouteOInv, SendRequestOInv
<1>5. ASSUME NEW f \in air, Lose(f)
      PROVE  OInv'
  <2>1. air' \subseteq air /\ UNCHANGED <<up, seqNr, busy, table, message, sent, delivered, again>>
    BY <1>5 DEF Lose
  <2> QED BY <1>1, <2>1, FewerFrames
<1>6. CASE UNCHANGED vars
  <2>1. air' \subseteq air /\ UNCHANGED <<up, seqNr, busy, table, message, sent, delivered, again>>
    BY <1>6 DEF vars
  <2> QED BY <1>1, <2>1, FewerFrames
<1> QED BY <1>2, <1>3, <1>4, <1>5, <1>6 DEF Next, Operate

LEMMA OInvHolds == OInv => OnPath /\ DeliveredOnce
<1> SUFFICES ASSUME OInv PROVE OnPath /\ DeliveredOnce
  OBVIOUS
<1>1. ASSUME NEW f \in air, f.type \in {"reply", "data"}
      PROVE  Indexed(f)
  BY <1>1 DEF OInv, Replies, DataOnce, Kind
<1>2. OnPath
  BY <1>1 DEF OnPath, Indexed
<1> QED BY <1>2 DEF OInv

(***************************************************************************)
(* In orderly use the index that goes with a path always names the node    *)
(* the frame is on its way to: no index is used beyond the path, and data  *)
(* ends at its destination, also when frames are lost                      *)
(* (dsr_routing.h:333-471).                                                *)
(***************************************************************************)
THEOREM KeepsToPath == ASSUME Orderly PROVE Spec => []OnPath
<1>1. OInv /\ [Next]_vars => OInv'
  BY NextOInv
<1>2. OInv => OnPath
  BY OInvHolds
<1> QED BY <1>1, <1>2, InitOInv, PTL DEF Spec

(***************************************************************************)
(* In orderly use no message is delivered twice, however many copies of a  *)
(* request go round: there is one reply to it, and one message is sent for *)
(* it (get_seq_nr(), update_seq_nr(): dsr_routing.h:340-349, 473-506).     *)
(***************************************************************************)
THEOREM GivenOnce == ASSUME Orderly PROVE Spec => []DeliveredOnce
<1>1. OInv /\ [Next]_vars => OInv'
  BY NextOInv
<1>2. OInv => DeliveredOnce
  BY OInvHolds
<1> QED BY <1>1, <1>2, InitOInv, PTL DEF Spec
=============================================================================
