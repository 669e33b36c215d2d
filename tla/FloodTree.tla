------------------------------ MODULE FloodTree ------------------------------
(***************************************************************************)
(* Two classes that are used together by the query processor (inqp):       *)
(* FloodingNd (wiselib.testing/algorithms/routing/flooding_nd/             *)
(* flooding_nd.h) floods the queries of a sink, and the node from which a  *)
(* query came first becomes the parent; ForwardOnDirectedNd (routing/      *)
(* forward_on_directed_nd/forward_on_directed_nd.h) sends results from     *)
(* parent to parent to the sink.                                           *)
(*                                                                         *)
(* A handler runs to completion.  A frame in `air' is one copy on the way  *)
(* to one receiver; copies arrive in any order.                            *)
(***************************************************************************)
EXTENDS Integers, FiniteSets

CONSTANTS Node, Null,
          Sink,       \* the one node that floods, and the target of all results
          Link,       \* pairs <<a, b>>: b is in communication range of a
          Source,     \* nodes that send a result at some time of their own
          Answering,  \* nodes that send a result from within the handler of a query
          SeqMod,     \* 2^8: sequence_number_ is a uint8_t
          Floods      \* bound: queries of the sink

FloodTreeAssumption ==
  /\ Null \notin Node /\ Sink \in Node
  /\ Link \subseteq {e \in Node \X Node : e[1] # e[2]}
  /\ Source \subseteq Node /\ Answering \subseteq Node \ {Sink}
  /\ SeqMod \in Nat \ {0} /\ Floods \in Nat

VARIABLES seq,        \* sequence_number_
          parent,     \* parent_, or Null as long as parent_set_ is false
          air,        \* the copies on their way
          flooded,    \* queries the sink has sent
          sent,       \* results <<source, kind>> that went to a parent
          delivered   \* results given to the receivers of the sink

vars == <<seq, parent, air, flooded, sent, delivered>>

InRange(n) == {m \in Node : <<n, m>> \in Link}

(***************************************************************************)
(* The two frames.  `seq' of a result is no field of the frame: it is the  *)
(* number its sender had, for the properties.                              *)
(***************************************************************************)
Query(n, number) ==
  {[type |-> "query", to |-> m, from |-> n, seq |-> number] : m \in InRange(n)}

Result(n, r) == IF parent[n] = Null THEN {}
                ELSE {[type |-> "result", to |-> parent[n], result |-> r, seq |-> seq[n]]}

Init == /\ seq = [n \in Node |-> 0]
        /\ parent = [n \in Node |-> Null]
        /\ air = {}
        /\ flooded = 0
        /\ sent = {}
        /\ delivered = {}

(***************************************************************************)
(* The application of the sink names the sink its own parent.              *)
(***************************************************************************)
SetParent(n, p) ==
  /\ parent[n] = Null
  /\ parent' = [parent EXCEPT ![n] = p]
  /\ UNCHANGED <<seq, air, flooded, sent, delivered>>

(***************************************************************************)
(* FloodingNd::send().                                                     *)
(***************************************************************************)
SendQuery(n) ==
  /\ flooded < Floods
  /\ flooded' = flooded + 1
  /\ seq' = [seq EXCEPT ![n] = (@ + 1) % SeqMod]
  /\ air' = air \cup Query(n, seq'[n])
  /\ UNCHANGED <<parent, sent, delivered>>

(***************************************************************************)
(* FloodingNd::on_receive().  The receivers are notified first: what they  *)
(* send goes to the parent of before, or nowhere.                          *)
(***************************************************************************)
\* Slip: the last number is as good as a greater one.
NewerOrSame(n, f) == f.seq >= seq[n]

Newer(n, f) == f.seq > seq[n]

ParentFrom(f) == f.from

ReceiveQuery(n, f) ==
  LET answer == IF n \in Answering THEN Result(n, <<n, "answer">>) ELSE {}
  IN /\ f.type = "query" /\ f.to = n /\ Newer(n, f)
     /\ seq' = [seq EXCEPT ![n] = f.seq]
     /\ parent' = [parent EXCEPT ![n] = ParentFrom(f)]
     /\ air' = (air \ {f}) \cup answer \cup Query(n, f.seq)
     /\ sent' = sent \cup {x.result : x \in answer}
     /\ UNCHANGED <<flooded, delivered>>

DropQuery(n, f) ==
  /\ f.type = "query" /\ f.to = n /\ ~Newer(n, f)
  /\ air' = air \ {f}
  /\ UNCHANGED <<seq, parent, flooded, sent, delivered>>

(***************************************************************************)
(* ForwardOnDirectedNd::send() and on_receive().  Without a parent the     *)
(* result is lost.                                                         *)
(***************************************************************************)
SendResult(n) ==
  LET r == <<n, "own">>
  IN /\ r \notin sent
     /\ IF n = Sink THEN delivered' = delivered \cup {r} /\ UNCHANGED air
        ELSE air' = air \cup Result(n, r) /\ UNCHANGED delivered
     /\ sent' = IF n = Sink \/ parent[n] # Null THEN sent \cup {r} ELSE sent
     /\ UNCHANGED <<seq, parent, flooded>>

TakeResult(n, f) ==
  /\ f.type = "result" /\ f.to = n /\ n = Sink
  /\ delivered' = delivered \cup {f.result}
  /\ air' = air \ {f}
  /\ UNCHANGED <<seq, parent, flooded, sent>>

ForwardResult(n, f) ==
  /\ f.type = "result" /\ f.to = n /\ n # Sink
  /\ air' = (air \ {f}) \cup Result(n, f.result)
  /\ UNCHANGED <<seq, parent, flooded, sent, delivered>>

Receive(n, f) == \/ ReceiveQuery(n, f) \/ DropQuery(n, f)
                 \/ TakeResult(n, f) \/ ForwardResult(n, f)

Arriving == \E n \in Node, f \in air : Receive(n, f)

Next == \/ SetParent(Sink, Sink)
        \/ SendQuery(Sink)
        \/ \E n \in Source : SendResult(n)
        \/ Arriving

Spec == Init /\ [][Next]_vars

(***************************************************************************)
(* A radio that loses nothing: as long as copies are under way, one comes. *)
(***************************************************************************)
Fairness == WF_vars(Arriving)

FairSpec == Spec /\ Fairness
------------------------------------------------------------------------------
Sent  == Node \X {"own", "answer"}
Frame == [type : {"query"}, to : Node, from : Node, seq : 0..SeqMod - 1]
         \cup [type : {"result"}, to : Node, result : Sent, seq : 0..SeqMod - 1]

(***************************************************************************)
(* The members of both classes, and a parent is a neighbour                *)
(* (flooding_nd.h:187-194).                                                *)
(***************************************************************************)
TypeOK ==
  /\ seq \in [Node -> 0..SeqMod - 1]
  /\ parent \in [Node -> Node \cup {Null}]
  /\ \A n \in Node \ {Sink} : parent[n] # Null => <<parent[n], n>> \in Link
  /\ air \subseteq Frame
  /\ flooded \in 0..Floods
  /\ sent \subseteq Sent /\ delivered \subseteq sent

(***************************************************************************)
(* "DO NOT use this on communication graphs that have circles which do not *)
(* contain the target node" (forward_on_directed_nd.h:40-42): the parents  *)
(* that a flooding sink leaves behind never form one, though queries       *)
(* overtake each other (flooding_nd.h:177-200).                            *)
(***************************************************************************)
Joined == {n \in Node \ {Sink} : parent[n] # Null}

NoCircle ==
  \A S \in SUBSET Joined : S # {} => \E n \in S : parent[n] \notin S

(***************************************************************************)
(* A result is always on its way to the sink or to a node that has a       *)
(* parent and knows as late a query as the sender of the result did: no    *)
(* result gets lost half way, whatever becomes of the tree meanwhile       *)
(* (flooding_nd.h:187-194, forward_on_directed_nd.h:123-148).              *)
(***************************************************************************)
ResultsAscend ==
  \A f \in air : f.type = "result" /\ f.to # Sink =>
    parent[f.to] # Null /\ seq[f.to] >= f.seq

(***************************************************************************)
(* Every result that went to a parent reaches the sink                     *)
(* (on_receive(), forward_on_directed_nd.h:123-148).                       *)
(***************************************************************************)
ResultsArrive == <>[](sent \subseteq delivered)

(***************************************************************************)
(* The last query reaches every node of a connected network: unless        *)
(* sequence_number_ wraps, numbers that overtake each other do no harm     *)
(* (flooding_nd.h:187).                                                    *)
(***************************************************************************)
LastQueryReachesAll ==
  <>[](flooded < SeqMod => \A n \in Node : seq[n] = seq[Sink])
==============================================================================
