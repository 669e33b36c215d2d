---------------------------- MODULE Convergecast -----------------------------
(***************************************************************************)
(* Convergecast (wiselib.testing/algorithms/convergecast/Convergecast.h,   *)
(* ConvergecastFunctions.h, TreeNeighborhood.h): on a tree that is there   *)
(* already the root asks its children, they ask theirs, and from the       *)
(* leaves up each node tells its parent the result for its branch, once    *)
(* all its children have.  Several convergecasts, told apart by cc_id_,    *)
(* run on the tree at a time; each is started once, as in the application. *)
(*                                                                         *)
(* A handler runs to completion.  Frames in `air' arrive in any order, and *)
(* once.                                                                   *)
(***************************************************************************)
EXTENDS Naturals, FiniteSets, Sequences

CONSTANTS Node, Null,
          Trees,       \* functions from a node to its parent, Null for the root
          Id,          \* cc_id_ of the convergecasts
          BufferSize   \* the size of the buffer of results, 16

VARIABLES parent,    \* the tree, fixed at the start
          started,   \* the convergecasts the root has started
          buffer,    \* buffer_ of each node and convergecast
          air,       \* the frames on their way
          finished   \* the results the root was told of, by convergecast

vars == <<parent, started, buffer, air, finished>>

Children(n) == {m \in Node : parent[m] = n}

(***************************************************************************)
(* The nodes whose parents lead to n, and n: those in every set that has n *)
(* and with a node its children.                                           *)
(***************************************************************************)
Descending(X) == \A m \in X : Children(m) \subseteq X

Branch(n) == {m \in Node : \A X \in SUBSET Node : n \in X /\ Descending(X) => m \in X}

\* A set that has the root, and with a node its children, is all nodes.
IsTree(t) ==
  \E r \in Node :
    /\ t[r] = Null
    /\ \A X \in SUBSET Node :
         r \in X /\ (\A m \in Node : t[m] \in X => m \in X) => X = Node

ConvergecastAssumption ==
  /\ Null \notin Node /\ IsFiniteSet(Node) /\ BufferSize \in Nat
  /\ Trees \subseteq [Node -> Node \cup {Null}]
  /\ \A t \in Trees : IsTree(t)

(***************************************************************************)
(* A result is how often it takes each node into account.                  *)
(***************************************************************************)
Init == /\ parent \in Trees
        /\ started = {}
        /\ buffer = [n \in Node |-> [i \in Id |-> <<>>]]
        /\ air = {}
        /\ finished = [i \in Id |-> <<>>]

Ask(n, i) == {[type |-> "init", from |-> n, to |-> m, id |-> i] : m \in Children(n)}

Respond(n, i, r) == {[type |-> "response", from |-> n, to |-> parent[n], id |-> i, result |-> r]}

Once(nodes) == [m \in Node |-> IF m \in nodes THEN 1 ELSE 0]

Counts(results, m) == UNION {{k} \X (1..results[k][m]) : k \in DOMAIN results}

Calculated(n, results) ==
  [m \in Node |-> Once({n})[m] + Cardinality(Counts(results, m))]

StartConvergecast(n, i) ==
  /\ parent[n] = Null /\ i \notin started
  /\ started' = started \cup {i}
  /\ air' = air \cup Ask(n, i)
  /\ UNCHANGED <<parent, buffer, finished>>

Cleared(n, i) == [buffer EXCEPT ![n][i] = <<>>]

OnReceiveCall(n, f) ==
  /\ f.to = n /\ f.type = "init"
  /\ buffer' = Cleared(n, f.id)
  /\ air' = (air \ {f}) \cup IF Children(n) = {} THEN Respond(n, f.id, Calculated(n, <<>>))
                             ELSE Ask(n, f.id)
  /\ UNCHANGED <<parent, started, finished>>

(***************************************************************************)
(* The convergecast of a node that takes a frame.                          *)
(***************************************************************************)
\* Slip: the id of a frame is not compared.
AnyConvergecast(f) == CHOOSE i \in Id : TRUE

Addressed(f) == f.id

PushBack(list, r) == IF Len(list) < BufferSize THEN Append(list, r) ELSE list

\* Slip: a node does not wait for the last of its children.
OneMissing(n, list) == Len(list) + 1 >= Cardinality(Children(n))

Complete(n, list) == Len(list) = Cardinality(Children(n))

OnReceiveResponse(n, f) ==
  LET i    == Addressed(f)
      list == PushBack(buffer[n][i], f.result)
      r    == Calculated(n, list)
      done == Complete(n, list)
  IN /\ f.to = n /\ f.type = "response"
     /\ buffer' = [buffer EXCEPT ![n][i] = list]
     /\ air' = (air \ {f}) \cup IF done /\ parent[n] # Null THEN Respond(n, i, r) ELSE {}
     /\ finished' = IF done /\ parent[n] = Null
                    THEN [finished EXCEPT ![i] = Append(@, r)] ELSE finished
     /\ UNCHANGED <<parent, started>>

Arriving == \E n \in Node : \E f \in air : OnReceiveCall(n, f) \/ OnReceiveResponse(n, f)

Next == \/ \E n \in Node : \E i \in Id : StartConvergecast(n, i)
        \/ Arriving

Spec == Init /\ [][Next]_vars

(***************************************************************************)
(* A radio that loses nothing.                                             *)
(***************************************************************************)
Fairness == WF_vars(Arriving)
------------------------------------------------------------------------------
Frame == [type : {"init"}, from : Node, to : Node, id : Id]
         \cup [type : {"response"}, from : Node, to : Node, id : Id, result : [Node -> Nat]]

TypeOK ==
  /\ parent \in Trees /\ started \subseteq Id
  /\ buffer \in [Node -> [Id -> Seq([Node -> Nat])]]
  /\ \A n \in Node : \A i \in Id : Len(buffer[n][i]) <= BufferSize
  /\ air \subseteq Frame
  /\ finished \in [Id -> Seq([Node -> Nat])]

(***************************************************************************)
(* What a node tells its parent takes every node of its branch into        *)
(* account, once, and so does what the root is told, which is told once    *)
(* for each convergecast started; whatever the order of the frames, and of *)
(* several convergecasts at a time (Convergecast.h:90-155, 157-175).       *)
(***************************************************************************)
CountedOnce ==
  /\ \A f \in air : f.type = "response" => f.result = Once(Branch(f.from))
  /\ \A i \in Id : /\ finished[i] \in {<<>>, <<Once(Node)>>}
                   /\ finished[i] # <<>> => i \in started

(***************************************************************************)
(* Every convergecast ends when no frame is lost, there is room for the    *)
(* results of all children of a node, and the root has a child             *)
(* (Convergecast.h:73-155).                                                *)
(***************************************************************************)
EndsAtRoot ==
  <>[]((\A n \in Node : Cardinality(Children(n)) \in (IF parent[n] = Null THEN 1 ELSE 0)..BufferSize)
       => \A i \in started : finished[i] # <<>>)
==============================================================================
