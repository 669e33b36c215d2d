------------------------------ MODULE Flooding -------------------------------
(***************************************************************************)
(* Flooding (wiselib.testing/algorithms/routing/flooding/                  *)
(* flooding_algorithm.h).  A source numbers its messages; a node passes on *)
(* what has a greater number than the last one it knows of that source.    *)
(* Number 0 is taken for a source that started again, if the known number  *)
(* is at least 2.                                                          *)
(*                                                                         *)
(* A handler runs to completion.  A frame in `air' is one copy on the way  *)
(* to one receiver; copies arrive in any order.                            *)
(***************************************************************************)
EXTENDS Integers, FiniteSets

CONSTANTS Node, All,    \* All is BROADCAST_ADDRESS
          Link,         \* pairs <<a, b>>: b is in communication range of a
          Flow,         \* pairs <<s, d>>: the application of s floods to d, or to All
          TableSize,    \* TABLE_SIZE of the map that is the template parameter
          SeqMod,       \* 2^16: seq_nr_ is a uint16_t
          Resetting,    \* nodes whose application calls init() again
          Sends, HastySends  \* bound: how many messages each node sends, paced or not

FloodingAssumption ==
  /\ All \notin Node
  /\ Link \subseteq {e \in Node \X Node : e[1] # e[2]}
  /\ Flow \subseteq Node \X (Node \cup {All})
  /\ Resetting \subseteq Node
  /\ TableSize \in Nat /\ {Sends, HastySends} \subseteq [Node -> Nat]
  /\ SeqMod \in Nat /\ \A n \in Node : Sends[n] < SeqMod /\ HastySends[n] <= Sends[n]

VARIABLES paced,      \* a source waits with the next message, or with init(), until
                      \* the last one is no longer under way; fixed at the start
          seqNr,      \* seq_nr_
          known,      \* seq_map_: a function on the sources it knows
          air,        \* the copies on their way
          sent,       \* messages a source has sent, numbered
          heard,      \* messages <<source, number>> given to the receivers of a node
          again,      \* those given to them more than once
          rolledBack, \* sources whose number 0 a node has taken for a new start
          behind      \* sources that started again before all could tell

vars == <<paced, seqNr, known, air, sent, heard, again, rolledBack, behind>>

InRange(n) == {m \in Node : <<n, m>> \in Link}

(***************************************************************************)
(* FloodingMessage; `body' identifies the payload.                         *)
(***************************************************************************)
Copies(n, f) == {[to |-> m, from |-> n, src |-> f.src, seq |-> f.seq, dst |-> f.dst,
                  body |-> f.body] : m \in InRange(n)}

Limit(n) == IF paced THEN Sends[n] ELSE HastySends[n]

UnderWay(s) == \E f \in air : f.src = s

Init == /\ paced \in BOOLEAN
        /\ seqNr = [n \in Node |-> 0]
        /\ known = [n \in Node |-> <<>>]
        /\ air = {}
        /\ sent = [n \in Node |-> 0]
        /\ heard = [n \in Node |-> {}]
        /\ again = [n \in Node |-> {}]
        /\ rolledBack = [n \in Node |-> {}]
        /\ behind = {}

Send(n, d) ==
  /\ sent[n] < Limit(n) /\ (paced => ~UnderWay(n))
  /\ air' = air \cup Copies(n, [src |-> n, seq |-> seqNr[n], dst |-> d,
                                body |-> sent[n] + 1])
  /\ seqNr' = [seqNr EXCEPT ![n] = (@ + 1) % SeqMod]
  /\ sent' = [sent EXCEPT ![n] = @ + 1]
  /\ UNCHANGED <<paced, known, heard, again, rolledBack, behind>>

(***************************************************************************)
(* init() of a running node: seq_map_ stays.  It also registers receive()  *)
(* once more, so that each frame comes twice; the second time it is known. *)
(***************************************************************************)
InitAgain(n) ==
  /\ paced => ~UnderWay(n)
  /\ seqNr[n] # 0
  /\ seqNr' = [seqNr EXCEPT ![n] = 0]
  /\ behind' = IF seqNr[n] <= 2 THEN behind \cup {n} ELSE behind
  /\ UNCHANGED <<paced, known, air, sent, heard, again, rolledBack>>

(***************************************************************************)
(* receive(), of a message that is not the own one.  Writing to a full     *)
(* table is lost.                                                          *)
(***************************************************************************)
StartsAgain(n, f) ==
  /\ f.src \in DOMAIN known[n]
  /\ f.seq = 0 /\ known[n][f.src] >= 2

\* Slips: the last number is taken again; only the numbers decide.
IsNewOrLast(n, f) ==
  f.src \in DOMAIN known[n] => f.seq >= known[n][f.src] \/ StartsAgain(n, f)
IsNewByNumber(n, f) == f.src \in DOMAIN known[n] => f.seq > known[n][f.src]

IsNew(n, f) ==
  f.src \in DOMAIN known[n] => f.seq > known[n][f.src] \/ StartsAgain(n, f)

Learn(n, s, seq) ==
  IF s \in DOMAIN known[n] \/ Cardinality(DOMAIN known[n]) < TableSize
  THEN [x \in DOMAIN known[n] \cup {s} |-> IF x = s THEN seq ELSE known[n][x]]
  ELSE known[n]

Forward(n, f) ==
  LET m == IF f.dst \in {n, All} THEN {<<f.src, f.body>>} ELSE {}
  IN /\ f.to = n /\ f.src # n /\ IsNew(n, f)
     /\ known' = [known EXCEPT ![n] = Learn(n, f.src, f.seq)]
     /\ air' = (air \ {f}) \cup Copies(n, f)
     /\ heard' = [heard EXCEPT ![n] = @ \cup m]
     /\ again' = [again EXCEPT ![n] = @ \cup (m \cap heard[n])]
     /\ rolledBack' = [rolledBack EXCEPT ![n] =
                         IF StartsAgain(n, f) THEN @ \cup {f.src} ELSE @]
     /\ UNCHANGED <<paced, seqNr, sent, behind>>

Drop(n, f) ==
  /\ f.to = n /\ (f.src = n \/ ~IsNew(n, f))
  /\ air' = air \ {f}
  /\ UNCHANGED <<paced, seqNr, known, sent, heard, again, rolledBack, behind>>

Receive(n, f) == Forward(n, f) \/ Drop(n, f)

Arriving == \E n \in Node, f \in air : Receive(n, f)

Next == \/ \E e \in Flow : Send(e[1], e[2])
        \/ \E n \in Resetting : InitAgain(n)
        \/ Arriving

Spec == Init /\ [][Next]_vars

(***************************************************************************)
(* A radio that loses nothing: as long as copies are under way, one comes. *)
(***************************************************************************)
Fairness == WF_vars(Arriving)

FairSpec == Spec /\ Fairness
------------------------------------------------------------------------------
Number == UNION {1..Sends[n] : n \in Node}

Copy == [to : Node, from : Node, src : Node, seq : 0..SeqMod - 1, dst : Node \cup {All},
         body : Number]

(***************************************************************************)
(* The members of the class, the table within its size, and the copies in  *)
(* the air between neighbours (flooding_algorithm.h:144-146).              *)
(***************************************************************************)
TypeOK ==
  /\ paced \in BOOLEAN /\ behind \subseteq Node
  /\ seqNr \in [Node -> 0..SeqMod - 1] /\ \A n \in Node : sent[n] \in 0..Sends[n]
  /\ \A n \in Node :
       /\ DOMAIN known[n] \subseteq Node /\ Cardinality(DOMAIN known[n]) <= TableSize
       /\ \A s \in DOMAIN known[n] : known[n][s] \in 0..SeqMod - 1
       /\ again[n] \subseteq heard[n] /\ heard[n] \subseteq Node \X Number
       /\ rolledBack[n] \subseteq Node
  /\ air \subseteq Copy /\ \A f \in air : f.to \in InRange(f.from)

(***************************************************************************)
(* A node hands a message up once and passes it on once, by whatever ways  *)
(* and in whatever order its copies come.  The exceptions: the table had   *)
(* no room for the source, or a copy of number 0 came after number 2 and   *)
(* was taken for a new start, which cannot be if the source is paced       *)
(* (receive(), flooding_algorithm.h:237-285).                              *)
(***************************************************************************)
HandedOnce ==
  \A n \in Node : \A m \in again[n] :
    \/ m[1] \notin DOMAIN known[n]
    \/ ~paced /\ m[1] \in rolledBack[n]

(***************************************************************************)
(* With room for every source in the tables, and paced sources, a flood    *)
(* comes to an end: no copy goes round for ever                            *)
(* (receive(), flooding_algorithm.h:262-274).                              *)
(***************************************************************************)
Sources == {e[1] : e \in Flow}

FloodsEnd ==
  paced /\ Cardinality(Sources) <= TableSize => <>[](air = {})

(***************************************************************************)
(* A paced message reaches its destination, or all nodes, wherever they    *)
(* are in a connected network, also after init() was called again; unless  *)
(* that was before the third message, when the neighbours still know the   *)
(* small numbers that are used again (flooding_algorithm.h:212-229, 262).  *)
(***************************************************************************)
Addressed(e) == IF e[2] = All THEN Node \ {e[1]} ELSE {e[2]} \ {e[1]}

ReachesAll ==
  <>[](paced => \A e \in Flow : \A i \in 1..sent[e[1]] : \A n \in Addressed(e) :
                  <<e[1], i>> \in heard[n] \/ e[1] \in behind)
==============================================================================
