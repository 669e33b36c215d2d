-------------------------- MODULE DsdvRoutingProofs --------------------------
(***************************************************************************)
(* Proofs about DsdvRouting, for every network of at most HopMod nodes,    *)
(* every topology and every size of table and frame.                       *)
(***************************************************************************)
EXTENDS DsdvRouting, FiniteSetTheorems, TLAPS

(***************************************************************************)
(* The inductive invariant.  A node that is down is empty and silent; what *)
(* a broadcast says is still known to its sender, at no greater distance;  *)
(* and a hop count h towards d, in a table or in the air, is carried by h  *)
(* nodes other than the owner, each strictly closer to d: that is why it   *)
(* cannot wrap.                                                            *)
(***************************************************************************)
Silent == \A n \in Node : ~up[n] => Known(n) = {} /\ \A f \in air : f.from # n

Honest == \A f \in Broadcasts : \A d \in DOMAIN f.adv :
            d \in Known(f.from) /\ hops[f.from][d] <= f.adv[d]

Carried(n, d, h) ==
  h >= 1 /\ \E S \in SUBSET (Node \ {n}) :
              Cardinality(S) = h /\ \A s \in S : Downhill(s, d, h)

TablesCarried == \A n \in Node : \A d \in Known(n) : Carried(n, d, hops[n][d])

FramesCarried == \A f \in Broadcasts : \A d \in DOMAIN f.adv :
                   Carried(f.from, d, f.adv[d])

IInv == /\ TypeOK /\ Silent /\ Honest /\ TablesCarried /\ FramesCarried
        /\ RoutesLeadHome /\ DataDescends

(***************************************************************************)
(* Routes only get better in a step without restarts, and then everything  *)
(* that is downhill stays downhill.                                        *)
(***************************************************************************)
Better == \A n \in Node : \A d \in Known(n) :
            d \in Known(n)' /\ hops'[n][d] <= hops[n][d]

LEMMA BetterDownhill ==
  ASSUME TypeOK, TypeOK', Better,
         NEW m \in Node, NEW d \in Node, NEW h \in Int, Downhill(m, d, h)
  PROVE  Downhill(m, d, h)'
<1>1. CASE m = d
  BY <1>1 DEF Downhill
<1>2. CASE d \in Known(m) /\ hops[m][d] < h
  <2>1. d \in Known(m)' /\ hops'[m][d] <= hops[m][d]
    BY <1>2 DEF Better
  <2>2. hops[m][d] \in Int /\ hops'[m][d] \in Int
    BY DEF TypeOK, Hop
  <2> QED BY <1>2, <2>1, <2>2 DEF Downhill
<1> QED BY <1>1, <1>2 DEF Downhill

LEMMA BetterCarried ==
  ASSUME TypeOK, TypeOK', Better,
         NEW n \in Node, NEW d \in Node, NEW h \in Int, Carried(n, d, h)
  PROVE  Carried(n, d, h)'
<1>1. PICK S \in SUBSET (Node \ {n}) :
         Cardinality(S) = h /\ \A s \in S : Downhill(s, d, h)
  BY DEF Carried
<1>2. \A s \in S : Downhill(s, d, h)'
  BY <1>1, BetterDownhill
<1> QED BY <1>1, <1>2 DEF Carried

(***************************************************************************)
(* A count of h fits into a network of more than h nodes.                  *)
(***************************************************************************)
LEMMA CarriedBound ==
  ASSUME NEW n \in Node, NEW d, NEW h \in Int, Carried(n, d, h)
  PROVE  h \in 1..(Cardinality(Node) - 1)
<1>1. PICK S \in SUBSET (Node \ {n}) : Cardinality(S) = h
  BY DEF Carried
<1>2. IsFiniteSet(Node \ {n}) /\ Cardinality(Node \ {n}) = Cardinality(Node) - 1
  BY FS_RemoveElement, DsdvAssumption
<1>3. Cardinality(S) <= Cardinality(Node \ {n})
  BY <1>2, FS_Subset
<1>4. Cardinality(Node) \in Nat
  BY FS_CardinalityType, DsdvAssumption
<1> QED BY <1>1, <1>2, <1>3, <1>4 DEF Carried

(***************************************************************************)
(* The members of a broadcast in the air.                                  *)
(***************************************************************************)
LEMMA BroadcastType ==
  ASSUME TypeOK, NEW f \in Broadcasts
  PROVE  /\ f.from \in Node /\ DOMAIN f.adv \subseteq Node
         /\ \A d \in DOMAIN f.adv : f.adv[d] \in Hop
<1>1. f \in BroadcastFrame
  BY DEF TypeOK, Broadcasts, BroadcastFrame, RoutingFrame
<1> QED BY <1>1 DEF BroadcastFrame

LEMMA DataType ==
  ASSUME TypeOK, NEW f \in DataFrames
  PROVE  /\ f.from \in Node /\ f.to \in Node /\ f.src \in Node
         /\ f.dst \in Node /\ f.hops \in Hop
BY DEF TypeOK, DataFrames, BroadcastFrame, RoutingFrame

(***************************************************************************)
(* What receive() does with a broadcast: some destinations that were       *)
(* unknown or more than one hop worse now lead over the sender, and the    *)
(* table still fits.                                                       *)
(***************************************************************************)
Gain(n, f, neighbour, others) ==
  /\ neighbour \subseteq {f.from}
  /\ others \subseteq DOMAIN f.adv \ {n, f.from}
  /\ \A d \in others : d \notin Known(n) \/ hops[n][d] > f.adv[d] + 1
  /\ Adopt(n, f, neighbour, others)
  /\ Cardinality(Known(n) \cup neighbour \cup others) <= TableSize

LEMMA SomeOfBound ==
  ASSUME NEW S, IsFiniteSet(S), NEW k \in Nat, NEW A \in SomeOf(S, k)
  PROVE  A \subseteq S /\ IsFiniteSet(A) /\ Cardinality(A) <= k
<1>1. A \in SUBSET S
  BY DEF SomeOf
<1>2. IsFiniteSet(A) /\ Cardinality(A) \in Nat /\ Cardinality(S) \in Nat
  BY <1>1, FS_Subset, FS_CardinalityType
<1> QED BY <1>1, <1>2 DEF SomeOf

LEMMA RoomForOne ==
  ASSUME NEW K, IsFiniteSet(K), NEW M \in Nat, Cardinality(K) <= M, NEW x, NEW N,
         N = IF x \in K \/ M - Cardinality(K) > 0 THEN {x} ELSE {}
  PROVE  IsFiniteSet(K \cup N) /\ Cardinality(K \cup N) \in 0..M
<1>1. Cardinality(K) \in Nat
  BY FS_CardinalityType
<1>2. CASE N = {x}
  <2>1. x \in K \/ Cardinality(K) < M
    BY <1>1, <1>2
  <2>2. /\ IsFiniteSet(K \cup {x})
        /\ Cardinality(K \cup {x})
             = IF x \in K THEN Cardinality(K) ELSE Cardinality(K) + 1
    BY FS_AddElement
  <2>3. Cardinality(K \cup {x}) \in 0..M
    BY <1>1, <2>1, <2>2
  <2> QED BY <1>2, <2>2, <2>3
<1>3. CASE N = {}
  <2>1. K \cup N = K
    BY <1>3
  <2>2. Cardinality(K) \in 0..M
    BY <1>1
  <2> QED BY <2>1, <2>2, Zenon
<1> QED BY <1>2, <1>3

LEMMA RoomForMore ==
  ASSUME NEW T, IsFiniteSet(T), NEW A, IsFiniteSet(A), T \cap A = {},
         NEW M \in Nat, Cardinality(A) <= M - Cardinality(T)
  PROVE  Cardinality(T \cup A) <= M
<1>1. Cardinality(T \cup A) = Cardinality(T) + Cardinality(A) - Cardinality(T \cap A)
  BY FS_Union
<1>2. Cardinality(T \cap A) = 0
  BY FS_EmptySet
<1>3. Cardinality(T) \in Nat /\ Cardinality(A) \in Nat
  BY FS_CardinalityType
<1> QED BY <1>1, <1>2, <1>3

LEMMA ReceiveGains ==
  ASSUME TypeOK, NEW n \in Node, NEW f \in Broadcasts, ReceiveBroadcast(n, f)
  PROVE  \E neighbour, others : Gain(n, f, neighbour, others)
<1> DEFINE room      == TableSize - Cardinality(Known(n))
           neighbour == IF f.from \in Known(n) \/ room > 0 THEN {f.from} ELSE {}
           table     == Known(n) \cup neighbour
           near      == {d \in Offered(n, f) \cap Known(n) : Nearer(n, f, d)}
<1>1. PICK new \in SomeOf(Offered(n, f) \ table, TableSize - Cardinality(table)) :
         Adopt(n, f, neighbour, new \cup near)
  BY DEF ReceiveBroadcast
<1>2. f.from \in Node /\ DOMAIN f.adv \subseteq Node
  BY BroadcastType
<1>3. /\ IsFiniteSet(Known(n)) /\ Cardinality(Known(n)) \in Nat
      /\ Cardinality(Known(n)) <= TableSize
  <2>1. Known(n) \in SUBSET Node
    BY DEF Known
  <2> QED BY <2>1, FS_Subset, FS_CardinalityType, DsdvAssumption DEF TypeOK, TableFits
<1>4. IsFiniteSet(table) /\ Cardinality(table) \in 0..TableSize
  BY <1>3, RoomForOne, DsdvAssumption
<1>5. /\ new \subseteq Offered(n, f) \ table /\ IsFiniteSet(new)
      /\ Cardinality(new) <= TableSize - Cardinality(table)
  <2>1. IsFiniteSet(Offered(n, f) \ table)
    <3>1. Offered(n, f) \ table \in SUBSET Node
      BY <1>2 DEF Offered
    <3> QED BY <3>1, FS_Subset, DsdvAssumption
  <2>2. TableSize - Cardinality(table) \in Nat
    BY <1>4, DsdvAssumption
  <2> QED BY <2>1, <2>2, SomeOfBound
<1>6. Cardinality(table \cup new) <= TableSize
  <2>1. table \cap new = {}
    BY <1>5
  <2> HIDE DEF table
  <2> QED BY <1>4, <1>5, <2>1, RoomForMore, DsdvAssumption
<1>7. Known(n) \cup neighbour \cup (new \cup near) = table \cup new
  OBVIOUS
<1>8. Gain(n, f, neighbour, new \cup near)
  <2>1. new \cup near \subseteq DOMAIN f.adv \ {n, f.from}
    BY <1>5 DEF Offered
  <2>2. \A d \in new \cup near : d \notin Known(n) \/ hops[n][d] > f.adv[d] + 1
    BY <1>5 DEF Nearer
  <2> QED BY <1>1, <1>6, <1>7, <2>1, <2>2 DEF Gain
<1> QED BY <1>8

(***************************************************************************)
(* The effect of a Gain on the receiver's entries, without overflow.       *)
(***************************************************************************)
LEMMA GainEffect ==
  ASSUME IInv, Cardinality(Node) <= HopMod,
         NEW n \in Node, NEW f \in Broadcasts, f.from # n,
         NEW neighbour, NEW others, Gain(n, f, neighbour, others)
  PROVE  /\ \A d \in others : /\ d \in Node /\ f.adv[d] \in 1..(HopMod - 1)
                              /\ f.adv[d] + 1 \in Hop
                              /\ Carried(n, d, f.adv[d] + 1)
                              /\ Downhill(f.from, d, f.adv[d] + 1)
         /\ Carried(n, f.from, 1)
<1>1. /\ f.from \in Node /\ DOMAIN f.adv \subseteq Node
      /\ \A d \in DOMAIN f.adv : f.adv[d] \in Hop
  BY BroadcastType DEF IInv
<1>2. ASSUME NEW d \in others
      PROVE  /\ d \in Node /\ f.adv[d] \in 1..(HopMod - 1)
             /\ f.adv[d] + 1 \in Hop
             /\ Carried(n, d, f.adv[d] + 1)
             /\ Downhill(f.from, d, f.adv[d] + 1)
  <2> DEFINE h == f.adv[d]
  <2>1. d \in DOMAIN f.adv /\ d # n /\ d # f.from /\ d \in Node /\ h \in Hop
    BY <1>1 DEF Gain
  <2>2. d \in Known(f.from) /\ hops[f.from][d] <= h /\ Carried(f.from, d, h)
    BY <2>1 DEF IInv, Honest, FramesCarried
  <2>3. hops[f.from][d] \in Int /\ hops[n][d] \in Int /\ h \in Int
    BY <1>1, <2>1 DEF IInv, TypeOK, Hop
  <2>4. Downhill(f.from, d, h + 1)
    BY <2>2, <2>3 DEF Downhill
  <2>5. PICK S \in SUBSET (Node \ {f.from}) :
               Cardinality(S) = h /\ \A s \in S : Downhill(s, d, h)
    BY <2>2 DEF Carried
  <2>6. n \notin S
    <3> SUFFICES ASSUME n \in S PROVE FALSE
      OBVIOUS
    <3>1. d \in Known(n) /\ hops[n][d] < h
      BY <2>1, <2>5 DEF Downhill
    <3>2. hops[n][d] > h + 1
      BY <3>1 DEF Gain
    <3> QED BY <3>1, <3>2, <2>3
  <2> DEFINE T == S \cup {f.from}
  <2>7. T \in SUBSET (Node \ {n})
    BY <2>6, <1>1
  <2>8. Cardinality(T) = h + 1
    <3>1. IsFiniteSet(S)
      <4>1. S \in SUBSET Node
        OBVIOUS
      <4> QED BY <4>1, FS_Subset, DsdvAssumption
    <3> QED BY <3>1, <2>5, FS_AddElement
  <2>9. \A s \in T : Downhill(s, d, h + 1)
    <3>1. ASSUME NEW s \in S PROVE Downhill(s, d, h + 1)
      <4>1. s \in Node /\ Downhill(s, d, h)
        BY <2>5
      <4>2. hops[s][d] \in Int
        BY <4>1, <2>1 DEF IInv, TypeOK, Hop
      <4> QED BY <4>1, <4>2, <2>3 DEF Downhill
    <3> QED BY <3>1, <2>4
  <2>10. h >= 1
    BY <2>2 DEF Carried
  <2>11. Carried(n, d, h + 1)
    <3> HIDE DEF h, T
    <3>1. h + 1 >= 1
      BY <2>3, <2>10
    <3> QED BY <3>1, <2>7, <2>8, <2>9 DEF Carried
  <2>12. h + 1 \in 1..(Cardinality(Node) - 1)
    BY <2>3, <2>11, CarriedBound
  <2>13. Cardinality(Node) \in Nat
    BY FS_CardinalityType, DsdvAssumption
  <2> QED BY <2>1, <2>3, <2>4, <2>10, <2>11, <2>12, <2>13, DsdvAssumption DEF Hop
<1>3. Carried(n, f.from, 1)
  <2>1. {f.from} \in SUBSET (Node \ {n})
    BY <1>1
  <2>2. Cardinality({f.from}) = 1
    BY FS_Singleton
  <2>3. Downhill(f.from, f.from, 1)
    BY DEF Downhill
  <2> QED BY <2>1, <2>2, <2>3 DEF Carried
<1> QED BY <1>2, <1>3

(***************************************************************************)
(* receive() of a broadcast keeps the invariant.                           *)
(***************************************************************************)
LEMMA ReceiveStep ==
  ASSUME IInv, Cardinality(Node) <= HopMod,
         NEW n \in Node, NEW f \in Broadcasts, ReceiveBroadcast(n, f)
  PROVE  IInv'
<1>1. PICK neighbour, others : Gain(n, f, neighbour, others)
  BY ReceiveGains DEF IInv
<1>2. /\ f.from # n /\ up[n] /\ <<f.from, n>> \in Link
      /\ UNCHANGED <<up, air, delivered>>
  BY DEF ReceiveBroadcast
<1>3. /\ \A d \in others : /\ d \in Node /\ f.adv[d] \in 1..(HopMod - 1)
                           /\ f.adv[d] + 1 \in Hop
                           /\ Carried(n, d, f.adv[d] + 1)
                           /\ Downhill(f.from, d, f.adv[d] + 1)
      /\ Carried(n, f.from, 1)
  BY <1>1, <1>2, GainEffect
<1>4. f.from \in Node
  BY BroadcastType DEF IInv
<1>5. /\ neighbour \subseteq {f.from} /\ others \subseteq Node \ {n, f.from}
      /\ \A d \in others : d \notin Known(n) \/ hops[n][d] > f.adv[d] + 1
  BY <1>1, <1>3 DEF Gain
<1>6. \A d \in others : (f.adv[d] + 1) % HopMod = f.adv[d] + 1
  BY <1>3, DsdvAssumption DEF Hop
<1>7. \A q, d \in Node :
        /\ next'[q][d] = IF q = n /\ d \in neighbour \cup others THEN f.from
                         ELSE next[q][d]
        /\ hops'[q][d] = IF q = n /\ d \in neighbour THEN 1
                         ELSE IF q = n /\ d \in others THEN f.adv[d] + 1
                         ELSE hops[q][d]
  BY <1>1, <1>6 DEF Gain, Adopt, IInv, TypeOK
<1>8. Known(n)' = Known(n) \cup neighbour \cup others
  BY <1>4, <1>5, <1>7, DsdvAssumption DEF Known
<1>9. \A q \in Node \ {n} : Known(q)' = Known(q)
  BY <1>7 DEF Known
<1>10. TypeOK'
  <2>1. next' \in [Node -> [Node -> Node \cup {Null}]]
    BY <1>1, <1>4 DEF Gain, Adopt, IInv, TypeOK
  <2>2. hops' \in [Node -> [Node -> Hop]]
    <3>1. \A q, d \in Node : hops'[q][d] \in Hop
      <4>1. 1 \in Hop
        BY DsdvAssumption DEF Hop
      <4> QED BY <4>1, <1>3, <1>7 DEF IInv, TypeOK
    <3>2. hops' = [q \in Node |-> [d \in Node |-> hops'[q][d]]]
      BY <1>1 DEF Gain, Adopt, IInv, TypeOK
    <3> HIDE DEF Hop
    <3> QED BY <3>1, <3>2
  <2>3. ASSUME NEW q \in Node
        PROVE  Cardinality(Known(q))' <= TableSize /\ q \notin Known(q)'
    <3>1. CASE q = n
      BY <3>1, <1>1, <1>2, <1>5, <1>8 DEF Gain, IInv, TypeOK, TableFits
    <3>2. CASE q # n
      BY <3>2, <1>9 DEF IInv, TypeOK, TableFits
    <3> QED BY <3>1, <3>2
  <2> QED BY <2>1, <2>2, <2>3, <1>2 DEF IInv, TypeOK, TableFits
<1>11. Better
  <2> SUFFICES ASSUME NEW q \in Node, NEW d \in Known(q)
               PROVE  d \in Known(q)' /\ hops'[q][d] <= hops[q][d]
    BY DEF Better
  <2>0. d \in Node /\ hops[q][d] \in Int
    BY DEF Known, IInv, TypeOK, Hop
  <2>1. CASE q # n
    BY <2>0, <2>1, <1>7, <1>9
  <2>2. CASE q = n /\ d \in others
    <3>1. f.adv[d] \in Int /\ d \notin neighbour
      BY <2>2, <1>3, <1>5
    <3> QED BY <3>1, <2>0, <2>2, <1>5, <1>7, <1>8
  <2>3. CASE q = n /\ d \in neighbour
    <3>1. hops[q][d] >= 1
      BY DEF IInv, TablesCarried, Carried
    <3> QED BY <3>1, <2>0, <2>3, <1>7, <1>8
  <2>4. CASE q = n /\ d \notin others \cup neighbour
    BY <2>0, <2>4, <1>7, <1>8
  <2> QED BY <2>1, <2>2, <2>3, <2>4
<1>12. Silent'
  BY <1>2, <1>9 DEF IInv, Silent
<1>13. Honest'
  <2> SUFFICES ASSUME NEW g \in Broadcasts', NEW d \in DOMAIN g.adv
               PROVE  d \in Known(g.from)' /\ hops'[g.from][d] <= g.adv[d]
    BY DEF Honest
  <2>1. g \in Broadcasts
    BY <1>2 DEF Broadcasts
  <2>2. g.from \in Node /\ d \in Node /\ g.adv[d] \in Hop
    BY <2>1, BroadcastType DEF IInv
  <2>3. d \in Known(g.from) /\ hops[g.from][d] <= g.adv[d]
    BY <2>1 DEF IInv, Honest
  <2>4. d \in Known(g.from)' /\ hops'[g.from][d] <= hops[g.from][d]
    BY <2>2, <2>3, <1>11 DEF Better
  <2>5. hops'[g.from][d] \in Int /\ hops[g.from][d] \in Int /\ g.adv[d] \in Int
    BY <2>2, <1>10 DEF IInv, TypeOK, Hop
  <2> QED BY <2>3, <2>4, <2>5
<1>14. ASSUME NEW q \in Node, NEW d \in Known(q)'
       PROVE  Carried(q, d, hops[q][d])' /\ Downhill(next[q][d], d, hops[q][d])'
  <2>0. d \in Node
    BY DEF Known
  <2>1. CASE q = n /\ d \in others
    <3>1. /\ hops'[q][d] = f.adv[d] + 1 /\ next'[q][d] = f.from
          /\ f.adv[d] + 1 \in Int
      BY <2>0, <2>1, <1>3, <1>5, <1>7
    <3>2. Carried(n, d, f.adv[d] + 1)' /\ Downhill(f.from, d, f.adv[d] + 1)'
      BY <2>0, <2>1, <3>1, <1>3, <1>4, <1>10, <1>11, BetterCarried, BetterDownhill
         DEF IInv
    <3> QED BY <3>1, <3>2, <2>1 DEF Carried, Downhill
  <2>2. CASE q = n /\ d \in neighbour
    <3>1. hops'[q][d] = 1 /\ next'[q][d] = f.from /\ d = f.from
      BY <2>0, <2>2, <1>5, <1>7
    <3>2. Carried(n, f.from, 1)'
      BY <1>3, <1>4, <1>10, <1>11, BetterCarried DEF IInv
    <3> QED BY <3>1, <3>2, <2>2 DEF Carried, Downhill
  <2>3. CASE ~(q = n /\ d \in others \cup neighbour)
    <3>1. /\ hops'[q][d] = hops[q][d] /\ next'[q][d] = next[q][d]
          /\ d \in Known(q)
      BY <2>0, <2>3, <1>7, <1>8, <1>9
    <3>2. hops[q][d] \in Int /\ next[q][d] \in Node
      BY <2>0, <3>1 DEF IInv, TypeOK, Hop, Known
    <3>3. Carried(q, d, hops[q][d]) /\ Downhill(next[q][d], d, hops[q][d])
      BY <3>1 DEF IInv, TablesCarried, RoutesLeadHome
    <3>4. \A h \in Int : Carried(q, d, h) =>
             h >= 1 /\ \E S \in SUBSET (Node \ {q}) :
               Cardinality(S) = h
               /\ \A s \in S : s = d \/ (d \in Known(s)' /\ hops'[s][d] < h)
      BY <2>0, <1>10, <1>11, BetterCarried DEF IInv, Carried, Downhill
    <3>5. \A h \in Int, m \in Node : Downhill(m, d, h) =>
             m = d \/ (d \in Known(m)' /\ hops'[m][d] < h)
      BY <2>0, <1>10, <1>11, BetterDownhill DEF IInv, Downhill
    <3>6. Carried(q, d, hops[q][d])'
      BY <3>1, <3>2, <3>3, <3>4 DEF Carried, Downhill
    <3>7. Downhill(next[q][d], d, hops[q][d])'
      BY <3>1, <3>2, <3>3, <3>5 DEF Downhill
    <3> QED BY <3>6, <3>7
  <2> QED BY <2>1, <2>2, <2>3
<1>15. TablesCarried' /\ RoutesLeadHome'
  BY <1>14 DEF TablesCarried, RoutesLeadHome
<1>16. FramesCarried'
  <2> SUFFICES ASSUME NEW g \in Broadcasts', NEW d \in DOMAIN g.adv
               PROVE  Carried(g.from, d, g.adv[d])'
    BY DEF FramesCarried
  <2>1. g \in Broadcasts
    BY <1>2 DEF Broadcasts
  <2>2. g.from \in Node /\ d \in Node /\ g.adv[d] \in Int
    BY <2>1, BroadcastType DEF IInv, Hop
  <2>3. Carried(g.from, d, g.adv[d])
    BY <2>1 DEF IInv, FramesCarried
  <2> QED BY <2>2, <2>3, <1>10, <1>11, BetterCarried DEF IInv
<1>17. DataDescends'
  <2> SUFFICES ASSUME NEW g \in DataFrames' PROVE Downhill(g.to, g.dst, g.hops)'
    BY DEF DataDescends
  <2>1. g \in DataFrames
    BY <1>2 DEF DataFrames
  <2>2. g.to \in Node /\ g.dst \in Node /\ g.hops \in Int
    BY <2>1, DataType DEF IInv, Hop
  <2>3. Downhill(g.to, g.dst, g.hops)
    BY <2>1 DEF IInv, DataDescends
  <2> QED BY <2>2, <2>3, <1>10, <1>11, BetterDownhill DEF IInv
<1> QED BY <1>10, <1>12, <1>13, <1>15, <1>16, <1>17 DEF IInv

(***************************************************************************)
(* Steps that leave the tables of all nodes alone and add frames that tell *)
(* the truth.                                                              *)
(***************************************************************************)
Truthful(f) ==
  /\ up[f.from]
  /\ f.type = "broadcast" => \A d \in DOMAIN f.adv :
       /\ d \in Known(f.from) /\ hops[f.from][d] <= f.adv[d]
       /\ Carried(f.from, d, f.adv[d])
  /\ f.type = "routing" => Downhill(f.to, f.dst, f.hops)

LEMMA NewFramesStep ==
  ASSUME IInv, NEW F \in SUBSET (BroadcastFrame \cup RoutingFrame),
         UNCHANGED <<next, hops, up>>, air' = air \cup F,
         delivered' \in [Node -> SUBSET Node], \A f \in F : Truthful(f)
  PROVE  IInv'
<1> USE DEF IInv
<1>1. \A n : Known(n)' = Known(n)
  BY DEF Known
<1>2. TypeOK'
  BY <1>1 DEF TypeOK, TableFits
<1>3. Silent'
  BY <1>1 DEF Silent, Truthful
<1>4. /\ Broadcasts' = Broadcasts \cup {f \in F : f.type = "broadcast"}
      /\ DataFrames' = DataFrames \cup {f \in F : f.type = "routing"}
  BY DEF Broadcasts, DataFrames
<1>5. \A m, d, h : /\ Downhill(m, d, h)' <=> Downhill(m, d, h)
                   /\ Carried(m, d, h)' <=> Carried(m, d, h)
  BY <1>1 DEF Downhill, Carried
<1>6. Honest' /\ FramesCarried' /\ DataDescends'
  BY <1>1, <1>4, <1>5 DEF Honest, FramesCarried, DataDescends, Truthful
<1>7. TablesCarried' /\ RoutesLeadHome'
  BY <1>1, <1>5 DEF TablesCarried, RoutesLeadHome, Carried, Downhill
<1> QED BY <1>2, <1>3, <1>6, <1>7

LEMMA TimerStep ==
  ASSUME IInv, NEW n \in Node, TimerElapsed(n)
  PROVE  IInv'
<1>1. PICK P \in Chunks(Known(n)) : air' = air \cup {Broadcast(n, D) : D \in P}
  BY DEF TimerElapsed
<1>2. \A D \in P : D \subseteq Known(n)
  BY DEF Chunks
<1>3. Known(n) \subseteq Node
  BY DEF Known
<1>4. ASSUME NEW D \in P
      PROVE  /\ Broadcast(n, D) \in BroadcastFrame
             /\ Truthful(Broadcast(n, D))
  <2>1. /\ Broadcast(n, D).type = "broadcast" /\ Broadcast(n, D).from = n
        /\ DOMAIN Broadcast(n, D).adv = D
        /\ \A d \in D : Broadcast(n, D).adv[d] = hops[n][d]
    BY DEF Broadcast
  <2>2. \A d \in D : d \in Known(n) /\ hops[n][d] \in Hop
    BY <1>2, <1>3 DEF IInv, TypeOK
  <2>3. \A d \in D : hops[n][d] <= hops[n][d] /\ Carried(n, d, hops[n][d])
    BY <2>2 DEF IInv, TablesCarried, Hop
  <2>4. Broadcast(n, D) \in BroadcastFrame
    <3>1. [d \in D |-> hops[n][d]] \in [D -> Hop]
      BY <2>2
    <3>2. D \in SUBSET Node
      BY <1>2, <1>3
    <3> QED BY <3>1, <3>2 DEF Broadcast, BroadcastFrame
  <2> QED BY <2>1, <2>2, <2>3, <2>4 DEF TimerElapsed, Truthful
<1> DEFINE F == {Broadcast(n, D) : D \in P}
<1>5. F \in SUBSET (BroadcastFrame \cup RoutingFrame) /\ \A f \in F : Truthful(f)
  BY <1>4
<1>6. UNCHANGED <<next, hops, up, delivered>> /\ air' = air \cup F
  BY <1>1 DEF TimerElapsed
<1> HIDE DEF F
<1> QED BY <1>5, <1>6, NewFramesStep DEF IInv, TypeOK

LEMMA PassOnStep ==
  ASSUME IInv, NEW n \in Node, NEW s \in Node, NEW d \in Known(n),
         air' = air \cup {DataFrame(n, s, d)},
         UNCHANGED <<next, hops, up, delivered>>
  PROVE  IInv'
<1>1. d \in Node /\ next[n][d] \in Node /\ hops[n][d] \in Hop
  BY DEF Known, IInv, TypeOK
<1>2. DataFrame(n, s, d) \in RoutingFrame
  BY <1>1 DEF DataFrame, RoutingFrame
<1>3. Truthful(DataFrame(n, s, d))
  <2>1. up[n]
    BY DEF IInv, Silent
  <2>2. Downhill(next[n][d], d, hops[n][d])
    BY DEF IInv, RoutesLeadHome
  <2> QED BY <2>1, <2>2 DEF DataFrame, Truthful
<1> DEFINE F == {DataFrame(n, s, d)}
<1>4. /\ F \in SUBSET (BroadcastFrame \cup RoutingFrame)
      /\ \A f \in F : Truthful(f)
      /\ air' = air \cup F
  BY <1>2, <1>3
<1>5. delivered' \in [Node -> SUBSET Node]
  BY DEF IInv, TypeOK
<1> HIDE DEF F
<1> QED BY <1>4, <1>5, NewFramesStep

LEMMA NoFrameStep ==
  ASSUME IInv, UNCHANGED <<next, hops, up, air>>,
         delivered' \in [Node -> SUBSET Node]
  PROVE  IInv'
<1> DEFINE F == {}
<1>1. /\ F \in SUBSET (BroadcastFrame \cup RoutingFrame)
      /\ \A f \in F : Truthful(f)
      /\ air' = air \cup F
  OBVIOUS
<1> HIDE DEF F
<1> QED BY <1>1, NewFramesStep

LEMMA EnableStep ==
  ASSUME IInv, NEW n \in Node, Enable(n)
  PROVE  IInv'
<1> USE DEF IInv
<1>1. Known(n) = {} /\ \A f \in air : f.from # n
  BY DEF Enable, Silent
<1>2. \A d \in Node : next[n][d] = Null
  BY <1>1 DEF Known
<1>3. next' = next
  <2>1. next[n] = [d \in Node |-> Null]
    BY <1>2 DEF TypeOK
  <2> QED BY <2>1 DEF Enable, InitRouting, ClearTable, TypeOK
<1>4. /\ \A q \in Node \ {n} : \A d \in Node : hops'[q][d] = hops[q][d]
      /\ UNCHANGED <<air, delivered>> /\ up' = [up EXCEPT ![n] = TRUE]
      /\ hops' \in [Node -> [Node -> Hop]]
  <2>1. 0 \in Hop
    BY DsdvAssumption DEF Hop
  <2> HIDE DEF Hop
  <2> QED BY <2>1 DEF Enable, InitRouting, ClearTable, TypeOK
<1>5. \A q : Known(q)' = Known(q)
  BY <1>3 DEF Known
<1>6. TypeOK'
  BY <1>3, <1>4, <1>5 DEF TypeOK, TableFits
<1>7. Silent'
  BY <1>4, <1>5 DEF Silent, TypeOK
<1>8. \A m \in Node, d \in Node, h \in Int : Downhill(m, d, h) => Downhill(m, d, h)'
  BY <1>1, <1>4, <1>5 DEF Downhill
<1>9. \A m \in Node, d \in Node, h \in Int : Carried(m, d, h) => Carried(m, d, h)'
  BY <1>8 DEF Carried
<1>10. Honest' /\ FramesCarried'
  <2> SUFFICES ASSUME NEW g \in Broadcasts', NEW d \in DOMAIN g.adv
               PROVE  /\ d \in Known(g.from)' /\ hops'[g.from][d] <= g.adv[d]
                      /\ Carried(g.from, d, g.adv[d])'
    BY DEF Honest, FramesCarried
  <2>1. g \in Broadcasts /\ g.from # n
    BY <1>1, <1>4 DEF Broadcasts
  <2>2. g.from \in Node /\ d \in Node /\ g.adv[d] \in Int
    BY <2>1, BroadcastType DEF Hop
  <2> QED BY <2>1, <2>2, <1>4, <1>5, <1>9 DEF Honest, FramesCarried
<1>11. DataDescends'
  <2> SUFFICES ASSUME NEW g \in DataFrames' PROVE Downhill(g.to, g.dst, g.hops)'
    BY DEF DataDescends
  <2>1. g \in DataFrames
    BY <1>4 DEF DataFrames
  <2>2. g.to \in Node /\ g.dst \in Node /\ g.hops \in Int
    BY <2>1, DataType DEF Hop
  <2> QED BY <2>1, <2>2, <1>8 DEF DataDescends
<1>12. TablesCarried' /\ RoutesLeadHome'
  <2> SUFFICES ASSUME NEW q \in Node, NEW d \in Known(q)'
               PROVE  /\ Carried(q, d, hops[q][d])'
                      /\ Downhill(next[q][d], d, hops[q][d])'
    BY DEF TablesCarried, RoutesLeadHome
  <2>1. /\ q # n /\ d \in Known(q) /\ d \in Node
        /\ hops'[q][d] = hops[q][d] /\ next'[q][d] = next[q][d]
    BY <1>1, <1>3, <1>4, <1>5 DEF Known
  <2>2. hops[q][d] \in Int /\ next[q][d] \in Node
    BY <2>1 DEF TypeOK, Hop, Known
  <2>3. Carried(q, d, hops[q][d]) /\ Downhill(next[q][d], d, hops[q][d])
    BY <2>1 DEF TablesCarried, RoutesLeadHome
  <2> QED BY <2>1, <2>2, <2>3, <1>8, <1>9 DEF Carried, Downhill
<1> QED BY <1>6, <1>7, <1>10, <1>11, <1>12

LEMMA InductiveStep ==
  ASSUME Cardinality(Node) <= HopMod, IInv, [Next]_vars
  PROVE  IInv'
<1>1. ASSUME NEW n \in Node, Enable(n) PROVE IInv'
  BY <1>1, EnableStep
<1>2. ASSUME NEW n \in Node, TimerElapsed(n) PROVE IInv'
  BY <1>2, TimerStep
<1>3. ASSUME NEW n \in Node, NEW f \in Broadcasts, ReceiveBroadcast(n, f) PROVE IInv'
  BY <1>3, ReceiveStep
<1>4. ASSUME NEW n \in Node, NEW f \in DataFrames, DeliverData(n, f) PROVE IInv'
  <2>1. f.src \in Node
    BY DataType DEF IInv
  <2>2. delivered' \in [Node -> SUBSET Node]
    BY <1>4, <2>1 DEF DeliverData, IInv, TypeOK
  <2> QED BY <1>4, <2>2, NoFrameStep DEF DeliverData
<1>5. ASSUME NEW n \in Node, NEW f \in DataFrames, ForwardData(n, f) PROVE IInv'
  <2>1. f.src \in Node
    BY DataType DEF IInv
  <2> QED BY <1>5, <2>1, PassOnStep DEF ForwardData
<1>6. ASSUME NEW n \in Node, NEW d \in Node, Send(n, d) PROVE IInv'
  BY <1>6, PassOnStep DEF Send
<1>7. CASE UNCHANGED vars
  BY <1>7, NoFrameStep DEF vars, IInv, TypeOK
<1> QED
  BY <1>1, <1>2, <1>3, <1>4, <1>5, <1>6, <1>7 DEF Next, Operate

LEMMA Initially == Init => IInv
<1> SUFFICES ASSUME Init PROVE IInv
  OBVIOUS
<1>1. \A n \in Node : Known(n) = {}
  BY DEF Init, NoRoutes, Known
<1>2. TypeOK
  <2>1. 0 \in Hop /\ Cardinality({}) = 0
    BY FS_EmptySet, DsdvAssumption DEF Hop
  <2>2. TableFits
    BY <1>1, <2>1, DsdvAssumption DEF TableFits
  <2> HIDE DEF Hop
  <2> QED BY <2>1, <2>2 DEF Init, NoRoutes, TypeOK
<1> QED
  BY <1>1, <1>2
     DEF Init, IInv, Silent, Honest, TablesCarried, FramesCarried, RoutesLeadHome,
         DataDescends, Broadcasts, DataFrames

LEMMA Invariance ==
  ASSUME Cardinality(Node) <= HopMod
  PROVE  Spec => []IInv
<1>1. IInv /\ [Next]_vars => IInv'
  BY InductiveStep
<1> QED BY <1>1, Initially, PTL DEF Spec

(***************************************************************************)
(* In a network of at most 256 nodes the members stay in their types, the  *)
(* table within TABLE_SIZE (dsdv_routing.h, routing_table_static_array.h). *)
(***************************************************************************)
THEOREM TypeCorrect ==
  ASSUME Cardinality(Node) <= HopMod
  PROVE  Spec => []TypeOK
<1>1. IInv => TypeOK
  BY DEF IInv
<1> QED BY <1>1, Invariance, PTL

(***************************************************************************)
(* Every route leads to its destination by nodes that are strictly closer, *)
(* whatever is lost, late or repeated and however small the tables are     *)
(* (dsdv_routing.h:342-441).                                               *)
(***************************************************************************)
THEOREM NoRoutingLoops ==
  ASSUME Cardinality(Node) <= HopMod
  PROVE  Spec => []RoutesLeadHome
<1>1. IInv => RoutesLeadHome
  BY DEF IInv
<1> QED BY <1>1, Invariance, PTL

(***************************************************************************)
(* The same for a message under way while tables change                    *)
(* (dsdv_routing.h:352-391).                                               *)
(***************************************************************************)
THEOREM DataAlwaysDescends ==
  ASSUME Cardinality(Node) <= HopMod
  PROVE  Spec => []DataDescends
<1>1. IInv => DataDescends
  BY DEF IInv
<1> QED BY <1>1, Invariance, PTL

(***************************************************************************)
(* The uint8_t hop count in an entry never wraps in a network of at most   *)
(* 256 nodes (dsdv_routing.h:396-441).                                     *)
(***************************************************************************)
THEOREM HopsNeverWrap ==
  ASSUME Cardinality(Node) <= HopMod
  PROVE  Spec => []HopsBounded
<1>1. IInv => HopsBounded
  <2> SUFFICES ASSUME IInv, NEW f \in Broadcasts, NEW d \in DOMAIN f.adv
               PROVE  f.adv[d] \in 1..(Cardinality(Node) - 1)
    BY DEF HopsBounded
  <2>1. f.from \in Node /\ f.adv[d] \in Int /\ Carried(f.from, d, f.adv[d])
    BY BroadcastType DEF IInv, FramesCarried, Hop
  <2> QED BY <2>1, CarriedBound
<1> QED BY <1>1, Invariance, PTL

(***************************************************************************)
(* The step of receive(): the receiver joins the tree of every destination *)
(* it takes over, and stays where it was in the others.                    *)
(***************************************************************************)
LEMMA GainJoins ==
  ASSUME IInv, IInv', Cardinality(Node) <= HopMod, NEW dest \in Node,
         NEW n \in Node, NEW f \in Broadcasts, ReceiveBroadcast(n, f)
  PROVE  TreeTo(dest)!Next \/ UNCHANGED TreeTo(dest)!treeVars
<1>1. PICK neighbour, others : Gain(n, f, neighbour, others)
  BY ReceiveGains DEF IInv
<1>2. f.from # n /\ up[n] /\ <<f.from, n>> \in Link /\ up' = up
  BY DEF ReceiveBroadcast
<1>3. /\ \A d \in others : /\ d \in Node /\ f.adv[d] \in 1..(HopMod - 1)
                           /\ f.adv[d] + 1 \in Hop
  BY <1>1, <1>2, GainEffect
<1>4. f.from \in Node /\ up[f.from]
  <2>1. f.from \in Node /\ f \in air
    BY BroadcastType DEF IInv, Broadcasts
  <2> QED BY <2>1 DEF IInv, Silent
<1>5. /\ neighbour \subseteq {f.from} /\ others \subseteq DOMAIN f.adv \ {n, f.from}
      /\ \A d \in others : d \notin Known(n) \/ hops[n][d] > f.adv[d] + 1
  BY <1>1 DEF Gain
<1>6. \A d \in others : (f.adv[d] + 1) % HopMod = f.adv[d] + 1
  BY <1>3, DsdvAssumption DEF Hop
<1>7. \A q, d \in Node :
        /\ next'[q][d] = IF q = n /\ d \in neighbour \cup others THEN f.from
                         ELSE next[q][d]
        /\ hops'[q][d] = IF q = n /\ d \in neighbour THEN 1
                         ELSE IF q = n /\ d \in others THEN f.adv[d] + 1
                         ELSE hops[q][d]
  BY <1>1, <1>6 DEF Gain, Adopt, IInv, TypeOK
<1> DEFINE l == hops'[n][dest]
<1>8. /\ Parents(dest) \in [Node -> Node \cup {Null}]
      /\ Levels(dest) \in [Node -> 0..HopMod]
  BY DsdvAssumption DEF Parents, Levels, IInv, TypeOK, Hop
<1>9. CASE dest \notin neighbour \cup others
  <2>1. \A q \in Node : next'[q][dest] = next[q][dest] /\ hops'[q][dest] = hops[q][dest]
    BY <1>7, <1>9
  <2> QED BY <2>1, <1>2 DEF Parents, Levels, TreeTo!treeVars
<1>10. ASSUME dest \in neighbour \cup others, dest # n,
              Parents(dest)[f.from] # Null,
              Levels(dest)[f.from] < l, l < Levels(dest)[n], l \in 0..HopMod
       PROVE  TreeTo(dest)!Next
  <2>1. Parents(dest)' = [Parents(dest) EXCEPT ![n] = f.from]
    BY <1>2, <1>4, <1>7, <1>8, <1>10 DEF Parents
  <2>2. Levels(dest)' = [Levels(dest) EXCEPT ![n] = l]
    BY <1>2, <1>4, <1>7, <1>8, <1>10, DsdvAssumption DEF Levels
  <2>3. TreeTo(dest)!Join(n, f.from, l)
    BY <2>1, <2>2, <1>2, <1>10 DEF TreeTo!Join, TreeTo!Member
  <2> QED BY <2>3, <1>4, <1>10 DEF TreeTo!Next
<1>11. CASE dest \in others
  <2>1. dest \in DOMAIN f.adv /\ dest # f.from /\ dest # n /\ dest \notin neighbour
    BY <1>5, <1>11
  <2>2. dest \in Known(f.from) /\ hops[f.from][dest] <= f.adv[dest]
    BY <2>1 DEF IInv, Honest
  <2>3. Parents(dest)[f.from] # Null /\ Levels(dest)[f.from] = hops[f.from][dest]
    BY <2>1, <2>2, <1>4, DsdvAssumption DEF Parents, Levels, Known
  <2>4. l = f.adv[dest] + 1 /\ f.adv[dest] \in 1..(HopMod - 1)
    BY <2>1, <1>3, <1>7, <1>11
  <2>5. hops[f.from][dest] \in Int /\ hops[n][dest] \in Int
    BY <1>4 DEF IInv, TypeOK, Hop
  <2>6. Levels(dest)[f.from] < l /\ l \in 0..HopMod
    BY <2>2, <2>3, <2>4, <2>5, DsdvAssumption
  <2>7. l < Levels(dest)[n]
    <3>1. CASE dest \in Known(n)
      <4>1. hops[n][dest] > f.adv[dest] + 1
        BY <3>1, <1>5, <1>11
      <4> QED BY <4>1, <3>1, <2>1, <2>4, <2>5, <1>2 DEF Levels, Known
    <3>2. CASE dest \notin Known(n)
      <4>1. f.adv[dest] + 1 < HopMod
        BY <1>3, <1>11, DsdvAssumption DEF Hop
      <4> QED BY <4>1, <3>2, <2>1, <2>4, <1>2 DEF Levels, Known
    <3> QED BY <3>1, <3>2
  <2> HIDE DEF l
  <2> QED BY <2>1, <2>3, <2>6, <2>7, <1>10, <1>11
<1>12. CASE dest \in neighbour
  <2>1. dest = f.from /\ dest \notin others /\ l = 1 /\ next'[n][dest] = f.from
    BY <1>5, <1>7, <1>12
  <2>2. Parents(dest)[f.from] # Null /\ Levels(dest)[f.from] = 0
    BY <2>1, <1>4, DsdvAssumption DEF Parents, Levels
  <2>3. CASE dest \in Known(n) /\ hops[n][dest] <= 1
    <3>1. Carried(n, dest, hops[n][dest]) /\ Downhill(next[n][dest], dest, hops[n][dest])
      BY <2>3 DEF IInv, TablesCarried, RoutesLeadHome
    <3>2. hops[n][dest] \in Int /\ next[n][dest] \in Node
      BY <2>3 DEF IInv, TypeOK, Hop, Known
    <3>3. hops[n][dest] = 1
      BY <3>1, <3>2, <2>3 DEF Carried
    <3>4. next[n][dest] = dest
      <4>1. SUFFICES ASSUME dest \in Known(next[n][dest]), hops[next[n][dest]][dest] < 1
                     PROVE  FALSE
        BY <3>1, <3>3 DEF Downhill
      <4>2. hops[next[n][dest]][dest] >= 1
        BY <4>1, <3>2 DEF IInv, TablesCarried, Carried
      <4>3. hops[next[n][dest]][dest] \in Int
        BY <3>2 DEF IInv, TypeOK, Hop
      <4> QED BY <4>1, <4>2, <4>3
    <3>5. \A q \in Node : next'[q][dest] = next[q][dest] /\ hops'[q][dest] = hops[q][dest]
      BY <3>3, <3>4, <2>1, <1>7, <1>12
    <3> QED BY <3>5, <1>2 DEF Parents, Levels, TreeTo!treeVars
  <2>4. CASE ~(dest \in Known(n) /\ hops[n][dest] <= 1)
    <3>1. hops[n][dest] \in Int
      BY DEF IInv, TypeOK, Hop
    <3>2. 1 < Levels(dest)[n]
      BY <3>1, <2>1, <2>4, <1>2, DsdvAssumption DEF Levels, Known
    <3>3. Levels(dest)[f.from] < l /\ l < Levels(dest)[n] /\ l \in 0..HopMod
      BY <3>2, <2>1, <2>2, DsdvAssumption
    <3> HIDE DEF l
    <3> QED BY <3>3, <2>1, <2>2, <1>2, <1>10, <1>12
  <2> QED BY <2>3, <2>4
<1> QED BY <1>9, <1>11, <1>12

(***************************************************************************)
(* A node that boots is the root of its own tree and alone in the others.  *)
(***************************************************************************)
LEMMA EnableStarts ==
  ASSUME IInv, NEW dest \in Node, NEW n \in Node, Enable(n)
  PROVE  TreeTo(dest)!Next
<1>1. ~up[n] /\ up' = [up EXCEPT ![n] = TRUE] /\ next[n][dest] = Null
  BY DEF Enable, InitRouting, IInv, Silent, Known
<1>2. \A q \in Node : /\ next'[q][dest] = next[q][dest]
                      /\ q # n => hops'[q][dest] = hops[q][dest]
  BY <1>1 DEF Enable, InitRouting, ClearTable, IInv, TypeOK
<1>3. \A q \in Node : up'[q] = IF q = n THEN TRUE ELSE up[q]
  BY <1>1 DEF IInv, TypeOK
<1>4. CASE n = dest
  <2>1. Parents(dest)' = [Parents(dest) EXCEPT ![n] = n]
    BY <1>2, <1>3, <1>4 DEF Parents
  <2>2. Levels(dest)' = [Levels(dest) EXCEPT ![n] = 0]
    BY <1>2, <1>3, <1>4 DEF Levels
  <2>3. TreeTo(dest)!Start(n, n, 0)
    BY <2>1, <2>2, <1>1 DEF TreeTo!Start
  <2> QED BY <2>3 DEF TreeTo!Next
<1>5. CASE n # dest
  <2>1. Parents(dest)' = [Parents(dest) EXCEPT ![n] = Null]
    BY <1>1, <1>2, <1>3, <1>5 DEF Parents
  <2>2. Levels(dest)' = [Levels(dest) EXCEPT ![n] = HopMod]
    BY <1>1, <1>2, <1>3, <1>5 DEF Levels
  <2>3. TreeTo(dest)!Start(n, Null, HopMod)
    BY <2>1, <2>2, <1>1 DEF TreeTo!Start
  <2> QED BY <2>3 DEF TreeTo!Next
<1> QED BY <1>4, <1>5

(***************************************************************************)
(* For every destination the routes are a GradientTree with its root       *)
(* there, whatever is lost, late or repeated and however small the tables  *)
(* are (dsdv_routing.h:396-441).                                           *)
(***************************************************************************)
THEOREM RoutesAreTrees ==
  ASSUME Cardinality(Node) <= HopMod
  PROVE  Spec => RoutesMakeTrees
<1>1. Init => TreesInit
  <2> SUFFICES ASSUME Init, NEW dest \in Node PROVE TreeTo(dest)!Init
    BY DEF TreesInit
  <2>1. /\ up = [n \in Node |-> FALSE]
        /\ Parents(dest) = [n \in Node |-> Null]
        /\ Levels(dest) = [n \in Node |-> 0]
    BY DEF Init, NoRoutes, Parents, Levels
  <2> QED BY <2>1 DEF TreeTo!Init
<1>2. IInv /\ IInv' /\ [Next]_vars => [TreesStep]_vars
  <2> SUFFICES ASSUME IInv, IInv', Next, NEW dest \in Node
               PROVE  UNCHANGED TreeTo(dest)!treeVars \/ TreeTo(dest)!Next
    BY DEF TreesStep
  <2>1. ASSUME NEW n \in Node, Enable(n) PROVE TreeTo(dest)!Next
    BY <2>1, EnableStarts
  <2>2. ASSUME NEW n \in Node, NEW f \in Broadcasts, ReceiveBroadcast(n, f)
        PROVE  TreeTo(dest)!Next \/ UNCHANGED TreeTo(dest)!treeVars
    BY <2>2, GainJoins
  <2>3. CASE UNCHANGED <<next, hops, up>>
    BY <2>3 DEF Parents, Levels, TreeTo!treeVars
  <2> QED
    BY <2>1, <2>2, <2>3
       DEF Next, Operate, TimerElapsed, DeliverData, ForwardData, Send
<1>3. Spec => []IInv
  BY Invariance
<1> QED BY <1>1, <1>2, <1>3, PTL DEF Spec, RoutesMakeTrees
==============================================================================
