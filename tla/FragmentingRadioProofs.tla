----------------------- MODULE FragmentingRadioProofs ------------------------
(***************************************************************************)
(* Proofs about FragmentingRadio, for any nodes and flows, any lengths of  *)
(* payloads and fragments, and any sizes of the buffers.                   *)
(***************************************************************************)
EXTENDS FragmentingRadio, FiniteSetTheorems, SequenceTheorems, TLAPS

(***************************************************************************)
(* A function on the places of a sequence is a sequence of that length.    *)
(***************************************************************************)
LEMMA Rewritten ==
  ASSUME NEW S, NEW T, NEW s \in Seq(S), NEW r, r \in [DOMAIN s -> T]
  PROVE  r \in Seq(T) /\ Len(r) = Len(s) /\ DOMAIN r = DOMAIN s
<1>1. Len(s) \in Nat /\ DOMAIN s = 1..Len(s)
  BY LenProperties
<1>2. r \in Seq(T)
  BY <1>1
<1> QED BY <1>1, <1>2

LEMMA Appended ==
  ASSUME NEW S, NEW s \in Seq(S), NEW e \in S
  PROVE  /\ Append(s, e) \in Seq(S)
         /\ DOMAIN Append(s, e) = 1..Len(s) + 1 /\ DOMAIN s = 1..Len(s) /\ Len(s) \in Nat
         /\ Len(Append(s, e)) = Len(s) + 1
         /\ \A i \in DOMAIN Append(s, e) : \/ i \in DOMAIN s /\ Append(s, e)[i] = s[i]
                                           \/ i = Len(s) + 1 /\ Append(s, e)[i] = e
         /\ Append(s, e)[Len(s) + 1] = e
OBVIOUS

(***************************************************************************)
(* N different numbers below N are all of them, and if they ascend each is *)
(* at its place: as many fit below it as are before it, and above it as    *)
(* are after it.                                                           *)
(***************************************************************************)
LEMMA Intervals ==
  \A a, b \in Int : a <= b + 1 => /\ IsFiniteSet(a..b)
                                 /\ Cardinality(a..b) = b - a + 1
<1> SUFFICES ASSUME NEW a \in Int, NEW b \in Int, a <= b + 1
             PROVE  IsFiniteSet(a..b) /\ Cardinality(a..b) = b - a + 1
  OBVIOUS
<1>1. IsFiniteSet(a..b) /\ Cardinality(a..b) = IF a > b THEN 0 ELSE b - a + 1
  BY FS_Interval, Zenon
<1> QED BY <1>1

LEMMA BothSides ==
  \A N \in Nat : \A v \in 0..N - 1, i \in 1..N :
    /\ IsFiniteSet(0..v) /\ Cardinality(0..v) = v + 1
    /\ IsFiniteSet(v..N - 1) /\ Cardinality(v..N - 1) = N - v
    /\ IsFiniteSet(1..i) /\ Cardinality(1..i) = i
    /\ IsFiniteSet(i..N) /\ Cardinality(i..N) = N - i + 1
<1> SUFFICES ASSUME NEW N \in Nat, NEW v \in 0..N - 1, NEW i \in 1..N
             PROVE  /\ IsFiniteSet(0..v) /\ Cardinality(0..v) = v + 1
                    /\ IsFiniteSet(v..N - 1) /\ Cardinality(v..N - 1) = N - v
                    /\ IsFiniteSet(1..i) /\ Cardinality(1..i) = i
                    /\ IsFiniteSet(i..N) /\ Cardinality(i..N) = N - i + 1
  OBVIOUS
<1>1. IsFiniteSet(0..v) /\ Cardinality(0..v) = v - 0 + 1
  BY Intervals
<1>2. IsFiniteSet(v..N - 1) /\ Cardinality(v..N - 1) = N - 1 - v + 1
  BY Intervals
<1>3. IsFiniteSet(1..i) /\ Cardinality(1..i) = i - 1 + 1
  BY Intervals
<1>4. IsFiniteSet(i..N) /\ Cardinality(i..N) = N - i + 1
  BY Intervals
<1> QED BY <1>1, <1>2, <1>3, <1>4

LEMMA AllNumbers ==
  ASSUME NEW N \in Nat, NEW q \in [1..N -> 0..N - 1],
         \A i, j \in 1..N : i # j => q[i] # q[j]
  PROVE  \A x \in 0..N - 1 : \E i \in 1..N : q[i] = x
<1>1. q \in Injection(1..N, 0..N - 1)
  BY DEF Injection, IsInjective
<1>2. /\ IsFiniteSet(1..N) /\ Cardinality(1..N) = N
      /\ IsFiniteSet(0..N - 1) /\ Cardinality(0..N - 1) = N
  BY Intervals
<1>3. q \in Surjection(1..N, 0..N - 1)
  BY <1>1, <1>2, FS_Injection
<1> QED BY <1>3 DEF Surjection

LEMMA Ascending ==
  ASSUME NEW N \in Nat, NEW q \in [1..N -> 0..N - 1],
         \A i, j \in 1..N : i < j => q[i] < q[j]
  PROVE  \A i \in 1..N : q[i] = i - 1
<1> SUFFICES ASSUME NEW i \in 1..N PROVE q[i] = i - 1
  OBVIOUS
<1> DEFINE below == [j \in 1..i |-> q[j]]
           above == [j \in i..N |-> q[j]]
<1>1. /\ IsFiniteSet(0..q[i]) /\ Cardinality(0..q[i]) = q[i] + 1
      /\ IsFiniteSet(q[i]..N - 1) /\ Cardinality(q[i]..N - 1) = N - q[i]
      /\ IsFiniteSet(1..i) /\ Cardinality(1..i) = i
      /\ IsFiniteSet(i..N) /\ Cardinality(i..N) = N - i + 1
  <2>1. q[i] \in 0..N - 1
    OBVIOUS
  <2> QED BY <2>1, BothSides
<1>2. below \in Injection(1..i, 0..q[i])
  <2>1. ASSUME NEW j \in 1..i
        PROVE  j \in 1..N /\ q[j] \in 0..q[i]
    <3>1. j \in 1..N /\ i \in 1..N /\ (j = i \/ j < i)
      OBVIOUS
    <3>2. q[j] \in 0..N - 1 /\ q[i] \in 0..N - 1 /\ (j < i => q[j] < q[i])
      BY <3>1
    <3>3. q[j] <= q[i]
      BY <3>1, <3>2
    <3> QED BY <3>1, <3>2, <3>3
  <2>2. below \in [1..i -> 0..q[i]]
    BY <2>1
  <2>3. \A j, k \in 1..i : j # k => below[j] # below[k]
    BY <2>1
  <2> HIDE DEF below
  <2> QED BY <2>2, <2>3 DEF Injection, IsInjective
<1>3. above \in Injection(i..N, q[i]..N - 1)
  <2>1. ASSUME NEW j \in i..N
        PROVE  j \in 1..N /\ q[j] \in q[i]..N - 1
    <3>1. j \in 1..N /\ i \in 1..N /\ (j = i \/ i < j)
      OBVIOUS
    <3>2. q[j] \in 0..N - 1 /\ q[i] \in 0..N - 1 /\ (i < j => q[i] < q[j])
      BY <3>1
    <3>3. q[i] <= q[j]
      BY <3>1, <3>2
    <3> QED BY <3>1, <3>2, <3>3
  <2>2. above \in [i..N -> q[i]..N - 1]
    BY <2>1
  <2>3. \A j, k \in i..N : j # k => above[j] # above[k]
    BY <2>1
  <2> HIDE DEF above
  <2> QED BY <2>2, <2>3 DEF Injection, IsInjective
<1>4. i <= q[i] + 1
  BY <1>1, <1>2, FS_Injection
<1>5. N - i + 1 <= N - q[i]
  BY <1>1, <1>3, FS_Injection
<1> QED BY <1>4, <1>5

(***************************************************************************)
(* The numbers of fragments: those that are made are below the total.      *)
(***************************************************************************)
LEMMA Totals ==
  ASSUME NEW len \in Nat
  PROVE  Total(len) \in Nat /\ Made(len) \in Int /\ Made(len) <= Total(len)
<1>1. FragLen \in Nat /\ FragLen > 0 /\ MaxFragments \in Nat
  BY FragmentingAssumption
<1>2. len + FragLen - 1 \in Nat
  BY <1>1
<1>3. Total(len) \in Nat
  BY <1>1, <1>2 DEF Total
<1> QED BY <1>1, <1>3 DEF Made

-----------------------------------------------------------------------------
(***************************************************************************)
(* The inductive invariant.  A frame on a flow is of a message of that     *)
(* flow, and so is what a slot holds; the fragments of a slot have its id  *)
(* and differ.                                                             *)
(***************************************************************************)
AnyFrame == FragmentFrame \cup WholeFrame
Slot == [id : Id, active : BOOLEAN, frags : Seq(FragmentFrame)]
Message == [from : Node, to : Node, len : Nat, ids : SUBSET Id]
Handed == [from : Node, parts : Seq(Nat \X Nat)]

Typed == /\ status \in [Node -> {"active", "waiting"}]
         /\ callbacks \in [Node -> 0..MaxProtocols]
         /\ slots \in [Node -> Seq(Slot)]
         /\ link \in [Flow -> Seq(AnyFrame)]
         /\ sent \in Seq(Message)
         /\ handed \in [Node -> SUBSET Handed]
         /\ twice \in [Node -> SUBSET Nat]

Sized == \A n \in Node :
           /\ Len(slots[n]) <= MaxSlots
           /\ \A i \in DOMAIN slots[n] : Len(slots[n][i].frags) \in 1..MaxFragments

Genuine(f) ==
  /\ f.msg \in DOMAIN sent
  /\ f.type = "fragment" => /\ sent[f.msg].len > MaxWhole
                            /\ f.id \in sent[f.msg].ids
                            /\ f.total = Total(sent[f.msg].len)
                            /\ f.seq < f.total
  /\ f.type = "whole" => sent[f.msg].len <= MaxWhole

LinksGenuine == \A e \in Flow : \A i \in DOMAIN link[e] :
                  Genuine(link[e][i]) /\ FlowOf(link[e][i].msg) = e

Collected(n, t) ==
  /\ \A j \in DOMAIN t.frags : /\ Genuine(t.frags[j])
                               /\ sent[t.frags[j].msg].to = n
                               /\ t.frags[j].id = t.id
  /\ \A j, k \in DOMAIN t.frags : j # k => t.frags[j].seq # t.frags[k].seq

SlotsCollected == \A n \in Node : \A i \in DOMAIN slots[n] : Collected(n, slots[n][i])

(***************************************************************************)
(* On an orderly flow the parts of a message are under way in order, and   *)
(* those that have come, to a slot or to a callback, are before them.      *)
(***************************************************************************)
Place(f) == IF f.type = "fragment" THEN f.seq ELSE 0

LinksAscend == \A e \in Orderly : \A i, j \in DOMAIN link[e] :
  i < j /\ link[e][i].msg = link[e][j].msg => Place(link[e][i]) < Place(link[e][j])

InOrderOnly(t) == \A j, k \in DOMAIN t.frags :
  j < k /\ t.frags[j].msg = t.frags[k].msg /\ FlowOf(t.frags[j].msg) \in Orderly
    => t.frags[j].seq < t.frags[k].seq

SlotsAscend == \A n \in Node : \A i \in DOMAIN slots[n] : InOrderOnly(slots[n][i])

Came(n, k, p) ==
  \/ \E i \in DOMAIN slots[n] : \E j \in DOMAIN slots[n][i].frags :
       slots[n][i].frags[j].msg = k /\ slots[n][i].frags[j].seq = p
  \/ \E h \in handed[n] : \E x \in DOMAIN h.parts : h.parts[x] = <<k, p>>

Past == \A e \in Orderly : \A i \in DOMAIN link[e] : \A p \in Nat :
          Came(e[2], link[e][i].msg, p) => p < Place(link[e][i])

Known == \A n \in Node :
           /\ \A h \in handed[n] : \A x \in DOMAIN h.parts : h.parts[x][1] \in DOMAIN sent
           /\ twice[n] \subseteq DOMAIN sent

NotTwice == \A n \in Node : \A k \in twice[n] : ~(OwnId(k) /\ FlowOf(k) \in Orderly)

IInv == /\ Typed /\ Sized
        /\ LinksGenuine /\ SlotsCollected
        /\ LinksAscend /\ SlotsAscend /\ Past
        /\ Known /\ NotTwice /\ AllOfOne /\ Intact

-----------------------------------------------------------------------------
(***************************************************************************)
(* What a slot is after a fragment: as it was, with the fragment added, or *)
(* a new one.                                                              *)
(***************************************************************************)
Grown(n, f, t) ==
  \/ \E i \in DOMAIN slots[n] : t.id = slots[n][i].id /\ t.frags = slots[n][i].frags
  \/ /\ f.type = "fragment" /\ t.id = f.id
     /\ \/ t.frags = <<f>>
        \/ \E i \in DOMAIN slots[n] :
             /\ slots[n][i].id = f.id /\ ~Has(slots[n][i], f)
             /\ Len(slots[n][i].frags) < MaxFragments
             /\ t.frags = Append(slots[n][i].frags, f)

\* What is said of a frame or a slot depends on the messages sent alone.
LEMMA SaidOfSent ==
  ASSUME UNCHANGED sent
  PROVE  /\ \A f : Genuine(f) => Genuine(f)'
         /\ \A n, t : Collected(n, t) => Collected(n, t)'
         /\ \A t : InOrderOnly(t) => InOrderOnly(t)'
<1>1. \A f : Genuine(f) => Genuine(f)'
  BY DEF Genuine
<1>2. ASSUME NEW n, NEW t, Collected(n, t)
      PROVE  Collected(n, t)'
  <2>1. ASSUME NEW j \in DOMAIN t.frags
        PROVE  /\ Genuine(t.frags[j])' /\ t.frags[j].id = t.id
               /\ sent'[t.frags[j].msg].to = n
    BY <1>1, <1>2 DEF Collected
  <2>2. \A j, k \in DOMAIN t.frags : j # k => t.frags[j].seq # t.frags[k].seq
    BY <1>2 DEF Collected
  <2> QED BY <2>1, <2>2 DEF Collected
<1>3. \A t : InOrderOnly(t) => InOrderOnly(t)'
  BY DEF InOrderOnly, FlowOf
<1> QED BY <1>1, <1>2, <1>3

LEMMA SlotsSame ==
  ASSUME IInv, UNCHANGED <<slots, sent>>
  PROVE  Sized' /\ SlotsCollected' /\ SlotsAscend'
<1>1. Sized'
  BY DEF IInv, Sized
<1>2. ASSUME NEW n \in Node, NEW i \in DOMAIN slots'[n]
      PROVE  Collected(n, slots[n][i])' /\ InOrderOnly(slots[n][i])'
  <2>1. PICK t : t = slots'[n][i]
    OBVIOUS
  <2>2. Collected(n, t) /\ InOrderOnly(t)
    BY <2>1 DEF IInv, SlotsCollected, SlotsAscend
  <2>3. Collected(n, t)' /\ InOrderOnly(t)'
    BY <2>2, SaidOfSent
  <2>4. Collected(n, slots[n][i])'
    BY <2>1, <2>3 DEF Collected
  <2>5. InOrderOnly(slots[n][i])'
    BY <2>1, <2>3 DEF InOrderOnly
  <2> QED BY <2>4, <2>5
<1> QED BY <1>1, <1>2 DEF SlotsCollected, SlotsAscend

AllParts(k, total) == [j \in 1..total |-> <<k, j - 1>>]

LEMMA IntactStays ==
  ASSUME IInv, UNCHANGED <<handed, twice>>,
         \A k \in DOMAIN sent : /\ FlowOf(k)' = FlowOf(k) /\ Parts(k)' = Parts(k)
                                /\ OwnId(k)' => OwnId(k)
  PROVE  Intact'
<1>1. ASSUME NEW n \in Node, NEW h \in handed[n], NEW x \in DOMAIN h.parts,
             NEW k, k = h.parts[x][1], OwnId(k)', FlowOf(k)' \in Orderly
      PROVE  h.parts = AllParts(k, Parts(k)') /\ k \notin twice[n]
  <2>1. k \in DOMAIN sent
    BY <1>1 DEF IInv, Known
  <2>2. OwnId(k) /\ FlowOf(k) \in Orderly /\ Parts(k)' = Parts(k)
    BY <1>1, <2>1
  <2>3. Intact
    BY DEF IInv
  <2>4. OwnId(h.parts[x][1]) /\ FlowOf(h.parts[x][1]) \in Orderly =>
          /\ h.parts = AllParts(h.parts[x][1], Parts(h.parts[x][1]))
          /\ h.parts[x][1] \notin twice[n]
    BY <2>3, Zenon DEF Intact, AllParts
  <2> QED BY <1>1, <2>2, <2>4
<1>2. ASSUME NEW n \in Node, NEW h \in handed'[n], NEW x \in DOMAIN h.parts,
             OwnId(h.parts[x][1])', FlowOf(h.parts[x][1])' \in Orderly
      PROVE  /\ h.parts = AllParts(h.parts[x][1], Parts(h.parts[x][1])')
             /\ h.parts[x][1] \notin twice'[n]
  <2>1. PICK k : k = h.parts[x][1]
    OBVIOUS
  <2>2. OwnId(k)' /\ FlowOf(k)' \in Orderly /\ Parts(k)' = Parts(h.parts[x][1])'
    BY <1>2, <2>1 DEF OwnId, FlowOf, Parts
  <2> QED BY <1>1, <2>1, <2>2
<1> QED BY <1>2, Zenon DEF Intact, AllParts

LEMMA IntactSame ==
  ASSUME IInv, UNCHANGED <<sent, handed, twice>>
  PROVE  Intact'
<1>1. ASSUME NEW k \in DOMAIN sent
      PROVE  FlowOf(k)' = FlowOf(k) /\ Parts(k)' = Parts(k) /\ (OwnId(k)' => OwnId(k))
  BY DEF FlowOf, Parts, OwnId
<1> QED BY <1>1, IntactStays

LEMMA SlotTypes ==
  ASSUME Typed, Sized, NEW n \in Node
  PROVE  /\ slots[n] \in Seq(Slot) /\ Len(slots[n]) \in Nat
         /\ DOMAIN slots[n] = 1..Len(slots[n])
         /\ \A i \in DOMAIN slots[n] :
              /\ slots[n][i] \in Slot
              /\ slots[n][i].frags \in Seq(FragmentFrame)
              /\ Len(slots[n][i].frags) \in 1..MaxFragments
              /\ DOMAIN slots[n][i].frags = 1..Len(slots[n][i].frags)
<1>1. slots[n] \in Seq(Slot)
  BY DEF Typed
<1>2. Len(slots[n]) \in Nat /\ DOMAIN slots[n] = 1..Len(slots[n])
  BY <1>1
<1>3. ASSUME NEW i \in DOMAIN slots[n]
      PROVE  /\ slots[n][i] \in Slot /\ slots[n][i].frags \in Seq(FragmentFrame)
             /\ DOMAIN slots[n][i].frags = 1..Len(slots[n][i].frags)
  <2>1. slots[n][i] \in Slot
    BY <1>1, <1>2
  <2> QED BY <2>1 DEF Slot
<1> QED BY <1>1, <1>2, <1>3 DEF Sized

LEMMA InsertedGrown ==
  ASSUME Typed, Sized, NEW n \in Node, NEW f \in FragmentFrame, NEW i \in Matching(n, f)
  PROVE  LET t == InsertUnique(slots[n][i], f)
         IN  t \in Slot /\ t.id = f.id /\ Grown(n, f, t)
<1> DEFINE s == slots[n][i]
           t == InsertUnique(s, f)
<1>1. i \in DOMAIN slots[n] /\ s.id = f.id
  BY DEF Matching
<1>2. s \in Slot /\ s.frags \in Seq(FragmentFrame) /\ Len(s.frags) \in 1..MaxFragments
  BY <1>1, SlotTypes
<1>3. CASE t = s
  BY <1>1, <1>2, <1>3 DEF Grown
<1>4. CASE t # s
  <2>1. /\ ~Has(s, f) /\ Len(s.frags) # MaxFragments
        /\ t = [s EXCEPT !.frags = Append(s.frags, f)]
    BY <1>4 DEF InsertUnique
  <2>2. Append(s.frags, f) \in Seq(FragmentFrame)
    BY <1>2
  <2>3. t \in Slot /\ t.id = f.id /\ t.frags = Append(s.frags, f)
    BY <1>1, <1>2, <2>1, <2>2 DEF Slot
  <2>4. f.type = "fragment"
    BY DEF FragmentFrame
  <2>5. Len(s.frags) < MaxFragments
    BY <1>2, <2>1, FragmentingAssumption
  <2> QED BY <1>1, <2>1, <2>3, <2>4, <2>5 DEF Grown
<1> QED BY <1>3, <1>4

LEMMA NewGrown ==
  ASSUME NEW n \in Node, NEW f \in FragmentFrame
  PROVE  LET t == [id |-> f.id, active |-> TRUE, frags |-> <<f>>]
         IN  t \in Slot /\ Grown(n, f, t)
<1>1. <<f>> \in Seq(FragmentFrame) /\ f.id \in Id /\ f.type = "fragment"
  BY DEF FragmentFrame
<1> QED BY <1>1 DEF Slot, Grown

(***************************************************************************)
(* What a step of receive() does to the slots.                             *)
(***************************************************************************)
LEMMA ReceivedSlots ==
  ASSUME Typed, Sized, NEW n \in Node, NEW s \in Node, NEW f \in AnyFrame, Receive(n, s, f)
  PROVE  /\ slots' \in [Node -> Seq(Slot)]
         /\ Len(slots'[n]) <= MaxSlots
         /\ \A m \in Node \ {n} : slots'[m] = slots[m]
         /\ \A i \in DOMAIN slots'[n] : Grown(n, f, slots'[n][i])
<1> DEFINE S == slots[n]
<1>1. S \in Seq(Slot) /\ Len(S) \in Nat /\ DOMAIN S = 1..Len(S) /\ Len(S) <= MaxSlots
      /\ slots \in [Node -> Seq(Slot)] /\ MaxSlots \in Nat
  BY SlotTypes, FragmentingAssumption DEF Typed, Sized
<1>2. \A i \in DOMAIN S : S[i] \in Slot /\ Grown(n, f, S[i])
  BY SlotTypes DEF Grown
<1>3. ASSUME NEW r \in Seq(Slot), Len(r) <= MaxSlots, slots' = [slots EXCEPT ![n] = r],
             \A i \in DOMAIN r : Grown(n, f, r[i])
      PROVE  /\ slots' \in [Node -> Seq(Slot)]
             /\ Len(slots'[n]) <= MaxSlots
             /\ \A m \in Node \ {n} : slots'[m] = slots[m]
             /\ \A i \in DOMAIN slots'[n] : Grown(n, f, slots'[n][i])
  BY <1>1, <1>3
<1>4. ASSUME NEW r, slots' = [slots EXCEPT ![n] = r], r \in [DOMAIN S -> Slot],
             \A i \in DOMAIN S : Grown(n, f, r[i])
      PROVE  /\ slots' \in [Node -> Seq(Slot)]
             /\ Len(slots'[n]) <= MaxSlots
             /\ \A m \in Node \ {n} : slots'[m] = slots[m]
             /\ \A i \in DOMAIN slots'[n] : Grown(n, f, slots'[n][i])
  <2>1. r \in Seq(Slot) /\ Len(r) = Len(S) /\ DOMAIN r = DOMAIN S
    BY <1>1, <1>4, Rewritten
  <2> QED BY <1>1, <1>3, <1>4, <2>1
<1>5. CASE f.type = "whole" /\ UNCHANGED slots
  BY <1>1, <1>2, <1>5
<1>6. CASE f.type = "fragment" /\ Collect(n, s, f)
  <2>1. f \in FragmentFrame
    BY <1>6 DEF AnyFrame, WholeFrame
  <2>2. \A i \in Matching(n, f) : /\ InsertUnique(S[i], f) \in Slot
                                  /\ InsertUnique(S[i], f).id = f.id
                                  /\ Grown(n, f, InsertUnique(S[i], f))
    BY <2>1, InsertedGrown
  <2>3. CASE slots' = [slots EXCEPT ![n] = [i \in DOMAIN S |->
               IF i \in Matching(n, f) THEN InsertUnique(S[i], f) ELSE S[i]]]
    <3> DEFINE r == [i \in DOMAIN S |->
                       IF i \in Matching(n, f) THEN InsertUnique(S[i], f) ELSE S[i]]
    <3>1. r \in [DOMAIN S -> Slot] /\ \A i \in DOMAIN S : Grown(n, f, r[i])
      BY <1>2, <2>2
    <3> QED BY <1>4, <2>3, <3>1
  <2>4. ASSUME NEW done \in Completed(n, f),
               slots' = [slots EXCEPT ![n] = [i \in DOMAIN S |->
                 IF i = done THEN [InsertUnique(S[done], f) EXCEPT !.active = FALSE]
                 ELSE IF i < done /\ i \in Matching(n, f) THEN InsertUnique(S[i], f)
                 ELSE S[i]]]
        PROVE  /\ slots' \in [Node -> Seq(Slot)]
               /\ Len(slots'[n]) <= MaxSlots
               /\ \A m \in Node \ {n} : slots'[m] = slots[m]
               /\ \A i \in DOMAIN slots'[n] : Grown(n, f, slots'[n][i])
    <3> DEFINE full == [InsertUnique(S[done], f) EXCEPT !.active = FALSE]
               r == [i \in DOMAIN S |->
                       IF i = done THEN full
                       ELSE IF i < done /\ i \in Matching(n, f) THEN InsertUnique(S[i], f)
                       ELSE S[i]]
    <3>1. done \in Matching(n, f)
      BY DEF Completed
    <3>2. full \in Slot /\ Grown(n, f, full)
      <4> DEFINE u == InsertUnique(S[done], f)
      <4>1. u \in Slot /\ Grown(n, f, u)
        BY <2>2, <3>1
      <4> HIDE DEF u
      <4>2. /\ [u EXCEPT !.active = FALSE] \in Slot
            /\ [u EXCEPT !.active = FALSE].id = u.id
            /\ [u EXCEPT !.active = FALSE].frags = u.frags
        BY <4>1 DEF Slot
      <4> QED BY <4>1, <4>2 DEF Grown, u
    <3> HIDE DEF full
    <3>3. r \in [DOMAIN S -> Slot] /\ \A i \in DOMAIN S : Grown(n, f, r[i])
      BY <1>2, <2>2, <3>2
    <3> QED BY <1>4, <2>4, <3>3 DEF full
  <2> QED BY <1>6, <2>3, <2>4 DEF Collect
<1>7. CASE f.type = "fragment" /\ MakeSlot(n, f)
  <2> DEFINE idle == {i \in DOMAIN S : ~S[i].active}
             new == [id |-> f.id, active |-> TRUE, frags |-> <<f>>]
  <2>1. f \in FragmentFrame
    BY <1>7 DEF AnyFrame, WholeFrame
  <2>2. new \in Slot /\ Grown(n, f, new)
    BY <2>1, NewGrown
  <2>3. CASE idle # {}
    <3> DEFINE r == [i \in DOMAIN S |-> IF i \in idle THEN new ELSE S[i]]
    <3>1. slots' = [slots EXCEPT ![n] = r]
      BY <1>7, <2>3 DEF MakeSlot
    <3> HIDE DEF new
    <3>2. r \in [DOMAIN S -> Slot] /\ \A i \in DOMAIN S : Grown(n, f, r[i])
      BY <1>2, <2>2
    <3> QED BY <1>4, <3>1, <3>2
  <2>4. CASE idle = {} /\ Len(S) < MaxSlots
    <3> DEFINE r == Append(S, new)
    <3>1. slots' = [slots EXCEPT ![n] = r]
      BY <1>7, <2>4 DEF MakeSlot
    <3> HIDE DEF new
    <3>2. r \in Seq(Slot) /\ Len(r) = Len(S) + 1
      BY <1>1, <2>2
    <3>3. \A i \in DOMAIN r : r[i] = new \/ (i \in DOMAIN S /\ r[i] = S[i])
      BY <1>1, <2>2, Appended
    <3> QED BY <1>1, <1>2, <1>3, <2>2, <2>4, <3>1, <3>2, <3>3
  <2>5. CASE idle = {} /\ ~(Len(S) < MaxSlots)
    <3>1. slots' = [slots EXCEPT ![n] = S]
      BY <1>7, <2>5 DEF MakeSlot
    <3> QED BY <1>1, <1>2, <1>3, <3>1
  <2> QED BY <2>3, <2>4, <2>5
<1> QED BY <1>5, <1>6, <1>7 DEF Receive

(***************************************************************************)
(* The same, fragment by fragment.                                         *)
(***************************************************************************)
Extended(n, f, t) ==
  \/ \E i \in DOMAIN slots[n] : t.id = slots[n][i].id /\ t.frags = slots[n][i].frags
  \/ /\ f.type = "fragment" /\ t.id = f.id /\ t.frags[1] = f
     /\ DOMAIN t.frags = {1}
  \/ \E i \in DOMAIN slots[n] : \E len \in Nat :
       /\ f.type = "fragment" /\ t.id = f.id /\ slots[n][i].id = f.id
       /\ DOMAIN slots[n][i].frags = 1..len /\ DOMAIN t.frags = 1..len + 1
       /\ t.frags[len + 1] = f
       /\ \A j \in 1..len : /\ t.frags[j] = slots[n][i].frags[j]
                            /\ slots[n][i].frags[j].seq # f.seq

LEMMA GrownFrags ==
  ASSUME Typed, Sized, NEW n \in Node, NEW f \in AnyFrame, NEW t \in Slot, Grown(n, f, t)
  PROVE  /\ t.frags \in Seq(FragmentFrame) /\ Len(t.frags) \in 1..MaxFragments
         /\ DOMAIN t.frags = 1..Len(t.frags)
         /\ Extended(n, f, t)
<1> t.frags \in Seq(FragmentFrame) /\ DOMAIN t.frags = 1..Len(t.frags)
  BY DEF Slot
<1> MaxFragments \in Nat /\ MaxFragments >= 1
  BY FragmentingAssumption
<1>1. CASE \E i \in DOMAIN slots[n] : t.id = slots[n][i].id /\ t.frags = slots[n][i].frags
  BY <1>1, SlotTypes DEF Extended
<1>2. CASE f.type = "fragment" /\ t.id = f.id /\ t.frags = <<f>>
  BY <1>2 DEF Extended
<1>3. ASSUME NEW i \in DOMAIN slots[n], f.type = "fragment", t.id = f.id,
             slots[n][i].id = f.id, ~Has(slots[n][i], f),
             Len(slots[n][i].frags) < MaxFragments,
             t.frags = Append(slots[n][i].frags, f)
      PROVE  Len(t.frags) \in 1..MaxFragments /\ Extended(n, f, t)
  <2> DEFINE old == slots[n][i].frags
             len == Len(old)
  <2>1. old \in Seq(FragmentFrame) /\ len \in 1..MaxFragments /\ DOMAIN old = 1..len
    BY SlotTypes
  <2>2. f \in FragmentFrame
    BY <1>3 DEF AnyFrame, WholeFrame
  <2>3. /\ DOMAIN t.frags = 1..len + 1 /\ Len(t.frags) = len + 1
        /\ t.frags[len + 1] = f
        /\ \A j \in DOMAIN t.frags : (j \in DOMAIN old /\ t.frags[j] = old[j]) \/ j = len + 1
    <3> HIDE DEF old
    <3> QED BY <1>3, <2>1, <2>2, Appended DEF old
  <2>4. \A j \in 1..len : t.frags[j] = old[j]
    BY <2>1, <2>3
  <2>5. \A j \in 1..len : old[j].seq # f.seq
    BY <1>3, <2>1 DEF Has
  <2>6. \E l \in Nat :
          /\ DOMAIN slots[n][i].frags = 1..l /\ DOMAIN t.frags = 1..l + 1
          /\ t.frags[l + 1] = f
          /\ \A j \in 1..l : /\ t.frags[j] = slots[n][i].frags[j]
                             /\ slots[n][i].frags[j].seq # f.seq
    <3> len \in Nat
      BY <2>1
    <3> WITNESS len \in Nat
    <3> QED BY <2>1, <2>3, <2>4, <2>5
  <2>7. Len(t.frags) \in 1..MaxFragments
    BY <1>3, <2>1, <2>3
  <2> QED BY <1>3, <2>6, <2>7 DEF Extended
<1> QED BY <1>1, <1>2, <1>3 DEF Grown

(***************************************************************************)
(* A frame from a flow, and what that says of its message.                 *)
(***************************************************************************)
LEMMA FrameOnFlow ==
  ASSUME IInv, NEW e \in Flow, NEW i \in DOMAIN link[e]
  PROVE  LET f == link[e][i]
         IN  /\ f \in AnyFrame /\ Genuine(f)
             /\ f.msg \in DOMAIN sent /\ FlowOf(f.msg) = e
             /\ e[1] \in Node /\ e[2] \in Node
             /\ sent[f.msg].from = e[1] /\ sent[f.msg].to = e[2]
             /\ Place(f) \in Nat
<1> DEFINE f == link[e][i]
<1>1. f \in AnyFrame
  BY DEF IInv, Typed
<1>2. Genuine(f) /\ FlowOf(f.msg) = e
  BY DEF IInv, LinksGenuine
<1>3. f.msg \in DOMAIN sent
  BY <1>2 DEF Genuine
<1>4. e[1] \in Node /\ e[2] \in Node
  BY FragmentingAssumption
<1>5. Place(f) \in Nat
  BY <1>1 DEF Place, AnyFrame, FragmentFrame, WholeFrame
<1> QED BY <1>1, <1>2, <1>3, <1>4, <1>5 DEF FlowOf

(***************************************************************************)
(* A slot that a fragment completes, by the kinds of its parts.            *)
(***************************************************************************)
LEMMA GrownCollected ==
  ASSUME IInv, NEW n \in Node, NEW f \in AnyFrame, Genuine(f), sent[f.msg].to = n,
         NEW t \in Slot, Grown(n, f, t)
  PROVE  Collected(n, t)
<1> Typed /\ Sized /\ SlotsCollected
  BY DEF IInv
<1>1. CASE \E i \in DOMAIN slots[n] : t.id = slots[n][i].id /\ t.frags = slots[n][i].frags
  BY <1>1 DEF SlotsCollected, Collected
<1>2. CASE f.type = "fragment" /\ t.id = f.id /\ t.frags[1] = f /\ DOMAIN t.frags = {1}
  BY <1>2 DEF Collected
<1>3. ASSUME NEW i \in DOMAIN slots[n], NEW len \in Nat,
             t.id = f.id, slots[n][i].id = f.id,
             DOMAIN slots[n][i].frags = 1..len, DOMAIN t.frags = 1..len + 1,
             t.frags[len + 1] = f,
             \A j \in 1..len : /\ t.frags[j] = slots[n][i].frags[j]
                               /\ slots[n][i].frags[j].seq # f.seq
      PROVE  Collected(n, t)
  <2>1. Collected(n, slots[n][i])
    BY DEF SlotsCollected
  <2>2. \A j \in 1..len : j \in DOMAIN slots[n][i].frags
    BY <1>3
  <2>3. ASSUME NEW j \in 1..len + 1
        PROVE  Genuine(t.frags[j]) /\ sent[t.frags[j].msg].to = n /\ t.frags[j].id = t.id
    <3>1. CASE j \in 1..len
      BY <1>3, <2>1, <2>2, <3>1 DEF Collected
    <3>2. CASE j = len + 1
      BY <1>3, <3>2
    <3> QED BY <3>1, <3>2
  <2>4. ASSUME NEW j \in 1..len + 1, NEW k \in 1..len + 1, j < k
        PROVE  t.frags[j].seq # t.frags[k].seq
    <3>1. j \in 1..len /\ t.frags[j] = slots[n][i].frags[j]
      BY <1>3, <2>4
    <3>2. CASE k \in 1..len
      BY <1>3, <2>1, <2>2, <2>4, <3>1, <3>2 DEF Collected
    <3>3. CASE k = len + 1
      BY <1>3, <3>1, <3>3
    <3> QED BY <3>2, <3>3
  <2>5. \A j, k \in 1..len + 1 : j # k => t.frags[j].seq # t.frags[k].seq
    <3> SUFFICES ASSUME NEW j \in 1..len + 1, NEW k \in 1..len + 1, j # k
                 PROVE  t.frags[j].seq # t.frags[k].seq
      OBVIOUS
    <3>1. j < k \/ k < j
      OBVIOUS
    <3> QED BY <2>4, <3>1
  <2> QED BY <1>3, <2>3, <2>5, Zenon DEF Collected
<1>4. Extended(n, f, t)
  BY GrownFrags
<1> QED BY <1>1, <1>2, <1>3, <1>4 DEF Extended

LEMMA GrownAscends ==
  ASSUME IInv, NEW n \in Node, NEW f \in AnyFrame,
         FlowOf(f.msg) \in Orderly => \A p \in Nat : Came(n, f.msg, p) => p < Place(f),
         NEW t \in Slot, Grown(n, f, t)
  PROVE  InOrderOnly(t)
<1> Typed /\ Sized /\ SlotsAscend
  BY DEF IInv
<1>1. CASE \E i \in DOMAIN slots[n] : t.id = slots[n][i].id /\ t.frags = slots[n][i].frags
  BY <1>1 DEF SlotsAscend, InOrderOnly
<1>2. CASE f.type = "fragment" /\ t.id = f.id /\ t.frags[1] = f /\ DOMAIN t.frags = {1}
  BY <1>2 DEF InOrderOnly
<1>3. ASSUME NEW i \in DOMAIN slots[n], NEW len \in Nat, f.type = "fragment",
             DOMAIN slots[n][i].frags = 1..len, DOMAIN t.frags = 1..len + 1,
             t.frags[len + 1] = f,
             \A j \in 1..len : t.frags[j] = slots[n][i].frags[j]
      PROVE  InOrderOnly(t)
  <2> SUFFICES ASSUME NEW j \in 1..len + 1, NEW k \in 1..len + 1, j < k,
                      t.frags[j].msg = t.frags[k].msg, FlowOf(t.frags[j].msg) \in Orderly
               PROVE  t.frags[j].seq < t.frags[k].seq
    BY <1>3 DEF InOrderOnly
  <2>1. CASE k \in 1..len
    <3>1. InOrderOnly(slots[n][i]) /\ j \in 1..len
      BY <2>1 DEF SlotsAscend
    <3> QED BY <1>3, <2>1, <3>1 DEF InOrderOnly
  <2>2. CASE k = len + 1
    <3>1. j \in 1..len /\ t.frags[j] = slots[n][i].frags[j]
      BY <1>3, <2>2
    <3>2. slots[n][i].frags[j] \in FragmentFrame
      BY <1>3, <3>1, SlotTypes
    <3>3. t.frags[j].seq \in Nat
      BY <3>1, <3>2 DEF FragmentFrame
    <3>4. Came(n, f.msg, t.frags[j].seq)
      BY <1>3, <2>2, <3>1 DEF Came
    <3>5. Place(f) = f.seq
      BY <1>3 DEF Place
    <3> QED BY <1>3, <2>2, <3>3, <3>4, <3>5
  <2> QED BY <2>1, <2>2
<1>4. Extended(n, f, t)
  BY GrownFrags
<1> QED BY <1>1, <1>2, <1>3, <1>4 DEF Extended

-----------------------------------------------------------------------------
(***************************************************************************)
(* What is handed up: a whole frame, or a complete slot with the id of the *)
(* frame just received.                                                    *)
(***************************************************************************)
Arrived(n, f, parts) ==
  \/ f.type = "whole" /\ parts = <<<<f.msg, 0>>>>
  \/ /\ f.type = "fragment"
     /\ \E t \in Slot : Grown(n, f, t) /\ t.id = f.id /\ Complete(t) /\ parts = Joined(t)

LEMMA ReceivedParts ==
  ASSUME Typed, Sized, NEW n \in Node, NEW s \in Node, NEW f \in AnyFrame, Receive(n, s, f)
  PROVE  \/ UNCHANGED <<handed, twice>>
         \/ \E parts : Arrived(n, f, parts) /\ callbacks[n] # 0 /\ HandUp(n, s, parts)
<1>1. CASE f.type = "whole" /\ HandUp(n, s, <<<<f.msg, 0>>>>)
  BY <1>1 DEF Arrived, HandUp
<1>2. CASE f.type = "fragment" /\ Collect(n, s, f)
  <2>1. f \in FragmentFrame
    BY <1>2 DEF AnyFrame, WholeFrame
  <2>2. CASE UNCHANGED <<handed, twice>>
    BY <2>2
  <2>3. ASSUME NEW done \in Completed(n, f),
               HandUp(n, s, Joined(InsertUnique(slots[n][done], f)))
        PROVE  \/ UNCHANGED <<handed, twice>>
               \/ \E parts : Arrived(n, f, parts) /\ callbacks[n] # 0 /\ HandUp(n, s, parts)
    <3> DEFINE t == InsertUnique(slots[n][done], f)
    <3>1. done \in Matching(n, f) /\ Complete(t)
      BY DEF Completed
    <3>2. t \in Slot /\ t.id = f.id /\ Grown(n, f, t)
      BY <2>1, <3>1, InsertedGrown
    <3> HIDE DEF t
    <3>3. Arrived(n, f, Joined(t))
      BY <1>2, <3>1, <3>2 DEF Arrived
    <3> QED BY <2>3, <3>3 DEF HandUp, t
  <2> QED BY <1>2, <2>2, <2>3 DEF Collect
<1>3. CASE f.type = "fragment" /\ MakeSlot(n, f)
  BY <1>3 DEF MakeSlot
<1> QED BY <1>1, <1>2, <1>3 DEF Receive

(***************************************************************************)
(* Unless its id is shared, a message of which a part is handed up is      *)
(* handed up whole, by a frame of its own.                                 *)
(***************************************************************************)
LEMMA ArrivedParts ==
  ASSUME IInv, NEW e \in Flow, NEW i \in DOMAIN link[e], NEW parts,
         Arrived(e[2], link[e][i], parts)
  PROVE  LET f == link[e][i]
         IN  /\ parts \in Seq(Nat \X Nat) /\ DOMAIN parts = 1..Len(parts) /\ Len(parts) \in Nat
             /\ \A x \in DOMAIN parts :
                  /\ parts[x][1] \in DOMAIN sent
                  /\ sent[parts[x][1]].to = e[2]
                  /\ \/ parts[x] = <<f.msg, Place(f)>>
                     \/ Came(e[2], parts[x][1], parts[x][2])
                  /\ OwnId(parts[x][1]) =>
                       /\ parts[x][1] = f.msg
                       /\ Len(parts) = Parts(f.msg)
                       /\ {parts[j] : j \in DOMAIN parts} = {f.msg} \X (0..Parts(f.msg) - 1)
<1> DEFINE f == link[e][i]
           n == e[2]
<1>1. /\ f \in AnyFrame /\ Genuine(f)
      /\ f.msg \in DOMAIN sent /\ FlowOf(f.msg) = e
      /\ n \in Node /\ sent[f.msg].to = n /\ sent[f.msg].from = e[1]
      /\ Typed /\ Sized
  BY FrameOnFlow DEF IInv
<1>2. sent \in Seq(Message) /\ DOMAIN sent \subseteq Nat /\ f.msg \in Nat
  BY <1>1 DEF Typed
<1>3. CASE f.type = "whole" /\ parts = <<<<f.msg, 0>>>>
  <2>1. sent[f.msg].len <= MaxWhole /\ sent[f.msg].len \in Nat
    <3>1. sent[f.msg] \in Message
      BY <1>1, <1>2
    <3> QED BY <1>1, <1>3, <3>1 DEF Genuine, Message
  <2>2. Parts(f.msg) = 1
    BY <2>1, FragmentingAssumption DEF Parts
  <2>3. 0..Parts(f.msg) - 1 = {0}
    BY <2>2
  <2>4. {parts[j] : j \in DOMAIN parts} = {<<f.msg, 0>>}
    BY <1>3
  <2>5. {f.msg} \X {0} = {<<f.msg, 0>>}
    OBVIOUS
  <2>6. Place(f) = 0
    BY <1>3 DEF Place
  <2>7. parts \in Seq(Nat \X Nat) /\ DOMAIN parts = {1} /\ Len(parts) = 1 /\ parts[1] = <<f.msg, 0>>
    BY <1>2, <1>3
  <2> QED BY <1>1, <2>2, <2>3, <2>4, <2>5, <2>6, <2>7
<1>4. ASSUME NEW t \in Slot, f.type = "fragment", Grown(n, f, t), t.id = f.id,
             Complete(t), parts = Joined(t)
      PROVE  /\ parts \in Seq(Nat \X Nat) /\ DOMAIN parts = 1..Len(parts) /\ Len(parts) \in Nat
             /\ \A x \in DOMAIN parts :
                  /\ parts[x][1] \in DOMAIN sent
                  /\ sent[parts[x][1]].to = n
                  /\ \/ parts[x] = <<f.msg, Place(f)>>
                     \/ Came(n, parts[x][1], parts[x][2])
                  /\ OwnId(parts[x][1]) =>
                       /\ parts[x][1] = f.msg
                       /\ Len(parts) = Parts(f.msg)
                       /\ {parts[j] : j \in DOMAIN parts} = {f.msg} \X (0..Parts(f.msg) - 1)
  <2> DEFINE N == Len(t.frags)
  <2>1. /\ t.frags \in Seq(FragmentFrame) /\ N \in Nat /\ N >= 1
        /\ DOMAIN t.frags = 1..N
    BY <1>1, <1>4, GrownFrags
  <2>2. \A j \in 1..N : t.frags[j] \in FragmentFrame
    BY <2>1
  <2>3. Collected(n, t)
    BY <1>1, <1>4, GrownCollected
  <2>4. parts = [j \in 1..N |-> <<t.frags[j].msg, t.frags[j].seq>>]
    BY <1>4, <2>1 DEF Joined
  <2>5. parts \in Seq(Nat \X Nat) /\ DOMAIN parts = 1..N /\ Len(parts) = N
    <3>1. \A j \in 1..N : <<t.frags[j].msg, t.frags[j].seq>> \in Nat \X Nat
      BY <2>2 DEF FragmentFrame
    <3> QED BY <2>1, <2>4, <3>1
  <2>6. \A j \in 1..N : /\ parts[j][1] = t.frags[j].msg /\ parts[j][2] = t.frags[j].seq
                        /\ parts[j] = <<t.frags[j].msg, t.frags[j].seq>>
    BY <2>4
  <2>7. \A x \in 1..N : parts[x][1] \in DOMAIN sent /\ sent[parts[x][1]].to = n
    BY <2>1, <2>3, <2>6 DEF Collected, Genuine
  <2>8. ASSUME NEW x \in 1..N
        PROVE  parts[x] = <<f.msg, Place(f)>> \/ Came(n, parts[x][1], parts[x][2])
    <3>1. Place(f) = f.seq
      BY <1>4 DEF Place
    <3>2. \/ t.frags[x] = f
          \/ \E k \in DOMAIN slots[n] : \E j \in DOMAIN slots[n][k].frags :
               t.frags[x] = slots[n][k].frags[j]
      <4>1. CASE \E k \in DOMAIN slots[n] : t.id = slots[n][k].id /\ t.frags = slots[n][k].frags
        BY <2>1, <4>1
      <4>2. CASE t.frags[1] = f /\ DOMAIN t.frags = {1}
        BY <2>1, <4>2
      <4>3. ASSUME NEW k \in DOMAIN slots[n], NEW len \in Nat,
                   DOMAIN slots[n][k].frags = 1..len, DOMAIN t.frags = 1..len + 1,
                   t.frags[len + 1] = f,
                   \A j \in 1..len : t.frags[j] = slots[n][k].frags[j]
            PROVE  \/ t.frags[x] = f
                   \/ \E j \in DOMAIN slots[n][k].frags : t.frags[x] = slots[n][k].frags[j]
        <5>1. x \in 1..len \/ x = len + 1
          BY <2>1, <4>3
        <5> QED BY <4>3, <5>1
      <4>4. Extended(n, f, t)
        BY <1>1, <1>4, GrownFrags
      <4> QED BY <4>1, <4>2, <4>3, <4>4 DEF Extended
    <3>3. CASE t.frags[x] = f
      BY <2>6, <3>1, <3>3
    <3>4. ASSUME NEW k \in DOMAIN slots[n], NEW j \in DOMAIN slots[n][k].frags,
                 t.frags[x] = slots[n][k].frags[j]
          PROVE  Came(n, parts[x][1], parts[x][2])
      BY <2>6, <3>4 DEF Came
    <3> QED BY <3>2, <3>3, <3>4
  <2>9. ASSUME NEW x \in 1..N, OwnId(parts[x][1])
        PROVE  /\ parts[x][1] = f.msg
               /\ N = Parts(f.msg)
               /\ {parts[j] : j \in 1..N} = {f.msg} \X (0..Parts(f.msg) - 1)
    <3> DEFINE k == parts[x][1]
               q == [j \in 1..N |-> t.frags[j].seq]
    <3>1. k \in DOMAIN sent /\ k = t.frags[x].msg /\ t.id \in sent[k].ids
      BY <2>1, <2>2, <2>3, <2>6 DEF Collected, Genuine, FragmentFrame
    <3>2. \A j \in DOMAIN sent : t.id \in sent[j].ids => j = k
      BY <2>9, <3>1 DEF OwnId
    <3>3. f.msg = k
      BY <1>1, <1>4, <3>2 DEF Genuine
    <3>4. \A j \in 1..N : /\ t.frags[j].msg = k /\ t.frags[j].total = Total(sent[k].len)
                          /\ t.frags[j].seq \in Nat /\ t.frags[j].seq < Total(sent[k].len)
                          /\ sent[k].len > MaxWhole
      <4> TAKE j \in 1..N
      <4>1. Genuine(t.frags[j]) /\ t.frags[j].id = t.id /\ t.frags[j] \in FragmentFrame
        BY <2>1, <2>2, <2>3 DEF Collected
      <4>2. t.frags[j].type = "fragment" /\ t.frags[j].seq \in Nat
        BY <4>1 DEF FragmentFrame
      <4>3. t.frags[j].msg = k
        BY <3>2, <4>1, <4>2 DEF Genuine
      <4> QED BY <4>1, <4>2, <4>3 DEF Genuine
    <3>5. N = Total(sent[k].len) /\ Parts(k) = N
      BY <1>4, <2>1, <3>4 DEF Complete, Parts
    <3>6. q \in [1..N -> 0..N - 1] /\ \A i1, i2 \in 1..N : i1 # i2 => q[i1] # q[i2]
      <4>1. \A j \in 1..N : t.frags[j].seq \in 0..N - 1
        BY <2>1, <3>4, <3>5
      <4>2. \A i1, i2 \in 1..N : i1 # i2 => t.frags[i1].seq # t.frags[i2].seq
        BY <2>1, <2>3 DEF Collected
      <4> QED BY <4>1, <4>2
    <3>7. \A y \in 0..N - 1 : \E j \in 1..N : q[j] = y
      <4> HIDE DEF N, q
      <4> QED BY <2>1, <3>6, AllNumbers
    <3>8. \A j \in 1..N : parts[j] = <<k, q[j]>>
      BY <2>6, <3>4
    <3>9. {parts[j] : j \in 1..N} = {k} \X (0..N - 1)
      <4> HIDE DEF k, N, q
      <4>1. ASSUME NEW j \in 1..N
            PROVE  parts[j] \in {k} \X (0..N - 1)
        <5>1. q[j] \in 0..N - 1
          BY <3>6
        <5>2. \A v \in 0..N - 1 : <<k, v>> \in {k} \X (0..N - 1)
          OBVIOUS
        <5>3. <<k, q[j]>> \in {k} \X (0..N - 1)
          BY <5>1, <5>2
        <5>4. parts[j] = <<k, q[j]>>
          BY <3>8
        <5> QED BY <5>3, <5>4
      <4>2. ASSUME NEW y \in 0..N - 1
            PROVE  \E j \in 1..N : parts[j] = <<k, y>>
        BY <3>7, <3>8
      <4> QED BY <4>1, <4>2
    <3> QED BY <3>3, <3>5, <3>9
  <2> QED BY <2>1, <2>5, <2>7, <2>8, <2>9
<1> QED BY <1>3, <1>4 DEF Arrived

LEMMA ArrivedInOrder ==
  ASSUME IInv, NEW e \in Orderly, NEW i \in DOMAIN link[e], NEW parts,
         Arrived(e[2], link[e][i], parts),
         NEW x \in DOMAIN parts, OwnId(parts[x][1])
  PROVE  LET f == link[e][i]
         IN  /\ parts = [j \in 1..Parts(f.msg) |-> <<f.msg, j - 1>>]
             /\ f.msg \notin twice[e[2]]
             /\ \A h \in handed[e[2]] : \A y \in DOMAIN h.parts : h.parts[y][1] # f.msg
<1> DEFINE f == link[e][i]
           n == e[2]
           k == f.msg
<1>1. e \in Flow
  BY FragmentingAssumption
<1>2. /\ f \in AnyFrame /\ Genuine(f)
      /\ k \in DOMAIN sent /\ FlowOf(k) = e
      /\ n \in Node /\ sent[k].to = n
      /\ Place(f) \in Nat
  BY <1>1, FrameOnFlow
<1>3. Typed /\ Sized /\ Past
  BY DEF IInv
<1>4. /\ parts \in Seq(Nat \X Nat) /\ DOMAIN parts = 1..Len(parts) /\ Len(parts) \in Nat
      /\ \A y \in DOMAIN parts :
           OwnId(parts[y][1]) =>
             /\ parts[y][1] = k
             /\ Len(parts) = Parts(k)
             /\ {parts[j] : j \in DOMAIN parts} = {k} \X (0..Parts(k) - 1)
  BY <1>1, ArrivedParts
<1>5. /\ parts[x][1] = k /\ OwnId(k) /\ Len(parts) = Parts(k)
      /\ {parts[j] : j \in DOMAIN parts} = {k} \X (0..Parts(k) - 1)
  BY <1>4
<1>6. \A p \in Nat : Came(n, k, p) => p < Place(f)
  BY <1>3 DEF Past
<1>7. parts = [j \in 1..Parts(k) |-> <<k, j - 1>>]
  <2>1. CASE f.type = "whole" /\ parts = <<<<f.msg, 0>>>>
    <3>1. Parts(k) = 1
      BY <1>5, <2>1
    <3> QED BY <2>1, <3>1
  <2>2. ASSUME NEW t \in Slot, f.type = "fragment", Grown(n, f, t), parts = Joined(t)
        PROVE  parts = [j \in 1..Parts(k) |-> <<k, j - 1>>]
    <3> DEFINE N == Len(t.frags)
               q == [j \in 1..N |-> t.frags[j].seq]
    <3>1. t.frags \in Seq(FragmentFrame) /\ N \in Nat /\ DOMAIN t.frags = 1..N
      BY <1>2, <1>3, <2>2, GrownFrags
    <3>2. parts = [j \in 1..N |-> <<t.frags[j].msg, t.frags[j].seq>>]
      BY <2>2, <3>1 DEF Joined
    <3>3. N = Parts(k) /\ Len(parts) = N /\ DOMAIN parts = 1..N
      BY <1>4, <1>5, <3>1, <3>2
    <3>4. \A j \in 1..N : parts[j] \in {k} \X (0..N - 1)
      BY <1>5, <3>3
    <3>5. \A j \in 1..N : t.frags[j].msg = k /\ t.frags[j].seq \in 0..N - 1
      BY <3>2, <3>4
    <3>6. InOrderOnly(t)
      BY <1>2, <1>6, <2>2, GrownAscends
    <3>7. \A j1, j2 \in 1..N : j1 < j2 => q[j1] < q[j2]
      BY <1>2, <3>1, <3>5, <3>6 DEF InOrderOnly
    <3>8. q \in [1..N -> 0..N - 1]
      BY <3>5
    <3>9. \A j \in 1..N : q[j] = j - 1
      <4> HIDE DEF N, q
      <4> QED BY <3>1, <3>7, <3>8, Ascending
    <3>10. \A j \in 1..N : t.frags[j].seq = j - 1
      BY <3>9
    <3> HIDE DEF N
    <3> QED BY <3>2, <3>3, <3>5, <3>10
  <2> QED BY <2>1, <2>2 DEF Arrived
<1>8. k \notin twice[n]
  BY <1>2, <1>5 DEF IInv, NotTwice
<1>9. ASSUME NEW h \in handed[n], NEW y \in DOMAIN h.parts, h.parts[y][1] = k
      PROVE  FALSE
  <2>1. {h.parts[j] : j \in DOMAIN h.parts} = {k} \X (0..Parts(k) - 1)
    BY <1>2, <1>5, <1>9 DEF IInv, AllOfOne
  <2>2. Parts(k) \in Nat
    BY <1>4, <1>5
  <2>3. Parts(k) >= 1
    <3>1. h.parts[y] \in {k} \X (0..Parts(k) - 1)
      BY <2>1
    <3> QED BY <2>2, <3>1
  <2>4. <<k, Parts(k) - 1>> \in {h.parts[j] : j \in DOMAIN h.parts}
    <3>1. <<k, Parts(k) - 1>> \in {k} \X (0..Parts(k) - 1)
      BY <2>2, <2>3
    <3> QED BY <2>1, <3>1, Zenon
  <2>5. Came(n, k, Parts(k) - 1)
    BY <2>4 DEF Came
  <2>6. Parts(k) - 1 < Place(f)
    BY <1>6, <2>2, <2>3, <2>5
  <2>7. Place(f) < Parts(k)
    <3>1. CASE f.type = "fragment"
      BY <1>2, <3>1 DEF Genuine, Parts, Place
    <3>2. CASE f.type # "fragment"
      BY <2>2, <2>3, <3>2 DEF Place
    <3> QED BY <3>1, <3>2
  <2> QED BY <1>2, <2>2, <2>6, <2>7
<1> QED BY <1>7, <1>8, <1>9

-----------------------------------------------------------------------------
(***************************************************************************)
(* A step of receive(), but for the frames that stay on their way.         *)
(***************************************************************************)
LEMMA ReceiveSlots ==
  ASSUME IInv, NEW e \in Flow, NEW i \in DOMAIN link[e], Receive(e[2], e[1], link[e][i])
  PROVE  /\ slots' \in [Node -> Seq(Slot)]
         /\ Sized' /\ SlotsCollected' /\ SlotsAscend'
         /\ \A n \in Node : \A j \in DOMAIN slots'[n] : \A x \in DOMAIN slots'[n][j].frags :
              LET g == slots'[n][j].frags[x]
              IN  \/ Came(n, g.msg, g.seq)
                  \/ n = e[2] /\ g.msg = link[e][i].msg /\ g.seq = Place(link[e][i])
<1> DEFINE f == link[e][i]
           m == e[2]
<1>1. /\ f \in AnyFrame /\ Genuine(f) /\ FlowOf(f.msg) = e
      /\ e[1] \in Node /\ m \in Node /\ sent[f.msg].to = m
  BY FrameOnFlow
<1>2. Typed /\ Sized /\ SlotsCollected /\ SlotsAscend /\ Past
  BY DEF IInv
<1>3. /\ slots' \in [Node -> Seq(Slot)]
      /\ Len(slots'[m]) <= MaxSlots
      /\ \A n \in Node \ {m} : slots'[n] = slots[n]
      /\ \A j \in DOMAIN slots'[m] : Grown(m, f, slots'[m][j])
  BY <1>1, <1>2, ReceivedSlots
<1>4. \A j \in DOMAIN slots'[m] : slots'[m][j] \in Slot
  BY <1>1, <1>3
<1>5. sent' = sent
  BY DEF Receive
<1>6. ASSUME FlowOf(f.msg) \in Orderly, NEW p \in Nat, Came(m, f.msg, p)
      PROVE  p < Place(f)
  BY <1>1, <1>2, <1>6 DEF Past
<1>7. \A j \in DOMAIN slots'[m] : /\ Len(slots'[m][j].frags) \in 1..MaxFragments
                                  /\ Collected(m, slots'[m][j])
                                  /\ InOrderOnly(slots'[m][j])
  BY <1>1, <1>2, <1>3, <1>4, <1>6, GrownFrags, GrownCollected, GrownAscends
<1>8. Sized'
  BY <1>2, <1>3, <1>7 DEF Sized
<1>9. SlotsCollected'
  <2>1. \A n \in Node : \A t : Collected(n, t) => Collected(n, t)'
    BY <1>5 DEF Collected, Genuine
  <2> QED BY <1>2, <1>3, <1>7, <2>1 DEF SlotsCollected
<1>10. SlotsAscend'
  <2>1. \A t : InOrderOnly(t) => InOrderOnly(t)'
    BY <1>5 DEF InOrderOnly, FlowOf
  <2> QED BY <1>2, <1>3, <1>7, <2>1 DEF SlotsAscend
<1>11. ASSUME NEW n \in Node, NEW j \in DOMAIN slots'[n], NEW x \in DOMAIN slots'[n][j].frags
       PROVE  LET g == slots'[n][j].frags[x]
              IN  \/ Came(n, g.msg, g.seq)
                  \/ n = m /\ g.msg = f.msg /\ g.seq = Place(f)
  <2> DEFINE t == slots'[n][j]
             g == t.frags[x]
  <2>1. CASE n # m
    BY <1>3, <2>1 DEF Came
  <2>2. CASE n = m
    <3>1. \/ (g = f /\ f.type = "fragment")
          \/ \E y \in DOMAIN slots[m] : \E z \in DOMAIN slots[m][y].frags :
               g = slots[m][y].frags[z]
      <4> t \in Slot /\ Grown(m, f, t)
        BY <1>3, <1>4, <2>2
      <4>1. CASE \E y \in DOMAIN slots[m] : t.id = slots[m][y].id /\ t.frags = slots[m][y].frags
        BY <4>1
      <4>2. CASE f.type = "fragment" /\ t.frags[1] = f /\ DOMAIN t.frags = {1}
        BY <4>2
      <4>3. ASSUME NEW y \in DOMAIN slots[m], NEW len \in Nat, f.type = "fragment",
                   DOMAIN slots[m][y].frags = 1..len, DOMAIN t.frags = 1..len + 1,
                   t.frags[len + 1] = f,
                   \A z \in 1..len : t.frags[z] = slots[m][y].frags[z]
            PROVE  g = f \/ \E z \in DOMAIN slots[m][y].frags : g = slots[m][y].frags[z]
        <5>1. x \in 1..len \/ x = len + 1
          BY <4>3
        <5> QED BY <4>3, <5>1
      <4>4. Extended(m, f, t)
        BY <1>1, <1>2, GrownFrags
      <4> QED BY <4>1, <4>2, <4>3, <4>4 DEF Extended
    <3>2. CASE g = f /\ f.type = "fragment"
      BY <2>2, <3>2 DEF Place
    <3>3. CASE \E y \in DOMAIN slots[m] : \E z \in DOMAIN slots[m][y].frags :
                 g = slots[m][y].frags[z]
      BY <2>2, <3>3 DEF Came
    <3> QED BY <3>1, <3>2, <3>3
  <2> QED BY <2>1, <2>2
<1> QED BY <1>3, <1>8, <1>9, <1>10, <1>11

LEMMA ReceiveHanded ==
  ASSUME IInv, NEW e \in Flow, NEW i \in DOMAIN link[e], Receive(e[2], e[1], link[e][i])
  PROVE  /\ handed' \in [Node -> SUBSET Handed] /\ twice' \in [Node -> SUBSET Nat]
         /\ Known' /\ NotTwice' /\ AllOfOne' /\ Intact'
         /\ \A n \in Node : \A h \in handed'[n] : \A x \in DOMAIN h.parts : \A k, p :
              h.parts[x] = <<k, p>> =>
                \/ Came(n, k, p)
                \/ n = e[2] /\ k = link[e][i].msg /\ p = Place(link[e][i])
<1> DEFINE f == link[e][i]
           m == e[2]
<1>1. /\ f \in AnyFrame /\ Genuine(f) /\ FlowOf(f.msg) = e
      /\ f.msg \in DOMAIN sent /\ sent[f.msg].from = e[1]
      /\ e[1] \in Node /\ m \in Node /\ sent[f.msg].to = m
  BY FrameOnFlow
<1>2. /\ Typed /\ Sized /\ Known /\ NotTwice /\ AllOfOne /\ Intact
      /\ handed \in [Node -> SUBSET Handed] /\ twice \in [Node -> SUBSET Nat]
  BY DEF IInv, Typed
<1>3. sent' = sent
  BY DEF Receive
<1>4. \A k : /\ OwnId(k)' = OwnId(k) /\ FlowOf(k)' = FlowOf(k) /\ Parts(k)' = Parts(k)
  BY <1>3 DEF OwnId, FlowOf, Parts
<1>5. CASE UNCHANGED <<handed, twice>>
  <2>1. Known' /\ NotTwice' /\ AllOfOne' /\ Intact'
    BY <1>2, <1>3, <1>4, <1>5 DEF Known, NotTwice, AllOfOne, Intact
  <2>2. \A n \in Node : \A h \in handed'[n] : \A x \in DOMAIN h.parts : \A k, p :
          h.parts[x] = <<k, p>> => Came(n, k, p)
    BY <1>5 DEF Came
  <2> QED BY <1>2, <1>5, <2>1, <2>2
<1>6. ASSUME NEW parts, Arrived(m, f, parts), callbacks[m] # 0, HandUp(m, e[1], parts)
      PROVE  /\ handed' \in [Node -> SUBSET Handed] /\ twice' \in [Node -> SUBSET Nat]
             /\ Known' /\ NotTwice' /\ AllOfOne' /\ Intact'
             /\ \A n \in Node : \A h \in handed'[n] : \A x \in DOMAIN h.parts : \A k, p :
                  h.parts[x] = <<k, p>> =>
                    \/ Came(n, k, p)
                    \/ n = m /\ k = f.msg /\ p = Place(f)
  <2> DEFINE new == [from |-> e[1], parts |-> parts]
  <2>1. /\ parts \in Seq(Nat \X Nat)
        /\ \A x \in DOMAIN parts :
             /\ parts[x][1] \in DOMAIN sent
             /\ sent[parts[x][1]].to = m
             /\ \/ parts[x] = <<f.msg, Place(f)>>
                \/ Came(m, parts[x][1], parts[x][2])
             /\ OwnId(parts[x][1]) =>
                  /\ parts[x][1] = f.msg
                  /\ Len(parts) = Parts(f.msg)
                  /\ {parts[j] : j \in DOMAIN parts} = {f.msg} \X (0..Parts(f.msg) - 1)
    BY <1>6, ArrivedParts
  <2>2. /\ handed' = [handed EXCEPT ![m] = @ \cup {new}]
        /\ twice' = [twice EXCEPT ![m] = @ \cup
             {parts[j][1] : j \in {y \in DOMAIN parts : \E h \in handed[m] :
                \E x \in DOMAIN h.parts : h.parts[x][1] = parts[y][1]}}]
    BY <1>6 DEF HandUp
  <2>3. /\ new \in Handed /\ new.from = e[1] /\ new.parts = parts
        /\ \A j \in DOMAIN parts : parts[j][1] \in Nat
    BY <1>1, <2>1 DEF Handed
  <2>4. /\ handed' \in [Node -> SUBSET Handed]
        /\ \A n \in Node : \A h \in handed'[n] : h \in handed[n] \/ (n = m /\ h = new)
    BY <1>1, <1>2, <2>2, <2>3
  <2>5. \A n \in Node : \A k \in twice'[n] :
          \/ k \in twice[n]
          \/ /\ n = m
             /\ \E j \in DOMAIN parts :
                  /\ k = parts[j][1]
                  /\ \E h \in handed[m] : \E x \in DOMAIN h.parts : h.parts[x][1] = k
    BY <1>1, <1>2, <2>2
  <2>6. twice' \in [Node -> SUBSET Nat]
    <3>1. \A n \in Node : twice'[n] \in SUBSET Nat
      BY <1>2, <2>3, <2>5
    <3> QED BY <1>2, <2>2, <3>1
  <2>7. ASSUME NEW j \in DOMAIN parts, OwnId(parts[j][1]), FlowOf(parts[j][1]) \in Orderly
        PROVE  /\ parts[j][1] = f.msg
               /\ parts = [y \in 1..Parts(f.msg) |-> <<f.msg, y - 1>>]
               /\ f.msg \notin twice[m]
               /\ \A h \in handed[m] : \A y \in DOMAIN h.parts : h.parts[y][1] # f.msg
    <3>1. parts[j][1] = f.msg /\ e \in Orderly
      BY <1>1, <2>1, <2>7
    <3> QED BY <1>6, <2>7, <3>1, ArrivedInOrder
  <2> HIDE DEF new
  <2>8. Known'
    BY <1>2, <1>3, <2>1, <2>3, <2>4, <2>5 DEF Known
  <2>9. NotTwice'
    BY <1>2, <1>4, <2>5, <2>7 DEF NotTwice
  <2>10. AllOfOne'
    <3> SUFFICES ASSUME NEW n \in Node, NEW h \in handed'[n], NEW x \in DOMAIN h.parts,
                        OwnId(h.parts[x][1])
                 PROVE  LET k == h.parts[x][1]
                        IN  /\ h.from = sent[k].from
                            /\ Len(h.parts) = Parts(k)
                            /\ {h.parts[j] : j \in DOMAIN h.parts} = {k} \X (0..Parts(k) - 1)
      BY <1>3, <1>4 DEF AllOfOne
    <3>1. CASE h \in handed[n]
      BY <1>2, <3>1 DEF AllOfOne
    <3>2. CASE n = m /\ h = new
      <4>1. h.parts = parts /\ h.from = e[1]
        BY <2>3, <3>2
      <4>2. h.parts[x][1] = f.msg
        BY <2>1, <4>1
      <4>3. sent[f.msg].from = e[1]
        BY <1>1
      <4> QED BY <2>1, <4>1, <4>2, <4>3
    <3> QED BY <2>4, <3>1, <3>2
  <2>11. Intact'
    <3> SUFFICES ASSUME NEW n \in Node, NEW h \in handed'[n], NEW x \in DOMAIN h.parts,
                        OwnId(h.parts[x][1]), FlowOf(h.parts[x][1]) \in Orderly
                 PROVE  LET k == h.parts[x][1]
                        IN  /\ h.parts = [j \in 1..Parts(k) |-> <<k, j - 1>>]
                            /\ k \notin twice'[n]
      BY <1>3, <1>4 DEF Intact
    <3>1. h.parts[x][1] \notin twice'[n]
      BY <1>4, <2>9 DEF NotTwice
    <3>2. CASE h \in handed[n]
      BY <1>2, <3>1, <3>2 DEF Intact
    <3>3. CASE n = m /\ h = new
      BY <2>3, <2>7, <3>1, <3>3
    <3> QED BY <2>4, <3>2, <3>3
  <2>12. ASSUME NEW n \in Node, NEW h \in handed'[n], NEW x \in DOMAIN h.parts, NEW k, NEW p,
                h.parts[x] = <<k, p>>
         PROVE  Came(n, k, p) \/ (n = m /\ k = f.msg /\ p = Place(f))
    <3>1. CASE h \in handed[n]
      BY <2>12, <3>1 DEF Came
    <3>2. CASE n = m /\ h = new
      BY <2>1, <2>3, <2>12, <3>2
    <3> QED BY <2>4, <3>1, <3>2
  <2> QED BY <2>4, <2>6, <2>8, <2>9, <2>10, <2>11, <2>12
<1>7. \/ UNCHANGED <<handed, twice>>
      \/ \E parts : Arrived(m, f, parts) /\ callbacks[m] # 0 /\ HandUp(m, e[1], parts)
  BY <1>1, <1>2, ReceivedParts
<1> QED BY <1>5, <1>6, <1>7

LEMMA ReceiveCame ==
  ASSUME IInv, NEW e \in Flow, NEW i \in DOMAIN link[e], Receive(e[2], e[1], link[e][i]),
         NEW n \in Node, NEW k, NEW p, Came(n, k, p)'
  PROVE  \/ Came(n, k, p)
         \/ n = e[2] /\ k = link[e][i].msg /\ p = Place(link[e][i])
<1>1. CASE \E j \in DOMAIN slots'[n] : \E x \in DOMAIN slots'[n][j].frags :
             slots'[n][j].frags[x].msg = k /\ slots'[n][j].frags[x].seq = p
  BY <1>1, ReceiveSlots
<1>2. CASE \E h \in handed'[n] : \E x \in DOMAIN h.parts : h.parts[x] = <<k, p>>
  BY <1>2, ReceiveHanded
<1> QED BY <1>1, <1>2 DEF Came

(***************************************************************************)
(* The steps that bring a frame.                                           *)
(***************************************************************************)
LEMMA InOrderIInv ==
  ASSUME IInv, NEW e \in Flow, InOrder(e)
  PROVE  IInv'
<1>1. e \in Orderly /\ link[e] # <<>> /\ link \in [Flow -> Seq(AnyFrame)]
  BY DEF InOrder, IInv, Typed
<1>2. /\ Len(link[e]) \in Nat /\ Len(link[e]) >= 1 /\ DOMAIN link[e] = 1..Len(link[e])
      /\ Head(link[e]) = link[e][1] /\ 1 \in DOMAIN link[e]
  BY <1>1
<1>3. /\ Receive(e[2], e[1], link[e][1])
      /\ link' = [link EXCEPT ![e] = Tail(link[e])]
  BY <1>2 DEF InOrder
<1>4. /\ slots' \in [Node -> Seq(Slot)]
      /\ Sized' /\ SlotsCollected' /\ SlotsAscend'
  BY <1>2, <1>3, ReceiveSlots
<1>5. /\ handed' \in [Node -> SUBSET Handed] /\ twice' \in [Node -> SUBSET Nat]
      /\ Known' /\ NotTwice' /\ AllOfOne' /\ Intact'
  BY <1>2, <1>3, ReceiveHanded
<1>6. /\ Tail(link[e]) \in Seq(AnyFrame) /\ DOMAIN Tail(link[e]) = 1..Len(link[e]) - 1
      /\ \A i \in DOMAIN Tail(link[e]) : /\ Tail(link[e])[i] = link[e][i + 1]
                                         /\ i + 1 \in DOMAIN link[e] /\ i \in Nat /\ i >= 1
  BY <1>1, <1>2
<1>7. /\ link' \in [Flow -> Seq(AnyFrame)]
      /\ link'[e] = Tail(link[e]) /\ \A g \in Flow \ {e} : link'[g] = link[g]
  BY <1>1, <1>3, <1>6
<1>8. UNCHANGED <<status, callbacks, sent>>
  BY <1>3 DEF Receive
<1>9. Typed'
  BY <1>4, <1>5, <1>7, <1>8 DEF IInv, Typed
<1> DEFINE at(g, i) == IF g = e THEN i + 1 ELSE i
<1>10. ASSUME NEW g \in Flow, NEW i \in DOMAIN link'[g]
       PROVE  /\ at(g, i) \in DOMAIN link[g] /\ link'[g][i] = link[g][at(g, i)]
              /\ i \in Nat /\ i >= 1
  <2>1. CASE g = e
    <3>1. link'[g] = Tail(link[e])
      BY <1>7, <2>1
    <3>2. i \in DOMAIN Tail(link[e])
      BY <3>1
    <3> QED BY <1>6, <2>1, <3>1, <3>2
  <2>2. CASE g # e
    <3>1. link'[g] = link[g] /\ link[g] \in Seq(AnyFrame)
      BY <1>1, <1>7, <2>2
    <3>2. i \in 1..Len(link[g])
      BY <3>1
    <3> QED BY <2>2, <3>1, <3>2
  <2> QED BY <2>1, <2>2
<1>11. LinksGenuine'
  <2>1. ASSUME NEW g \in Flow, NEW i \in DOMAIN link'[g]
        PROVE  Genuine(link[g][i])' /\ FlowOf(link[g][i].msg)' = g
    <3>1. Genuine(link'[g][i]) /\ FlowOf(link'[g][i].msg) = g
      BY <1>10 DEF IInv, LinksGenuine
    <3> QED BY <1>8, <3>1 DEF Genuine, FlowOf
  <2> QED BY <2>1 DEF LinksGenuine
<1>12. LinksAscend'
  <2> SUFFICES ASSUME NEW g \in Orderly, NEW i \in DOMAIN link'[g], NEW j \in DOMAIN link'[g],
                      i < j, link'[g][i].msg = link'[g][j].msg
               PROVE  Place(link'[g][i]) < Place(link'[g][j])
    BY DEF LinksAscend, Place
  <2>1. g \in Flow
    BY FragmentingAssumption
  <2>2. at(g, i) < at(g, j)
    BY <1>10, <2>1
  <2> HIDE DEF at
  <2> QED BY <1>10, <2>1, <2>2 DEF IInv, LinksAscend
<1>13. Past'
  <2>1. ASSUME NEW g \in Orderly, NEW i \in DOMAIN link'[g], NEW p \in Nat,
               Came(g[2], link[g][i].msg, p)'
        PROVE  p < Place(link[g][i])'
    <3> DEFINE j == at(g, i)
    <3>1. g \in Flow /\ g[2] \in Node
      BY FragmentingAssumption
    <3>2. j \in DOMAIN link[g] /\ link'[g][i] = link[g][j] /\ (g = e => j > 1)
      BY <1>10, <3>1
    <3>3. PICK k : k = link'[g][i].msg
      OBVIOUS
    <3>4. Came(g[2], k, p)'
      BY <2>1, <3>3 DEF Came
    <3>5. Came(g[2], k, p) \/ (g[2] = e[2] /\ k = link[e][1].msg /\ p = Place(link[e][1]))
      BY <1>2, <1>3, <3>1, <3>4, ReceiveCame
    <3>6. link[g][j].msg = k /\ Place(link[g][i])' = Place(link[g][j])
      BY <3>3, <3>2 DEF Place
    <3> HIDE DEF j
    <3>7. CASE Came(g[2], k, p)
      BY <3>2, <3>7, <3>6 DEF IInv, Past
    <3>8. CASE k = link[e][1].msg /\ p = Place(link[e][1])
      <4>1. g = e
        BY <1>2, <3>1, <3>2, <3>8, <3>6, FrameOnFlow
      <4> QED BY <1>2, <3>2, <3>8, <3>6, <4>1 DEF IInv, LinksAscend
    <3> QED BY <3>5, <3>7, <3>8
  <2> QED BY <2>1 DEF Past
<1> QED BY <1>4, <1>5, <1>9, <1>11, <1>12, <1>13 DEF IInv

LEMMA AnyOrderIInv ==
  ASSUME IInv, NEW e \in Flow, AnyOrder(e)
  PROVE  IInv'
<1>1. PICK i \in DOMAIN link[e] : Receive(e[2], e[1], link[e][i])
  BY DEF AnyOrder
<1>2. e \notin Orderly /\ link' = link
  BY DEF AnyOrder
<1>3. /\ slots' \in [Node -> Seq(Slot)]
      /\ Sized' /\ SlotsCollected' /\ SlotsAscend'
  BY <1>1, ReceiveSlots
<1>4. /\ handed' \in [Node -> SUBSET Handed] /\ twice' \in [Node -> SUBSET Nat]
      /\ Known' /\ NotTwice' /\ AllOfOne' /\ Intact'
  BY <1>1, ReceiveHanded
<1>5. UNCHANGED <<status, callbacks, sent>>
  BY <1>1 DEF Receive
<1>6. Typed' /\ LinksGenuine' /\ LinksAscend'
  BY <1>2, <1>3, <1>4, <1>5
     DEF IInv, Typed, LinksGenuine, LinksAscend, Genuine, FlowOf, Place
<1>7. Past'
  <2> SUFFICES ASSUME NEW g \in Orderly, NEW j \in DOMAIN link[g], NEW p \in Nat,
                      Came(g[2], link[g][j].msg, p)'
               PROVE  p < Place(link[g][j])
    BY <1>2 DEF Past, Place
  <2>1. g \in Flow /\ g[2] \in Node
    BY FragmentingAssumption
  <2>2. PICK k : k = link[g][j].msg
    OBVIOUS
  <2>3. Came(g[2], k, p)'
    BY <1>2, <2>2 DEF Came
  <2>4. Came(g[2], k, p) \/ (g[2] = e[2] /\ k = link[e][i].msg /\ p = Place(link[e][i]))
    BY <1>1, <2>1, <2>3, ReceiveCame
  <2>5. k # link[e][i].msg
    BY <1>2, <2>1, <2>2, FrameOnFlow
  <2> QED BY <2>2, <2>4, <2>5 DEF IInv, Past
<1> QED BY <1>3, <1>4, <1>6, <1>7 DEF IInv

LEMMA LoseIInv ==
  ASSUME IInv, NEW e \in Flow, Lose(e)
  PROVE  IInv'
<1>1. e \in Orderly /\ link[e] # <<>> /\ link \in [Flow -> Seq(AnyFrame)]
  BY DEF Lose, IInv, Typed
<1>2. /\ UNCHANGED <<status, callbacks, slots, sent, handed, twice>>
      /\ link' = [link EXCEPT ![e] = Tail(link[e])]
  BY DEF Lose
<1>3. /\ Tail(link[e]) \in Seq(AnyFrame) /\ DOMAIN Tail(link[e]) = 1..Len(link[e]) - 1
      /\ Len(link[e]) \in Nat /\ DOMAIN link[e] = 1..Len(link[e])
      /\ \A i \in DOMAIN Tail(link[e]) : Tail(link[e])[i] = link[e][i + 1]
  BY <1>1
<1>4. /\ link' \in [Flow -> Seq(AnyFrame)]
      /\ link'[e] = Tail(link[e]) /\ \A g \in Flow \ {e} : link'[g] = link[g]
  BY <1>1, <1>2, <1>3
<1> DEFINE at(g, i) == IF g = e THEN i + 1 ELSE i
<1>5. ASSUME NEW g \in Flow, NEW i \in DOMAIN link'[g]
      PROVE  at(g, i) \in DOMAIN link[g] /\ link'[g][i] = link[g][at(g, i)] /\ i \in Nat
  <2>1. CASE g = e
    <3>1. link'[g] = Tail(link[e]) /\ i \in DOMAIN Tail(link[e])
      BY <1>4, <2>1
    <3> QED BY <1>3, <2>1, <3>1
  <2>2. CASE g # e
    <3>1. link'[g] = link[g] /\ link[g] \in Seq(AnyFrame)
      BY <1>1, <1>4, <2>2
    <3>2. i \in 1..Len(link[g])
      BY <3>1
    <3> QED BY <2>2, <3>1, <3>2
  <2> QED BY <2>1, <2>2
<1>6. Typed'
  BY <1>2, <1>4 DEF IInv, Typed
<1>7. /\ Sized' /\ SlotsCollected' /\ SlotsAscend'
      /\ Known' /\ NotTwice' /\ AllOfOne' /\ Intact'
  <2>1. Sized' /\ SlotsCollected' /\ SlotsAscend'
    BY <1>2, SlotsSame
  <2>2. Known' /\ NotTwice'
    BY <1>2 DEF IInv, Known, NotTwice, OwnId, FlowOf
  <2>3. AllOfOne'
    BY <1>2 DEF IInv, AllOfOne, OwnId, Parts
  <2>4. Intact'
    BY <1>2, IntactSame
  <2> QED BY <2>1, <2>2, <2>3, <2>4
<1>8. LinksGenuine'
  <2>1. ASSUME NEW g \in Flow, NEW i \in DOMAIN link'[g]
        PROVE  Genuine(link[g][i])' /\ FlowOf(link[g][i].msg)' = g
    <3>1. Genuine(link'[g][i]) /\ FlowOf(link'[g][i].msg) = g
      BY <1>5 DEF IInv, LinksGenuine
    <3> QED BY <1>2, <3>1 DEF Genuine, FlowOf
  <2> QED BY <2>1 DEF LinksGenuine
<1>9. LinksAscend'
  <2> SUFFICES ASSUME NEW g \in Orderly, NEW i \in DOMAIN link'[g], NEW j \in DOMAIN link'[g],
                      i < j, link'[g][i].msg = link'[g][j].msg
               PROVE  Place(link'[g][i]) < Place(link'[g][j])
    BY DEF LinksAscend, Place
  <2>1. g \in Flow
    BY FragmentingAssumption
  <2>2. at(g, i) < at(g, j)
    BY <1>5, <2>1
  <2> HIDE DEF at
  <2> QED BY <1>5, <2>1, <2>2 DEF IInv, LinksAscend
<1>10. Past'
  <2>1. ASSUME NEW g \in Orderly, NEW i \in DOMAIN link'[g], NEW p \in Nat,
               Came(g[2], link[g][i].msg, p)'
        PROVE  p < Place(link[g][i])'
    <3>1. PICK k : k = link'[g][i].msg
      OBVIOUS
    <3>2. Came(g[2], k, p)
      BY <1>2, <2>1, <3>1, Zenon DEF Came
    <3>3. PICK j \in DOMAIN link[g] : link'[g][i] = link[g][j]
      BY <1>5, FragmentingAssumption
    <3>4. p < Place(link[g][j])
      BY <3>1, <3>2, <3>3 DEF IInv, Past
    <3> QED BY <3>3, <3>4 DEF Place
  <2> QED BY <2>1 DEF Past
<1> QED BY <1>6, <1>7, <1>8, <1>9, <1>10 DEF IInv

(***************************************************************************)
(* The steps that only set slots inactive.                                 *)
(***************************************************************************)
LEMMA GiveUpIInv ==
  ASSUME IInv, NEW n \in Node, GiveUpOld(n), UNCHANGED <<callbacks, link, sent, handed, twice>>,
         status' \in [Node -> {"active", "waiting"}]
  PROVE  IInv'
<1>1. PICK old \in SUBSET {i \in DOMAIN slots[n] : slots[n][i].active} :
        slots' = [slots EXCEPT ![n] = [i \in DOMAIN slots[n] |->
                    IF i \in old THEN [slots[n][i] EXCEPT !.active = FALSE] ELSE slots[n][i]]]
  BY DEF GiveUpOld
<1> DEFINE r == [i \in DOMAIN slots[n] |->
                   IF i \in old THEN [slots[n][i] EXCEPT !.active = FALSE] ELSE slots[n][i]]
<1>2. slots \in [Node -> Seq(Slot)] /\ slots[n] \in Seq(Slot)
  BY DEF IInv, Typed
<1>3. \A i \in DOMAIN slots[n] : r[i] \in Slot /\ r[i].id = slots[n][i].id
                                 /\ r[i].frags = slots[n][i].frags
  <2> TAKE i \in DOMAIN slots[n]
  <2>1. slots[n][i] \in Slot
    BY <1>2, SlotTypes DEF IInv
  <2> QED BY <2>1 DEF Slot
<1>4. r \in Seq(Slot) /\ Len(r) = Len(slots[n]) /\ DOMAIN r = DOMAIN slots[n]
  BY <1>2, <1>3, Rewritten
<1>5. /\ slots' \in [Node -> Seq(Slot)]
      /\ \A m \in Node : /\ Len(slots'[m]) = Len(slots[m]) /\ DOMAIN slots'[m] = DOMAIN slots[m]
                         /\ \A i \in DOMAIN slots[m] : /\ slots'[m][i].id = slots[m][i].id
                                                       /\ slots'[m][i].frags = slots[m][i].frags
  <2> HIDE DEF r
  <2>1. slots' = [slots EXCEPT ![n] = r]
    BY <1>1 DEF r
  <2>2. slots' \in [Node -> Seq(Slot)]
    BY <1>2, <1>4, <2>1
  <2>3. ASSUME NEW m \in Node
        PROVE  slots'[m] = IF m = n THEN r ELSE slots[m]
    BY <1>2, <2>1
  <2> QED BY <1>3, <1>4, <2>2, <2>3
<1>6. Typed'
  BY <1>5 DEF IInv, Typed
<1>7. Sized'
  BY <1>5 DEF IInv, Sized
<1>8. SlotsCollected'
  <2>1. ASSUME NEW m \in Node, NEW i \in DOMAIN slots'[m]
        PROVE  Collected(m, slots[m][i])'
    <3>1. i \in DOMAIN slots[m] /\ slots'[m][i].id = slots[m][i].id
          /\ slots'[m][i].frags = slots[m][i].frags
      BY <1>5
    <3>2. PICK t : t = slots[m][i]
      OBVIOUS
    <3>3. Collected(m, t)
      BY <3>1, <3>2 DEF IInv, SlotsCollected
    <3>4. Collected(m, t)'
      BY <1>5, <3>3, SaidOfSent
    <3> QED BY <3>1, <3>2, <3>4 DEF Collected
  <2> QED BY <2>1 DEF SlotsCollected
<1>9. SlotsAscend'
  <2>1. ASSUME NEW m \in Node, NEW i \in DOMAIN slots'[m]
        PROVE  InOrderOnly(slots[m][i])'
    <3>1. i \in DOMAIN slots[m] /\ slots'[m][i].frags = slots[m][i].frags
      BY <1>5
    <3>2. PICK t : t = slots[m][i]
      OBVIOUS
    <3>3. InOrderOnly(t)
      BY <3>1, <3>2 DEF IInv, SlotsAscend
    <3>4. InOrderOnly(t)'
      BY <1>5, <3>3, SaidOfSent
    <3> QED BY <3>1, <3>2, <3>4 DEF InOrderOnly
  <2> QED BY <2>1 DEF SlotsAscend
<1>10. Past'
  <2>1. ASSUME NEW m \in Node, NEW k, NEW p, Came(m, k, p)'
        PROVE  Came(m, k, p)
    BY <1>5, <2>1 DEF Came
  <2> SUFFICES ASSUME NEW g \in Orderly, NEW j \in DOMAIN link[g], NEW p \in Nat,
                      Came(g[2], link[g][j].msg, p)'
               PROVE  p < Place(link[g][j])
    BY DEF Past, Place
  <2>2. g[2] \in Node
    BY FragmentingAssumption
  <2>3. PICK k : k = link[g][j].msg
    OBVIOUS
  <2>4. Came(g[2], k, p)'
    BY <2>3 DEF Came
  <2>5. Came(g[2], k, p)
    BY <2>1, <2>2, <2>4
  <2> QED BY <2>3, <2>5 DEF IInv, Past
<1>11. LinksGenuine' /\ LinksAscend' /\ Known' /\ NotTwice' /\ AllOfOne' /\ Intact'
  <2>1. LinksGenuine' /\ LinksAscend'
    BY DEF IInv, LinksGenuine, LinksAscend, Genuine, FlowOf, Place
  <2>2. Known' /\ NotTwice'
    BY DEF IInv, Known, NotTwice, OwnId, FlowOf
  <2>3. AllOfOne'
    BY DEF IInv, AllOfOne, OwnId, Parts
  <2>4. Intact'
    BY IntactSame
  <2> QED BY <2>1, <2>2, <2>3, <2>4
<1> QED BY <1>6, <1>7, <1>8, <1>9, <1>10, <1>11 DEF IInv

(***************************************************************************)
(* A new message is unknown everywhere, and its frames come behind the     *)
(* others.                                                                 *)
(***************************************************************************)
LEMMA EmitIInv ==
  ASSUME IInv, NEW e \in Flow, NEW len \in Nat, NEW ids \in SUBSET Id,
         NEW frames \in Seq(AnyFrame),
         sent' = Append(sent, [from |-> e[1], to |-> e[2], len |-> len, ids |-> ids]),
         link' = [link EXCEPT ![e] = @ \o frames],
         UNCHANGED <<status, callbacks, slots, handed, twice>>,
         \A i \in DOMAIN frames :
           /\ frames[i].msg = Len(sent) + 1
           /\ frames[i].type = "fragment" => /\ len > MaxWhole /\ frames[i].id \in ids
                                             /\ frames[i].total = Total(len)
                                             /\ frames[i].seq < frames[i].total
           /\ frames[i].type = "whole" => len <= MaxWhole,
         \A i, j \in DOMAIN frames : i < j => Place(frames[i]) < Place(frames[j])
  PROVE  IInv'
<1> DEFINE k == Len(sent) + 1
           m == [from |-> e[1], to |-> e[2], len |-> len, ids |-> ids]
           L == Len(link[e])
<1>1. sent \in Seq(Message) /\ link \in [Flow -> Seq(AnyFrame)]
  BY DEF IInv, Typed
<1>2. e[1] \in Node /\ e[2] \in Node /\ e = <<e[1], e[2]>>
  BY FragmentingAssumption
<1>3. m \in Message /\ m.from = e[1] /\ m.to = e[2] /\ m.len = len /\ m.ids = ids
  BY <1>2 DEF Message
<1>4. /\ sent' \in Seq(Message) /\ DOMAIN sent = 1..Len(sent) /\ DOMAIN sent' = 1..k
      /\ Len(sent) \in Nat /\ k \notin DOMAIN sent /\ k \in DOMAIN sent'
      /\ \A j \in DOMAIN sent : j \in DOMAIN sent' /\ sent'[j] = sent[j]
      /\ sent'[k] = m
  <2> HIDE DEF m
  <2>1. sent' = Append(sent, m)
    BY DEF m
  <2> QED BY <1>1, <1>3, <2>1
<1> HIDE DEF m
<1>5. \A j \in DOMAIN sent : /\ FlowOf(j)' = FlowOf(j) /\ Parts(j)' = Parts(j)
                             /\ OwnId(j)' => OwnId(j)
  <2>1. ASSUME NEW j \in DOMAIN sent
        PROVE  FlowOf(j)' = FlowOf(j) /\ Parts(j)' = Parts(j)
    BY <1>4, <2>1 DEF FlowOf, Parts
  <2>2. ASSUME NEW j \in DOMAIN sent, OwnId(j)'
        PROVE  OwnId(j)
    <3> SUFFICES ASSUME NEW h \in DOMAIN sent, h # j
                 PROVE  sent[h].ids \cap sent[j].ids = {}
      BY DEF OwnId
    <3>1. h \in DOMAIN sent' /\ sent'[h] = sent[h] /\ sent'[j] = sent[j]
      BY <1>4
    <3> QED BY <2>2, <3>1 DEF OwnId
  <2> QED BY <2>1, <2>2
<1>6. \A f : Genuine(f) => Genuine(f)' /\ f.msg \in DOMAIN sent
  BY <1>4 DEF Genuine
<1>7. \A x : x = k => FlowOf(x)' = e
  BY <1>2, <1>3, <1>4 DEF FlowOf
<1>8. \A i \in DOMAIN frames : Genuine(frames[i])'
  BY <1>3, <1>4 DEF Genuine
<1>9. /\ L \in Nat /\ Len(frames) \in Nat
      /\ DOMAIN link[e] = 1..L /\ DOMAIN frames = 1..Len(frames)
      /\ link' \in [Flow -> Seq(AnyFrame)]
      /\ \A g \in Flow \ {e} : link'[g] = link[g]
      /\ DOMAIN link'[e] = 1..L + Len(frames)
  <2>1. link[e] \in Seq(AnyFrame)
    BY <1>1
  <2>2. /\ link[e] \o frames \in Seq(AnyFrame)
        /\ Len(link[e] \o frames) = L + Len(frames)
    BY <2>1, ConcatProperties
  <2>3. link'[e] = link[e] \o frames
    BY <1>1
  <2>4. link' \in [Flow -> Seq(AnyFrame)] /\ \A g \in Flow \ {e} : link'[g] = link[g]
    BY <1>1, <2>2
  <2> QED BY <2>1, <2>2, <2>3, <2>4
<1>10. \A i \in DOMAIN link'[e] :
         \/ i \in DOMAIN link[e] /\ link'[e][i] = link[e][i]
         \/ i > L /\ i - L \in DOMAIN frames /\ link'[e][i] = frames[i - L]
  <2>1. link[e] \in Seq(AnyFrame)
    BY <1>1
  <2>2. \A i \in 1..L + Len(frames) :
          (link[e] \o frames)[i] = IF i <= L THEN link[e][i] ELSE frames[i - L]
    BY <2>1, ConcatProperties
  <2>3. link'[e] = link[e] \o frames
    BY <1>1
  <2> QED BY <1>9, <2>2, <2>3
<1>11. /\ \A g \in Flow : \A i \in DOMAIN link[g] : link[g][i].msg \in DOMAIN sent
       /\ \A n \in Node : \A p : ~Came(n, k, p)
  <2>1. \A g \in Flow : \A i \in DOMAIN link[g] : link[g][i].msg \in DOMAIN sent
    BY DEF IInv, LinksGenuine, Genuine
  <2>2. \A n \in Node : \A i \in DOMAIN slots[n] : \A j \in DOMAIN slots[n][i].frags :
          slots[n][i].frags[j].msg # k
    <3> SUFFICES ASSUME NEW n \in Node, NEW i \in DOMAIN slots[n],
                        NEW j \in DOMAIN slots[n][i].frags
                 PROVE  slots[n][i].frags[j].msg \in DOMAIN sent
      BY <1>4
    <3>1. Collected(n, slots[n][i])
      BY DEF IInv, SlotsCollected
    <3> QED BY <3>1 DEF Collected, Genuine
  <2>3. \A n \in Node : \A h \in handed[n] : \A x \in DOMAIN h.parts : h.parts[x][1] # k
    BY <1>4 DEF IInv, Known
  <2> QED BY <2>1, <2>2, <2>3 DEF Came
<1>12. Typed'
  BY <1>4, <1>9 DEF IInv, Typed
<1>13. Sized'
  BY DEF IInv, Sized
<1>14. LinksGenuine'
  <2>1. ASSUME NEW g \in Flow, NEW i \in DOMAIN link'[g]
        PROVE  Genuine(link[g][i])' /\ FlowOf(link[g][i].msg)' = g
    <3>1. PICK f : f = link'[g][i]
      OBVIOUS
    <3>2. \/ \E j \in DOMAIN link[g] : f = link[g][j]
          \/ g = e /\ \E j \in DOMAIN frames : f = frames[j]
      BY <1>9, <1>10, <3>1
    <3>3. ASSUME NEW j \in DOMAIN link[g], f = link[g][j]
          PROVE  Genuine(f)' /\ FlowOf(f.msg)' = g
      BY <1>5, <1>6, <3>3 DEF IInv, LinksGenuine
    <3>4. ASSUME NEW j \in DOMAIN frames, f = frames[j], g = e
          PROVE  Genuine(f)' /\ FlowOf(f.msg)' = g
      <4>1. f.msg = k /\ Genuine(frames[j])'
        BY <1>8, <3>4
      <4> QED BY <1>7, <3>4, <4>1 DEF Genuine, FlowOf
    <3>5. Genuine(f)' /\ FlowOf(f.msg)' = g
      BY <3>2, <3>3, <3>4, Zenon
    <3> QED BY <3>1, <3>5 DEF Genuine, FlowOf
  <2> QED BY <2>1 DEF LinksGenuine
<1>15. SlotsCollected'
  <2>1. ASSUME NEW n \in Node, NEW i \in DOMAIN slots[n]
        PROVE  Collected(n, slots[n][i])'
    <3>1. Collected(n, slots[n][i])
      BY DEF IInv, SlotsCollected
    <3> QED BY <1>4, <1>6, <3>1 DEF Collected
  <2> QED BY <2>1 DEF SlotsCollected
<1>16. SlotsAscend'
  <2>1. ASSUME NEW n \in Node, NEW i \in DOMAIN slots[n]
        PROVE  InOrderOnly(slots[n][i])'
    <3>1. InOrderOnly(slots[n][i])
      BY DEF IInv, SlotsAscend
    <3>2. \A j \in DOMAIN slots[n][i].frags : slots[n][i].frags[j].msg \in DOMAIN sent
      BY DEF IInv, SlotsCollected, Collected, Genuine
    <3> QED BY <1>5, <3>1, <3>2 DEF InOrderOnly
  <2> QED BY <2>1 DEF SlotsAscend
<1>17. LinksAscend'
  <2>1. ASSUME NEW g \in Orderly, NEW i \in DOMAIN link'[g], NEW j \in DOMAIN link'[g],
               i < j, link'[g][i].msg = link'[g][j].msg
        PROVE  Place(link'[g][i]) < Place(link'[g][j])
    <3>1. g \in Flow
      BY FragmentingAssumption
    <3>2. CASE g # e
      BY <1>9, <2>1, <3>1, <3>2 DEF IInv, LinksAscend
    <3>3. CASE g = e
      <4>1. CASE i \in DOMAIN link[e] /\ link'[e][i] = link[e][i]
                 /\ j \in DOMAIN link[e] /\ link'[e][j] = link[e][j]
        BY <2>1, <3>3, <4>1 DEF IInv, LinksAscend
      <4>2. CASE i \in DOMAIN link[e] /\ link'[e][i] = link[e][i]
                 /\ j - L \in DOMAIN frames /\ link'[e][j] = frames[j - L]
        BY <1>4, <1>11, <2>1, <3>3, <4>2
      <4>3. CASE i > L /\ j \in DOMAIN link[e]
        BY <1>9, <2>1, <3>3, <4>3
      <4>4. CASE i - L \in DOMAIN frames /\ link'[e][i] = frames[i - L]
                 /\ j - L \in DOMAIN frames /\ link'[e][j] = frames[j - L]
        <5>1. i - L < j - L
          BY <1>9, <2>1, <3>3
        <5> QED BY <3>3, <4>4, <5>1
      <4> QED BY <1>10, <3>3, <4>1, <4>2, <4>3, <4>4
    <3> QED BY <3>2, <3>3
  <2> QED BY <2>1 DEF LinksAscend, Place
<1>18. Past'
  <2>1. ASSUME NEW g \in Orderly, NEW i \in DOMAIN link'[g], NEW p \in Nat,
               Came(g[2], link[g][i].msg, p)'
        PROVE  p < Place(link[g][i])'
    <3>1. g \in Flow /\ g[2] \in Node
      BY FragmentingAssumption
    <3>2. PICK x : x = link'[g][i].msg
      OBVIOUS
    <3>3. Came(g[2], x, p)
      BY <2>1, <3>2, Zenon DEF Came
    <3>4. x # k
      BY <1>11, <3>1, <3>3
    <3>5. i \in DOMAIN link[g] /\ link'[g][i] = link[g][i]
      BY <1>9, <1>10, <3>1, <3>2, <3>4
    <3>6. p < Place(link[g][i])
      BY <3>2, <3>3, <3>5 DEF IInv, Past
    <3> QED BY <3>5, <3>6 DEF Place
  <2> QED BY <2>1 DEF Past
<1>19. Known'
  BY <1>4 DEF IInv, Known
<1>20. NotTwice'
  BY <1>5 DEF IInv, Known, NotTwice
<1>21. AllOfOne'
  <2> SUFFICES ASSUME NEW n \in Node, NEW h \in handed[n], NEW x \in DOMAIN h.parts,
                      OwnId(h.parts[x][1])'
               PROVE  /\ h.from = sent'[h.parts[x][1]].from
                      /\ Len(h.parts) = Parts(h.parts[x][1])'
                      /\ {h.parts[j] : j \in DOMAIN h.parts}
                           = {h.parts[x][1]} \X (0..Parts(h.parts[x][1])' - 1)
    BY DEF AllOfOne
  <2>1. h.parts[x][1] \in DOMAIN sent
    BY DEF IInv, Known
  <2> QED BY <1>4, <1>5, <2>1 DEF IInv, AllOfOne
<1>22. Intact'
  BY <1>5, IntactStays
<1> QED BY <1>12, <1>13, <1>14, <1>15, <1>16, <1>17, <1>18, <1>19, <1>20, <1>21, <1>22 DEF IInv

LEMMA SendIInv ==
  ASSUME IInv, NEW e \in Flow, NEW len \in Length[e], Send(e[1], e[2], len)
  PROVE  IInv'
<1> DEFINE k == Len(sent) + 1
<1>1. len \in Nat /\ e = <<e[1], e[2]>> /\ Len(sent) \in Nat
  BY FragmentingAssumption DEF IInv, Typed
<1>2. UNCHANGED <<status, callbacks, slots, handed, twice>>
  BY DEF Send
<1>3. ASSUME len <= MaxWhole, Emit(e[1], e[2], len, {}, <<Whole(k)>>)
      PROVE  IInv'
  <2> DEFINE frames == <<Whole(k)>>
  <2>1. /\ frames \in Seq(AnyFrame) /\ DOMAIN frames = {1}
        /\ frames[1].msg = k /\ frames[1].type = "whole"
    BY <1>1 DEF Whole, AnyFrame, WholeFrame
  <2>2. /\ sent' = Append(sent, [from |-> e[1], to |-> e[2], len |-> len, ids |-> {}])
        /\ link' = [link EXCEPT ![e] = @ \o frames]
    BY <1>1, <1>3 DEF Emit
  <2> HIDE DEF frames
  <2>3. \A i \in DOMAIN frames :
           /\ frames[i].msg = Len(sent) + 1
           /\ frames[i].type = "fragment" => /\ len > MaxWhole /\ frames[i].id \in {}
                                             /\ frames[i].total = Total(len)
                                             /\ frames[i].seq < frames[i].total
           /\ frames[i].type = "whole" => len <= MaxWhole
    BY <1>3, <2>1
  <2>4. \A i, j \in DOMAIN frames : i < j => Place(frames[i]) < Place(frames[j])
    BY <2>1
  <2>5. {} \in SUBSET Id
    OBVIOUS
  <2> QED BY <1>1, <1>2, <2>1, <2>2, <2>3, <2>4, <2>5, EmitIInv
<1>4. ASSUME len > MaxWhole, NEW id \in Id,
             Emit(e[1], e[2], len, {id}, [i \in 1..Made(len) |-> Fragment(k, id, len, i - 1)])
      PROVE  IInv'
  <2> DEFINE frames == [i \in 1..Made(len) |-> Fragment(k, id, len, i - 1)]
  <2>1. Total(len) \in Nat /\ Made(len) \in Int /\ Made(len) <= Total(len)
    BY <1>1, Totals
  <2>2. DOMAIN frames = 1..Made(len)
    OBVIOUS
  <2>3. ASSUME NEW i \in 1..Made(len)
        PROVE  /\ frames[i] \in AnyFrame
               /\ frames[i].msg = k /\ frames[i].type = "fragment" /\ frames[i].id = id
               /\ frames[i].total = Total(len) /\ frames[i].seq = i - 1
               /\ frames[i].seq < frames[i].total
               /\ Place(frames[i]) = i - 1
    <3>1. frames[i] = Fragment(k, id, len, i - 1)
      OBVIOUS
    <3>2. i - 1 \in Nat /\ i - 1 < Total(len)
      BY <2>1
    <3> QED BY <1>1, <2>1, <3>1, <3>2 DEF Fragment, AnyFrame, FragmentFrame, Place
  <2>4. frames \in Seq(AnyFrame)
    <3>1. CASE Made(len) \in Nat
      BY <2>3, <3>1
    <3>2. CASE Made(len) \notin Nat
      <4>1. 1..Made(len) = 1..0
        BY <2>1, <3>2
      <4>2. frames = <<>>
        BY <4>1
      <4>3. <<>> \in Seq(AnyFrame)
        OBVIOUS
      <4> QED BY <4>2, <4>3, Zenon
    <3> QED BY <3>1, <3>2
  <2>5. /\ sent' = Append(sent, [from |-> e[1], to |-> e[2], len |-> len, ids |-> {id}])
        /\ link' = [link EXCEPT ![e] = @ \o frames]
    BY <1>1, <1>4 DEF Emit
  <2> HIDE DEF frames
  <2>6. \A i, j \in DOMAIN frames : i < j => Place(frames[i]) < Place(frames[j])
    BY <2>2, <2>3
  <2>7. \A i \in DOMAIN frames :
           /\ frames[i].msg = Len(sent) + 1
           /\ frames[i].type = "fragment" => /\ len > MaxWhole /\ frames[i].id \in {id}
                                             /\ frames[i].total = Total(len)
                                             /\ frames[i].seq < frames[i].total
           /\ frames[i].type = "whole" => len <= MaxWhole
    BY <1>4, <2>2, <2>3
  <2> QED BY <1>1, <1>2, <2>4, <2>5, <2>6, <2>7, EmitIInv
<1> QED BY <1>3, <1>4 DEF Send

-----------------------------------------------------------------------------
LEMMA InitIInv == Init => IInv
<1> SUFFICES ASSUME Init PROVE IInv
  OBVIOUS
<1>1. Typed /\ Sized
  BY FragmentingAssumption DEF Init, Typed, Sized
<1>2. /\ LinksGenuine /\ SlotsCollected /\ LinksAscend /\ SlotsAscend
      /\ Known /\ NotTwice /\ AllOfOne /\ Intact
  BY FragmentingAssumption
     DEF Init, LinksGenuine, SlotsCollected, LinksAscend, SlotsAscend, Known, NotTwice,
         AllOfOne, Intact
<1>3. Past
  BY FragmentingAssumption DEF Init, Past
<1> QED BY <1>1, <1>2, <1>3 DEF IInv

LEMMA NextIInv == IInv /\ [Next]_vars => IInv'
<1> SUFFICES ASSUME IInv, [Next]_vars PROVE IInv'
  OBVIOUS
<1>1. ASSUME NEW n \in Node, Daemon(n) \/ EnableRadio(n)
      PROVE  IInv'
  <2>1. status' \in [Node -> {"active", "waiting"}]
    BY <1>1 DEF Daemon, EnableRadio, IInv, Typed
  <2> QED BY <1>1, <2>1, GiveUpIInv DEF Daemon, EnableRadio
<1>2. ASSUME UNCHANGED <<slots, link, sent, handed, twice>>,
             status' \in [Node -> {"active", "waiting"}],
             callbacks' \in [Node -> 0..MaxProtocols]
      PROVE  IInv'
  <2>1. Typed'
    BY <1>2 DEF IInv, Typed
  <2>2. LinksGenuine' /\ LinksAscend'
    BY <1>2 DEF IInv, LinksGenuine, LinksAscend, Genuine, FlowOf, Place
  <2>3. Sized' /\ SlotsCollected' /\ SlotsAscend'
    BY <1>2, SlotsSame
  <2>4. Past'
    BY <1>2 DEF IInv, Past, Came, Place
  <2>5. Known' /\ NotTwice'
    BY <1>2 DEF IInv, Known, NotTwice, OwnId, FlowOf
  <2>6. AllOfOne'
    BY <1>2 DEF IInv, AllOfOne, OwnId, Parts
  <2>7. Intact'
    BY <1>2, IntactSame
  <2> QED BY <2>1, <2>2, <2>3, <2>4, <2>5, <2>6, <2>7 DEF IInv
<1>3. ASSUME NEW n \in Node, DisableRadio(n)
      PROVE  IInv'
  BY <1>2, <1>3 DEF DisableRadio, IInv, Typed
<1>4. ASSUME NEW e \in Flow, RegRecvCallback(e[2])
      PROVE  IInv'
  <2>1. callbacks' \in [Node -> 0..MaxProtocols]
    BY <1>4, FragmentingAssumption DEF RegRecvCallback, IInv, Typed
  <2> QED BY <1>2, <1>4, <2>1 DEF RegRecvCallback, IInv, Typed
<1>5. CASE UNCHANGED vars
  BY <1>2, <1>5 DEF vars, IInv, Typed
<1> QED BY <1>1, <1>3, <1>4, <1>5, SendIInv, InOrderIInv, AnyOrderIInv, LoseIInv DEF Next

(***************************************************************************)
(* The members of the radio keep their types, and its buffer and the       *)
(* messages in it stay within their sizes, for any use of it               *)
(* (fragmenting_radio.h:433-438, fragmenting_message.h:212-217).           *)
(***************************************************************************)
THEOREM TypeCorrect == Spec => []TypeOK
<1>1. IInv => TypeOK
  <2> SUFFICES ASSUME IInv PROVE TypeOK
    OBVIOUS
  <2>1. Typed /\ Sized
    BY DEF IInv
  <2>2. ASSUME NEW n \in Node
        PROVE  \A i \in DOMAIN slots[n] :
            /\ slots[n][i].id \in Id
            /\ slots[n][i].active \in BOOLEAN
            /\ Len(slots[n][i].frags) \in 1..MaxFragments
            /\ \A j \in DOMAIN slots[n][i].frags : slots[n][i].frags[j] \in FragmentFrame
    BY <2>1, SlotTypes DEF Slot
  <2>3. \A e \in Flow : \A i \in DOMAIN link[e] : link[e][i] \in FragmentFrame \cup WholeFrame
    BY <2>1 DEF Typed, AnyFrame
  <2>4. \A i \in DOMAIN sent : sent[i] \in [from : Node, to : Node, len : Nat, ids : SUBSET Id]
    <3>1. sent \in Seq(Message) /\ DOMAIN sent = 1..Len(sent)
      BY <2>1 DEF Typed
    <3> SUFFICES ASSUME NEW i \in DOMAIN sent PROVE sent[i] \in Message
      BY DEF Message
    <3> QED BY <3>1
  <2> QED BY <2>1, <2>2, <2>3, <2>4 DEF TypeOK, Typed, Sized
<1> QED BY <1>1, InitIInv, NextIInv, PTL DEF Spec

(***************************************************************************)
(* Unless ids collide, what is handed up is one message with all its       *)
(* parts, each once, and its sender, however frames are repeated, lost or  *)
(* reordered and slots shared, given up and reused (receive(),             *)
(* insert_unique(): fragmenting_radio.h:147-255,                           *)
(* fragmenting_message.h:104-141).                                         *)
(***************************************************************************)
THEOREM OneMessageWhole == Spec => []AllOfOne
<1>1. IInv => AllOfOne
  BY DEF IInv
<1> QED BY <1>1, InitIInv, NextIInv, PTL DEF Spec

(***************************************************************************)
(* From an orderly flow it is the message that was sent, part by part, and *)
(* only once (receive(): fragmenting_radio.h:165-233; de_vectorize():      *)
(* fragmenting_message.h:175-184).                                         *)
(***************************************************************************)
THEOREM OrderlyIntact == Spec => []Intact
<1>1. IInv => Intact
  BY DEF IInv
<1> QED BY <1>1, InitIInv, NextIInv, PTL DEF Spec
==============================================================================
