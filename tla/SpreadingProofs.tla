-------------------------- MODULE SpreadingProofs ---------------------------
(***************************************************************************)
(* That a flood is handed up once, that the parents of a flooding sink and *)
(* of clusters lead home, that Echo knows its neighbors, and that searches *)
(* and convergecasts make trees and count them, for whatever networks and  *)
(* sizes MCSpreading is given: each class has an inductive invariant of    *)
(* its own, and the steps of the others leave it alone.                    *)
(***************************************************************************)
EXTENDS MCSpreading, Sequences, FiniteSetTheorems, WellFoundedInduction, TLAPS

LEMMA SameSize ==
  ASSUME NEW X
  PROVE  F!Cardinality(X) = Cardinality(X) /\ E!Cardinality(X) = Cardinality(X)
BY DEF F!Cardinality, E!Cardinality, Cardinality

LEMMA SameSizeSearch ==
  ASSUME NEW X
  PROVE  /\ V!Cardinality(X) = Cardinality(X) /\ V!IsFiniteSet(X) = IsFiniteSet(X)
         /\ S!Cardinality(X) = Cardinality(X)
BY DEF V!Cardinality, Cardinality, S!Cardinality, V!IsFiniteSet, IsFiniteSet

Distinct(s) == \A j, k \in DOMAIN s : s[j] = s[k] => j = k

(***************************************************************************)
(* Flooding.  All copies of a message have one number.  Of a message that  *)
(* a node has handed up, and of whose source it knows a number, no copy    *)
(* has a greater one; if sources are paced all copies of a source are of   *)
(* its last message, and the number known is that of the copies.  Sources  *)
(* are only unknown of which something was heard if the table is full,     *)
(* and then for ever.                                                      *)
(***************************************************************************)
Full(n) == Cardinality(DOMAIN known[n]) >= floodTable

FShape ==
  /\ paced \in BOOLEAN /\ behind \subseteq Small
  /\ seqNr \in [Small -> 0..floodMod - 1]
  /\ fSent \in [Small -> Nat] /\ \A n \in Small : fSent[n] <= floodSends[n]
  /\ DOMAIN known = Small
  /\ \A n \in Small :
       /\ DOMAIN known[n] \subseteq Small /\ IsFiniteSet(DOMAIN known[n])
       /\ Cardinality(DOMAIN known[n]) <= floodTable
       /\ \A s \in DOMAIN known[n] : known[n][s] \in 0..floodMod - 1
  /\ {heard, again} \subseteq [Small -> SUBSET (Small \X F!Number)]
  /\ \A n \in Small : again[n] \subseteq heard[n]
  /\ rolledBack \in [Small -> SUBSET Small]
  /\ fAir \subseteq F!Copy /\ \A f \in fAir : f.to \in F!InRange(f.from)

BodiesSent == /\ \A f \in fAir : f.body <= fSent[f.src]
              /\ \A n \in Small : \A m \in heard[n] : m[2] <= fSent[m[1]]

OneNumber == \A f, g \in fAir : f.src = g.src /\ f.body = g.body => f.seq = g.seq

LastOnly == paced => \A f, g \in fAir : f.src = g.src => f.body = g.body

HeardKnown == \A n \in Small : \A m \in heard[n] : m[1] \in DOMAIN known[n] \/ Full(n)

Settled(n, f) ==
  <<f.src, f.body>> \in heard[n] /\ f.src \in DOMAIN known[n] =>
    IF paced THEN f.seq = known[n][f.src]
             ELSE f.src \in rolledBack[n] \/ f.seq <= known[n][f.src]

AllSettled == \A n \in Small : \A f \in fAir : Settled(n, f)

FInv == /\ F!FloodingAssumption /\ FShape /\ BodiesSent /\ OneNumber /\ LastOnly
        /\ HeardKnown /\ AllSettled /\ F!HandedOnce

LEMMA CopyFields ==
  ASSUME NEW f \in F!Copy
  PROVE  /\ f.to \in Small /\ f.from \in Small /\ f.src \in Small /\ f.seq \in 0..floodMod - 1
         /\ f.dst \in Small \cup {All} /\ f.body \in F!Number
BY DEF F!Copy

LEMMA NumbersAreNat ==
  ASSUME F!FloodingAssumption
  PROVE  F!Number \subseteq Nat
BY DEF F!FloodingAssumption, F!Number

LEMMA FInvHandedOnce == FInv => F!TypeOK /\ F!HandedOnce
<1> SUFFICES ASSUME FInv PROVE F!TypeOK
  BY DEF FInv
<1>1. \A n \in Small : fSent[n] \in 0..floodSends[n]
  BY DEF FInv, FShape, F!FloodingAssumption
<1>2. \A n \in Small : again[n] \subseteq heard[n] /\ heard[n] \subseteq Small \X F!Number
  BY DEF FInv, FShape
<1> QED BY <1>1, <1>2, SameSize DEF FInv, FShape, F!TypeOK

LEMMA InitFInv == F!FloodingAssumption /\ F!Init => FInv
<1> SUFFICES ASSUME F!FloodingAssumption, F!Init PROVE FInv
  OBVIOUS
<1>1. \A n \in Small : DOMAIN known[n] = {}
  BY DEF F!Init
<1>2. FShape
  BY <1>1, FS_EmptySet DEF F!Init, FShape, F!FloodingAssumption
<1> QED BY <1>2 DEF F!Init, FInv, BodiesSent, OneNumber, LastOnly, HeardKnown, AllSettled,
             F!HandedOnce

LEMMA CopiesOf ==
  ASSUME F!FloodingAssumption, NEW n \in Small, NEW f,
         NEW s \in Small, f.src = s, f.seq \in 0..floodMod - 1, f.dst \in Small \cup {All},
         f.body \in F!Number, NEW g \in F!Copies(n, f)
  PROVE  /\ g \in F!Copy /\ g.to \in F!InRange(g.from)
         /\ g.src = f.src /\ g.seq = f.seq /\ g.body = f.body
<1>1. PICK m \in F!InRange(n) :
        g = [to |-> m, from |-> n, src |-> f.src, seq |-> f.seq, dst |-> f.dst, body |-> f.body]
  BY DEF F!Copies
<1> QED BY <1>1 DEF F!Copy, F!InRange

LEMMA SendFInv ==
  ASSUME FInv, NEW n \in Small, NEW to \in Small \cup {All}, F!Send(n, to)
  PROVE  FInv'
<1> DEFINE r == [src |-> n, seq |-> seqNr[n], dst |-> to, body |-> fSent[n] + 1]
<1>1. fSent[n] \in Nat /\ fSent[n] + 1 <= floodSends[n] /\ floodSends[n] \in Nat
  BY DEF FInv, FShape, F!Send, F!Limit, F!FloodingAssumption
<1>2. r.body \in F!Number /\ r.seq \in 0..floodMod - 1
  BY <1>1 DEF F!Number, FInv, FShape
<1>3. /\ fAir' = fAir \cup F!Copies(n, r)
      /\ fSent' = [fSent EXCEPT ![n] = @ + 1]
      /\ UNCHANGED <<paced, known, heard, again, rolledBack, behind>>
  BY DEF F!Send
<1>4. \A g \in F!Copies(n, r) :
        /\ g \in F!Copy /\ g.to \in F!InRange(g.from)
        /\ g.src = n /\ g.seq = seqNr[n] /\ g.body = fSent[n] + 1
  BY <1>2, CopiesOf DEF FInv
<1>5. /\ fSent'[n] = fSent[n] + 1 /\ \A x \in Small \ {n} : fSent'[x] = fSent[x]
      /\ fSent' \in [Small -> Nat] /\ \A x \in Small : fSent[x] \in Nat
  BY <1>1, <1>3 DEF FInv, FShape
<1>6. FShape'
  <2>1. seqNr' \in [Small -> 0..floodMod - 1]
    <3>1. (seqNr[n] + 1) % floodMod \in 0..floodMod - 1
      BY DEF FInv, FShape, F!FloodingAssumption
    <3> QED BY <3>1 DEF FInv, FShape, F!Send
  <2>2. fAir' \subseteq F!Copy /\ \A f \in fAir' : f.to \in F!InRange(f.from)
    BY <1>3, <1>4 DEF FInv, FShape
  <2>3. \A x \in Small : fSent'[x] <= floodSends[x]
    BY <1>1, <1>5 DEF FInv, FShape
  <2> QED BY <1>3, <1>5, <2>1, <2>2, <2>3 DEF FInv, FShape
<1>7. \A f \in fAir : f.src \in Small /\ f.body \in Nat /\ f.body <= fSent[f.src]
  BY CopyFields, NumbersAreNat DEF FInv, FShape, BodiesSent
<1>8. \A x \in Small : \A m \in heard[x] :
        m[1] \in Small /\ m[2] \in Nat /\ m[2] <= fSent[m[1]]
  BY NumbersAreNat DEF FInv, FShape, BodiesSent
<1>9. BodiesSent'
  BY <1>3, <1>4, <1>5, <1>7, <1>8 DEF BodiesSent
<1>10. OneNumber'
  BY <1>3, <1>4, <1>5, <1>7 DEF FInv, OneNumber
<1>11. LastOnly'
  <2>1. paced => \A f \in fAir : f.src # n
    BY DEF F!Send, F!UnderWay
  <2> QED BY <1>3, <1>4, <2>1 DEF FInv, LastOnly
<1>12. HeardKnown' /\ F!HandedOnce'
  BY <1>3 DEF FInv, HeardKnown, Full, F!HandedOnce
<1>13. AllSettled'
  <2> SUFFICES ASSUME NEW x \in Small, NEW f \in fAir' PROVE Settled(x, f)'
    BY DEF AllSettled
  <2>1. CASE f \in fAir
    BY <2>1, <1>3 DEF FInv, AllSettled, Settled
  <2>2. CASE f \in F!Copies(n, r)
    <3>1. <<f.src, f.body>> \notin heard[x]
      BY <2>2, <1>4, <1>5, <1>8
    <3> QED BY <3>1, <1>3 DEF Settled
  <2> QED BY <2>1, <2>2, <1>3
<1> QED BY <1>6, <1>9, <1>10, <1>11, <1>12, <1>13 DEF FInv

LEMMA InitAgainFInv ==
  ASSUME FInv, NEW n \in Small, F!InitAgain(n)
  PROVE  FInv'
<1>1. FShape'
  BY DEF FInv, FShape, F!InitAgain, F!FloodingAssumption, F!InRange
<1> QED BY <1>1 DEF FInv, F!InitAgain, BodiesSent, OneNumber, LastOnly, HeardKnown, Full,
             AllSettled, Settled, F!HandedOnce

LEMMA DropFInv ==
  ASSUME FInv, NEW n \in Small, NEW f \in fAir, F!Drop(n, f)
  PROVE  FInv'
<1>1. FShape'
  BY DEF FInv, FShape, F!Drop, F!InRange
<1> QED BY <1>1 DEF FInv, F!Drop, BodiesSent, OneNumber, LastOnly, HeardKnown, Full,
             AllSettled, Settled, F!HandedOnce

(***************************************************************************)
(* What the table becomes.                                                 *)
(***************************************************************************)
LEMMA Learning ==
  ASSUME FInv, NEW n \in Small, NEW s \in Small, NEW q \in 0..floodMod - 1,
         NEW new, new = F!Learn(n, s, q)
  PROVE  /\ DOMAIN known[n] \subseteq DOMAIN new
         /\ DOMAIN new \subseteq DOMAIN known[n] \cup {s}
         /\ IsFiniteSet(DOMAIN new) /\ Cardinality(DOMAIN new) <= floodTable
         /\ s \in DOMAIN known[n] \/ ~Full(n) <=> s \in DOMAIN new
         /\ s \in DOMAIN new => new[s] = q
         /\ \A x \in DOMAIN new \ {s} : new[x] = known[n][x]
         /\ \A x \in DOMAIN new : new[x] \in 0..floodMod - 1
         /\ Full(n) => Cardinality(DOMAIN new) >= floodTable
<1>1. /\ IsFiniteSet(DOMAIN known[n]) /\ Cardinality(DOMAIN known[n]) <= floodTable
      /\ Cardinality(DOMAIN known[n]) \in Nat /\ floodTable \in Nat
      /\ DOMAIN known[n] \subseteq Small
      /\ \A x \in DOMAIN known[n] : known[n][x] \in 0..floodMod - 1
  BY FS_CardinalityType DEF FInv, FShape, F!FloodingAssumption
<1>2. ~Full(n) <=> F!Cardinality(DOMAIN known[n]) < floodTable
  BY <1>1, SameSize DEF Full
<1>3. CASE s \in DOMAIN known[n]
  <2>1. new = [x \in DOMAIN known[n] \cup {s} |-> IF x = s THEN q ELSE known[n][x]]
    BY <1>3 DEF F!Learn
  <2>2. DOMAIN new = DOMAIN known[n]
    BY <1>3, <2>1
  <2> QED BY <1>1, <1>3, <2>1, <2>2 DEF Full
<1>4. CASE s \notin DOMAIN known[n] /\ ~Full(n)
  <2>1. new = [x \in DOMAIN known[n] \cup {s} |-> IF x = s THEN q ELSE known[n][x]]
    BY <1>2, <1>4 DEF F!Learn
  <2>2. DOMAIN new = DOMAIN known[n] \cup {s}
    BY <2>1
  <2>3. /\ IsFiniteSet(DOMAIN new)
        /\ Cardinality(DOMAIN new) = Cardinality(DOMAIN known[n]) + 1
    <3>1. /\ IsFiniteSet(DOMAIN known[n] \cup {s})
          /\ Cardinality(DOMAIN known[n] \cup {s}) = Cardinality(DOMAIN known[n]) + 1
      BY <1>1, <1>4, FS_AddElement
    <3> QED BY <2>2, <3>1
  <2>4. Cardinality(DOMAIN new) <= floodTable
    BY <1>1, <1>4, <2>3 DEF Full
  <2> QED BY <1>1, <1>4, <2>1, <2>2, <2>3, <2>4
<1>5. CASE s \notin DOMAIN known[n] /\ Full(n)
  <2>1. new = known[n]
    BY <1>2, <1>5 DEF F!Learn
  <2> QED BY <1>1, <1>5, <2>1 DEF Full
<1> QED BY <1>3, <1>4, <1>5

LEMMA ForwardFInv ==
  ASSUME FInv, NEW n \in Small, NEW f \in fAir, F!Forward(n, f)
  PROVE  FInv'
<1> DEFINE new == F!Learn(n, f.src, f.seq)
           up == IF f.dst \in {n, All} THEN {<<f.src, f.body>>} ELSE {}
<1>1. /\ f.src \in Small /\ f.seq \in 0..floodMod - 1 /\ f.dst \in Small \cup {All}
      /\ f.body \in F!Number
  BY CopyFields DEF FInv, FShape
<1>2. /\ f.src # n /\ F!IsNew(n, f)
      /\ known' = [known EXCEPT ![n] = new]
      /\ fAir' = (fAir \ {f}) \cup F!Copies(n, f)
      /\ heard' = [heard EXCEPT ![n] = @ \cup up]
      /\ again' = [again EXCEPT ![n] = @ \cup (up \cap heard[n])]
      /\ rolledBack' = [rolledBack EXCEPT ![n] =
                          IF F!StartsAgain(n, f) THEN @ \cup {f.src} ELSE @]
      /\ UNCHANGED <<paced, seqNr, fSent, behind>>
  BY DEF F!Forward
<1>3. /\ known'[n] = new /\ heard'[n] = heard[n] \cup up
      /\ again'[n] = again[n] \cup (up \cap heard[n])
      /\ rolledBack'[n] = IF F!StartsAgain(n, f) THEN rolledBack[n] \cup {f.src} ELSE rolledBack[n]
      /\ \A x \in Small \ {n} : /\ known'[x] = known[x] /\ heard'[x] = heard[x]
                                /\ again'[x] = again[x] /\ rolledBack'[x] = rolledBack[x]
  BY <1>2 DEF FInv, FShape
<1>4. /\ DOMAIN known[n] \subseteq DOMAIN new
      /\ DOMAIN new \subseteq DOMAIN known[n] \cup {f.src}
      /\ IsFiniteSet(DOMAIN new) /\ Cardinality(DOMAIN new) <= floodTable
      /\ f.src \in DOMAIN known[n] \/ ~Full(n) <=> f.src \in DOMAIN new
      /\ f.src \in DOMAIN new => new[f.src] = f.seq
      /\ \A x \in DOMAIN new \ {f.src} : new[x] = known[n][x]
      /\ \A x \in DOMAIN new : new[x] \in 0..floodMod - 1
      /\ Full(n) => Cardinality(DOMAIN new) >= floodTable
  BY <1>1, Learning
<1> HIDE DEF new
<1>5. up \subseteq Small \X F!Number /\ up \subseteq {<<f.src, f.body>>}
  BY <1>1
<1> HIDE DEF up
<1>6. \A g \in F!Copies(n, f) :
        /\ g \in F!Copy /\ g.to \in F!InRange(g.from)
        /\ g.src = f.src /\ g.seq = f.seq /\ g.body = f.body
  BY <1>1, CopiesOf DEF FInv
<1>7. \A g \in fAir' : /\ \E h \in fAir : h.src = g.src /\ h.seq = g.seq /\ h.body = g.body
                       /\ g \in F!Copy
  BY <1>2, <1>6 DEF FInv, FShape
<1>8. FShape'
  <2>1. /\ heard' \in [Small -> SUBSET (Small \X F!Number)]
        /\ again' \in [Small -> SUBSET (Small \X F!Number)]
        /\ \A x \in Small : again'[x] \subseteq heard'[x]
        /\ rolledBack' \in [Small -> SUBSET Small]
    BY <1>1, <1>2, <1>3, <1>5 DEF FInv, FShape
  <2>2. /\ DOMAIN known' = Small
        /\ \A x \in Small :
             /\ DOMAIN known'[x] \subseteq Small /\ IsFiniteSet(DOMAIN known'[x])
             /\ Cardinality(DOMAIN known'[x]) <= floodTable
             /\ \A s \in DOMAIN known'[x] : known'[x][s] \in 0..floodMod - 1
    BY <1>1, <1>2, <1>3, <1>4 DEF FInv, FShape
  <2>3. fAir' \subseteq F!Copy /\ \A g \in fAir' : g.to \in F!InRange(g.from)
    BY <1>2, <1>6 DEF FInv, FShape
  <2> QED BY <1>2, <2>1, <2>2, <2>3 DEF FInv, FShape
<1>9. BodiesSent'
  <2>1. f.body <= fSent[f.src]
    BY DEF FInv, BodiesSent
  <2>2. \A x \in Small : heard'[x] \subseteq heard[x] \cup {<<f.src, f.body>>}
    BY <1>3, <1>5
  <2> QED BY <1>2, <1>7, <2>1, <2>2 DEF FInv, BodiesSent
<1>10. OneNumber' /\ LastOnly'
  BY <1>2, <1>7 DEF FInv, OneNumber, LastOnly
<1>11. HeardKnown'
  <2> SUFFICES ASSUME NEW x \in Small, NEW m \in heard'[x]
               PROVE  m[1] \in DOMAIN known'[x] \/ Full(x)'
    BY DEF HeardKnown
  <2>1. CASE x # n
    BY <2>1, <1>3 DEF FInv, HeardKnown, Full
  <2>2. CASE x = n
    <3>1. CASE m \in heard[n]
      BY <2>2, <3>1, <1>3, <1>4 DEF FInv, HeardKnown, Full
    <3>2. CASE m = <<f.src, f.body>>
      BY <2>2, <3>2, <1>3, <1>4 DEF Full
    <3> QED BY <2>2, <3>1, <3>2, <1>3, <1>5
  <2> QED BY <2>1, <2>2
<1>12. AllSettled'
  <2> SUFFICES ASSUME NEW x \in Small, NEW g \in fAir' PROVE Settled(x, g)'
    BY DEF AllSettled
  <2>1. PICK h \in fAir : h.src = g.src /\ h.seq = g.seq /\ h.body = g.body
    BY <1>7
  <2>2. Settled(x, h)
    BY DEF FInv, AllSettled
  <2>3. CASE x # n
    BY <2>1, <2>2, <2>3, <1>2, <1>3 DEF Settled
  <2>4. CASE x = n /\ g.src # f.src
    <3>1. (<<g.src, g.body>> \in heard'[n] <=> <<g.src, g.body>> \in heard[n])
          /\ rolledBack[n] \subseteq rolledBack'[n]
      BY <2>4, <1>3, <1>5
    <3>2. g.src \in DOMAIN known'[n] => g.src \in DOMAIN known[n] /\ known'[n][g.src] = known[n][g.src]
      BY <2>4, <1>3, <1>4
    <3> QED BY <2>1, <2>2, <2>4, <3>1, <3>2, <1>2 DEF Settled
  <2>5. CASE x = n /\ g.src = f.src
    <3> SUFFICES ASSUME <<f.src, g.body>> \in heard'[n], f.src \in DOMAIN known'[n]
                 PROVE  IF paced THEN g.seq = known'[n][f.src]
                        ELSE f.src \in rolledBack'[n] \/ g.seq <= known'[n][f.src]
      BY <2>5, <1>2 DEF Settled
    <3>1. known'[n][f.src] = f.seq
      BY <1>3, <1>4
    <3>2. CASE g.body = f.body
      <4>1. g.seq = f.seq
        BY <2>1, <2>5, <3>2 DEF FInv, OneNumber
      <4> QED BY <3>1, <4>1, <1>1
    <3>3. CASE g.body # f.body
      <4>1. ~paced
        BY <2>1, <2>5, <3>3 DEF FInv, LastOnly
      <4>2. <<f.src, g.body>> \in heard[n]
        BY <3>3, <1>3, <1>5
      <4>3. f.src \in DOMAIN known[n]
        <5>1. f.src \in DOMAIN known[n] \/ Full(n)
          BY <4>2 DEF FInv, HeardKnown
        <5> QED BY <5>1, <1>3, <1>4
      <4>4. f.src \in rolledBack[n] \/ g.seq <= known[n][f.src]
        BY <2>1, <2>2, <2>5, <4>1, <4>2, <4>3 DEF Settled
      <4>5. /\ known[n][f.src] \in Nat /\ g.seq \in Nat
        BY <4>3, <1>7, CopyFields DEF FInv, FShape
      <4>6. F!StartsAgain(n, f) => f.src \in rolledBack'[n]
        BY <1>3
      <4>7. rolledBack[n] \subseteq rolledBack'[n]
        BY <1>3
      <4>8. f.seq > known[n][f.src] \/ F!StartsAgain(n, f)
        BY <4>3, <1>2 DEF F!IsNew
      <4> QED BY <3>1, <4>1, <4>4, <4>5, <4>6, <4>7, <4>8, <1>1
    <3> QED BY <3>2, <3>3
  <2> QED BY <2>3, <2>4, <2>5
<1>13. F!HandedOnce'
  <2> SUFFICES ASSUME NEW x \in Small, NEW m \in again'[x]
               PROVE  m[1] \notin DOMAIN known'[x] \/ (~paced /\ m[1] \in rolledBack'[x])
    BY <1>2 DEF F!HandedOnce
  <2>1. CASE x # n
    BY <2>1, <1>3 DEF FInv, F!HandedOnce
  <2>2. CASE x = n /\ m \in again[n]
    <3>1. m \in heard[n]
      BY <2>2 DEF FInv, FShape
    <3>2. m[1] \in DOMAIN known[n] \/ Full(n)
      BY <3>1 DEF FInv, HeardKnown
    <3>3. m[1] \notin DOMAIN known[n] \/ (~paced /\ m[1] \in rolledBack[n])
      BY <2>2 DEF FInv, F!HandedOnce
    <3>4. m[1] \notin DOMAIN known[n] => m[1] \notin DOMAIN new
      BY <3>2, <1>4
    <3> QED BY <2>2, <3>3, <3>4, <1>3
  <2>3. CASE x = n /\ m = <<f.src, f.body>> /\ m \in heard[n]
    <3> SUFFICES ASSUME f.src \in DOMAIN new PROVE ~paced /\ f.src \in rolledBack'[n]
      BY <2>3, <1>3
    <3>1. f.src \in DOMAIN known[n]
      <4>1. f.src \in DOMAIN known[n] \/ Full(n)
        BY <2>3 DEF FInv, HeardKnown
      <4> QED BY <4>1, <1>4
    <3>2. Settled(n, f)
      BY DEF FInv, AllSettled
    <3>3. f.seq > known[n][f.src] \/ F!StartsAgain(n, f)
      BY <3>1, <1>2 DEF F!IsNew
    <3>4. known[n][f.src] \in Nat /\ f.seq \in Nat
      BY <3>1, <1>1 DEF FInv, FShape
    <3>5. F!StartsAgain(n, f) => f.seq = 0 /\ known[n][f.src] >= 2 /\ f.src \in rolledBack'[n]
      BY <1>3 DEF F!StartsAgain
    <3> QED BY <2>3, <3>1, <3>2, <3>3, <3>4, <3>5, <1>3 DEF Settled
  <2> QED BY <2>1, <2>2, <2>3, <1>3, <1>5
<1> QED BY <1>8, <1>9, <1>10, <1>11, <1>12, <1>13 DEF FInv

LEMMA StepFInv == FInv /\ [F!Next]_fVars => FInv'
<1> SUFFICES ASSUME FInv, [F!Next]_fVars PROVE FInv'
  OBVIOUS
<1>1. ASSUME NEW e \in floodFlow, F!Send(e[1], e[2]) PROVE FInv'
  <2>1. e[1] \in Small /\ e[2] \in Small \cup {All}
    BY DEF FInv, F!FloodingAssumption
  <2> QED BY <1>1, <2>1, SendFInv
<1>2. ASSUME NEW n \in floodResetting, F!InitAgain(n) PROVE FInv'
  BY <1>2, InitAgainFInv DEF FInv, F!FloodingAssumption
<1>3. ASSUME NEW n \in Small, NEW f \in fAir, F!Receive(n, f) PROVE FInv'
  BY <1>3, ForwardFInv, DropFInv DEF F!Receive
<1>4. CASE UNCHANGED fVars
  <2>1. FShape'
    BY <1>4 DEF FInv, FShape, fVars, F!InRange
  <2> QED BY <1>4, <2>1 DEF fVars, FInv, BodiesSent, OneNumber, LastOnly, HeardKnown, Full,
             AllSettled, Settled, F!HandedOnce
<1> QED BY <1>1, <1>2, <1>3, <1>4 DEF F!Next, F!Arriving

------------------------------------------------------------------------------
(***************************************************************************)
(* The flooding sink.  A query that a node other than the sink passed on   *)
(* is no later than that node; so a node takes it from one that has a      *)
(* parent, and a node is no later than its parent.                         *)
(***************************************************************************)
Others == Small \ {treeSink}

QueriesTrue == \A f \in tAir : f.type = "query" =>
  /\ f.from \in Small /\ f.to \in T!InRange(f.from)
  /\ f.from # treeSink => parent[f.from] # Null /\ seq[f.from] >= f.seq

NoLater == \A n \in T!Joined :
  /\ parent[n] \in Small \ {n}
  /\ parent[n] # treeSink => parent[parent[n]] # Null /\ seq[parent[n]] >= seq[n]

ResultsSent == \A f \in tAir : f.type = "result" => f.result \in tSent

TInv == /\ T!FloodTreeAssumption /\ T!TypeOK /\ QueriesTrue /\ NoLater /\ ResultsSent
        /\ T!NoCircle /\ T!ResultsAscend

LEMMA QueryFrames ==
  ASSUME T!FloodTreeAssumption, NEW n \in Small, NEW q \in 0..treeMod - 1, NEW f \in T!Query(n, q)
  PROVE  /\ f \in T!Frame /\ f.type = "query" /\ f.from = n /\ f.seq = q
         /\ f.to \in T!InRange(n)
<1>1. PICK m \in T!InRange(n) : f = [type |-> "query", to |-> m, from |-> n, seq |-> q]
  BY DEF T!Query
<1>2. f \in [type : {"query"}, to : Small, from : Small, seq : 0..treeMod - 1]
  BY <1>1 DEF T!InRange
<1> QED BY <1>1, <1>2 DEF T!Frame

LEMMA ResultFrames ==
  ASSUME TInv, NEW n \in Others, NEW r \in T!Sent, NEW f \in T!Result(n, r)
  PROVE  /\ f \in T!Frame /\ f.type = "result" /\ f.result = r
         /\ n \in T!Joined
         /\ f.to # treeSink => parent[f.to] # Null /\ seq[f.to] >= f.seq
<1>1. parent[n] # Null /\ f = [type |-> "result", to |-> parent[n], result |-> r, seq |-> seq[n]]
  BY DEF T!Result
<1>2. n \in T!Joined
  BY <1>1 DEF T!Joined, Others
<1>3. parent[n] \in Small /\ seq[n] \in 0..treeMod - 1
  BY <1>2 DEF TInv, NoLater, T!TypeOK, Others
<1>4. f \in [type : {"result"}, to : Small, result : T!Sent, seq : 0..treeMod - 1]
  BY <1>1, <1>3
<1> QED BY <1>1, <1>2, <1>4 DEF T!Frame, TInv, NoLater

LEMMA TreeFrameFields ==
  ASSUME NEW f \in T!Frame
  PROVE  /\ f.to \in Small /\ f.type \in {"query", "result"} /\ f.seq \in 0..treeMod - 1
         /\ f.type = "query" => f.from \in Small
         /\ f.type = "result" => f.result \in T!Sent
BY DEF T!Frame

(***************************************************************************)
(* A step that leaves all but the sink alone, but for what is in the air.  *)
(***************************************************************************)
LEMMA SinkMoves ==
  ASSUME TInv, \A n \in Others : parent'[n] = parent[n] /\ seq'[n] = seq[n],
         T!TypeOK', ResultsSent',
         \A f \in tAir' :
           \/ f \in tAir
           \/ f.type = "query" /\ f.from = treeSink /\ f.to \in T!InRange(treeSink)
           \/ /\ f.type = "result"
              /\ f.to # treeSink => parent[f.to] # Null /\ seq[f.to] >= f.seq
  PROVE  TInv'
<1>1. T!Joined' = T!Joined
  BY DEF T!Joined, Others
<1>2. NoLater'
  BY <1>1 DEF TInv, NoLater, T!Joined, Others
<1>3. QueriesTrue'
  BY DEF TInv, QueriesTrue, Others, T!FloodTreeAssumption
<1>4. T!NoCircle'
  <2>1. \A n \in T!Joined : parent'[n] = parent[n]
    BY DEF T!Joined, Others
  <2> QED BY <1>1, <2>1 DEF TInv, T!NoCircle
<1>5. T!ResultsAscend'
  <2> SUFFICES ASSUME NEW f \in tAir', f.type = "result", f.to # treeSink
               PROVE  parent'[f.to] # Null /\ seq'[f.to] >= f.seq
    BY DEF T!ResultsAscend
  <2>1. f.to \in Others
    BY TreeFrameFields DEF T!TypeOK, Others
  <2> QED BY <2>1 DEF TInv, T!ResultsAscend
<1> QED BY <1>2, <1>3, <1>4, <1>5 DEF TInv

LEMMA InitTInv == T!FloodTreeAssumption /\ T!Init => TInv
<1> SUFFICES ASSUME T!FloodTreeAssumption, T!Init PROVE TInv
  OBVIOUS
<1>1. T!Joined = {}
  BY DEF T!Init, T!Joined
<1>2. T!TypeOK
  BY DEF T!Init, T!TypeOK, T!FloodTreeAssumption
<1> QED BY <1>1, <1>2 DEF T!Init, TInv, QueriesTrue, NoLater, ResultsSent, T!NoCircle, T!ResultsAscend

LEMMA SetParentTInv ==
  ASSUME TInv, T!SetParent(treeSink, treeSink)
  PROVE  TInv'
<1>1. T!TypeOK'
  BY DEF TInv, T!TypeOK, T!SetParent, T!FloodTreeAssumption
<1>2. ResultsSent' /\ \A n \in Others : parent'[n] = parent[n] /\ seq'[n] = seq[n]
  BY DEF TInv, T!TypeOK, T!SetParent, ResultsSent, Others
<1> QED BY <1>1, <1>2, SinkMoves DEF T!SetParent

LEMMA SendQueryTInv ==
  ASSUME TInv, T!SendQuery(treeSink)
  PROVE  TInv'
<1>1. treeSink \in Small /\ (seq[treeSink] + 1) % treeMod \in 0..treeMod - 1
  BY DEF TInv, T!TypeOK, T!FloodTreeAssumption
<1>2. seq'[treeSink] \in 0..treeMod - 1 /\ seq' \in [Small -> 0..treeMod - 1]
  BY <1>1 DEF TInv, T!TypeOK, T!SendQuery
<1>3. \A f \in tAir' : f \in tAir \/ f \in T!Query(treeSink, seq'[treeSink])
  BY DEF T!SendQuery
<1>4. \A f \in T!Query(treeSink, seq'[treeSink]) :
        /\ f \in T!Frame /\ f.type = "query" /\ f.from = treeSink /\ f.to \in T!InRange(treeSink)
  BY <1>1, <1>2, QueryFrames DEF TInv
<1>5. T!TypeOK'
  <2>1. tAir' \subseteq T!Frame
    BY <1>3, <1>4 DEF TInv, T!TypeOK
  <2>2. flooded' \in 0..treeFloods
    BY DEF TInv, T!TypeOK, T!SendQuery, T!FloodTreeAssumption
  <2> QED BY <1>2, <2>1, <2>2 DEF TInv, T!TypeOK, T!SendQuery
<1>6. ResultsSent' /\ \A n \in Others : parent'[n] = parent[n] /\ seq'[n] = seq[n]
  BY <1>3, <1>4 DEF TInv, T!TypeOK, T!SendQuery, ResultsSent, Others
<1> QED BY <1>3, <1>4, <1>5, <1>6, SinkMoves

LEMMA DropQueryTInv ==
  ASSUME TInv, NEW n \in Small, NEW f \in tAir, T!DropQuery(n, f)
  PROVE  TInv'
<1>1. T!TypeOK' /\ ResultsSent'
  BY DEF TInv, T!TypeOK, ResultsSent, T!DropQuery
<1> QED BY <1>1, SinkMoves DEF T!DropQuery

LEMMA TakeResultTInv ==
  ASSUME TInv, NEW n \in Small, NEW f \in tAir, T!TakeResult(n, f)
  PROVE  TInv'
<1>1. f.result \in tSent
  BY DEF TInv, ResultsSent, T!TakeResult
<1>2. T!TypeOK' /\ ResultsSent'
  BY <1>1 DEF TInv, T!TypeOK, ResultsSent, T!TakeResult
<1> QED BY <1>2, SinkMoves DEF T!TakeResult

LEMMA ForwardResultTInv ==
  ASSUME TInv, NEW n \in Small, NEW f \in tAir, T!ForwardResult(n, f)
  PROVE  TInv'
<1>1. f.result \in tSent /\ f.result \in T!Sent /\ n \in Others
  BY DEF TInv, T!TypeOK, ResultsSent, T!ForwardResult, Others
<1>2. \A g \in T!Result(n, f.result) :
        /\ g \in T!Frame /\ g.type = "result" /\ g.result = f.result
        /\ g.to # treeSink => parent[g.to] # Null /\ seq[g.to] >= g.seq
  BY <1>1, ResultFrames
<1>3. T!TypeOK' /\ ResultsSent'
  BY <1>1, <1>2 DEF TInv, T!TypeOK, ResultsSent, T!ForwardResult
<1> QED BY <1>2, <1>3, SinkMoves DEF T!ForwardResult

LEMMA SendResultTInv ==
  ASSUME TInv, NEW n \in Small, T!SendResult(n)
  PROVE  TInv'
<1> DEFINE r == <<n, "own">>
<1>1. r \in T!Sent
  BY DEF T!Sent
<1>2. CASE n = treeSink
  <2>1. /\ tAir' = tAir /\ delivered' = delivered \cup {r} /\ tSent' = tSent \cup {r}
        /\ UNCHANGED <<seq, parent, flooded>>
    BY <1>2 DEF T!SendResult
  <2>2. T!TypeOK' /\ ResultsSent'
    BY <1>1, <2>1 DEF TInv, T!TypeOK, ResultsSent
  <2> QED BY <2>1, <2>2, SinkMoves
<1>3. CASE n # treeSink
  <2>1. /\ tAir' = tAir \cup T!Result(n, r) /\ delivered' = delivered
        /\ tSent' = IF parent[n] # Null THEN tSent \cup {r} ELSE tSent
        /\ UNCHANGED <<seq, parent, flooded>>
    BY <1>3 DEF T!SendResult
  <2>2. \A g \in T!Result(n, r) :
          /\ g \in T!Frame /\ g.type = "result" /\ g.result = r
          /\ parent[n] # Null
          /\ g.to # treeSink => parent[g.to] # Null /\ seq[g.to] >= g.seq
    BY <1>1, <1>3, ResultFrames DEF Others, T!Joined
  <2>3. T!TypeOK' /\ ResultsSent'
    BY <1>1, <2>1, <2>2 DEF TInv, T!TypeOK, ResultsSent
  <2> QED BY <2>1, <2>2, <2>3, SinkMoves
<1> QED BY <1>2, <1>3

(***************************************************************************)
(* A query that is taken.  Who has the node as parent was no later than    *)
(* it was, and so is earlier than the query; who leads from the sender     *)
(* back to the node would have to be as late as the query.                 *)
(***************************************************************************)
LEMMA ReceiveQueryTInv ==
  ASSUME TInv, NEW n \in Small, NEW f \in tAir, T!ReceiveQuery(n, f)
  PROVE  TInv'
<1> DEFINE answer == IF n \in treeAnswering THEN T!Result(n, <<n, "answer">>) ELSE {}
<1>1. /\ f.type = "query" /\ f.to = n /\ f.seq > seq[n]
      /\ seq' = [seq EXCEPT ![n] = f.seq] /\ parent' = [parent EXCEPT ![n] = f.from]
      /\ tAir' = (tAir \ {f}) \cup answer \cup T!Query(n, f.seq)
      /\ tSent' = tSent \cup {x.result : x \in answer}
      /\ UNCHANGED <<flooded, delivered>>
  BY DEF T!ReceiveQuery, T!Newer, T!ParentFrom
<1>2. /\ f.from \in Small /\ n \in T!InRange(f.from) /\ f.from # n /\ f.seq \in 0..treeMod - 1
      /\ Null \notin Small
  BY <1>1, TreeFrameFields DEF TInv, T!TypeOK, QueriesTrue, T!InRange, T!FloodTreeAssumption
<1>3. \A g \in T!Query(n, f.seq) :
        /\ g \in T!Frame /\ g.type = "query" /\ g.from = n /\ g.seq = f.seq
        /\ g.to \in T!InRange(n)
  BY <1>2, QueryFrames DEF TInv
<1>4. \A g \in answer :
        /\ g \in T!Frame /\ g.type = "result" /\ g.result = <<n, "answer">>
        /\ g.to # treeSink => parent[g.to] # Null /\ seq[g.to] >= g.seq
  <2>1. <<n, "answer">> \in T!Sent
    BY DEF T!Sent
  <2>2. n \in treeAnswering => n \in Others
    BY DEF TInv, T!FloodTreeAssumption, Others
  <2> QED BY <2>1, <2>2, ResultFrames
<1> HIDE DEF answer
<1>5. /\ seq'[n] = f.seq /\ parent'[n] = f.from
      /\ \A m \in Small \ {n} : seq'[m] = seq[m] /\ parent'[m] = parent[m]
      /\ seq' \in [Small -> 0..treeMod - 1] /\ parent' \in [Small -> Small \cup {Null}]
  BY <1>1, <1>2 DEF TInv, T!TypeOK
<1>6. \A m \in Small : /\ seq[m] \in Int /\ seq'[m] \in Int /\ seq'[m] >= seq[m]
                       /\ parent[m] # Null => parent'[m] # Null
  BY <1>1, <1>2, <1>5 DEF TInv, T!TypeOK, T!FloodTreeAssumption
<1>7. T!TypeOK'
  <2>1. tSent' \subseteq T!Sent /\ delivered' \subseteq tSent'
    BY <1>1, <1>4, TreeFrameFields DEF TInv, T!TypeOK
  <2>2. tAir' \subseteq T!Frame
    BY <1>1, <1>3, <1>4 DEF TInv, T!TypeOK
  <2>3. \A m \in Small \ {treeSink} : parent'[m] # Null => <<parent'[m], m>> \in treeLink
    BY <1>2, <1>5 DEF TInv, T!TypeOK, T!InRange
  <2> QED BY <1>1, <1>5, <2>1, <2>2, <2>3 DEF TInv, T!TypeOK
<1>8. ResultsSent'
  BY <1>1, <1>3, <1>4 DEF TInv, ResultsSent
<1>9. CASE n = treeSink
  <2>1. \A m \in Others : parent'[m] = parent[m] /\ seq'[m] = seq[m]
    BY <1>5, <1>9 DEF Others
  <2> QED BY <1>1, <1>3, <1>4, <1>7, <1>8, <1>9, <2>1, SinkMoves
<1>10. CASE n # treeSink
  <2>1. T!Joined' = T!Joined \cup {n}
    BY <1>2, <1>5, <1>10 DEF T!Joined
  <2>2. QueriesTrue'
    <3> SUFFICES ASSUME NEW g \in tAir', g.type = "query"
                 PROVE  /\ g.from \in Small /\ g.to \in T!InRange(g.from)
                        /\ g.from # treeSink => parent'[g.from] # Null /\ seq'[g.from] >= g.seq
      BY DEF QueriesTrue, T!InRange
    <3>1. CASE g \in tAir
      <4>1. g.seq \in Int
        BY <3>1, TreeFrameFields DEF TInv, T!TypeOK
      <4> QED BY <3>1, <4>1, <1>6 DEF TInv, QueriesTrue
    <3>2. CASE g \in T!Query(n, f.seq)
      BY <3>2, <1>2, <1>3, <1>5
    <3> QED BY <1>1, <1>4, <3>1, <3>2
  <2>3. f.from # treeSink => parent[f.from] # Null /\ seq[f.from] >= f.seq
    BY <1>1 DEF TInv, QueriesTrue
  <2>4. NoLater'
    <3> SUFFICES ASSUME NEW m \in T!Joined'
                 PROVE  /\ parent'[m] \in Small \ {m}
                        /\ parent'[m] # treeSink => parent'[parent'[m]] # Null
                                                    /\ seq'[parent'[m]] >= seq'[m]
      BY DEF NoLater
    <3>1. CASE m = n
      BY <3>1, <1>2, <1>5, <2>3
    <3>2. CASE m \in T!Joined /\ m # n
      <4>1. /\ m \in Small /\ parent'[m] = parent[m] /\ seq'[m] = seq[m] /\ parent[m] \in Small \ {m}
        BY <3>2, <1>5 DEF T!Joined, TInv, NoLater
      <4> QED BY <3>2, <4>1, <1>6 DEF TInv, NoLater
    <3> QED BY <3>1, <3>2, <2>1
  <2>5. T!ResultsAscend'
    <3> SUFFICES ASSUME NEW g \in tAir', g.type = "result", g.to # treeSink
                 PROVE  parent'[g.to] # Null /\ seq'[g.to] >= g.seq
      BY DEF T!ResultsAscend
    <3>1. g \in tAir \/ g \in answer
      BY <1>1, <1>3
    <3>2. parent[g.to] # Null /\ seq[g.to] >= g.seq
      BY <3>1, <1>4 DEF TInv, T!ResultsAscend
    <3>3. g.to \in Small /\ g.seq \in Int
      BY <1>7, TreeFrameFields DEF T!TypeOK
    <3> QED BY <3>2, <3>3, <1>6
  <2>6. T!NoCircle'
    <3> SUFFICES ASSUME NEW X \in SUBSET (T!Joined'), X # {}, \A m \in X : parent'[m] \in X
                 PROVE  FALSE
      BY DEF T!NoCircle
    <3>1. T!Joined \subseteq Small \ {treeSink}
      BY DEF T!Joined
    <3>2. CASE n \notin X
      <4>1. X \in SUBSET T!Joined /\ \A m \in X : parent[m] \in X
        BY <3>1, <3>2, <2>1, <1>5
      <4> QED BY <4>1 DEF TInv, T!NoCircle
    <3>3. CASE n \in X
      <4> DEFINE Y == {m \in X : seq'[m] >= f.seq} \ {n}
      <4>1. treeSink \notin X
        BY <3>1, <2>1, <1>10
      <4>2. f.from \in Y
        <5>1. f.from \in X
          BY <3>3, <1>5
        <5> QED BY <5>1, <4>1, <2>3, <1>2, <1>5
      <4>3. Y \in SUBSET T!Joined
        BY <2>1
      <4>4. ASSUME NEW m \in Y PROVE parent[m] \in Y
        <5>1. m \in T!Joined /\ m \in Small \ {n} /\ parent'[m] = parent[m] /\ seq'[m] = seq[m]
          BY <3>1, <4>3, <1>5
        <5>2. parent[m] \in X /\ parent[m] # treeSink /\ parent[m] \in Small
          BY <5>1, <4>1 DEF TInv, NoLater
        <5>3. seq[parent[m]] >= seq[m] /\ seq[m] >= f.seq
          BY <5>1, <5>2 DEF TInv, NoLater
        <5>4. parent[m] # n
          BY <5>1, <5>3, <1>1, <1>2, <1>6
        <5>5. seq'[parent[m]] >= f.seq
          BY <5>1, <5>2, <5>3, <1>2, <1>6
        <5> QED BY <5>2, <5>4, <5>5
      <4> HIDE DEF Y
      <4> QED BY <4>2, <4>3, <4>4 DEF TInv, T!NoCircle
    <3> QED BY <3>2, <3>3
  <2> QED BY <1>7, <1>8, <2>2, <2>4, <2>5, <2>6 DEF TInv
<1> QED BY <1>9, <1>10

LEMMA StepTInv == TInv /\ [T!Next]_tVars => TInv'
<1> SUFFICES ASSUME TInv, [T!Next]_tVars PROVE TInv'
  OBVIOUS
<1>1. CASE T!SetParent(treeSink, treeSink)
  BY <1>1, SetParentTInv
<1>2. CASE T!SendQuery(treeSink)
  BY <1>2, SendQueryTInv
<1>3. ASSUME NEW n \in treeSource, T!SendResult(n) PROVE TInv'
  BY <1>3, SendResultTInv DEF TInv, T!FloodTreeAssumption
<1>4. ASSUME NEW n \in Small, NEW f \in tAir, T!Receive(n, f) PROVE TInv'
  BY <1>4, ReceiveQueryTInv, DropQueryTInv, TakeResultTInv, ForwardResultTInv DEF T!Receive
<1>5. CASE UNCHANGED tVars
  <2>1. T!TypeOK' /\ ResultsSent'
    BY <1>5 DEF TInv, T!TypeOK, ResultsSent, tVars
  <2> QED BY <1>5, <2>1, SinkMoves DEF tVars
<1> QED BY <1>1, <1>2, <1>3, <1>4, <1>5 DEF T!Next, T!Arriving

------------------------------------------------------------------------------
(***************************************************************************)
(* Echo.  What is so of the neighborhood of a node: who is in it is heard, *)
(* and who is bidirectional in it hears the node.  What the last beacon    *)
(* names is heard too, which is why a beacon that names its receiver says  *)
(* that it is heard.                                                       *)
(***************************************************************************)
Entries == [level : {"inactive", "active", "stable", "bidi"}, row : {0, 1},
            age : 0..echoTimeout + 1]

EShape ==
  /\ setup \in echoSetups /\ searching \subseteq Small
  /\ DOMAIN neighborhood = Small
  /\ {list, pending} \subseteq [Small -> SUBSET Small]
  /\ chains \in [Small -> 0..echoChains] /\ owed \in [Small -> Nat]
  /\ {told, forgotten} \subseteq [Small -> SUBSET (Small \X E!Kinds)]

AreHeard(n) ==
  /\ IsFiniteSet(E!Known(n)) /\ Cardinality(E!Known(n)) <= echoNodes
  /\ \A m \in E!Known(n) : m \in Small /\ neighborhood[n][m] \in Entries /\ n \in E!InRange(m)
  /\ E!Bidi(n) \subseteq E!InRange(n)

BeaconTrue(n) ==
  /\ pending[n] \subseteq E!InRange(n)
  /\ \A m \in list[n] : n \in E!InRange(m)

(***************************************************************************)
(* Once a timer of the round has fired nobody is older than the timeout.   *)
(***************************************************************************)
Swept(n) ==
  /\ n \in searching \/ E!Known(n) # {} => chains[n] > 0
  /\ owed[n] <= chains[n]
  /\ owed[n] < chains[n] => \A m \in E!Active(n) : neighborhood[n][m].age <= echoTimeout

Said(n) == {<<m, "nb">> : m \in E!Stable(n)} \cup {<<m, "bidi">> : m \in E!Bidi(n)}

Tells(n) == told[n] = Said(n) \cup forgotten[n]

EInv == /\ E!EchoAssumption /\ EShape
        /\ \A n \in Small : AreHeard(n) /\ BeaconTrue(n) /\ Swept(n) /\ Tells(n)

LEMMA SetupType ==
  ASSUME E!EchoAssumption, setup \in echoSetups
  PROVE  /\ setup.link \subseteq {e \in Small \X Small : e[1] # e[2]}
         /\ \A n \in Small : E!InRange(n) \subseteq Small \ {n}
<1>1. setup \in [link : SUBSET {e \in Small \X Small : e[1] # e[2]},
                 lossy : BOOLEAN, switching : SUBSET Small]
  BY DEF E!EchoAssumption
<1>2. setup.link \subseteq {e \in Small \X Small : e[1] # e[2]}
  BY <1>1
<1> QED BY <1>2 DEF E!InRange

LEMMA EntryType ==
  ASSUME E!EchoAssumption,
         NEW lv \in {"inactive", "active", "stable", "bidi"}, NEW r \in {0, 1}
  PROVE  E!Entry(lv, r) \in Entries
BY DEF E!Entry, Entries, E!EchoAssumption

LEMMA EntryReset ==
  ASSUME NEW e \in Entries
  PROVE  /\ [e EXCEPT !.row = 0] \in Entries
         /\ [e EXCEPT !.row = 0].level = e.level /\ [e EXCEPT !.row = 0].age = e.age
BY DEF Entries

LEMMA EntryAges ==
  ASSUME E!EchoAssumption, NEW e \in Entries, e.age <= echoTimeout
  PROVE  [e EXCEPT !.age = @ + 1] \in Entries /\ [e EXCEPT !.age = @ + 1].level = e.level
BY DEF Entries, E!EchoAssumption

LEMMA EInvTells ==
  ASSUME EInv PROVE E!TypeOK /\ E!EventsTell /\ E!BidiBothWays
<1>1. E!TypeOK
  <2>1. setup \in echoSetups /\ searching \subseteq Small
    BY DEF EInv, EShape
  <2>2. \A m \in Small : m \notin E!InRange(m)
    BY <2>1, SetupType DEF EInv
  <2>3. \A n \in Small : E!Known(n) \subseteq Small \ {n} /\ Cardinality(E!Known(n)) <= echoNodes
    BY <2>2 DEF EInv, AreHeard
  <2>4. \A n \in Small : \A m \in E!Known(n) :
          /\ neighborhood[n][m].level \in {"inactive", "active", "stable", "bidi"}
          /\ neighborhood[n][m].row \in {0, 1}
          /\ neighborhood[n][m].age \in 0..echoTimeout + 1
    BY DEF EInv, AreHeard, Entries
  <2>5. \A n \in Small : list[n] \subseteq Small \ {n} /\ pending[n] \subseteq E!InRange(n)
    BY <2>2 DEF EInv, BeaconTrue, EShape
  <2>6. \A n \in Small : chains[n] \in 0..echoChains /\ owed[n] \in 0..chains[n]
    BY DEF EInv, EShape, Swept, E!EchoAssumption
  <2>7. \A n \in Small : told[n] \cup forgotten[n] \subseteq Small \X E!Kinds
    BY DEF EInv, EShape
  <2> QED BY <2>1, <2>3, <2>4, <2>5, <2>6, <2>7, SameSize DEF E!TypeOK
<1>2. E!EventsTell
  BY DEF EInv, Tells, Said, E!EventsTell
<1>3. E!BidiBothWays
  BY DEF EInv, AreHeard, E!BidiBothWays, E!Stable, E!Known, E!Level
<1> QED BY <1>1, <1>2, <1>3

LEMMA InitEInv == E!EchoAssumption /\ E!Init => EInv
<1> SUFFICES ASSUME E!EchoAssumption, E!Init PROVE EInv
  OBVIOUS
<1>1. \A n \in Small : E!Known(n) = {}
  BY DEF E!Init, E!Known
<1>2. \A n \in Small : E!Active(n) = {} /\ E!Stable(n) = {} /\ E!Bidi(n) = {}
  BY <1>1 DEF E!Active, E!Stable, E!Bidi
<1>3. EShape
  BY DEF E!Init, EShape, E!EchoAssumption
<1> SUFFICES ASSUME NEW n \in Small
             PROVE  AreHeard(n) /\ BeaconTrue(n) /\ Swept(n) /\ Tells(n)
  BY <1>3 DEF EInv
<1>4. AreHeard(n)
  BY <1>1, <1>2, FS_EmptySet DEF AreHeard, E!EchoAssumption
<1>5. BeaconTrue(n) /\ Swept(n) /\ Tells(n)
  BY <1>1, <1>2 DEF BeaconTrue, Swept, Tells, Said, E!Init
<1> QED BY <1>4, <1>5

LEMMA EnableEInv ==
  ASSUME EInv, NEW n \in Small, E!Enable(n)
  PROVE  EInv'
<1>1. EShape'
  <2>1. E!InRange(n) \subseteq Small
    BY SetupType DEF EInv, EShape
  <2> QED BY <2>1 DEF EInv, EShape, E!Enable, E!Beacon, E!EchoAssumption
<1>2. E!Known(n)' = {}
  BY DEF EInv, EShape, E!Enable, E!Known
<1>3. E!Active(n)' = {} /\ E!Stable(n)' = {} /\ E!Bidi(n)' = {}
  BY <1>2 DEF E!Active, E!Stable, E!Bidi
<1>4. AreHeard(n)' /\ Swept(n)'
  BY <1>2, <1>3, FS_EmptySet DEF AreHeard, Swept, EInv, EShape, E!EchoAssumption, E!Enable
<1>5. BeaconTrue(n)' /\ Tells(n)'
  BY <1>3 DEF BeaconTrue, Tells, Said, EInv, EShape, E!Enable, E!Beacon, E!InRange
<1>6. ASSUME NEW x \in Small, x # n
      PROVE  (AreHeard(x) /\ BeaconTrue(x) /\ Swept(x) /\ Tells(x))'
  BY <1>6 DEF EInv, EShape, E!Enable, E!Beacon, AreHeard, BeaconTrue, Swept, Tells, Said,
       E!Known, E!Level, E!Active, E!Stable, E!Bidi, E!InRange
<1> QED BY <1>1, <1>4, <1>5, <1>6 DEF EInv

LEMMA DisableEInv ==
  ASSUME EInv, NEW n \in Small, E!Disable(n)
  PROVE  EInv'
BY DEF EInv, EShape, E!Disable, AreHeard, BeaconTrue, Swept, Tells, Said,
       E!Known, E!Level, E!Active, E!Stable, E!Bidi, E!InRange

(***************************************************************************)
(* Cleaning up lets levels only fall to inactive, and of those dropped.    *)
(***************************************************************************)
LEMMA SayHelloEInv ==
  ASSUME EInv, NEW n \in Small, E!SayHello(n)
  PROVE  EInv'
<1>1. PICK dropped \in SUBSET E!Active(n), missed \in SUBSET E!Active(n) :
       /\ E!TimesOut(n, dropped) /\ E!Missed(n, missed)
       /\ neighborhood' = [neighborhood EXCEPT ![n] = E!Cleaned(n, dropped, missed)]
       /\ told' = [told EXCEPT ![n] = {t \in @ : t[1] \notin dropped \cap E!Stable(n)}]
       /\ forgotten' = [forgotten EXCEPT ![n] = {t \in @ : t[1] \notin dropped \cap E!Stable(n)}]
       /\ IF n \in searching THEN E!Beacon(n, E!Stable(n) \ dropped)
                             ELSE UNCHANGED <<list, pending>>
  BY DEF E!SayHello
<1>2. E!Known(n)' = E!Known(n) /\ neighborhood'[n] = E!Cleaned(n, dropped, missed)
  BY <1>1 DEF EInv, EShape, E!Known, E!Cleaned
<1>3. \A m \in E!Known(n) :
        neighborhood'[n][m] = IF m \in dropped THEN E!Entry("inactive", 0)
                              ELSE IF m \in missed THEN [neighborhood[n][m] EXCEPT !.row = 0]
                              ELSE neighborhood[n][m]
  BY <1>2 DEF E!Cleaned, E!DroppedEntry
<1>4. \A m \in E!Known(n) :
        /\ neighborhood'[n][m] \in Entries
        /\ neighborhood'[n][m].level = IF m \in dropped THEN "inactive" ELSE neighborhood[n][m].level
        /\ neighborhood'[n][m].age = IF m \in dropped THEN 0 ELSE neighborhood[n][m].age
  <2> TAKE m \in E!Known(n)
  <2>1. neighborhood[n][m] \in Entries
    BY DEF EInv, AreHeard
  <2>2. E!Entry("inactive", 0) \in Entries
    BY EntryType DEF EInv
  <2>3. E!Entry("inactive", 0).level = "inactive" /\ E!Entry("inactive", 0).age = 0
    BY DEF E!Entry
  <2> QED BY <2>1, <2>2, <2>3, <1>3, EntryReset
<1>5. /\ E!Active(n)' = E!Active(n) \ dropped /\ E!Stable(n)' = E!Stable(n) \ dropped
      /\ E!Bidi(n)' = E!Bidi(n) \ dropped
  BY <1>2, <1>4 DEF E!Active, E!Stable, E!Bidi, E!Level
<1>6. E!Stable(n) \subseteq E!Known(n) /\ E!Active(n) \subseteq E!Known(n)
  BY DEF E!Stable, E!Active
<1>7. EShape'
  <2>1. E!InRange(n) \subseteq Small
    BY SetupType DEF EInv, EShape
  <2>2. E!Stable(n) \subseteq Small
    BY <1>6 DEF EInv, AreHeard
  <2>3. list' \in [Small -> SUBSET Small] /\ pending' \in [Small -> SUBSET Small]
    BY <1>1, <2>1, <2>2 DEF EInv, EShape, E!Beacon
  <2>4. told' \in [Small -> SUBSET (Small \X E!Kinds)] /\ forgotten' \in [Small -> SUBSET (Small \X E!Kinds)]
    BY <1>1 DEF EInv, EShape
  <2>5. owed' \in [Small -> Nat]
    BY DEF EInv, EShape, E!SayHello
  <2> QED BY <1>1, <2>3, <2>4, <2>5 DEF EInv, EShape, E!SayHello
<1>8. AreHeard(n)'
  BY <1>2, <1>4, <1>5 DEF EInv, AreHeard, E!InRange, E!SayHello
<1>9. Swept(n)'
  <2>1. \A m \in E!Active(n) \ dropped : neighborhood[n][m].age <= echoTimeout
    <3> TAKE m \in E!Active(n) \ dropped
    <3>1. neighborhood[n][m].age \in Nat
      BY <1>6 DEF EInv, AreHeard, Entries, E!EchoAssumption
    <3>2. ~(neighborhood[n][m].age > echoTimeout)
      BY <1>1 DEF E!TimesOut, E!Age
    <3> QED BY <3>1, <3>2 DEF EInv, E!EchoAssumption
  <2>2. \A m \in E!Active(n)' : neighborhood'[n][m].age <= echoTimeout
    BY <2>1, <1>4, <1>5, <1>6
  <2>3. owed'[n] = owed[n] - 1 /\ owed[n] > 0 /\ chains' = chains
    BY DEF E!SayHello, EInv, EShape
  <2> QED BY <1>2, <2>2, <2>3 DEF EInv, EShape, Swept
<1>10. BeaconTrue(n)'
  <2>1. \A m \in E!Stable(n) : n \in E!InRange(m)
    BY <1>6 DEF EInv, AreHeard
  <2>2. CASE n \in searching
    <3>1. list'[n] = E!Stable(n) \ dropped /\ pending'[n] = E!InRange(n)
      BY <1>1, <2>2 DEF E!Beacon, EInv, EShape
    <3> QED BY <2>1, <3>1 DEF BeaconTrue, E!InRange, E!SayHello
  <2>3. CASE n \notin searching
    BY <1>1, <2>3 DEF BeaconTrue, EInv, E!InRange, E!SayHello
  <2> QED BY <2>2, <2>3
<1>11. Tells(n)'
  <2>1. /\ told'[n] = {t \in told[n] : t[1] \notin dropped \cap E!Stable(n)}
        /\ forgotten'[n] = {t \in forgotten[n] : t[1] \notin dropped \cap E!Stable(n)}
    BY <1>1 DEF EInv, EShape
  <2>2. told[n] = Said(n) \cup forgotten[n]
    BY DEF EInv, Tells
  <2>3. {t \in Said(n) : t[1] \notin dropped \cap E!Stable(n)}
          = {<<m, "nb">> : m \in E!Stable(n) \ dropped} \cup {<<m, "bidi">> : m \in E!Bidi(n) \ dropped}
    <3>1. E!Bidi(n) \subseteq E!Stable(n)
      BY DEF E!Bidi, E!Stable
    <3> QED BY <3>1 DEF Said
  <2>4. {t \in Said(n) : t[1] \notin dropped \cap E!Stable(n)} = Said(n)'
    BY <2>3, <1>5 DEF Said
  <2> QED BY <2>1, <2>2, <2>4 DEF Tells
<1>12. ASSUME NEW x \in Small, x # n
       PROVE  (AreHeard(x) /\ BeaconTrue(x) /\ Swept(x) /\ Tells(x))'
  <2>1. /\ neighborhood'[x] = neighborhood[x] /\ told'[x] = told[x] /\ forgotten'[x] = forgotten[x]
        /\ owed'[x] = owed[x] /\ chains' = chains /\ setup' = setup
    BY <1>1, <1>12 DEF EInv, EShape, E!SayHello
  <2>2. list'[x] = list[x] /\ pending'[x] = pending[x]
    BY <1>1, <1>12 DEF EInv, EShape, E!Beacon
  <2> QED BY <2>1, <2>2 DEF EInv, E!SayHello, AreHeard, BeaconTrue, Swept, Tells, Said,
       E!Known, E!Level, E!Active, E!Stable, E!Bidi, E!InRange
<1> QED BY <1>7, <1>8, <1>9, <1>10, <1>11, <1>12 DEF EInv, E!SayHello

LEMMA NextRoundEInv ==
  ASSUME EInv, E!NextRound
  PROVE  EInv'
<1>1. \A n \in Small : /\ E!Known(n)' = E!Known(n)
                       /\ \A m \in E!Known(n) : neighborhood'[n][m] =
                            IF m \in E!Active(n) THEN [neighborhood[n][m] EXCEPT !.age = @ + 1]
                            ELSE neighborhood[n][m]
  BY DEF E!NextRound, E!Known
<1>2. \A n \in Small : \A m \in E!Known(n) :
        /\ neighborhood'[n][m] \in Entries
        /\ neighborhood'[n][m].level = neighborhood[n][m].level
  <2> TAKE n \in Small
  <2> TAKE m \in E!Known(n)
  <2>1. neighborhood[n][m] \in Entries
    BY DEF EInv, AreHeard
  <2>2. m \in E!Active(n) => neighborhood[n][m].age <= echoTimeout
    <3>1. chains[n] > 0 /\ owed[n] = 0
      BY DEF EInv, Swept, E!NextRound
    <3> QED BY <3>1 DEF EInv, Swept
  <2> QED BY <2>1, <2>2, <1>1, EntryAges DEF EInv
<1>3. \A n \in Small : /\ E!Active(n)' = E!Active(n) /\ E!Stable(n)' = E!Stable(n)
                       /\ E!Bidi(n)' = E!Bidi(n)
  BY <1>1, <1>2 DEF E!Active, E!Stable, E!Bidi, E!Level
<1>4. EShape'
  BY DEF EInv, EShape, E!NextRound, E!EchoAssumption
<1> SUFFICES ASSUME NEW n \in Small
             PROVE  (AreHeard(n) /\ BeaconTrue(n) /\ Swept(n) /\ Tells(n))'
  BY <1>4 DEF EInv, E!NextRound
<1>5. AreHeard(n)'
  BY <1>1, <1>2, <1>3 DEF EInv, AreHeard, E!InRange, E!NextRound
<1>6. Swept(n)'
  BY <1>1 DEF EInv, Swept, E!NextRound, EShape
<1>7. BeaconTrue(n)' /\ Tells(n)'
  BY <1>3 DEF EInv, BeaconTrue, Tells, Said, E!InRange, E!NextRound
<1> QED BY <1>5, <1>6, <1>7

(***************************************************************************)
(* What one beacon makes of the entry of its sender.                       *)
(***************************************************************************)
Got(n, m) == LET h == E!Heard(n, m) IN
  IF h.level = "active" THEN h
  ELSE [h EXCEPT !.level = IF E!NamesMe(n, m) THEN "bidi" ELSE "stable"]

New(n, m)  == {<<m, "nb">> : x \in {m} \ E!Stable(n)}
              \cup {<<m, "bidi">> : x \in {y \in {m} \ E!Bidi(n) : E!NamesMe(n, m)}}
Lost(n, m) == {<<m, "bidi">> : x \in {y \in {m} \cap E!Bidi(n) : ~E!NamesMe(n, m)}}

Counted(n, m) == E!Heard(n, m).level # "active"

LEMMA ReceiveParts ==
  ASSUME NEW n \in Small, NEW m \in Small, E!Receive(n, m)
  PROVE  /\ n \in pending[m] /\ pending' = [pending EXCEPT ![m] = @ \ {n}]
         /\ neighborhood' = [neighborhood EXCEPT ![n] =
              IF E!Accepted(n, m)
              THEN [x \in E!Known(n) \cup {m} |->
                      IF x = m THEN Got(n, m) ELSE neighborhood[n][x]]
              ELSE neighborhood[n]]
         /\ told' = [told EXCEPT ![n] =
              IF Counted(n, m) THEN (told[n] \cup New(n, m)) \ Lost(n, m) ELSE told[n]]
         /\ forgotten' = [forgotten EXCEPT ![n] =
              IF Counted(n, m) THEN forgotten[n] \ (New(n, m) \cup Lost(n, m)) ELSE forgotten[n]]
         /\ UNCHANGED <<setup, searching, list, chains, owed>>
BY DEF E!Receive, Got, New, Lost, Counted

LEMMA GotType ==
  ASSUME EInv, NEW n \in Small, NEW m \in Small, NEW lv, lv = E!Level(n, m)
  PROVE  /\ Got(n, m) \in Entries /\ Got(n, m).age = 0
         /\ Got(n, m).level = IF Counted(n, m)
                              THEN IF E!NamesMe(n, m) THEN "bidi" ELSE "stable"
                              ELSE "active"
         /\ Counted(n, m) => m \in E!Active(n)
         /\ m \in E!Stable(n) => Counted(n, m)
<1>1. m \in E!Known(n) => neighborhood[n][m] \in Entries
  BY DEF EInv, AreHeard
<1>2. m \in E!Active(n) => E!Level(n, m) \in {"active", "stable", "bidi"}
  BY <1>1 DEF E!Active, E!Level, Entries
<1>3. \A r \in {0, 1} : \A l \in {"inactive", "active", "stable", "bidi"} :
        E!Entry(l, r) \in Entries /\ E!Entry(l, r).level = l /\ E!Entry(l, r).age = 0
  BY EntryType DEF EInv, E!Entry
<1>4. /\ E!Heard(n, m) \in Entries /\ E!Heard(n, m).age = 0
      /\ E!Heard(n, m).level \in {"active", "stable", "bidi"}
  BY <1>2, <1>3 DEF E!Heard
<1>5. Counted(n, m) => m \in E!Active(n)
  BY <1>3 DEF Counted, E!Heard
<1>6. m \in E!Stable(n) => m \in E!Active(n) /\ E!Level(n, m) \in {"stable", "bidi"}
  BY DEF E!Stable, E!Active
<1>7. m \in E!Stable(n) => Counted(n, m)
  BY <1>6, <1>3 DEF Counted, E!Heard
<1>8. \A l \in {"stable", "bidi"} : \A e \in Entries :
        /\ [e EXCEPT !.level = l] \in Entries /\ [e EXCEPT !.level = l].level = l
        /\ [e EXCEPT !.level = l].age = e.age
  BY DEF Entries
<1>9. /\ Got(n, m) \in Entries /\ Got(n, m).age = 0
      /\ Got(n, m).level = IF Counted(n, m)
                           THEN IF E!NamesMe(n, m) THEN "bidi" ELSE "stable"
                           ELSE "active"
  <2>1. CASE E!Heard(n, m).level = "active"
    BY <2>1, <1>4 DEF Got, Counted
  <2>2. CASE E!Heard(n, m).level # "active"
    BY <2>2, <1>4, <1>8 DEF Got, Counted
  <2> QED BY <2>1, <2>2
<1> QED BY <1>5, <1>7, <1>9

LEMMA ReceiveEInv ==
  ASSUME EInv, NEW n \in Small, NEW m \in Small, E!Receive(n, m)
  PROVE  EInv'
<1> DEFINE kept == IF E!Accepted(n, m)
                   THEN [x \in E!Known(n) \cup {m} |->
                           IF x = m THEN Got(n, m) ELSE neighborhood[n][x]]
                   ELSE neighborhood[n]
           heardOf == IF Counted(n, m) THEN (told[n] \cup New(n, m)) \ Lost(n, m) ELSE told[n]
           left == IF Counted(n, m) THEN forgotten[n] \ (New(n, m) \cup Lost(n, m))
                   ELSE forgotten[n]
<1>a. /\ n \in pending[m] /\ pending' = [pending EXCEPT ![m] = @ \ {n}]
      /\ neighborhood' = [neighborhood EXCEPT ![n] = kept]
      /\ told' = [told EXCEPT ![n] = heardOf]
      /\ forgotten' = [forgotten EXCEPT ![n] = left]
      /\ UNCHANGED <<setup, searching, list, chains, owed>>
  BY ReceiveParts
<1>b. neighborhood'[n] = kept /\ told'[n] = heardOf /\ forgotten'[n] = left
  BY <1>a DEF EInv, EShape
<1>c. \A x \in Small \ {n} : /\ neighborhood'[x] = neighborhood[x] /\ told'[x] = told[x]
                             /\ forgotten'[x] = forgotten[x]
  BY <1>a DEF EInv, EShape
<1> HIDE DEF kept, heardOf, left
<1>0. n \in pending[m] /\ n \in E!InRange(m) /\ n # m
  <2>1. n \in E!InRange(m)
    BY <1>a DEF EInv, BeaconTrue
  <2> QED BY <2>1, <1>a, SetupType DEF EInv, EShape
<1>1. /\ \A x \in Small : E!InRange(x)' = E!InRange(x)
      /\ \A x \in Small : list'[x] = list[x] /\ pending'[x] \subseteq pending[x]
      /\ chains' = chains /\ owed' = owed
  BY <1>a DEF EInv, EShape, E!InRange
<1>2. \A x \in Small : BeaconTrue(x)'
  BY <1>1 DEF EInv, EShape, BeaconTrue
<1>3. EShape'
  <2>1. New(n, m) \subseteq Small \X E!Kinds
    BY DEF New, E!Kinds
  <2>2. told' \in [Small -> SUBSET (Small \X E!Kinds)] /\ forgotten' \in [Small -> SUBSET (Small \X E!Kinds)]
    BY <2>1, <1>a DEF EInv, EShape, heardOf, left
  <2> QED BY <2>2, <1>a DEF EInv, EShape
<1>4. ASSUME NEW x \in Small, x # n
      PROVE  (AreHeard(x) /\ Swept(x) /\ Tells(x))'
  <2>1. /\ neighborhood'[x] = neighborhood[x] /\ told'[x] = told[x] /\ forgotten'[x] = forgotten[x]
    BY <1>4, <1>c
  <2> QED BY <2>1, <1>1, <1>a DEF EInv, AreHeard, Swept, Tells, Said,
       E!Known, E!Level, E!Active, E!Stable, E!Bidi
<1>5. CASE ~E!Accepted(n, m)
  <2>1. neighborhood'[n] = neighborhood[n]
    BY <1>5, <1>b DEF kept
  <2>2. ~Counted(n, m)
    BY <1>5, GotType DEF E!Accepted
  <2>3. told'[n] = told[n] /\ forgotten'[n] = forgotten[n]
    BY <2>2, <1>b DEF heardOf, left
  <2>4. (AreHeard(n) /\ Swept(n) /\ Tells(n))'
    BY <2>1, <2>3, <1>1, <1>a DEF EInv, AreHeard, Swept, Tells, Said,
       E!Known, E!Level, E!Active, E!Stable, E!Bidi
  <2> QED BY <2>4, <1>2, <1>3, <1>4 DEF EInv
<1>6. CASE E!Accepted(n, m)
  <2>1. neighborhood'[n] = [x \in E!Known(n) \cup {m} |->
                              IF x = m THEN Got(n, m) ELSE neighborhood[n][x]]
    BY <1>6, <1>b DEF kept
  <2>2. E!Known(n)' = E!Known(n) \cup {m}
    BY <2>1 DEF E!Known
  <2>3. /\ neighborhood'[n][m] = Got(n, m)
        /\ \A x \in E!Known(n) \ {m} : neighborhood'[n][x] = neighborhood[n][x]
    BY <2>1
  <2>4. /\ E!Active(n)' = E!Active(n) \cup {m}
        /\ E!Stable(n)' = IF Counted(n, m) THEN E!Stable(n) \cup {m} ELSE E!Stable(n)
        /\ E!Bidi(n)' = IF Counted(n, m)
                        THEN IF E!NamesMe(n, m) THEN E!Bidi(n) \cup {m} ELSE E!Bidi(n) \ {m}
                        ELSE E!Bidi(n)
    <3>1. E!Bidi(n) \subseteq E!Stable(n)
      BY DEF E!Bidi, E!Stable
    <3> QED BY <3>1, <2>2, <2>3, GotType DEF E!Active, E!Stable, E!Bidi, E!Level
  <2>5. AreHeard(n)'
    <3>1. IsFiniteSet(E!Known(n)') /\ Cardinality(E!Known(n)') <= echoNodes
      <4>1. CASE m \in E!Known(n)
        <5>1. E!Known(n)' = E!Known(n)
          BY <4>1, <2>2
        <5> QED BY <5>1 DEF EInv, AreHeard
      <4>2. CASE m \notin E!Known(n)
        <5>1. Cardinality(E!Known(n)) < echoNodes
          BY <4>2, <1>6, SameSize DEF E!Accepted, E!Active, E!Room
        <5>2. /\ IsFiniteSet(E!Known(n) \cup {m})
              /\ Cardinality(E!Known(n) \cup {m}) = Cardinality(E!Known(n)) + 1
          BY <4>2, FS_AddElement DEF EInv, AreHeard
        <5>3. Cardinality(E!Known(n)) \in Nat
          BY FS_CardinalityType DEF EInv, AreHeard
        <5> QED BY <2>2, <5>1, <5>2, <5>3 DEF EInv, E!EchoAssumption
      <4> QED BY <4>1, <4>2
    <3>2. \A x \in E!Known(n)' : x \in Small /\ neighborhood'[n][x] \in Entries /\ n \in E!InRange(x)'
      BY <2>2, <2>3, <1>0, <1>1, GotType DEF EInv, AreHeard
    <3>3. E!NamesMe(n, m) => m \in E!InRange(n)
      BY DEF E!NamesMe, EInv, BeaconTrue
    <3>4. E!Bidi(n)' \subseteq E!InRange(n)'
      BY <2>4, <3>3, <1>1 DEF EInv, AreHeard
    <3> QED BY <3>1, <3>2, <3>4 DEF AreHeard
  <2>6. Swept(n)'
    <3>1. chains[n] > 0
      BY DEF EInv, Swept, E!Receive
    <3>2. Got(n, m).age = 0
      BY GotType
    <3>3. \A x \in E!Active(n)' : x = m \/ (x \in E!Active(n) /\ neighborhood'[n][x] = neighborhood[n][x])
      BY <2>2, <2>3, <2>4 DEF E!Active
    <3>4. \A x \in E!Active(n)' : owed[n] < chains[n] => neighborhood'[n][x].age <= echoTimeout
      BY <2>3, <3>2, <3>3 DEF EInv, Swept, E!EchoAssumption
    <3> QED BY <3>1, <3>4, <1>1 DEF EInv, Swept
  <2>7. Tells(n)'
    <3>1. CASE ~Counted(n, m)
      <4>1. told'[n] = told[n] /\ forgotten'[n] = forgotten[n]
        BY <3>1, <1>b DEF heardOf, left
      <4>2. Said(n)' = Said(n)
        BY <3>1, <2>4 DEF Said
      <4> QED BY <4>1, <4>2 DEF EInv, Tells
    <3>2. CASE Counted(n, m)
      <4>1. /\ told'[n] = (told[n] \cup New(n, m)) \ Lost(n, m)
            /\ forgotten'[n] = forgotten[n] \ (New(n, m) \cup Lost(n, m))
        BY <3>2, <1>b DEF heardOf, left
      <4>2. told[n] = Said(n) \cup forgotten[n]
        BY DEF EInv, Tells
      <4>3. Said(n)' = (Said(n) \cup New(n, m)) \ Lost(n, m)
        <5>1. CASE E!NamesMe(n, m)
          <6>1. Lost(n, m) = {}
            BY <5>1 DEF Lost
          <6>2. New(n, m) \cup {<<x, "nb">> : x \in E!Stable(n)} \cup {<<x, "bidi">> : x \in E!Bidi(n)}
                = {<<x, "nb">> : x \in E!Stable(n) \cup {m}} \cup {<<x, "bidi">> : x \in E!Bidi(n) \cup {m}}
            BY <5>1 DEF New
          <6> QED BY <6>1, <6>2, <2>4, <3>2, <5>1 DEF Said
        <5>2. CASE ~E!NamesMe(n, m)
          <6>1. New(n, m) = {<<m, "nb">> : x \in {m} \ E!Stable(n)}
            BY <5>2 DEF New
          <6>2. Lost(n, m) = {<<m, "bidi">> : x \in {m} \cap E!Bidi(n)}
            BY <5>2 DEF Lost
          <6> QED BY <6>1, <6>2, <2>4, <3>2, <5>2 DEF Said
        <5> QED BY <5>1, <5>2
      <4> QED BY <4>1, <4>2, <4>3 DEF Tells
    <3> QED BY <3>1, <3>2
  <2> QED BY <2>5, <2>6, <2>7, <1>2, <1>3, <1>4 DEF EInv
<1> QED BY <1>5, <1>6 DEF EInv

LEMMA StepEInv == EInv /\ [E!Next]_eVars => EInv'
<1> SUFFICES ASSUME EInv, [E!Next]_eVars PROVE EInv'
  OBVIOUS
<1>1. ASSUME NEW n \in Small, E!Enable(n) PROVE EInv'
  BY <1>1, EnableEInv
<1>2. ASSUME NEW n \in setup.switching, E!Disable(n) PROVE EInv'
  <2>1. n \in Small
    BY DEF EInv, EShape, E!EchoAssumption
  <2> QED BY <1>2, <2>1, DisableEInv
<1>3. CASE E!GoesOn
  <2>1. CASE E!NextRound
    BY <2>1, NextRoundEInv
  <2>2. ASSUME NEW n \in Small, E!SayHello(n) PROVE EInv'
    BY <2>2, SayHelloEInv
  <2>3. ASSUME NEW n \in Small, NEW m \in Small, E!Receive(n, m) PROVE EInv'
    BY <2>3, ReceiveEInv
  <2> QED BY <1>3, <2>1, <2>2, <2>3 DEF E!GoesOn
<1>4. CASE UNCHANGED eVars
  BY <1>4 DEF eVars, EInv, EShape, AreHeard, BeaconTrue, Swept, Tells, Said,
       E!Known, E!Level, E!Active, E!Stable, E!Bidi, E!InRange
<1> QED BY <1>1, <1>2, <1>3, <1>4 DEF E!Next

------------------------------------------------------------------------------
(***************************************************************************)
(* The inductive invariant.  A node that is not enabled has joined nobody; *)
(* a JOIN in the air is of a node that has joined, and still says what is  *)
(* so of it: SID_ and hops_ are set once.  So who joins finds a parent     *)
(* that is in a cluster, and nobody has a node that joins as parent.       *)
(***************************************************************************)
Unasked == \A n \in Large : ~enabled[n] => sid[n] = Null

JoinsTrue == \A f \in cAir : f.type = "join" =>
               /\ f.from \in C!Joined \ {f.to}
               /\ f.sid = sid[f.from]
               /\ f.hops = hops[f.from] % clusterMod

CInv == C!ClusteringAssumption /\ C!TypeOK /\ Unasked /\ JoinsTrue /\ C!OneFarther /\ C!NoCircle

(***************************************************************************)
(* What the three kinds of frames are.                                     *)
(***************************************************************************)
LEMMA ByteRange ==
  ASSUME NEW h \in Nat, NEW k \in Nat \ {0}
  PROVE  h % k \in 0..k - 1
OBVIOUS

LEMMA JoinFrames ==
  ASSUME C!ClusteringAssumption,
         NEW n \in Large, NEW s \in Large, NEW h \in Nat, NEW f \in C!Join(n, s, h)
  PROVE  /\ f \in C!Frame /\ f.type = "join"
         /\ f.from = n /\ f.to \in Large \ {n} /\ f.sid = s /\ f.hops = h % clusterMod
<1>1. PICK m \in C!InRange(n) : f = [type |-> "join", to |-> m, from |-> n, sid |-> s,
                                   hops |-> h % clusterMod]
  BY DEF C!Join
<1>2. m \in Large \ {n}
  BY DEF C!InRange, C!ClusteringAssumption
<1>3. f \in [type : {"join"}, to : Large, from : Large, sid : Large, hops : 0..clusterMod - 1]
  BY <1>1, <1>2, ByteRange DEF C!ClusteringAssumption
<1> QED BY <1>1, <1>2, <1>3 DEF C!Frame

LEMMA AcceptFrames ==
  ASSUME NEW n \in Large, NEW p, NEW m \in Large, NEW f \in C!Accept(n, p, m)
  PROVE  f \in C!Frame /\ f.type = "accept"
<1>1. PICK q \in {p} \cap C!InRange(n) :
         f = [type |-> "accept", to |-> q, from |-> n, node |-> m]
  BY DEF C!Accept
<1>2. f \in [type : {"accept"}, to : Large, from : Large, node : Large]
  BY <1>1 DEF C!InRange
<1> QED BY <1>1, <1>2 DEF C!Frame

LEMMA ResumeFrames ==
  ASSUME NEW n \in Large, NEW p, NEW o \in Large, NEW f \in C!Resume(n, p, o)
  PROVE  f \in C!Frame /\ f.type = "resume"
<1>1. PICK q \in {p} \cap C!InRange(n) :
         f = [type |-> "resume", to |-> q, from |-> n, origin |-> o]
  BY DEF C!Resume
<1>2. f \in [type : {"resume"}, to : Large, from : Large, origin : Large]
  BY <1>1 DEF C!InRange
<1> QED BY <1>1, <1>2 DEF C!Frame

LEMMA FrameFields ==
  ASSUME NEW f \in C!Frame
  PROVE  /\ f.to \in Large /\ f.from \in Large
         /\ f.type = "join" => f.sid \in Large /\ f.hops \in 0..clusterMod - 1
         /\ f.type = "accept" => f.node \in Large
         /\ f.type = "resume" => f.origin \in Large
BY DEF C!Frame

(***************************************************************************)
(* A step in which nobody joins, and nobody asks others to.                *)
(***************************************************************************)
LEMMA NobodyJoins ==
  ASSUME CInv, head' = head, C!Joined' = C!Joined,
         \A m \in C!Joined : sid'[m] = sid[m] /\ cParent'[m] = cParent[m] /\ hops'[m] = hops[m],
         \A f \in cAir' : f.type = "join" => f \in cAir
  PROVE  JoinsTrue' /\ C!OneFarther' /\ C!NoCircle'
<1>1. JoinsTrue'
  BY DEF CInv, JoinsTrue
<1>2. C!OneFarther'
  BY DEF CInv, C!OneFarther
<1>3. C!NoCircle'
  BY DEF CInv, C!NoCircle
<1> QED BY <1>1, <1>2, <1>3

(***************************************************************************)
(* A step in which n joins, as a head or under a node of a cluster, and    *)
(* asks others to.  Nobody has n as parent, so n is in no circle.          *)
(***************************************************************************)
LEMMA OneJoins ==
  ASSUME CInv, NEW n \in Large, n \notin C!Joined,
         NEW s \in Large, NEW p \in Large, NEW h \in 0..clusterMod,
         sid' = [sid EXCEPT ![n] = s], cParent' = [cParent EXCEPT ![n] = p],
         hops' = [hops EXCEPT ![n] = h], head' = head,
         \/ n \in head /\ s = n /\ p = n /\ h = 0
         \/ /\ n \notin head /\ p \in C!Joined /\ s = sid[p]
            /\ h = (hops[p] % clusterMod) + 1,
         \A f \in cAir' : f.type = "join" => f \in cAir \/ f \in C!Join(n, s, h)
  PROVE  JoinsTrue' /\ C!OneFarther' /\ C!NoCircle'
<1>1. C!Joined' = C!Joined \cup {n}
  BY DEF CInv, C!TypeOK, C!Joined, C!ClusteringAssumption
<1>2. \A m \in C!Joined : /\ m # n
                        /\ sid'[m] = sid[m] /\ cParent'[m] = cParent[m] /\ hops'[m] = hops[m]
  BY DEF CInv, C!TypeOK, C!Joined
<1>3. sid'[n] = s /\ cParent'[n] = p /\ hops'[n] = h
  BY DEF CInv, C!TypeOK
<1>4. JoinsTrue'
  <2> SUFFICES ASSUME NEW f \in cAir', f.type = "join"
               PROVE  /\ f.from \in C!Joined' \ {f.to}
                      /\ f.sid = sid'[f.from]
                      /\ f.hops = hops'[f.from] % clusterMod
    BY DEF JoinsTrue
  <2>1. CASE f \in cAir
    BY <2>1, <1>1, <1>2 DEF CInv, JoinsTrue
  <2>2. CASE f \in C!Join(n, s, h)
    <3>1. f.from = n /\ f.to # n /\ f.sid = s /\ f.hops = h % clusterMod
      <4>1. h \in Nat
        BY DEF CInv, C!ClusteringAssumption
      <4> QED BY <4>1, <2>2, JoinFrames DEF CInv
    <3> QED BY <3>1, <1>1, <1>3
  <2> QED BY <2>1, <2>2
<1>5. C!OneFarther'
  <2> SUFFICES ASSUME NEW m \in C!Joined'
               PROVE  IF m \in head' THEN sid'[m] = m /\ cParent'[m] = m /\ hops'[m] = 0
                      ELSE /\ cParent'[m] \in C!Joined' \ {m}
                           /\ sid'[m] = sid'[cParent'[m]]
                           /\ hops'[m] = (hops'[cParent'[m]] % clusterMod) + 1
    BY DEF C!OneFarther
  <2>1. CASE m = n
    BY <2>1, <1>1, <1>2, <1>3
  <2>2. CASE m \in C!Joined
    BY <2>2, <1>1, <1>2 DEF CInv, C!OneFarther
  <2> QED BY <2>1, <2>2, <1>1
<1>6. C!NoCircle'
  <2> SUFFICES ASSUME NEW X \in SUBSET (C!Joined' \ head'), X # {},
                      \A m \in X : cParent'[m] \in X
               PROVE  FALSE
    BY DEF C!NoCircle
  <2>1. X \ {n} \in SUBSET (C!Joined \ head)
    BY <1>1
  <2>2. \A m \in X \ {n} : cParent[m] \in X \ {n}
    <3> TAKE m \in X \ {n}
    <3>1. m \in C!Joined \ head
      BY <2>1
    <3>2. cParent[m] \in C!Joined /\ cParent'[m] = cParent[m]
      BY <3>1, <1>2 DEF CInv, C!OneFarther
    <3> QED BY <3>2
  <2>3. X \ {n} # {}
    <3>1. CASE n \in X
      <4>1. p \in C!Joined /\ cParent'[n] \in X
        BY <3>1
      <4> QED BY <4>1, <1>3
    <3>2. CASE n \notin X
      BY <3>2
    <3> QED BY <3>1, <3>2
  <2> QED BY <2>1, <2>2, <2>3 DEF CInv, C!NoCircle
<1> QED BY <1>4, <1>5, <1>6

------------------------------------------------------------------------------
LEMMA InitCInv == C!ClusteringAssumption /\ C!Init => CInv
<1> SUFFICES ASSUME C!ClusteringAssumption, C!Init PROVE CInv
  OBVIOUS
<1>1. C!TypeOK
  BY DEF C!Init, C!TypeOK, C!ClusteringAssumption
<1>2. C!Joined = {}
  BY DEF C!Init, C!Joined
<1> QED BY <1>1, <1>2 DEF C!Init, CInv, Unasked, JoinsTrue, C!OneFarther, C!NoCircle

LEMMA EnableCInv ==
  ASSUME CInv, NEW n \in Large, C!Enable(n)
  PROVE  CInv'
<1>1. n \notin C!Joined
  BY DEF CInv, Unasked, C!Enable, C!Joined
<1>2. Unasked'
  BY DEF CInv, C!TypeOK, Unasked, C!Enable
<1>3. CASE n \in head
  <2>1. /\ sid' = [sid EXCEPT ![n] = n] /\ cParent' = [cParent EXCEPT ![n] = n]
        /\ hops' = [hops EXCEPT ![n] = 0] /\ head' = head
        /\ cAir' = cAir \cup C!Join(n, n, 0)
    BY <1>3 DEF C!Enable
  <2>2. C!Join(n, n, 0) \subseteq C!Frame
    BY JoinFrames DEF CInv
  <2>3. timer' \in [Large -> BOOLEAN]
    BY DEF CInv, C!TypeOK, C!Enable
  <2>4. C!TypeOK'
    BY <2>1, <2>2, <2>3 DEF CInv, C!TypeOK, C!Enable, C!ClusteringAssumption
  <2>5. \A f \in cAir' : f.type = "join" => f \in cAir \/ f \in C!Join(n, n, 0)
    BY <2>1
  <2>6. 0 \in 0..clusterMod
    BY DEF CInv, C!ClusteringAssumption
  <2>7. JoinsTrue' /\ C!OneFarther' /\ C!NoCircle'
    BY <1>1, <1>3, <2>1, <2>5, <2>6, OneJoins
  <2> QED BY <2>4, <2>7, <1>2 DEF CInv
<1>4. CASE n \notin head
  <2>1. timer' \in [Large -> BOOLEAN]
    BY DEF CInv, C!TypeOK, C!Enable
  <2>2. C!TypeOK'
    BY <1>4, <2>1 DEF CInv, C!TypeOK, C!Enable, C!ClusteringAssumption
  <2>3. /\ C!Joined' = C!Joined
        /\ \A m \in C!Joined : sid'[m] = sid[m] /\ cParent'[m] = cParent[m] /\ hops'[m] = hops[m]
    BY <1>1, <1>4 DEF CInv, C!TypeOK, C!Enable, C!Joined
  <2>4. JoinsTrue' /\ C!OneFarther' /\ C!NoCircle'
    BY <1>4, <2>3, NobodyJoins DEF C!Enable
  <2> QED BY <2>2, <2>4, <1>2 DEF CInv
<1> QED BY <1>3, <1>4

LEMMA ReceiveJoinCInv ==
  ASSUME CInv, NEW n \in Large, NEW f \in cAir, C!ReceiveJoin(n, f)
  PROVE  CInv'
<1>1. /\ f.type = "join" /\ f.to = n /\ f.from \in C!Joined \ {n}
      /\ f.sid = sid[f.from] /\ f.hops = hops[f.from] % clusterMod
  BY DEF CInv, JoinsTrue, C!ReceiveJoin
<1>2. f.from \in Large /\ f.sid \in Large /\ f.hops \in 0..clusterMod - 1
  BY <1>1, FrameFields DEF CInv, C!TypeOK
<1>3. n \notin C!Joined /\ n \notin head
  BY DEF C!ReceiveJoin, C!Unclustered, C!Joined
<1>4. /\ C!HopsOver(f) = f.hops + 1
      /\ C!HopsOver(f) \in 0..clusterMod /\ C!HopsOver(f) \in Nat
  BY <1>2 DEF C!HopsOver, CInv, C!ClusteringAssumption
<1>5. C!Accept(n, f.from, n) \subseteq C!Frame /\ C!Join(n, f.sid, C!HopsOver(f)) \subseteq C!Frame
  BY <1>2, <1>4, JoinFrames, AcceptFrames DEF CInv
<1>6. C!TypeOK'
  <2>1. timer' \in [Large -> BOOLEAN]
    BY DEF CInv, C!TypeOK, C!ReceiveJoin
  <2> QED BY <1>2, <1>4, <1>5, <2>1 DEF CInv, C!TypeOK, C!ReceiveJoin
<1>7. Unasked'
  BY <1>3 DEF CInv, C!TypeOK, Unasked, C!ReceiveJoin
<1>8. \A g \in cAir' : g.type = "join" => g \in cAir \/ g \in C!Join(n, f.sid, C!HopsOver(f))
  BY <1>2, AcceptFrames DEF C!ReceiveJoin
<1>9. JoinsTrue' /\ C!OneFarther' /\ C!NoCircle'
  <2>1. /\ sid' = [sid EXCEPT ![n] = f.sid] /\ cParent' = [cParent EXCEPT ![n] = f.from]
        /\ hops' = [hops EXCEPT ![n] = C!HopsOver(f)] /\ head' = head
    BY DEF C!ReceiveJoin
  <2>2. f.from \in C!Joined /\ C!HopsOver(f) = (hops[f.from] % clusterMod) + 1
    BY <1>1, <1>4
  <2> QED BY <1>1, <1>2, <1>3, <1>4, <1>8, <2>1, <2>2, OneJoins
<1> QED BY <1>6, <1>7, <1>9 DEF CInv

(***************************************************************************)
(* The steps that leave the tree alone.                                    *)
(***************************************************************************)
LEMMA TreeStays ==
  ASSUME CInv, UNCHANGED <<head, enabled, sid, cParent, hops>>, C!TypeOK',
         \A f \in cAir' : f.type = "join" => f \in cAir
  PROVE  CInv'
<1>1. C!Joined' = C!Joined
  BY DEF C!Joined
<1>2. JoinsTrue' /\ C!OneFarther' /\ C!NoCircle'
  BY <1>1, NobodyJoins
<1> QED BY <1>2 DEF CInv, Unasked

LEMMA ReceiveAcceptCInv ==
  ASSUME CInv, NEW n \in Large, NEW f \in cAir, C!ReceiveAccept(n, f)
  PROVE  CInv'
<1>1. f.node \in Large
  BY FrameFields DEF C!ReceiveAccept, CInv, C!TypeOK
<1>2. \A g \in C!PassedOn(n, f) : g \in C!Frame /\ g.type = "accept"
  BY <1>1, AcceptFrames DEF C!PassedOn
<1>3. C!WithMember(members[n], f.node) \in SUBSET Large
  BY <1>1 DEF C!WithMember, CInv, C!TypeOK
<1>4. C!TypeOK'
  <2>1. anyJoined' \in [Large -> BOOLEAN]
    BY DEF CInv, C!TypeOK, C!ReceiveAccept
  <2>2. members' \in [Large -> SUBSET Large]
    BY <1>3 DEF CInv, C!TypeOK, C!ReceiveAccept
  <2>3. cAir' \subseteq C!Frame
    BY <1>2 DEF CInv, C!TypeOK, C!ReceiveAccept
  <2> QED BY <2>1, <2>2, <2>3 DEF CInv, C!TypeOK, C!ReceiveAccept
<1>5. \A g \in cAir' : g.type = "join" => g \in cAir
  BY <1>2 DEF C!ReceiveAccept
<1> QED BY <1>4, <1>5, TreeStays DEF C!ReceiveAccept

LEMMA ReceiveResumeCInv ==
  ASSUME CInv, NEW n \in Large, NEW f \in cAir, C!ReceiveResume(n, f)
  PROVE  CInv'
<1>1. f.origin \in Large
  BY FrameFields DEF C!ReceiveResume, CInv, C!TypeOK
<1>2. \A g \in C!Resume(n, cParent[n], f.origin) : g \in C!Frame /\ g.type = "resume"
  BY <1>1, ResumeFrames
<1>3. C!TypeOK'
  <2>1. formed' \in [Large -> SUBSET Large]
    BY <1>1 DEF CInv, C!TypeOK, C!ReceiveResume
  <2>2. cAir' \subseteq C!Frame
    BY <1>2 DEF CInv, C!TypeOK, C!ReceiveResume
  <2> QED BY <2>1, <2>2 DEF CInv, C!TypeOK, C!ReceiveResume
<1>4. \A g \in cAir' : g.type = "join" => g \in cAir
  BY <1>2 DEF C!ReceiveResume
<1> QED BY <1>3, <1>4, TreeStays DEF C!ReceiveResume

LEMMA IgnoreCInv ==
  ASSUME CInv, NEW n \in Large, NEW f \in cAir, C!Ignore(n, f)
  PROVE  CInv'
<1>1. C!TypeOK'
  BY DEF CInv, C!TypeOK, C!Ignore
<1> QED BY <1>1, TreeStays DEF C!Ignore

LEMMA TimerExpiredCInv ==
  ASSUME CInv, NEW n \in Large, C!TimerExpired(n)
  PROVE  CInv'
<1>1. \A g \in C!Resume(n, cParent[n], n) : g \in C!Frame /\ g.type = "resume"
  BY ResumeFrames
<1>2. C!TypeOK'
  <2>1. timer' \in [Large -> BOOLEAN]
    BY DEF CInv, C!TypeOK, C!TimerExpired
  <2>2. formed' \in [Large -> SUBSET Large]
    BY DEF CInv, C!TypeOK, C!TimerExpired
  <2>3. cAir' \subseteq C!Frame
    BY <1>1 DEF CInv, C!TypeOK, C!TimerExpired
  <2> QED BY <2>1, <2>2, <2>3 DEF CInv, C!TypeOK, C!TimerExpired
<1>3. \A g \in cAir' : g.type = "join" => g \in cAir
  BY <1>1 DEF C!TimerExpired
<1> QED BY <1>2, <1>3, TreeStays DEF C!TimerExpired

(***************************************************************************)
(* What nodes know of their branch.  Nobody leads to a node but through    *)
(* its children; parents are set once, so a branch only grows.             *)
(***************************************************************************)
Leads(m, n) == \A X \in SUBSET Large : n \in X /\ C!TakesIn(X) => m \in X

LEMMA UnderLeads ==
  ASSUME NEW n \in Large
  PROVE  C!Under(n) = {m \in Large \ {n} : Leads(m, n)}
BY DEF C!Under, Leads

LEMMA ChildLeads ==
  ASSUME NEW n \in Large, NEW m \in Large, cParent[m] = n
  PROVE  Leads(m, n)
BY DEF Leads, C!TakesIn

LEMMA LeadsOn ==
  ASSUME NEW k, NEW m \in Large, NEW n \in Large, Leads(k, m), Leads(m, n)
  PROVE  Leads(k, n)
BY DEF Leads

(***************************************************************************)
(* Who leads to n other than n itself does so through its parent.          *)
(***************************************************************************)
LEMMA LeadsThrough ==
  ASSUME NEW n \in Large, NEW m \in Large \ {n}, Leads(m, n)
  PROVE  cParent[m] \in Large /\ Leads(cParent[m], n)
<1> DEFINE Y == {x \in Large : Leads(x, n)}
           Z == {n} \cup {x \in Y : cParent[x] \in Y}
<1>1. \A x \in Large : cParent[x] \in Z => x \in Z
  <2> SUFFICES ASSUME NEW x \in Large, cParent[x] \in Z PROVE x \in Z
    OBVIOUS
  <2>1. cParent[x] \in Y
    BY DEF Leads
  <2>2. Leads(x, cParent[x])
    BY <2>1, ChildLeads
  <2>3. Leads(x, n)
    BY <2>1, <2>2, LeadsOn
  <2> QED BY <2>1, <2>3
<1>2. Z \in SUBSET Large /\ n \in Z /\ C!TakesIn(Z)
  BY <1>1 DEF C!TakesIn
<1>3. m \in Z
  BY <1>2 DEF Leads
<1> QED BY <1>3

Alone == \A n \in Large : sid[n] = Null => cParent[n] = Null /\ ~timer[n]

(***************************************************************************)
(* A parent does not lead to its child: that would be a circle.            *)
(***************************************************************************)
LEMMA ParentNotUnder ==
  ASSUME CInv, Alone, NEW n \in C!Joined \ head
  PROVE  /\ cParent[n] \in C!Joined \ {n}
         /\ ~Leads(cParent[n], n)
<1>1. /\ cParent[n] \in C!Joined \ {n} /\ C!Joined \subseteq Large /\ Null \notin Large
  BY DEF CInv, C!OneFarther, C!Joined, C!ClusteringAssumption
<1> SUFFICES ASSUME Leads(cParent[n], n) PROVE FALSE
  BY <1>1
<1> DEFINE Y == {x \in Large : Leads(x, n)}
<1>2. n \in Y
  BY <1>1 DEF Leads
<1>3. \A x \in Y : cParent[x] \in Y
  BY <1>1, LeadsThrough
<1>4. \A x \in Y : x \in C!Joined
  BY <1>1, <1>3 DEF Alone, C!Joined
<1>5. \A x \in Large : cParent[x] \in Y \ head => x \in Y \ head
  <2> SUFFICES ASSUME NEW x \in Large, cParent[x] \in Y \ head PROVE x \in Y \ head
    OBVIOUS
  <2>1. Leads(x, cParent[x])
    BY ChildLeads
  <2>2. x \in Y
    BY <2>1, <1>1, LeadsOn
  <2>3. x \in C!Joined
    BY <2>2, <1>4
  <2> QED BY <2>2, <2>3 DEF CInv, C!OneFarther
<1>6. Y \ head \in SUBSET Large /\ n \in Y \ head /\ C!TakesIn(Y \ head)
  BY <1>2, <1>5 DEF C!TakesIn
<1>7. \A x \in Y : x \notin head
  BY <1>6 DEF Leads
<1>8. Y \in SUBSET (C!Joined \ head) /\ Y # {}
  BY <1>2, <1>4, <1>7
<1> HIDE DEF Y
<1> QED BY <1>3, <1>8 DEF CInv, C!NoCircle

(***************************************************************************)
(* Whom a node has under it stays under it.                                *)
(***************************************************************************)
LEMMA BranchesGrow ==
  ASSUME C!ClusteringAssumption,
         \A m \in Large : cParent[m] # Null => cParent'[m] = cParent[m],
         NEW n \in Large
  PROVE  C!Under(n) \subseteq C!Under(n)'
<1>1. \A X \in SUBSET Large : C!TakesIn(X)' => C!TakesIn(X)
  BY DEF C!TakesIn, C!ClusteringAssumption
<1>2. \A m \in Large : Leads(m, n) => Leads(m, n)'
  BY <1>1 DEF Leads
<1>3. C!Under(n)' = {m \in Large \ {n} : Leads(m, n)'}
  BY DEF C!Under, Leads
<1> QED BY <1>2, <1>3, UnderLeads

Childless(n) == \A m \in Large \ {n} : cParent[m] # n

LEMMA NobodyUnder ==
  ASSUME NEW n \in Large, Childless(n)
  PROVE  C!Under(n) = {}
<1>1. C!TakesIn({n})
  BY DEF C!TakesIn, Childless
<1> QED BY <1>1 DEF C!Under

(***************************************************************************)
(* Links in both directions: what takes a JOIN can answer it.              *)
(***************************************************************************)
TwoWay(l) == \A e \in l : <<e[2], e[1]>> \in l

JoinsReach == \A f \in cAir : f.type = "join" => f.to \in C!InRange(f.from)

AcceptsTrue == \A f \in cAir : f.type = "accept" =>
                 f.to \in C!Joined /\ f.node \in C!Under(f.to)

MembersTrue == \A n \in Large : members[n] \subseteq C!Under(n)

(***************************************************************************)
(* Who joined has told its parent, or its message is still on the way.     *)
(***************************************************************************)
Reported(n) == \/ anyJoined[cParent[n]]
               \/ \E f \in cAir : f.type = "accept" /\ f.from = n /\ f.to = cParent[n]

AllReported == \A n \in C!Joined \ head : Reported(n)

(***************************************************************************)
(* Nobody has joined under n, and nobody will.                             *)
(***************************************************************************)
Done(n) == /\ n \in C!Joined /\ Childless(n)
           /\ \A f \in cAir : f.type = "join" => f.from # n

DoneSaid == prompt => /\ \A f \in cAir : f.type = "resume" => Done(f.origin)
                      /\ \A n \in Large : \A m \in formed[n] : Done(m)

BInv == /\ CInv /\ TwoWay(clusterLink) /\ Alone
        /\ JoinsReach /\ AcceptsTrue /\ MembersTrue /\ AllReported /\ DoneSaid

LEMMA BInvBranches ==
  ASSUME BInv PROVE C!BranchesTrue
<1>1. C!Joined \subseteq Large
  BY DEF C!Joined
<1>2. \A m \in Large : Done(m) => C!Under(m) = {}
  BY NobodyUnder DEF Done
<1>3. \A m : Done(m) => m \in Large
  BY <1>1 DEF Done
<1>4. prompt => /\ \A f \in cAir : f.type = "resume" => C!Under(f.origin) = {}
                /\ \A n \in Large : \A m \in formed[n] : C!Under(m) = {}
  BY <1>2, <1>3 DEF BInv, DoneSaid
<1> QED BY <1>4 DEF BInv, MembersTrue, C!BranchesTrue

LEMMA InitBInv == C!ClusteringAssumption /\ TwoWay(clusterLink) /\ C!Init => BInv
<1> SUFFICES ASSUME C!ClusteringAssumption, TwoWay(clusterLink), C!Init PROVE BInv
  OBVIOUS
<1>1. C!Joined = {}
  BY DEF C!Init, C!Joined
<1> QED BY <1>1, InitCInv DEF C!Init, BInv, Alone, JoinsReach, AcceptsTrue, MembersTrue,
             AllReported, DoneSaid

(***************************************************************************)
(* Steps in which nobody joins.                                            *)
(***************************************************************************)
LEMMA TreeSame ==
  ASSUME UNCHANGED <<sid, cParent>>
  PROVE  /\ C!Joined' = C!Joined
         /\ \A n : C!Under(n)' = C!Under(n) /\ (Childless(n)' <=> Childless(n))
BY DEF C!Joined, C!Under, C!TakesIn, Childless

LEMMA DoneStays ==
  ASSUME UNCHANGED <<sid, cParent>>,
         \A f \in cAir' : f.type = "join" => f \in cAir,
         NEW n, Done(n)
  PROVE  Done(n)'
BY TreeSame DEF Done

LEMMA ReceiveAcceptBInv ==
  ASSUME BInv, NEW n \in Large, NEW f \in cAir, C!ReceiveAccept(n, f)
  PROVE  BInv'
<1>1. CInv'
  BY ReceiveAcceptCInv DEF BInv
<1>2. UNCHANGED <<head, prompt, sid, cParent, timer, formed>> /\ f.type = "accept" /\ f.to = n
  BY DEF C!ReceiveAccept
<1>3. /\ n \in C!Joined /\ f.node \in C!Under(n) /\ f.node \in Large
  BY <1>2 DEF BInv, AcceptsTrue, C!Under
<1>4. /\ cAir' = (cAir \ {f}) \cup C!PassedOn(n, f)
      /\ \A g \in C!PassedOn(n, f) :
           /\ g.type = "accept" /\ n \notin head /\ g.to = cParent[n] /\ g.node = f.node
  BY DEF C!ReceiveAccept, C!PassedOn, C!Accept
<1>5. Alone' /\ JoinsReach'
  BY <1>2, <1>4 DEF BInv, Alone, JoinsReach, C!InRange
<1>6. AcceptsTrue'
  <2> SUFFICES ASSUME NEW g \in C!PassedOn(n, f)
               PROVE  g.to \in C!Joined /\ g.node \in C!Under(g.to)
    BY <1>2, <1>4, TreeSame DEF BInv, AcceptsTrue
  <2>1. n \in C!Joined \ head /\ C!Joined \subseteq Large
    BY <1>3, <1>4 DEF C!Joined
  <2>2. cParent[n] \in C!Joined \ {n} /\ ~Leads(cParent[n], n)
    BY <2>1, ParentNotUnder DEF BInv
  <2>3. Leads(f.node, n)
    BY <1>3, UnderLeads
  <2>4. Leads(f.node, cParent[n])
    BY <2>1, <2>2, <2>3, ChildLeads, LeadsOn
  <2>5. f.node # cParent[n]
    BY <2>2, <2>3
  <2> QED BY <1>3, <1>4, <2>1, <2>2, <2>4, <2>5, UnderLeads
<1>7. MembersTrue'
  <2>1. members' = [members EXCEPT ![n] = C!WithMember(members[n], f.node)]
    BY DEF C!ReceiveAccept
  <2>2. C!WithMember(members[n], f.node) \subseteq members[n] \cup {f.node}
    BY DEF C!WithMember
  <2> QED BY <1>2, <1>3, <2>1, <2>2, TreeSame DEF BInv, CInv, C!TypeOK, MembersTrue
<1>8. AllReported'
  <2> SUFFICES ASSUME NEW x \in C!Joined \ head PROVE Reported(x)'
    BY <1>2, TreeSame DEF AllReported
  <2>1. /\ anyJoined'[n] = TRUE
        /\ \A y \in Large : anyJoined[y] => anyJoined'[y]
        /\ cParent[x] \in Large
    BY DEF C!ReceiveAccept, BInv, CInv, C!TypeOK, C!OneFarther, C!Joined
  <2>2. Reported(x)
    BY DEF BInv, AllReported
  <2> QED BY <1>2, <1>4, <2>1, <2>2 DEF Reported
<1>9. DoneSaid'
  <2>1. \A m : Done(m) => Done(m)'
    BY <1>2, <1>4, DoneStays
  <2> QED BY <1>2, <1>4, <2>1 DEF BInv, DoneSaid
<1> QED BY <1>1, <1>5, <1>6, <1>7, <1>8, <1>9 DEF BInv

LEMMA ReceiveResumeBInv ==
  ASSUME BInv, NEW n \in Large, NEW f \in cAir, C!ReceiveResume(n, f)
  PROVE  BInv'
<1>1. CInv'
  BY ReceiveResumeCInv DEF BInv
<1>2. /\ UNCHANGED <<head, prompt, sid, cParent, timer, anyJoined, members>>
      /\ f.type = "resume" /\ f.to = n
  BY DEF C!ReceiveResume
<1>3. \A g \in C!Resume(n, cParent[n], f.origin) : g.type = "resume" /\ g.origin = f.origin
  BY DEF C!Resume
<1>4. /\ cAir \ {f} \subseteq cAir'
      /\ \A g \in cAir' : g \in cAir \/ (g.type = "resume" /\ g.origin = f.origin)
      /\ \A x \in Large : formed'[x] \subseteq formed[x] \cup {f.origin}
  BY <1>3 DEF C!ReceiveResume, BInv, CInv, C!TypeOK
<1>5. Alone' /\ JoinsReach' /\ AcceptsTrue' /\ MembersTrue'
  BY <1>2, <1>4, TreeSame DEF BInv, Alone, JoinsReach, AcceptsTrue, MembersTrue, C!InRange
<1>6. AllReported'
  BY <1>2, <1>4, TreeSame DEF BInv, AllReported, Reported
<1>7. DoneSaid'
  <2>1. \A m : Done(m) => Done(m)'
    BY <1>2, <1>4, DoneStays
  <2>2. prompt => Done(f.origin)
    BY <1>2 DEF BInv, DoneSaid
  <2> QED BY <1>2, <1>4, <2>1, <2>2 DEF BInv, DoneSaid
<1> QED BY <1>1, <1>5, <1>6, <1>7 DEF BInv

LEMMA IgnoreBInv ==
  ASSUME BInv, NEW n \in Large, NEW f \in cAir, C!Ignore(n, f)
  PROVE  BInv'
<1>1. CInv'
  BY IgnoreCInv DEF BInv
<1>2. UNCHANGED <<head, prompt, sid, cParent, timer, anyJoined, members, formed>>
  BY DEF C!Ignore
<1>3. cAir' = cAir \ {f} /\ f.type # "accept"
  <2>1. f.type = "accept" => f.to \in C!Joined
    BY DEF BInv, AcceptsTrue
  <2>2. f.type = "accept" => enabled[f.to]
    BY <2>1 DEF BInv, CInv, Unasked, C!Joined
  <2> QED BY <2>2 DEF C!Ignore
<1>5. Alone' /\ JoinsReach' /\ AcceptsTrue' /\ MembersTrue'
  BY <1>2, <1>3, TreeSame DEF BInv, Alone, JoinsReach, AcceptsTrue, MembersTrue, C!InRange
<1>6. AllReported'
  BY <1>2, <1>3, TreeSame DEF BInv, AllReported, Reported
<1>7. DoneSaid'
  <2>1. \A m : Done(m) => Done(m)'
    BY <1>2, <1>3, DoneStays
  <2> QED BY <1>2, <1>3, <2>1 DEF BInv, DoneSaid
<1> QED BY <1>1, <1>5, <1>6, <1>7 DEF BInv

(***************************************************************************)
(* A timer that expires with nobody joined, all answers having come.       *)
(***************************************************************************)
LEMMA TimerExpiredBInv ==
  ASSUME BInv, NEW n \in Large, C!TimerExpired(n)
  PROVE  BInv'
<1>1. CInv'
  BY TimerExpiredCInv DEF BInv
<1>2. UNCHANGED <<head, prompt, sid, cParent, anyJoined, members>> /\ timer[n]
  BY DEF C!TimerExpired
<1>3. \A g \in C!Resume(n, cParent[n], n) : g.type = "resume" /\ g.origin = n
  BY DEF C!Resume
<1>4. /\ cAir \subseteq cAir'
      /\ \A g \in cAir' : g \in cAir \/ (C!Finished(n) /\ g.type = "resume" /\ g.origin = n)
      /\ \A x \in Large : formed'[x] = formed[x]
                            \/ (C!Finished(n) /\ formed'[x] = formed[x] \cup {n})
      /\ \A x \in Large : timer'[x] => timer[x]
  BY <1>3 DEF C!TimerExpired, BInv, CInv, C!TypeOK
<1>5. Alone' /\ JoinsReach' /\ AcceptsTrue' /\ MembersTrue'
  BY <1>2, <1>4, TreeSame DEF BInv, Alone, JoinsReach, AcceptsTrue, MembersTrue, C!InRange
<1>6. AllReported'
  BY <1>2, <1>4, TreeSame DEF BInv, AllReported, Reported
<1>7. prompt /\ C!Finished(n) => Done(n)
  <2> SUFFICES ASSUME prompt, ~anyJoined[n] PROVE Done(n)
    BY DEF C!Finished
  <2>1. n \in C!Joined
    BY <1>2 DEF BInv, Alone, C!Joined
  <2>2. \A f \in cAir : /\ f.type = "join" => f.from # n
                        /\ f.type = "accept" => f.to # n
    BY DEF C!TimerExpired, C!Answered
  <2>3. ASSUME NEW m \in Large \ {n}, cParent[m] = n PROVE FALSE
    <3>1. m \in C!Joined
      BY <2>3 DEF BInv, Alone, CInv, C!ClusteringAssumption, C!Joined
    <3>2. m \notin head
      BY <2>3, <3>1 DEF BInv, CInv, C!OneFarther
    <3>3. Reported(m)
      BY <3>1, <3>2 DEF BInv, AllReported
    <3> QED BY <2>2, <2>3, <3>3 DEF Reported
  <2> QED BY <2>1, <2>2, <2>3 DEF Done, Childless
<1>8. DoneSaid'
  <2>1. \A m : Done(m) => Done(m)'
    BY <1>2, <1>4, DoneStays
  <2> QED BY <1>2, <1>4, <1>7, <2>1 DEF BInv, DoneSaid
<1> QED BY <1>1, <1>5, <1>6, <1>8 DEF BInv

(***************************************************************************)
(* A head that is enabled, or a node that is enabled as nothing yet.       *)
(***************************************************************************)
LEMMA EnableBInv ==
  ASSUME BInv, NEW n \in Large, C!Enable(n)
  PROVE  BInv'
<1>1. CInv'
  BY EnableCInv DEF BInv
<1>2. n \notin C!Joined /\ cParent[n] = Null /\ sid[n] = Null /\ Null \notin Large
  BY DEF BInv, CInv, Unasked, C!Enable, C!Joined, Alone, C!ClusteringAssumption
<1>3. /\ \A x \in Large \ {n} : /\ sid'[x] = sid[x] /\ cParent'[x] = cParent[x]
                                /\ timer'[x] = timer[x] /\ anyJoined'[x] = anyJoined[x]
      /\ n \notin head => sid'[n] = Null /\ cParent'[n] = Null /\ ~timer'[n]
      /\ n \in head => sid'[n] = n /\ cParent'[n] = n
      /\ UNCHANGED <<head, prompt, members, formed>>
  BY DEF C!Enable, BInv, CInv, C!TypeOK
<1>4. /\ cAir \subseteq cAir'
      /\ \A f \in cAir' : \/ f \in cAir
                          \/ f.type = "join" /\ f.from = n /\ f.to \in C!InRange(n)
  BY DEF C!Enable, C!Join
<1>5. C!Joined' \subseteq C!Joined \cup {n} /\ C!Joined \subseteq C!Joined'
      /\ (n \in C!Joined' => n \in head)
  BY <1>2, <1>3 DEF C!Joined
<1>6. \A x \in Large : C!Under(x) \subseteq C!Under(x)'
  <2>1. \A m \in Large : cParent[m] # Null => cParent'[m] = cParent[m]
    BY <1>2, <1>3
  <2> QED BY <2>1, BranchesGrow DEF BInv, CInv
<1>7. Alone' /\ JoinsReach'
  BY <1>2, <1>3, <1>4 DEF BInv, Alone, JoinsReach, C!InRange
<1>8. AcceptsTrue' /\ MembersTrue'
  <2>1. C!Joined \subseteq Large
    BY DEF C!Joined
  <2> QED BY <2>1, <1>3, <1>4, <1>5, <1>6 DEF BInv, AcceptsTrue, MembersTrue
<1>9. AllReported'
  <2> SUFFICES ASSUME NEW x \in C!Joined' \ head PROVE Reported(x)'
    BY <1>3 DEF AllReported
  <2>1. x \in C!Joined \ head /\ x # n /\ x \in Large
    BY <1>2, <1>5 DEF C!Joined
  <2>2. cParent[x] \in C!Joined /\ cParent[x] \in Large \ {n}
    BY <1>2, <2>1 DEF BInv, CInv, C!OneFarther, C!Joined
  <2>3. Reported(x)
    BY <2>1 DEF BInv, AllReported
  <2> QED BY <1>3, <1>4, <2>1, <2>2, <2>3 DEF Reported
<1>10. DoneSaid'
  <2>1. ASSUME NEW x, Done(x) PROVE Done(x)'
    <3>1. x # n /\ x \in Large /\ x # Null
      BY <2>1, <1>2 DEF Done, C!Joined
    <3>2. Childless(x)'
      BY <2>1, <3>1, <1>3 DEF Done, Childless
    <3> QED BY <2>1, <3>1, <3>2, <1>4, <1>5 DEF Done
  <2> QED BY <1>3, <1>4, <2>1 DEF BInv, DoneSaid
<1> QED BY <1>1, <1>7, <1>8, <1>9, <1>10 DEF BInv

LEMMA ReceiveJoinBInv ==
  ASSUME BInv, NEW n \in Large, NEW f \in cAir, C!ReceiveJoin(n, f)
  PROVE  BInv'
<1>1. CInv'
  BY ReceiveJoinCInv DEF BInv
<1>2. /\ n \notin C!Joined /\ n \notin head /\ cParent[n] = Null /\ Null \notin Large
  BY DEF BInv, CInv, C!ReceiveJoin, C!Unclustered, C!Joined, Alone, C!ClusteringAssumption
<1>3. f.type = "join" /\ f.from \in C!Joined \ {n} /\ f.from \in Large /\ f.to = n
  BY DEF BInv, CInv, JoinsTrue, C!ReceiveJoin, C!Joined
<1>4. f.from \in C!InRange(n)
  <2>1. <<f.from, n>> \in clusterLink
    BY <1>3 DEF BInv, JoinsReach, C!InRange
  <2>2. <<n, f.from>> \in clusterLink
    <3> DEFINE e == <<f.from, n>>
    <3>1. <<e[2], e[1]>> \in clusterLink
      BY <2>1 DEF BInv, TwoWay
    <3> QED BY <3>1
  <2> QED BY <1>3, <2>2 DEF C!InRange
<1>5. /\ \A x \in Large \ {n} : /\ sid'[x] = sid[x] /\ cParent'[x] = cParent[x]
                                /\ timer'[x] = timer[x]
      /\ sid'[n] = f.sid /\ cParent'[n] = f.from
      /\ UNCHANGED <<head, prompt, members, formed, anyJoined>>
  BY DEF C!ReceiveJoin, BInv, CInv, C!TypeOK
<1>6. f.sid \in Large
  BY <1>3, FrameFields DEF BInv, CInv, C!TypeOK
<1>7. C!Joined' = C!Joined \cup {n}
  BY <1>2, <1>5, <1>6 DEF C!Joined
<1>8. /\ cAir' = (cAir \ {f}) \cup C!Accept(n, f.from, n) \cup C!Join(n, f.sid, C!HopsOver(f))
      /\ \A g \in C!Accept(n, f.from, n) :
           g.type = "accept" /\ g.from = n /\ g.to = f.from /\ g.node = n
      /\ \A g \in C!Join(n, f.sid, C!HopsOver(f)) :
           g.type = "join" /\ g.from = n /\ g.to \in C!InRange(n)
  BY DEF C!ReceiveJoin, C!Accept, C!Join
<1>9. \A x \in Large : C!Under(x) \subseteq C!Under(x)'
  <2>1. \A m \in Large : cParent[m] # Null => cParent'[m] = cParent[m]
    BY <1>2, <1>5
  <2> QED BY <2>1, BranchesGrow DEF BInv, CInv
<1>10. Alone' /\ JoinsReach'
  BY <1>2, <1>5, <1>6, <1>8 DEF BInv, Alone, JoinsReach, C!InRange
<1>11. n \in C!Under(f.from)'
  BY <1>3, <1>5 DEF C!Under, C!TakesIn
<1>12. AcceptsTrue' /\ MembersTrue'
  <2>1. C!Joined \subseteq Large
    BY DEF C!Joined
  <2> QED BY <2>1, <1>3, <1>5, <1>7, <1>8, <1>9, <1>11 DEF BInv, AcceptsTrue, MembersTrue
<1>13. AllReported'
  <2> SUFFICES ASSUME NEW x \in C!Joined' \ head PROVE Reported(x)'
    BY <1>5 DEF AllReported
  <2>1. CASE x = n
    <3> DEFINE g == [type |-> "accept", to |-> f.from, from |-> n, node |-> n]
    <3>1. g \in C!Accept(n, f.from, n)
      BY <1>4 DEF C!Accept
    <3>2. g \in cAir' /\ g.type = "accept" /\ g.from = n /\ g.to = f.from
      BY <3>1, <1>8
    <3> QED BY <2>1, <3>2, <1>5 DEF Reported
  <2>2. CASE x # n
    <3>1. x \in C!Joined \ head /\ x \in Large \ {n}
      BY <2>2, <1>7 DEF C!Joined
    <3>2. Reported(x)
      BY <3>1 DEF BInv, AllReported
    <3> QED BY <3>1, <3>2, <1>3, <1>5, <1>8 DEF Reported
  <2> QED BY <2>1, <2>2
<1>14. DoneSaid'
  <2>1. ASSUME NEW x, Done(x) PROVE Done(x)'
    <3>1. x # n /\ x \in Large /\ x # f.from
      BY <2>1, <1>2, <1>3 DEF Done, C!Joined
    <3>2. Childless(x)'
      BY <2>1, <3>1, <1>5 DEF Done, Childless
    <3> QED BY <2>1, <3>1, <3>2, <1>7, <1>8 DEF Done
  <2> QED BY <1>5, <1>8, <2>1 DEF BInv, DoneSaid
<1> QED BY <1>1, <1>10, <1>12, <1>13, <1>14 DEF BInv

LEMMA StepCInv == CInv /\ [C!Next]_cVars => CInv'
<1> SUFFICES ASSUME CInv, [C!Next]_cVars PROVE CInv'
  OBVIOUS
<1>1. ASSUME NEW n \in Large, C!Enable(n) PROVE CInv'
  BY <1>1, EnableCInv
<1>2. ASSUME NEW n \in Large, C!TimerExpired(n) PROVE CInv'
  BY <1>2, TimerExpiredCInv
<1>3. ASSUME NEW n \in Large, NEW f \in cAir, C!Receive(n, f) PROVE CInv'
  BY <1>3, ReceiveJoinCInv, IgnoreCInv, ReceiveAcceptCInv, ReceiveResumeCInv DEF C!Receive
<1>4. CASE UNCHANGED cVars
  <2>1. C!TypeOK'
    BY <1>4 DEF CInv, C!TypeOK, cVars
  <2> QED BY <1>4, <2>1, TreeStays DEF cVars
<1> QED BY <1>1, <1>2, <1>3, <1>4 DEF C!Next, C!Arriving

LEMMA StepBInv == BInv /\ [C!Next]_cVars => BInv'
<1> SUFFICES ASSUME BInv, [C!Next]_cVars PROVE BInv'
  OBVIOUS
<1>1. ASSUME NEW n \in Large, C!Enable(n) PROVE BInv'
  BY <1>1, EnableBInv
<1>2. ASSUME NEW n \in Large, C!TimerExpired(n) PROVE BInv'
  BY <1>2, TimerExpiredBInv
<1>3. ASSUME NEW n \in Large, NEW f \in cAir, C!Receive(n, f) PROVE BInv'
  <2>1. CASE C!ReceiveJoin(n, f)
    BY <2>1, ReceiveJoinBInv
  <2>2. CASE C!Ignore(n, f)
    BY <2>2, IgnoreBInv
  <2>3. CASE C!ReceiveAccept(n, f)
    BY <2>3, ReceiveAcceptBInv
  <2>4. CASE C!ReceiveResume(n, f)
    BY <2>4, ReceiveResumeBInv
  <2> QED BY <1>3, <2>1, <2>2, <2>3, <2>4 DEF C!Receive
<1>4. CASE UNCHANGED cVars
  <2>1. CInv'
    BY <1>4, StepCInv DEF BInv
  <2>2. UNCHANGED <<head, prompt, sid, cParent, timer, anyJoined, members, formed, cAir>>
    BY <1>4 DEF cVars
  <2>3. \A m : Done(m) => Done(m)'
    BY <2>2, DoneStays
  <2> QED BY <2>1, <2>2, <2>3, TreeSame DEF BInv, Alone, JoinsReach, AcceptsTrue, MembersTrue,
            AllReported, Reported, DoneSaid, C!InRange
<1> QED BY <1>1, <1>2, <1>3, <1>4 DEF C!Next, C!Arriving

------------------------------------------------------------------------------
(***************************************************************************)
(* Depth first search.  Messages on their way are a bag.                   *)
(***************************************************************************)
SBag(G) == G \in [DOMAIN G -> Nat \ {0}]

More(G, X, G1) ==
  /\ SBag(G1) /\ DOMAIN G1 = DOMAIN G \cup X
  /\ \A f \in DOMAIN G : G1[f] = IF f \in X THEN G[f] + 1 ELSE G[f]
  /\ \A f \in X \ DOMAIN G : G1[f] = 1

LEMMA Sent ==
  ASSUME NEW G, SBag(G), NEW X
  PROVE  More(G, X, S!Sending(G, X))
BY DEF More, SBag, S!Sending, S!(+), S!SetToBag

LEMMA Took ==
  ASSUME SBag(sAir), NEW f \in DOMAIN sAir
  PROVE  /\ SBag(S!Taken(f))
         /\ DOMAIN S!Taken(f) = DOMAIN sAir \ (IF sAir[f] = 1 THEN {f} ELSE {})
         /\ \A x1 \in DOMAIN S!Taken(f) : S!Taken(f)[x1] = IF x1 = f THEN sAir[x1] - 1 ELSE sAir[x1]
BY DEF SBag, S!Taken, S!(-), S!SetToBag

LEMMA Appended ==
  ASSUME NEW X, NEW s \in Seq(X), NEW e \in X
  PROVE  /\ Append(s, e) \in Seq(X) /\ S!ToSet(Append(s, e)) = S!ToSet(s) \cup {e}
         /\ Distinct(s) /\ e \notin S!ToSet(s) => Distinct(Append(s, e))
<1>1. DOMAIN Append(s, e) = DOMAIN s \cup {Len(s) + 1} /\ Len(s) + 1 \notin DOMAIN s
  OBVIOUS
<1>2. \A j \in DOMAIN s : Append(s, e)[j] = s[j]
  OBVIOUS
<1>3. Append(s, e)[Len(s) + 1] = e
  OBVIOUS
<1>4. Append(s, e) \in Seq(X)
  OBVIOUS
<1> QED BY <1>1, <1>2, <1>3, <1>4 DEF S!ToSet, Distinct

LEMMA Fronted ==
  ASSUME NEW X, NEW s \in Seq(X), s # <<>>
  PROVE  /\ S!Front(s) \in Seq(X) /\ S!Last(s) \in X
         /\ S!ToSet(s) = S!ToSet(S!Front(s)) \cup {S!Last(s)}
         /\ Distinct(s) => Distinct(S!Front(s)) /\ S!Last(s) \notin S!ToSet(S!Front(s))
<1> DEFINE f == S!Front(s)
<1>1. f \in Seq(X) /\ DOMAIN f = 1..Len(s) - 1 /\ \A j \in DOMAIN f : f[j] = s[j]
  BY DEF S!Front
<1>2. Len(s) \in Nat \ {0} /\ DOMAIN s = 1..Len(s) /\ S!Last(s) = s[Len(s)] /\ S!Last(s) \in X
  BY DEF S!Last
<1>3. DOMAIN s = DOMAIN f \cup {Len(s)} /\ Len(s) \notin DOMAIN f
  BY <1>1, <1>2
<1> HIDE DEF f
<1>4. S!ToSet(s) = S!ToSet(f) \cup {S!Last(s)}
  BY <1>1, <1>2, <1>3 DEF S!ToSet
<1>5. Distinct(s) => Distinct(f) /\ S!Last(s) \notin S!ToSet(f)
  BY <1>1, <1>2, <1>3 DEF S!ToSet, Distinct
<1> QED BY <1>1, <1>2, <1>4, <1>5 DEF f

LEMMA Erased ==
  ASSUME NEW X, NEW s \in Seq(X), NEW y1, Distinct(s)
  PROVE  /\ S!Without(s, y1) \in Seq(X) /\ Distinct(S!Without(s, y1))
         /\ S!ToSet(S!Without(s, y1)) = S!ToSet(s) \ {y1}
<1>1. CASE y1 \notin S!ToSet(s)
  BY <1>1 DEF S!Without
<1>2. CASE y1 \in S!ToSet(s)
  <2> DEFINE p == S!ErasePosition(s, y1)
             r == S!Without(s, y1)
  <2>1. p \in DOMAIN s /\ s[p] = y1
    BY <1>2 DEF S!ErasePosition, S!ToSet, Distinct
  <2>2. r = SubSeq(s, 1, p - 1) \o SubSeq(s, p + 1, Len(s))
    BY <1>2 DEF S!Without, S!RemoveAt
  <2> HIDE DEF p, r
  <2>3. p \in 1..Len(s) /\ Len(s) \in Nat
    BY <2>1
  <2> DEFINE u == SubSeq(s, 1, p - 1)
             v == SubSeq(s, p + 1, Len(s))
  <2>31. u \in Seq(X) /\ Len(u) = p - 1 /\ \A j \in 1..p - 1 : u[j] = s[j]
    BY <2>3
  <2>32. v \in Seq(X) /\ Len(v) = Len(s) - p /\ \A j \in 1..Len(s) - p : v[j] = s[p + j]
    <3>1. CASE p = Len(s)
      BY <3>1, <2>3
    <3>2. CASE p < Len(s)
      BY <3>2, <2>3
    <3> QED BY <3>1, <3>2, <2>3
  <2>33. r = u \o v
    BY <2>2
  <2> HIDE DEF u, v
  <2>4. r \in Seq(X) /\ Len(r) = Len(s) - 1
    BY <2>31, <2>32, <2>33, <2>3
  <2>5. ASSUME NEW j \in 1..Len(s) - 1 PROVE r[j] = IF j < p THEN s[j] ELSE s[j + 1]
    <3>1. CASE j < p
      BY <3>1, <2>31, <2>32, <2>33, <2>3
    <3>2. CASE j >= p
      <4>1. r[j] = v[j - (p - 1)]
        BY <3>2, <2>31, <2>32, <2>33, <2>3
      <4> QED BY <4>1, <3>2, <2>32, <2>3
    <3> QED BY <3>1, <3>2, <2>3
  <2>6. DOMAIN r = 1..Len(s) - 1
    BY <2>4
  <2>7. Distinct(r)
    BY <2>3, <2>5, <2>6 DEF Distinct
  <2>8. ASSUME NEW j \in DOMAIN r PROVE r[j] \in S!ToSet(s) /\ r[j] # y1
    BY <2>1, <2>3, <2>5, <2>6 DEF S!ToSet, Distinct
  <2>9. ASSUME NEW j \in DOMAIN s, s[j] # y1 PROVE s[j] \in S!ToSet(r)
    <3>1. CASE j < p
      <4>1. j \in DOMAIN r /\ r[j] = s[j]
        BY <3>1, <2>3, <2>5, <2>6
      <4> QED BY <4>1 DEF S!ToSet
    <3>2. CASE j > p
      <4>1. j - 1 \in DOMAIN r /\ r[j - 1] = s[j]
        BY <3>2, <2>3, <2>5, <2>6
      <4> QED BY <4>1 DEF S!ToSet
    <3> QED BY <3>1, <3>2, <2>1, <2>3, <2>9
  <2> QED BY <2>4, <2>7, <2>8, <2>9 DEF S!ToSet, r
<1> QED BY <1>1, <1>2

LEMMA LengthOfDistinct ==
  ASSUME NEW X, NEW s \in Seq(X), Distinct(s)
  PROVE  Len(s) = S!Cardinality(S!ToSet(s))
<1>1. s \in Bijection(1..Len(s), S!ToSet(s))
  BY DEF Bijection, Injection, Surjection, IsInjective, Distinct, S!ToSet
<1> QED BY <1>1, FS_CountingElements, SameSizeSearch DEF ExistsBijection

SFrameOK(f) ==
  /\ f \in S!Frame /\ f.to \in S!NeighboursOf(f.from)
  /\ f.type = "neighbourhood" => f.from \in announced /\ f.from \notin S!ToSet(neighbours[f.to])
  /\ f.type \in {"return", "ack"} => sParent[f.to] # Null
  /\ f.type \in {"discover", "visited"} => sParent[f.from] # Null

SNodeOK(n) ==
  /\ sParent[n] \in S!NeighboursOf(n) \cup {Null, n}
  /\ sParent[n] # Null => sParent[sParent[n]] # Null
  /\ S!ToSet(sChildren[n]) \subseteq S!NeighboursOf(n)
  /\ S!ToSet(neighbours[n]) \subseteq S!NeighboursOf(n) \cap announced
  /\ S!ToSet(unvisited[n]) \subseteq S!ToSet(neighbours[n])
  /\ Distinct(neighbours[n]) /\ Distinct(unvisited[n])
  /\ flagged[n] \subseteq S!NeighboursOf(n)

SShape ==
  /\ S!DdfsAssumption /\ sLink \in depthNetworks /\ announced \subseteq Large
  /\ begun \in BOOLEAN
  /\ sParent \in [Large -> Large \cup {Null}] /\ flagged \in [Large -> SUBSET Large]
  /\ sChildren \in [Large -> Seq(Large)] /\ neighbours \in [Large -> Seq(Large)]
  /\ unvisited \in [Large -> Seq(Large)]
  /\ discovered \in [Large -> Nat] /\ sFinished \in Nat
  /\ SBag(sAir) /\ \A f \in DOMAIN sAir : f.type = "neighbourhood" => sAir[f] = 1

SInv == /\ SShape
        /\ \A f \in DOMAIN sAir : SFrameOK(f)
        /\ \A n \in Large : SNodeOK(n)

LEMMA SFacts ==
  ASSUME SShape
  PROVE  /\ Null \notin Large /\ searchRoot \in Large
         /\ \A n, m \in Large : m \in S!NeighboursOf(n) <=> n \in S!NeighboursOf(m)
         /\ \A n \in Large : n \notin S!NeighboursOf(n) /\ S!NeighboursOf(n) \subseteq Large
BY DEF SShape, S!DdfsAssumption, S!NeighboursOf

LEMMA InitSInv == S!DdfsAssumption /\ S!Init => SInv
<1> SUFFICES ASSUME S!DdfsAssumption, S!Init PROVE SInv
  OBVIOUS
<1>1. \A n \in Large : /\ sChildren[n] = <<>> /\ neighbours[n] = <<>> /\ unvisited[n] = <<>>
                       /\ sParent[n] = Null /\ flagged[n] = {}
  BY DEF S!Init
<1>2. DOMAIN sAir = {} /\ SBag(sAir)
  BY DEF S!Init, SBag, S!EmptyBag, S!SetToBag
<1>3. S!ToSet(<<>>) = {} /\ Distinct(<<>>)
  BY DEF S!ToSet, Distinct
<1>4. SShape
  <2>1. <<>> \in Seq(Large)
    OBVIOUS
  <2> QED BY <1>2, <2>1 DEF SShape, S!Init
<1> QED BY <1>1, <1>2, <1>3, <1>4 DEF SInv, SNodeOK

LEMMA Frames ==
  ASSUME NEW k, NEW n, NEW X, NEW f
  PROVE  f \in S!Message(k, n, X) => f.type = k /\ f.from = n /\ f.to \in X
                                    /\ f = [type |-> k, from |-> n, to |-> f.to]
BY DEF S!Message

LEMMA AnnounceSInv ==
  ASSUME SInv, NEW n \in Large, S!Announce(n)
  PROVE  SInv'
<1> DEFINE X == S!Message("neighbourhood", n, S!NeighboursOf(n))
<1>1. /\ announced' = announced \cup {n} /\ n \notin announced /\ sAir' = S!Sending(sAir, X)
      /\ UNCHANGED <<sLink, begun, sParent, sChildren, neighbours, unvisited, flagged, discovered, sFinished>>
  BY DEF S!Announce
<1>2. \A m : S!NeighboursOf(m)' = S!NeighboursOf(m)
  BY <1>1 DEF S!NeighboursOf
<1>3. SBag(sAir) /\ SShape
  BY DEF SInv, SShape
<1>4. /\ SBag(sAir') /\ DOMAIN sAir' = DOMAIN sAir \cup X
      /\ \A f \in DOMAIN sAir : sAir'[f] = IF f \in X THEN sAir[f] + 1 ELSE sAir[f]
      /\ \A f \in X \ DOMAIN sAir : sAir'[f] = 1
  <2> HIDE DEF X
  <2>1. More(sAir, X, sAir')
    BY <1>1, <1>3, Sent
  <2> QED BY <2>1 DEF More
<1>5. ASSUME NEW f \in X PROVE f \in S!Frame /\ f.type = "neighbourhood" /\ f.from = n /\ f.to \in S!NeighboursOf(n)
  BY <1>3, SFacts DEF S!Message, S!Frame
<1>6. X \cap DOMAIN sAir = {}
  BY <1>1, <1>5 DEF SInv, SFrameOK
<1> HIDE DEF X
<1>7. SShape'
  BY <1>1, <1>3, <1>4, <1>5, <1>6 DEF SShape
<1>8. ASSUME NEW f \in DOMAIN sAir' PROVE SFrameOK(f)'
  <2>1. CASE f \in DOMAIN sAir
    BY <2>1, <1>1, <1>2 DEF SInv, SFrameOK
  <2>2. CASE f \in X
    <3>1. n \notin S!ToSet(neighbours[f.to])
      BY <1>1, <1>5, <2>2, <1>3, SFacts DEF SInv, SNodeOK
    <3> QED BY <3>1, <1>1, <1>2, <1>5, <2>2 DEF SFrameOK
  <2> QED BY <2>1, <2>2, <1>4
<1>9. ASSUME NEW m \in Large PROVE SNodeOK(m)'
  <2>1. SNodeOK(m)
    BY DEF SInv
  <2> QED BY <2>1, <1>1, <1>2 DEF SNodeOK, Distinct
<1> QED BY <1>7, <1>8, <1>9 DEF SInv

LEMMA ReceiveNeighbourhoodSInv ==
  ASSUME SInv, NEW f \in DOMAIN sAir, S!ReceiveNeighbourhood(f.to, f)
  PROVE  SInv'
<1> DEFINE n == f.to
           m == f.from
<1>0. /\ SShape /\ SFrameOK(f) /\ SBag(sAir) /\ f.type = "neighbourhood" /\ sAir[f] = 1
      /\ n \in Large /\ m \in Large /\ SNodeOK(n)
  BY DEF SInv, SShape, SFrameOK, S!Frame, S!ReceiveNeighbourhood
<1>1. /\ neighbours' = [neighbours EXCEPT ![n] = Append(@, m)]
      /\ unvisited' = [unvisited EXCEPT ![n] = Append(@, m)]
      /\ sAir' = S!Taken(f)
      /\ UNCHANGED <<sLink, announced, begun, sParent, sChildren, flagged, discovered, sFinished>>
  BY DEF S!ReceiveNeighbourhood
<1>2. \A k : S!NeighboursOf(k)' = S!NeighboursOf(k)
  BY <1>1 DEF S!NeighboursOf
<1>3. /\ SBag(sAir') /\ DOMAIN sAir' = DOMAIN sAir \ {f}
      /\ \A x1 \in DOMAIN sAir' : sAir'[x1] = sAir[x1]
  BY <1>0, <1>1, Took
<1> HIDE DEF n, m
<1>4. /\ neighbours[n] \in Seq(Large) /\ unvisited[n] \in Seq(Large)
      /\ m \notin S!ToSet(neighbours[n]) /\ m \notin S!ToSet(unvisited[n])
      /\ m \in S!NeighboursOf(n) /\ m \in announced /\ Distinct(neighbours[n]) /\ Distinct(unvisited[n])
  BY <1>0, SFacts DEF SShape, SFrameOK, SNodeOK, n, m
<1>5. /\ neighbours'[n] \in Seq(Large) /\ S!ToSet(neighbours'[n]) = S!ToSet(neighbours[n]) \cup {m}
      /\ unvisited'[n] \in Seq(Large) /\ S!ToSet(unvisited'[n]) = S!ToSet(unvisited[n]) \cup {m}
      /\ Distinct(neighbours'[n]) /\ Distinct(unvisited'[n])
  BY <1>0, <1>1, <1>4, Appended DEF SShape
<1>6. \A k \in Large \ {n} : neighbours'[k] = neighbours[k] /\ unvisited'[k] = unvisited[k]
  BY <1>1, <1>0 DEF SShape
<1>7. SShape'
  BY <1>1, <1>3, <1>5, <1>6, <1>0 DEF SShape
<1>8. ASSUME NEW x1 \in DOMAIN sAir' PROVE SFrameOK(x1)'
  <2>1. SFrameOK(x1) /\ x1 # f /\ x1 \in S!Frame
    BY <1>3 DEF SInv, SFrameOK
  <2>2. x1.to = n /\ x1.from = m => x1.type # "neighbourhood"
    BY <2>1, <1>0 DEF SFrameOK, S!Frame, n, m
  <2>3. x1.to \in Large
    BY <2>1 DEF S!Frame
  <2>4. x1.type = "neighbourhood" => x1.from \notin S!ToSet(neighbours'[x1.to])
    BY <2>1, <2>2, <2>3, <1>5, <1>6 DEF SFrameOK
  <2> QED BY <2>1, <2>4, <1>1, <1>2 DEF SFrameOK, S!ToSet
<1>9. ASSUME NEW k \in Large PROVE SNodeOK(k)'
  <2>1. SNodeOK(k)
    BY DEF SInv
  <2>2. CASE k = n
    BY <2>1, <2>2, <1>1, <1>2, <1>4, <1>5 DEF SNodeOK
  <2>3. CASE k # n
    BY <2>1, <2>3, <1>1, <1>2, <1>6 DEF SNodeOK
  <2> QED BY <2>2, <2>3
<1> QED BY <1>7, <1>8, <1>9 DEF SInv

\* The bag `rest' is what was on its way, or has one message less.
Rest(rest) ==
  /\ SBag(rest) /\ DOMAIN rest \subseteq DOMAIN sAir
  /\ \A f \in DOMAIN rest : f.type = "neighbourhood" => rest[f] = 1

LEMMA RestIsRest ==
  ASSUME SInv
  PROVE  Rest(sAir) /\ \A f \in DOMAIN sAir : Rest(S!Taken(f))
<1>1. SBag(sAir) /\ \A f \in DOMAIN sAir : f.type = "neighbourhood" => sAir[f] = 1
  BY DEF SInv, SShape
<1>2. ASSUME NEW f \in DOMAIN sAir PROVE Rest(S!Taken(f))
  <2>1. /\ SBag(S!Taken(f))
        /\ DOMAIN S!Taken(f) = DOMAIN sAir \ (IF sAir[f] = 1 THEN {f} ELSE {})
        /\ \A x1 \in DOMAIN S!Taken(f) : S!Taken(f)[x1] = IF x1 = f THEN sAir[x1] - 1 ELSE sAir[x1]
    BY <1>1, Took
  <2>2. ASSUME NEW x1 \in DOMAIN S!Taken(f), x1.type = "neighbourhood" PROVE S!Taken(f)[x1] = 1
    BY <2>1, <2>2, <1>1
  <2> QED BY <2>1, <2>2 DEF Rest
<1> QED BY <1>1, <1>2 DEF Rest

LEMMA DiscoverSInv ==
  ASSUME SInv, NEW n \in Large, NEW from \in Large, NEW rest, Rest(rest),
         from # n => from \in S!NeighboursOf(n) /\ sParent[from] # Null,
         begun' \in BOOLEAN, S!Discover(n, from, rest)
  PROVE  SInv'
<1> DEFINE X == S!Message("visited", n, S!ToSet(neighbours[n]))
                \cup IF S!OnlyNeighbour(n, from) THEN S!Message("return", n, {from}) ELSE {}
<1>1. /\ sParent' = [sParent EXCEPT ![n] = from]
      /\ flagged' = [flagged EXCEPT ![n] = S!ToSet(neighbours[n])]
      /\ discovered' = [discovered EXCEPT ![n] = @ + 1] /\ sAir' = S!Sending(rest, X)
      /\ UNCHANGED <<sLink, announced, sChildren, neighbours, unvisited, sFinished>>
  BY DEF S!Discover, S!WaitsFor
<1>2. \A k : S!NeighboursOf(k)' = S!NeighboursOf(k)
  BY <1>1 DEF S!NeighboursOf
<1>3. SShape /\ SNodeOK(n)
  BY DEF SInv
<1>4. S!OnlyNeighbour(n, from) => from # n
  <2>1. S!OnlyNeighbour(n, from) => from \in S!ToSet(neighbours[n])
    BY DEF S!OnlyNeighbour, S!ToSet
  <2> QED BY <2>1, <1>3, SFacts DEF SNodeOK
<1>5. ASSUME NEW f \in X
      PROVE  /\ f \in S!Frame /\ f.from = n /\ f.to \in S!NeighboursOf(n)
             /\ f.type \in {"visited", "return"} /\ (f.type = "return" => f.to = from)
  <2>1. S!ToSet(neighbours[n]) \subseteq S!NeighboursOf(n) /\ S!NeighboursOf(n) \subseteq Large
    BY <1>3, SFacts DEF SNodeOK
  <2> QED BY <2>1, <1>4 DEF S!Message, S!Frame
<1> HIDE DEF X
<1>6. /\ SBag(sAir') /\ DOMAIN sAir' = DOMAIN rest \cup X
      /\ \A f \in DOMAIN sAir' : f.type = "neighbourhood" => sAir'[f] = 1
  <2>1. \A f \in X : f.type # "neighbourhood"
    BY <1>5
  <2>2. More(rest, X, sAir')
    BY <1>1, Sent DEF Rest
  <2> QED BY <2>1, <2>2 DEF Rest, More
<1>7. \A k \in Large : sParent[k] # Null => sParent'[k] # Null
  BY <1>1, <1>3, SFacts DEF SShape
<1>8. sParent'[n] # Null /\ sParent'[from] # Null
  BY <1>1, <1>3, <1>7, SFacts DEF SShape
<1>9. S!ToSet(neighbours[n]) \subseteq S!NeighboursOf(n) /\ S!NeighboursOf(n) \subseteq Large
  BY <1>3, SFacts DEF SNodeOK
<1>10. SShape'
  BY <1>1, <1>3, <1>6, <1>9 DEF SShape
<1>11. ASSUME NEW f \in DOMAIN sAir' PROVE SFrameOK(f)'
  <2>1. CASE f \in X
    BY <2>1, <1>5, <1>8, <1>2 DEF SFrameOK
  <2>2. CASE f \in DOMAIN rest
    <3>1. SFrameOK(f) /\ f \in S!Frame
      BY <2>2 DEF SInv, SFrameOK, Rest
    <3>2. f.to \in Large /\ f.from \in Large
      BY <3>1 DEF S!Frame
    <3> QED BY <3>1, <3>2, <1>1, <1>2, <1>7 DEF SFrameOK
  <2> QED BY <2>1, <2>2, <1>6
<1>12. ASSUME NEW k \in Large PROVE SNodeOK(k)'
  <2>1. SNodeOK(k)
    BY DEF SInv
  <2>2. CASE k = n
    BY <2>1, <2>2, <1>1, <1>2, <1>3, <1>8, <1>9 DEF SNodeOK, SShape
  <2>3. CASE k # n
    <3>1. sParent'[k] = sParent[k] /\ flagged'[k] = flagged[k]
      BY <2>3, <1>1, <1>3 DEF SShape
    <3>2. sParent[k] # Null => sParent'[sParent[k]] # Null
      BY <2>1, <1>7, <1>3 DEF SNodeOK, SShape
    <3> QED BY <2>1, <3>1, <3>2, <1>1, <1>2 DEF SNodeOK
  <2> QED BY <2>2, <2>3
<1> QED BY <1>10, <1>11, <1>12 DEF SInv

LEMMA ResumeSInv ==
  ASSUME SInv, NEW n \in Large, NEW rest, Rest(rest), sParent[n] # Null,
         sChildren' \in [Large -> Seq(Large)],
         \A k \in Large : S!ToSet(sChildren'[k]) \subseteq S!NeighboursOf(k),
         flagged' \in [Large -> SUBSET Large], \A k \in Large : flagged'[k] \subseteq flagged[k],
         S!Resume(n, rest),
         UNCHANGED <<sLink, announced, begun, sParent, neighbours, discovered>>
  PROVE  SInv'
<1>1. \A k : S!NeighboursOf(k)' = S!NeighboursOf(k)
  BY DEF S!NeighboursOf
<1>2. SShape /\ SNodeOK(n) /\ unvisited[n] \in Seq(Large)
  BY DEF SInv, SShape
<1>3. /\ unvisited' \in [Large -> Seq(Large)] /\ sFinished' \in Nat
      /\ \A k \in Large : S!ToSet(unvisited'[k]) \subseteq S!ToSet(unvisited[k])
      /\ \A k \in Large : Distinct(unvisited[k]) => Distinct(unvisited'[k])
      /\ \E X : /\ sAir' = S!Sending(rest, X)
               /\ \A f \in X : /\ f \in S!Frame /\ f.from = n /\ f.to \in S!NeighboursOf(n)
                              /\ f.type \in {"discover", "return"} /\ (f.type = "return" => f.to = sParent[n])
  <2>1. CASE unvisited[n] # <<>>
    <3>1. /\ S!Front(unvisited[n]) \in Seq(Large) /\ S!Last(unvisited[n]) \in Large
          /\ S!ToSet(unvisited[n]) = S!ToSet(S!Front(unvisited[n])) \cup {S!Last(unvisited[n])}
          /\ Distinct(unvisited[n]) => Distinct(S!Front(unvisited[n]))
      BY <1>2, <2>1, Fronted
    <3>2. S!Last(unvisited[n]) \in S!NeighboursOf(n)
      BY <3>1, <1>2 DEF SNodeOK
    <3> DEFINE X == S!Message("discover", n, {S!Last(unvisited[n])})
    <3>3. /\ sAir' = S!Sending(rest, X) /\ unvisited' = [unvisited EXCEPT ![n] = S!Front(@)]
          /\ sFinished' = sFinished
      BY <2>1 DEF S!Resume
    <3>4. \A f \in X : /\ f \in S!Frame /\ f.from = n /\ f.to \in S!NeighboursOf(n)
                       /\ f.type = "discover"
      BY <3>1, <3>2 DEF S!Message, S!Frame
    <3>5. /\ unvisited' \in [Large -> Seq(Large)] /\ sFinished' \in Nat
          /\ unvisited'[n] = S!Front(unvisited[n])
          /\ \A k \in Large \ {n} : unvisited'[k] = unvisited[k]
      BY <3>1, <3>3, <1>2 DEF SShape
    <3> HIDE DEF X
    <3> QED BY <3>1, <3>3, <3>4, <3>5
  <2>2. CASE unvisited[n] = <<>>
    <3> DEFINE X == S!Message("return", n, {sParent[n]} \ {n})
    <3>1. sAir' = S!Sending(rest, X) /\ unvisited' = unvisited /\ sFinished' \in Nat
      BY <2>2, <1>2 DEF S!Resume, SShape
    <3>2. sParent[n] # n => sParent[n] \in S!NeighboursOf(n) /\ sParent[n] \in Large
      BY <1>2, SFacts DEF SNodeOK
    <3>3. \A f \in X : /\ f \in S!Frame /\ f.from = n /\ f.to \in S!NeighboursOf(n)
                       /\ f.type = "return" /\ f.to = sParent[n]
      BY <3>2 DEF S!Message, S!Frame
    <3> HIDE DEF X
    <3> QED BY <3>1, <3>3, <1>2 DEF SShape
  <2> QED BY <2>1, <2>2
<1>4. PICK X : /\ sAir' = S!Sending(rest, X)
               /\ \A f \in X : /\ f \in S!Frame /\ f.from = n /\ f.to \in S!NeighboursOf(n)
                              /\ f.type \in {"discover", "return"} /\ (f.type = "return" => f.to = sParent[n])
  BY <1>3
<1>5. /\ SBag(sAir') /\ DOMAIN sAir' = DOMAIN rest \cup X
      /\ \A f \in DOMAIN sAir' : f.type = "neighbourhood" => sAir'[f] = 1
  <2>1. More(rest, X, sAir')
    BY <1>4, Sent DEF Rest
  <2> QED BY <1>4, <2>1 DEF Rest, More
<1>6. SShape'
  BY <1>2, <1>3, <1>5 DEF SShape
<1>7. ASSUME NEW f \in DOMAIN sAir' PROVE SFrameOK(f)'
  <2>1. CASE f \in X
    BY <2>1, <1>1, <1>2, <1>4 DEF SFrameOK, SNodeOK
  <2>2. CASE f \in DOMAIN rest
    <3>1. SFrameOK(f)
      BY <2>2 DEF SInv, Rest
    <3> QED BY <3>1, <1>1 DEF SFrameOK
  <2> QED BY <2>1, <2>2, <1>5
<1>8. ASSUME NEW k \in Large PROVE SNodeOK(k)'
  <2>1. SNodeOK(k)
    BY DEF SInv
  <2> QED BY <2>1, <1>1, <1>3 DEF SNodeOK
<1> QED BY <1>6, <1>7, <1>8 DEF SInv

LEMMA ReceiveVisitedSInv ==
  ASSUME SInv, NEW f \in DOMAIN sAir, S!ReceiveVisited(f.to, f)
  PROVE  SInv'
<1> DEFINE n == f.to
           m == f.from
           X == S!Message("ack", n, {m})
<1>0. /\ SShape /\ SFrameOK(f) /\ f.type = "visited" /\ n \in Large /\ m \in Large
      /\ SNodeOK(n) /\ m \in S!NeighboursOf(n) /\ n \in S!NeighboursOf(m)
  BY SFacts DEF SInv, SFrameOK, S!Frame, S!ReceiveVisited
<1>1. /\ unvisited' = [unvisited EXCEPT ![n] = S!Without(@, m)]
      /\ sAir' = S!Sending(S!Taken(f), X)
      /\ UNCHANGED <<sLink, announced, begun, sParent, sChildren, neighbours, flagged,
                     discovered, sFinished>>
  BY DEF S!ReceiveVisited
<1>2. \A k : S!NeighboursOf(k)' = S!NeighboursOf(k)
  BY <1>1 DEF S!NeighboursOf
<1>3. Rest(S!Taken(f))
  BY RestIsRest
<1>4. \A x1 \in X : x1 \in S!Frame /\ x1.type = "ack" /\ x1.from = n /\ x1.to = m
  BY <1>0 DEF S!Message, S!Frame
<1> HIDE DEF X
<1>5. /\ SBag(sAir') /\ DOMAIN sAir' = DOMAIN S!Taken(f) \cup X
      /\ \A x1 \in DOMAIN sAir' : x1.type = "neighbourhood" => sAir'[x1] = 1
  <2>1. More(S!Taken(f), X, sAir')
    BY <1>1, <1>3, Sent DEF Rest
  <2> QED BY <2>1, <1>3, <1>4 DEF Rest, More
<1> HIDE DEF n, m
<1>6. /\ unvisited' \in [Large -> Seq(Large)]
      /\ S!ToSet(unvisited'[n]) \subseteq S!ToSet(unvisited[n]) /\ Distinct(unvisited'[n])
      /\ \A k \in Large \ {n} : unvisited'[k] = unvisited[k]
  <2>1. unvisited[n] \in Seq(Large) /\ Distinct(unvisited[n])
    BY <1>0 DEF SShape, SNodeOK
  <2>2. /\ S!Without(unvisited[n], m) \in Seq(Large) /\ Distinct(S!Without(unvisited[n], m))
        /\ S!ToSet(S!Without(unvisited[n], m)) = S!ToSet(unvisited[n]) \ {m}
    BY <2>1, Erased
  <2> QED BY <2>2, <1>0, <1>1 DEF SShape
<1>7. SShape'
  BY <1>0, <1>1, <1>5, <1>6 DEF SShape
<1>8. ASSUME NEW x1 \in DOMAIN sAir' PROVE SFrameOK(x1)'
  <2>1. CASE x1 \in X
    <3>1. sParent[m] # Null
      BY <1>0 DEF SFrameOK, m
    <3> QED BY <2>1, <3>1, <1>0, <1>1, <1>2, <1>4 DEF SFrameOK
  <2>2. CASE x1 \in DOMAIN S!Taken(f)
    <3>1. SFrameOK(x1)
      BY <2>2, <1>3 DEF SInv, Rest
    <3> QED BY <3>1, <1>1, <1>2 DEF SFrameOK
  <2> QED BY <2>1, <2>2, <1>5
<1>9. ASSUME NEW k \in Large PROVE SNodeOK(k)'
  <2>1. SNodeOK(k)
    BY DEF SInv
  <2>2. CASE k = n
    BY <2>1, <2>2, <1>1, <1>2, <1>6 DEF SNodeOK
  <2>3. CASE k # n
    BY <2>1, <2>3, <1>1, <1>2, <1>6 DEF SNodeOK
  <2> QED BY <2>2, <2>3
<1> QED BY <1>7, <1>8, <1>9 DEF SInv

LEMMA BeginSInv ==
  ASSUME SInv, S!Begin
  PROVE  SInv'
<1>1. searchRoot \in Large /\ Rest(sAir) /\ begun' \in BOOLEAN /\ S!Discover(searchRoot, searchRoot, sAir)
  BY SFacts, RestIsRest DEF S!Begin, SInv
<1> QED BY <1>1, DiscoverSInv

LEMMA ReceiveDiscoverSInv ==
  ASSUME SInv, NEW f \in DOMAIN sAir, S!ReceiveDiscover(f.to, f)
  PROVE  SInv'
<1>1. /\ SShape /\ SFrameOK(f) /\ f.type = "discover" /\ f.to \in Large /\ f.from \in Large
      /\ f.to \in S!NeighboursOf(f.from) /\ begun \in BOOLEAN
  BY DEF SInv, SShape, SFrameOK, S!Frame, S!ReceiveDiscover
<1>2. /\ f.from \in S!NeighboursOf(f.to) /\ sParent[f.from] # Null /\ Rest(S!Taken(f))
      /\ S!Discover(f.to, f.from, S!Taken(f)) /\ begun' = begun
  BY <1>1, SFacts, RestIsRest DEF SFrameOK, S!ReceiveDiscover
<1> QED BY <1>1, <1>2, DiscoverSInv

LEMMA ReceiveReturnSInv ==
  ASSUME SInv, NEW f \in DOMAIN sAir, S!ReceiveReturn(f.to, f)
  PROVE  SInv'
<1> DEFINE n == f.to
           m == f.from
<1>1. /\ SShape /\ SNodeOK(n) /\ n \in Large /\ m \in Large /\ m \in S!NeighboursOf(n)
      /\ sParent[n] # Null
  BY SFacts DEF SInv, SFrameOK, S!Frame, S!ReceiveReturn
<1>2. /\ sChildren' = [sChildren EXCEPT ![n] = Append(@, m)] /\ S!Resume(n, S!Taken(f))
      /\ UNCHANGED <<sLink, announced, begun, sParent, neighbours, flagged, discovered>>
  BY DEF S!ReceiveReturn
<1>3. Rest(S!Taken(f))
  BY RestIsRest
<1> HIDE DEF n, m
<1>4. \A k \in Large : sChildren[k] \in Seq(Large) /\ S!ToSet(sChildren[k]) \subseteq S!NeighboursOf(k)
  BY <1>1 DEF SInv, SShape, SNodeOK
<1>5. sChildren' \in [Large -> Seq(Large)] /\ \A k \in Large : S!ToSet(sChildren'[k]) \subseteq S!NeighboursOf(k)
  <2>1. /\ Append(sChildren[n], m) \in Seq(Large)
        /\ S!ToSet(Append(sChildren[n], m)) = S!ToSet(sChildren[n]) \cup {m}
    BY <1>1, <1>4, Appended
  <2>2. sChildren'[n] = Append(sChildren[n], m) /\ \A k \in Large \ {n} : sChildren'[k] = sChildren[k]
    BY <1>1, <1>2 DEF SShape
  <2>3. sChildren' \in [Large -> Seq(Large)]
    BY <2>1, <1>1, <1>2 DEF SShape
  <2>4. S!ToSet(sChildren'[n]) \subseteq S!NeighboursOf(n)
    BY <2>1, <2>2, <1>1, <1>4
  <2>5. \A k \in Large \ {n} : S!ToSet(sChildren'[k]) \subseteq S!NeighboursOf(k)
    BY <2>2, <1>4
  <2> QED BY <2>3, <2>4, <2>5
<1>6. flagged' \in [Large -> SUBSET Large] /\ \A k \in Large : flagged'[k] \subseteq flagged[k]
  BY <1>1, <1>2 DEF SShape
<1> QED BY <1>1, <1>2, <1>3, <1>5, <1>6, ResumeSInv

LEMMA ReceiveAckSInv ==
  ASSUME SInv, NEW f \in DOMAIN sAir, S!ReceiveAck(f.to, f)
  PROVE  SInv'
<1> DEFINE n == f.to
<1>1. SShape /\ SFrameOK(f) /\ n \in Large /\ sParent[n] # Null
  BY DEF SInv, SFrameOK, S!Frame, S!ReceiveAck
<1>2. /\ flagged' = [flagged EXCEPT ![n] = @ \ {f.from}]
      /\ UNCHANGED <<sLink, announced, begun, sParent, sChildren, neighbours, discovered>>
      /\ IF S!AllAcknowledged(n, f) THEN S!Resume(n, S!Taken(f))
         ELSE sAir' = S!Taken(f) /\ UNCHANGED <<unvisited, sFinished>>
  BY DEF S!ReceiveAck
<1>3. Rest(S!Taken(f))
  BY RestIsRest
<1> HIDE DEF n
<1>4. flagged' \in [Large -> SUBSET Large] /\ \A k \in Large : flagged'[k] \subseteq flagged[k]
  BY <1>1, <1>2 DEF SShape
<1>5. /\ sChildren' \in [Large -> Seq(Large)]
      /\ \A k \in Large : S!ToSet(sChildren'[k]) \subseteq S!NeighboursOf(k)
  BY <1>1, <1>2 DEF SInv, SShape, SNodeOK
<1>6. CASE S!AllAcknowledged(n, f)
  BY <1>1, <1>2, <1>3, <1>4, <1>5, <1>6, ResumeSInv
<1>7. CASE ~S!AllAcknowledged(n, f)
  <2>1. sAir' = S!Taken(f) /\ UNCHANGED <<unvisited, sFinished>>
    BY <1>2, <1>7
  <2>2. \A k : S!NeighboursOf(k)' = S!NeighboursOf(k)
    BY <1>2 DEF S!NeighboursOf
  <2>3. SShape'
    BY <1>1, <1>2, <1>3, <1>4, <2>1 DEF SShape, Rest
  <2>4. \A x1 \in DOMAIN sAir' : SFrameOK(x1)'
    BY <1>2, <1>3, <2>1, <2>2 DEF SInv, SFrameOK, Rest
  <2>5. ASSUME NEW k \in Large PROVE SNodeOK(k)'
    <3>1. SNodeOK(k)
      BY DEF SInv
    <3> QED BY <3>1, <1>2, <1>4, <2>1, <2>2 DEF SNodeOK
  <2> QED BY <2>3, <2>4, <2>5 DEF SInv
<1> QED BY <1>6, <1>7

LEMMA StepSInv == SInv /\ [S!Next]_sVars => SInv'
<1> SUFFICES ASSUME SInv, [S!Next]_sVars PROVE SInv'
  OBVIOUS
<1>1. ASSUME NEW n \in Large, S!Announce(n) PROVE SInv'
  BY <1>1, AnnounceSInv
<1>2. CASE S!Begin
  BY <1>2, BeginSInv
<1>3. ASSUME NEW f \in DOMAIN sAir, S!Receive(f.to, f) PROVE SInv'
  BY <1>3, ReceiveNeighbourhoodSInv, ReceiveDiscoverSInv, ReceiveReturnSInv, ReceiveVisitedSInv,
     ReceiveAckSInv DEF S!Receive
<1>4. CASE UNCHANGED sVars
  <2>1. UNCHANGED <<sLink, announced, begun, sParent, sChildren, neighbours, unvisited, flagged,
                    sAir, discovered, sFinished>>
    BY <1>4 DEF sVars
  <2>2. \A k : S!NeighboursOf(k)' = S!NeighboursOf(k)
    BY <2>1 DEF S!NeighboursOf
  <2>3. SShape'
    BY <2>1 DEF SInv, SShape
  <2>4. \A k \in Large : SNodeOK(k)'
    BY <2>1, <2>2 DEF SInv, SNodeOK
  <2>5. \A f \in DOMAIN sAir' : SFrameOK(f)'
    BY <2>1, <2>2 DEF SInv, SFrameOK
  <2> QED BY <2>3, <2>4, <2>5 DEF SInv
<1> QED BY <1>1, <1>2, <1>3, <1>4 DEF S!Next, S!BagToSet

LEMMA SInvTypes == SInv => S!TypeOK
<1> SUFFICES ASSUME SInv PROVE S!TypeOK
  OBVIOUS
<1>1. SShape
  BY DEF SInv
<1>2. S!BagToSet(sAir) \subseteq S!Frame
  BY DEF SInv, SFrameOK, S!BagToSet
<1>3. ASSUME NEW n \in Large
      PROVE  /\ sParent[n] \in S!NeighboursOf(n) \cup {Null, n}
             /\ \A s \in {sChildren[n], neighbours[n], unvisited[n]} : S!ToSet(s) \subseteq S!NeighboursOf(n)
             /\ Len(neighbours[n]) = S!Cardinality(S!ToSet(neighbours[n]))
             /\ flagged[n] \subseteq S!NeighboursOf(n)
  <2>1. SNodeOK(n)
    BY DEF SInv
  <2>2. Len(neighbours[n]) = S!Cardinality(S!ToSet(neighbours[n]))
    BY <2>1, <1>1, LengthOfDistinct DEF SNodeOK, SShape
  <2> QED BY <2>1, <2>2 DEF SNodeOK
<1> QED BY <1>1, <1>2, <1>3 DEF S!TypeOK, SShape

------------------------------------------------------------------------------
(***************************************************************************)
(* Where a depth first search is.  Up(P, n): n and its ancestors, P the    *)
(* parents.                                                                *)
(***************************************************************************)
Climbs(P, X) == \A n \in X : P[n] \in X \cup {Null}

Up(P, n) == {m \in Large : \A X \in SUBSET Large : n \in X /\ Climbs(P, X) => m \in X}

Fr(t, n, m) == [type |-> t, from |-> n, to |-> m]

Disc(P) == {n \in Large : P[n] # Null}

\* What has been discovered, when the search is at h.
Grown(P, h) ==
  /\ h \in Disc(P) /\ P[searchRoot] = searchRoot
  /\ \A n \in Disc(P) : P[n] \in Disc(P) /\ searchRoot \in Up(P, n)
  /\ \A n \in Disc(P) \ {searchRoot} : n \notin Up(P, P[n])

Joined(P, h) ==
  /\ \A n \in Disc(P) : n \in Up(P, h) \/ S!NeighboursOf(n) \subseteq Disc(P)
  /\ \A n, m \in Disc(P) : m \in S!NeighboursOf(n) => m \in Up(P, n) \/ n \in Up(P, m)

\* The children, those of `back' still to come.
Fathered(P, h, c1, back) ==
  /\ \A n \in Large : Distinct(c1[n])
  /\ \A n \in Large : \A m \in S!ToSet(c1[n]) : P[m] = n /\ m # n /\ m \notin Up(P, h)
  /\ \A m \in Disc(P) : P[m] # m => m \in S!ToSet(c1[P[m]]) \/ m \in Up(P, h) \/ m \in back

SBefore ==
  /\ ~begun /\ sFinished = 0
  /\ \A n \in Large : /\ sParent[n] = Null /\ flagged[n] = {} /\ sChildren[n] = <<>>
                      /\ S!ToSet(unvisited[n]) = S!ToSet(neighbours[n])
  /\ \A f \in DOMAIN sAir : f.type = "neighbourhood"
  /\ \A n \in announced : \A m \in S!NeighboursOf(n) :
       n \in S!ToSet(neighbours[m]) \/ Fr("neighbourhood", n, m) \in DOMAIN sAir

SIdle == begun /\ announced = Large /\ DOMAIN sAir = {} /\ sFinished = 0

Known == /\ begun /\ announced = Large
         /\ \A n \in Large : S!ToSet(neighbours[n]) = S!NeighboursOf(n)

\* h has told its neighbours and waits.
Halts(h) ==
  /\ flagged[h] # {} /\ sFinished = 0
  /\ \A f \in DOMAIN sAir :
       \/ f.type = "visited" /\ f.from = h /\ f.to \in flagged[h]
       \/ f.type = "ack" /\ f.to = h /\ f.from \in flagged[h]
  /\ \A m \in flagged[h] : Fr("visited", h, m) \in DOMAIN sAir <=> Fr("ack", m, h) \notin DOMAIN sAir
  /\ \A n \in Large : \A m \in S!ToSet(unvisited[n]) : m \in Disc(sParent) => Fr("visited", m, n) \in DOMAIN sAir
  /\ \A n \in Large : S!NeighboursOf(n) \subseteq S!ToSet(unvisited[n]) \cup Disc(sParent)
  /\ Fathered(sParent, h, sChildren, {})

\* It sends the search on to m.
Goes(h, m) ==
  /\ flagged[h] = {} /\ sFinished = 0 /\ DOMAIN sAir = {Fr("discover", h, m)}
  /\ m \in S!NeighboursOf(h) \ Disc(sParent)
  /\ \A n \in Large : S!ToSet(unvisited[n]) \cap Disc(sParent) = {}
  /\ \A n \in Large : S!NeighboursOf(n) \subseteq S!ToSet(unvisited[n]) \cup Disc(sParent)
                                                  \cup (IF n = h THEN {m} ELSE {})
  /\ Fathered(sParent, h, sChildren, {})

\* The child m sends it back to h.
Comes(h, m) ==
  /\ flagged[h] = {} /\ sFinished = 0 /\ DOMAIN sAir = {Fr("return", m, h)}
  /\ m \in Disc(sParent) /\ sParent[m] = h /\ m # h /\ m \notin S!ToSet(sChildren[h])
  /\ \A n \in Large : S!ToSet(unvisited[n]) \cap Disc(sParent) = {}
  /\ \A n \in Large : S!NeighboursOf(n) \subseteq S!ToSet(unvisited[n]) \cup Disc(sParent)
  /\ Fathered(sParent, h, sChildren, {m})

IsOver ==
  /\ flagged[searchRoot] = {} /\ sFinished = 1 /\ DOMAIN sAir = {}
  /\ S!NeighboursOf(searchRoot) \subseteq Disc(sParent)
  /\ Fathered(sParent, searchRoot, sChildren, {})

SRun(h) ==
  /\ Known /\ Grown(sParent, h) /\ Joined(sParent, h)
  /\ \A f \in DOMAIN sAir : sAir[f] = 1
  /\ \A n \in Large : n # h => flagged[n] = {}
  /\ \/ Halts(h) \/ (\E m \in Large : Goes(h, m)) \/ (\E m \in Large : Comes(h, m))
     \/ (h = searchRoot /\ IsOver)

SDeep == /\ ~begun => SBefore
         /\ begun /\ S!NeighboursOf(searchRoot) = {} => SIdle
         /\ begun /\ S!NeighboursOf(searchRoot) # {} /\ S!NoLeaf => \E h \in Large : SRun(h)

LEMMA UpFacts ==
  ASSUME NEW P, P \in [Large -> Large \cup {Null}], Null \notin Large, NEW n \in Large
  PROVE  /\ n \in Up(P, n) /\ Up(P, n) \subseteq Large
         /\ P[n] \in Large => Up(P, n) = {n} \cup Up(P, P[n])
         /\ P[n] = n => Up(P, n) = {n}
         /\ \A m \in Up(P, n) : Up(P, m) \subseteq Up(P, n)
<1>1. n \in Up(P, n) /\ Up(P, n) \subseteq Large
  BY DEF Up
<1>2. ASSUME P[n] \in Large PROVE Up(P, n) = {n} \cup Up(P, P[n])
  <2>1. ASSUME NEW m \in Up(P, n), m # n, m \notin Up(P, P[n]) PROVE FALSE
    <3>1. m \in Large
      BY <2>1 DEF Up
    <3>2. PICK X \in SUBSET Large : P[n] \in X /\ Climbs(P, X) /\ m \notin X
      BY <2>1, <3>1 DEF Up
    <3>3. Climbs(P, X \cup {n}) /\ X \cup {n} \in SUBSET Large
      BY <3>2 DEF Climbs
    <3> QED BY <2>1, <3>1, <3>2, <3>3 DEF Up
  <2>2. ASSUME NEW m \in Up(P, P[n]) PROVE m \in Up(P, n)
    <3>1. m \in Large
      BY DEF Up
    <3>2. ASSUME NEW X \in SUBSET Large, n \in X, Climbs(P, X) PROVE m \in X
      <4>1. P[n] \in X
        BY <3>2, <1>2 DEF Climbs
      <4> QED BY <4>1, <3>2, <2>2 DEF Up
    <3> QED BY <3>1, <3>2 DEF Up
  <2> QED BY <1>1, <2>1, <2>2
<1>3. ASSUME P[n] = n PROVE Up(P, n) = {n}
  <2>1. Climbs(P, {n})
    BY <1>3 DEF Climbs
  <2> QED BY <1>1, <2>1 DEF Up
<1>4. ASSUME NEW m \in Up(P, n), NEW x1 \in Up(P, m) PROVE x1 \in Up(P, n)
  BY <1>4 DEF Up
<1> QED BY <1>1, <1>2, <1>3, <1>4

\* The ancestors of what has been discovered stay when one more node is.
LEMMA UpStays ==
  ASSUME NEW P, \A m \in Disc(P) : P[m] \in Disc(P),
         NEW Q, \A m \in Disc(P) : Q[m] = P[m],
         NEW m \in Disc(P)
  PROVE  Up(Q, m) = Up(P, m) /\ Up(P, m) \subseteq Disc(P)
<1>1. m \in Large /\ Disc(P) \subseteq Large
  BY DEF Disc
<1>2. \A x1 \in Disc(P) : Q[x1] = P[x1] /\ P[x1] \in Disc(P)
  OBVIOUS
<1>3. ASSUME NEW X \in SUBSET Large, Climbs(P, X) PROVE Climbs(Q, X \cap Disc(P))
  BY <1>2, <1>3 DEF Climbs, Disc
<1>4. ASSUME NEW X \in SUBSET Large, Climbs(Q, X) PROVE Climbs(P, X \cap Disc(P))
  BY <1>2, <1>4 DEF Climbs, Disc
<1>5. Climbs(P, Disc(P))
  BY DEF Climbs
<1>6. Up(P, m) \subseteq Disc(P)
  BY <1>1, <1>5 DEF Up
<1>7. ASSUME NEW x1 \in Up(P, m) PROVE x1 \in Up(Q, m)
  <2>1. ASSUME NEW X \in SUBSET Large, m \in X, Climbs(Q, X) PROVE x1 \in X
    <3>1. Climbs(P, X \cap Disc(P)) /\ m \in X \cap Disc(P) /\ X \cap Disc(P) \in SUBSET Large
      BY <1>4, <2>1
    <3> QED BY <3>1, <1>7 DEF Up
  <2> QED BY <2>1, <1>6, <1>1 DEF Up
<1>8. ASSUME NEW x1 \in Up(Q, m) PROVE x1 \in Up(P, m)
  <2>1. ASSUME NEW X \in SUBSET Large, m \in X, Climbs(P, X) PROVE x1 \in X
    <3>1. Climbs(Q, X \cap Disc(P)) /\ m \in X \cap Disc(P) /\ X \cap Disc(P) \in SUBSET Large
      BY <1>3, <2>1
    <3> QED BY <3>1, <1>8 DEF Up
  <2>2. x1 \in Large
    BY DEF Up
  <2> QED BY <2>1, <2>2 DEF Up
<1> QED BY <1>6, <1>7, <1>8

\* What DISCOVER sends when nothing else is on its way.
LEMMA Discovered ==
  ASSUME SInv, NEW n \in Large, NEW from \in Large, NEW rest, SBag(rest), DOMAIN rest = {},
         S!ToSet(neighbours[n]) = S!NeighboursOf(n), ~S!OnlyNeighbour(n, from),
         S!Discover(n, from, rest)
  PROVE  /\ sParent' = [sParent EXCEPT ![n] = from]
         /\ flagged'[n] = S!NeighboursOf(n) /\ \A m \in Large : m # n => flagged'[m] = flagged[m]
         /\ UNCHANGED <<sLink, announced, sChildren, neighbours, unvisited, sFinished>>
         /\ \A f : f \in DOMAIN sAir' <=> \E m \in S!NeighboursOf(n) : f = Fr("visited", n, m)
         /\ \A f \in DOMAIN sAir' : sAir'[f] = 1
<1> DEFINE X == S!Message("visited", n, S!NeighboursOf(n))
<1>1. /\ sParent' = [sParent EXCEPT ![n] = from]
      /\ flagged' = [flagged EXCEPT ![n] = S!NeighboursOf(n)]
      /\ UNCHANGED <<sLink, announced, sChildren, neighbours, unvisited, sFinished>>
      /\ sAir' = S!Sending(rest, X \cup {})
  BY DEF S!Discover, S!WaitsFor
<1>2. X \cup {} = X /\ \A f : f \in X <=> \E m \in S!NeighboursOf(n) : f = Fr("visited", n, m)
  BY DEF S!Message, Fr
<1> HIDE DEF X
<1>3. More(rest, X, sAir')
  BY <1>1, <1>2, Sent
<1>4. DOMAIN sAir' = X /\ \A f \in DOMAIN sAir' : sAir'[f] = 1
  BY <1>3 DEF More
<1>5. flagged'[n] = S!NeighboursOf(n) /\ \A m \in Large : m # n => flagged'[m] = flagged[m]
  BY <1>1 DEF SInv, SShape
<1> QED BY <1>1, <1>2, <1>4, <1>5

LEMMA BeginRuns ==
  ASSUME SInv, SBefore, S!Begin
  PROVE  SDeep'
<1> DEFINE n == searchRoot
<1>1. /\ begun' /\ announced = Large /\ sAir = S!EmptyBag /\ S!Discover(n, n, sAir)
  BY DEF S!Begin
<1>2. DOMAIN sAir = {} /\ SBag(sAir)
  BY <1>1 DEF S!EmptyBag, S!SetToBag, SInv, SShape
<1>3. /\ n \in Large /\ Null \notin Large /\ SShape
      /\ \A m, x1 \in Large : m \in S!NeighboursOf(x1) <=> x1 \in S!NeighboursOf(m)
      /\ \A m \in Large : m \notin S!NeighboursOf(m) /\ S!NeighboursOf(m) \subseteq Large
  BY SFacts DEF SInv
<1>4. \A m \in Large : S!ToSet(neighbours[m]) = S!NeighboursOf(m)
  <2> SUFFICES ASSUME NEW m \in Large, NEW x1 \in S!NeighboursOf(m) PROVE x1 \in S!ToSet(neighbours[m])
    BY DEF SInv, SNodeOK
  <2> QED BY <1>1, <1>2, <1>3 DEF SBefore
<1>5. ~S!OnlyNeighbour(n, n)
  <2>1. S!OnlyNeighbour(n, n) => n \in S!ToSet(neighbours[n])
    BY DEF S!OnlyNeighbour, S!ToSet
  <2> QED BY <2>1, <1>3, <1>4
<1>6. /\ sParent' = [sParent EXCEPT ![n] = n]
      /\ flagged'[n] = S!NeighboursOf(n) /\ \A m \in Large : m # n => flagged'[m] = flagged[m]
      /\ UNCHANGED <<sLink, announced, sChildren, neighbours, unvisited, sFinished>>
      /\ \A f : f \in DOMAIN sAir' <=> \E m \in S!NeighboursOf(n) : f = Fr("visited", n, m)
      /\ \A f \in DOMAIN sAir' : sAir'[f] = 1
  BY <1>1, <1>2, <1>3, <1>4, <1>5, Discovered
<1>7. \A m : S!NeighboursOf(m)' = S!NeighboursOf(m)
  BY <1>6 DEF S!NeighboursOf
<1>8. ASSUME S!NeighboursOf(n) = {} PROVE SIdle'
  BY <1>8, <1>1, <1>6 DEF SIdle, SBefore
<1> HIDE DEF n
<1>80. n = searchRoot
  BY DEF n
<1>9. ASSUME S!NeighboursOf(n) # {} PROVE SRun(n)'
  <2>1. PICK P : P = sParent'
    OBVIOUS
  <2>2. P \in [Large -> Large \cup {Null}] /\ P[n] = n /\ \A m \in Large : m # n => P[m] = Null
    BY <2>1, <1>3, <1>6 DEF SBefore, SShape
  <2>3. Disc(P) = {n} /\ Up(P, n) = {n}
    BY <2>2, <1>3, UpFacts DEF Disc
  <2>4. Grown(P, n)
    BY <2>2, <2>3, <1>80 DEF Grown
  <2>5. Joined(P, n)'
    BY <2>3 DEF Joined
  <2>6. Fathered(P, n, sChildren', {})
    <3>1. \A m \in Large : sChildren'[m] = <<>>
      BY <1>6 DEF SBefore
    <3>2. S!ToSet(<<>>) = {} /\ Distinct(<<>>)
      BY DEF S!ToSet, Distinct
    <3> QED BY <3>1, <3>2, <2>2, <2>3 DEF Fathered
  <2>7. Known'
    BY <1>1, <1>4, <1>6, <1>7 DEF Known
  <2>8. Halts(n)'
    <3>1. \A f \in DOMAIN sAir' : f.type = "visited" /\ f.from = n /\ f.to \in flagged'[n]
      BY <1>6 DEF Fr
    <3>2. \A m : Fr("ack", m, n) \notin DOMAIN sAir'
      BY <1>6 DEF Fr
    <3>3. \A m \in Large : \A x1 \in S!ToSet(unvisited'[m]) :
            x1 \in Disc(P) => Fr("visited", x1, m) \in DOMAIN sAir'
      <4> SUFFICES ASSUME NEW m \in Large, n \in S!ToSet(unvisited[m])
                   PROVE  Fr("visited", n, m) \in DOMAIN sAir'
        BY <2>3, <1>6
      <4>1. n \in S!NeighboursOf(m)
        BY <1>4 DEF SBefore
      <4> QED BY <4>1, <1>3, <1>6
    <3>4. \A m \in Large : S!NeighboursOf(m) \subseteq S!ToSet(unvisited'[m])
      BY <1>4, <1>6 DEF SBefore
    <3>5. \A m \in flagged'[n] : Fr("visited", n, m) \in DOMAIN sAir'
      BY <1>6
    <3>6. sFinished' = 0 /\ flagged'[n] # {}
      BY <1>6, <1>9 DEF SBefore
    <3> QED BY <2>1, <2>6, <3>1, <3>2, <3>3, <3>4, <3>5, <3>6, <1>7 DEF Halts, S!ToSet
  <2>9. \A m \in Large : m # n => flagged'[m] = {}
    BY <1>6 DEF SBefore
  <2> QED BY <2>1, <2>4, <2>5, <2>7, <2>8, <2>9, <1>6 DEF SRun, Joined, S!NeighboursOf
<1> QED BY <1>1, <1>3, <1>7, <1>8, <1>9, <1>80 DEF SDeep

LEMMA LastTaken ==
  ASSUME SInv, NEW f \in DOMAIN sAir, sAir[f] = 1
  PROVE  /\ SBag(S!Taken(f)) /\ DOMAIN S!Taken(f) = DOMAIN sAir \ {f}
         /\ \A x1 \in DOMAIN S!Taken(f) : S!Taken(f)[x1] = sAir[x1]
<1>1. SBag(sAir)
  BY DEF SInv, SShape
<1> QED BY <1>1, Took

LEMMA SentAlone ==
  ASSUME NEW rest, SBag(rest), DOMAIN rest = {}, NEW t1, NEW n, NEW X
  PROVE  LET G == S!Sending(rest, S!Message(t1, n, X))
         IN  /\ \A f : f \in DOMAIN G <=> \E m \in X : f = Fr(t1, n, m)
             /\ \A f \in DOMAIN G : G[f] = 1
<1> DEFINE Y == S!Message(t1, n, X)
<1>1. \A f : f \in Y <=> \E m \in X : f = Fr(t1, n, m)
  BY DEF S!Message, Fr
<1> HIDE DEF Y
<1>2. More(rest, Y, S!Sending(rest, Y))
  BY Sent
<1>3. DOMAIN S!Sending(rest, Y) = Y /\ \A f \in DOMAIN S!Sending(rest, Y) : S!Sending(rest, Y)[f] = 1
  BY <1>2 DEF More
<1> QED BY <1>1, <1>3 DEF Y

LEMMA FrameSame ==
  ASSUME SInv, NEW f \in DOMAIN sAir
  PROVE  /\ f = Fr(f.type, f.from, f.to) /\ f.from \in Large /\ f.to \in Large
         /\ f.to \in S!NeighboursOf(f.from)
BY DEF SInv, SFrameOK, S!Frame, Fr

\* The search goes on from h when all it waited for has come.
LEMMA ResumeRuns ==
  ASSUME SInv, NEW h \in Large, NEW rest, SBag(rest), DOMAIN rest = {}, S!Resume(h, rest),
         Known, sFinished = 0, Grown(sParent, h), Joined(sParent, h),
         UNCHANGED <<sLink, announced, begun, sParent, neighbours>>,
         \A n \in Large : flagged'[n] = {},
         \A n \in Large : S!ToSet(unvisited[n]) \cap Disc(sParent) = {},
         \A n \in Large : S!NeighboursOf(n) \subseteq S!ToSet(unvisited[n]) \cup Disc(sParent),
         Fathered(sParent, h, sChildren', {})
  PROVE  \E n \in Large : SRun(n)'
<1>1. SShape /\ SNodeOK(h) /\ Null \notin Large /\ sParent \in [Large -> Large \cup {Null}]
  BY SFacts DEF SInv, SShape
<1>2. \A n : S!NeighboursOf(n)' = S!NeighboursOf(n)
  BY DEF S!NeighboursOf
<1>3. Known'
  BY <1>2 DEF Known
<1>4. Joined(sParent, h)'
  BY <1>2 DEF Joined
<1>40. Grown(sParent, h)'
  BY DEF Grown
<1>5. PICK P : P = sParent /\ P = sParent'
  OBVIOUS
<1>6. h \in Up(P, h) /\ P[h] \in Large
  BY <1>1, <1>5, UpFacts DEF Grown, Disc
<1>7. CASE unvisited[h] # <<>>
  <2>1. PICK m : m = S!Last(unvisited[h])
    OBVIOUS
  <2>2. unvisited[h] \in Seq(Large)
    BY <1>1 DEF SShape
  <2>3. /\ m \in Large /\ S!ToSet(unvisited[h]) = S!ToSet(S!Front(unvisited[h])) \cup {m}
    BY <2>1, <2>2, <1>7, Fronted
  <2>4. m \in S!NeighboursOf(h) \ Disc(P)
    BY <2>3, <1>1, <1>5 DEF SNodeOK
  <2>5. /\ sAir' = S!Sending(rest, S!Message("discover", h, {m}))
        /\ unvisited' = [unvisited EXCEPT ![h] = S!Front(@)] /\ sFinished' = 0
    BY <1>7, <2>1 DEF S!Resume
  <2>6. /\ \A f : f \in DOMAIN sAir' <=> \E x1 \in {m} : f = Fr("discover", h, x1)
        /\ \A f \in DOMAIN sAir' : sAir'[f] = 1
    BY <2>5, SentAlone
  <2>7. DOMAIN sAir' = {Fr("discover", h, m)}
    BY <2>6
  <2>8. /\ S!ToSet(unvisited'[h]) \cup {m} = S!ToSet(unvisited[h])
        /\ \A n \in Large : n # h => unvisited'[n] = unvisited[n]
    BY <2>3, <2>5, <1>1 DEF SShape
  <2>9. \A n \in Large : S!ToSet(unvisited'[n]) \cap Disc(P) = {}
    BY <2>8, <1>5
  <2>10. \A n \in Large : S!NeighboursOf(n) \subseteq S!ToSet(unvisited'[n]) \cup Disc(P)
                                                     \cup (IF n = h THEN {m} ELSE {})
    BY <2>8, <1>5
  <2>11. Goes(h, m)'
    BY <2>4, <2>5, <2>7, <2>9, <2>10, <1>2, <1>5 DEF Goes, S!ToSet
  <2> QED BY <2>3, <2>6, <2>11, <1>3, <1>4, <1>40 DEF SRun
<1>8. CASE unvisited[h] = <<>>
  <2>1. S!NeighboursOf(h) \subseteq Disc(P)
    <3>1. S!ToSet(<<>>) = {}
      BY DEF S!ToSet
    <3> QED BY <3>1, <1>5, <1>8
  <2>2. PICK p : p = P[h]
    OBVIOUS
  <2>3. /\ sAir' = S!Sending(rest, S!Message("return", h, {p} \ {h}))
        /\ sFinished' = IF p = h THEN sFinished + 1 ELSE sFinished
        /\ unvisited' = unvisited
    BY <1>5, <1>8, <2>2 DEF S!Resume
  <2>4. /\ \A f : f \in DOMAIN sAir' <=> \E x1 \in {p} \ {h} : f = Fr("return", h, x1)
        /\ \A f \in DOMAIN sAir' : sAir'[f] = 1
    BY <2>3, SentAlone
  <2>5. CASE p # h
    <3>1. DOMAIN sAir' = {Fr("return", h, p)} /\ sFinished' = 0
      BY <2>3, <2>4, <2>5
    <3>2. p \in Large /\ p \in Disc(P)
      BY <2>2, <1>5, <1>6 DEF Grown
    <3>3. Up(P, h) = {h} \cup Up(P, p)
      BY <1>1, <1>5, <1>6, <2>2, UpFacts
    <3>4. Grown(P, p)
      BY <3>2, <1>5 DEF Grown
    <3>5. Joined(P, p)'
      BY <3>3, <2>1, <1>2, <1>5 DEF Joined
    <3>6. h \notin S!ToSet(sChildren'[p])
      BY <1>5, <1>6, <3>2 DEF Fathered
    <3>7. Fathered(P, p, sChildren', {h})
      BY <3>3, <1>5 DEF Fathered
    <3>8. h \in Disc(P)
      BY <1>5 DEF Grown
    <3>9. Comes(p, h)'
      BY <3>1, <3>2, <3>6, <3>7, <3>8, <2>2, <2>3, <2>5, <1>2, <1>5 DEF Comes, S!ToSet
    <3>10. Grown(P, p)'
      BY <3>4 DEF Grown
    <3> QED BY <3>2, <3>5, <3>9, <3>10, <2>4, <1>3, <1>5 DEF SRun
  <2>6. CASE p = h
    <3>1. h = searchRoot
      BY <1>5, <1>6, <2>2, <2>6 DEF Grown
    <3>2. DOMAIN sAir' = {} /\ sFinished' = 1
      <4>1. \A f : f \notin DOMAIN sAir'
        BY <2>4, <2>6
      <4>2. sFinished' = 1
        BY <2>3, <2>6
      <4> QED BY <4>1, <4>2
    <3>3. IsOver'
      BY <3>1, <3>2, <2>1, <1>2, <1>5 DEF IsOver
    <3> QED BY <3>1, <3>3, <2>4, <1>3, <1>4, <1>40 DEF SRun
  <2> QED BY <2>5, <2>6
<1> QED BY <1>7, <1>8

\* DISCOVER comes to m, which was not discovered.
LEMMA DiscoverRuns ==
  ASSUME SInv, S!NoLeaf, NEW h \in Large, NEW m \in Large, SRun(h), Goes(h, m),
         NEW f \in DOMAIN sAir, S!ReceiveDiscover(f.to, f)
  PROVE  SRun(m)'
<1>1. /\ SShape /\ Null \notin Large /\ sParent \in [Large -> Large \cup {Null}]
      /\ \A n, x1 \in Large : n \in S!NeighboursOf(x1) <=> x1 \in S!NeighboursOf(n)
      /\ \A n \in Large : n \notin S!NeighboursOf(n) /\ S!NeighboursOf(n) \subseteq Large
  BY SFacts DEF SInv, SShape
<1>2. /\ f = Fr("discover", h, m) /\ sAir[f] = 1 /\ f.to = m /\ f.from = h
  BY DEF SRun, Goes, Fr
<1>3. PICK rest : rest = S!Taken(f)
  OBVIOUS
<1>4. SBag(rest) /\ DOMAIN rest = {}
  <2>1. DOMAIN sAir = {f}
    BY <1>2 DEF Goes
  <2> QED BY <1>2, <1>3, <2>1, LastTaken
<1>5. PICK P, Q : P = sParent /\ Q = sParent'
  OBVIOUS
<1>6. /\ m \in S!NeighboursOf(h) /\ m \notin Disc(P) /\ P[m] = Null
  BY <1>5 DEF Goes, Disc
<1>7. /\ Known /\ Grown(P, h) /\ Joined(P, h) /\ Fathered(P, h, sChildren, {})
      /\ m # searchRoot /\ searchRoot \in Large /\ Disc(P) \subseteq Large
  BY <1>1, <1>5, <1>6, SFacts DEF SRun, Goes, Grown, Disc
<1>8. ~S!OnlyNeighbour(m, h)
  <2>1. S!OnlyNeighbour(m, h) => S!NeighboursOf(m) = {h}
    <3>1. S!ToSet(<<h>>) = {h}
      BY DEF S!ToSet
    <3> QED BY <3>1, <1>7 DEF S!OnlyNeighbour, Known
  <2>2. S!Cardinality({h}) = 1
    BY FS_Singleton, SameSizeSearch
  <2> QED BY <2>1, <2>2, <1>7 DEF S!NoLeaf
<1>9. S!Discover(m, h, rest) /\ begun' = begun
  BY <1>2, <1>3 DEF S!ReceiveDiscover
<1>10. /\ Q = [P EXCEPT ![m] = h]
       /\ flagged'[m] = S!NeighboursOf(m) /\ \A n \in Large : n # m => flagged'[n] = flagged[n]
       /\ UNCHANGED <<sLink, announced, sChildren, neighbours, unvisited, sFinished>>
       /\ \A x1 : x1 \in DOMAIN sAir' <=> \E n \in S!NeighboursOf(m) : x1 = Fr("visited", m, n)
       /\ \A x1 \in DOMAIN sAir' : sAir'[x1] = 1
  BY <1>4, <1>5, <1>7, <1>8, <1>9, Discovered DEF Known
<1>11. \A n : S!NeighboursOf(n)' = S!NeighboursOf(n)
  BY <1>10 DEF S!NeighboursOf
<1>12. /\ Q[m] = h /\ \A n \in Large : n # m => Q[n] = P[n]
       /\ Q \in [Large -> Large \cup {Null}] /\ Disc(Q) = Disc(P) \cup {m}
  BY <1>1, <1>5, <1>10 DEF Disc
<1>13. /\ \A n \in Disc(P) : Up(Q, n) = Up(P, n) /\ Up(P, n) \subseteq Disc(P)
       /\ Up(Q, m) = {m} \cup Up(P, h)
  <2>1. \A n \in Disc(P) : Up(Q, n) = Up(P, n) /\ Up(P, n) \subseteq Disc(P)
    <3>1. \A n \in Disc(P) : P[n] \in Disc(P) /\ Q[n] = P[n]
      BY <1>6, <1>7, <1>12 DEF Grown
    <3> QED BY ONLY <3>1, UpStays
  <2>2. Up(Q, m) = {m} \cup Up(Q, h)
    BY <1>1, <1>12, UpFacts
  <2> QED BY <2>1, <2>2, <1>7 DEF Grown
<1>14. Grown(Q, m)
  <2>1. Q[searchRoot] = searchRoot /\ m \in Disc(Q)
    BY <1>7, <1>12 DEF Grown
  <2>2. ASSUME NEW n \in Disc(Q) PROVE Q[n] \in Disc(Q) /\ searchRoot \in Up(Q, n)
    <3>1. CASE n = m
      BY <3>1, <1>7, <1>12, <1>13 DEF Grown
    <3>2. CASE n # m
      <4>1. n \in Disc(P) /\ Q[n] = P[n]
        BY <3>2, <1>7, <1>12
      <4> QED BY <4>1, <1>7, <1>12, <1>13 DEF Grown
    <3> QED BY <3>1, <3>2
  <2>3. ASSUME NEW n \in Disc(Q) \ {searchRoot} PROVE n \notin Up(Q, Q[n])
    <3>1. CASE n = m
      BY <3>1, <1>6, <1>7, <1>12, <1>13 DEF Grown
    <3>2. CASE n # m
      <4>1. n \in Disc(P) \ {searchRoot} /\ Q[n] = P[n] /\ P[n] \in Disc(P)
        BY <3>2, <1>7, <1>12 DEF Grown
      <4> QED BY <4>1, <1>7, <1>13 DEF Grown
    <3> QED BY <3>1, <3>2
  <2> QED BY <2>1, <2>2, <2>3 DEF Grown
<1>15. ASSUME NEW n \in Disc(Q) PROVE n \in Up(Q, m) \/ S!NeighboursOf(n) \subseteq Disc(Q)
  BY <1>7, <1>12, <1>13 DEF Joined
<1>16. ASSUME NEW n \in Disc(P), m \in S!NeighboursOf(n) PROVE n \in Up(Q, m)
  BY <1>6, <1>7, <1>13, <1>16 DEF Joined
<1>17. ASSUME NEW n \in Disc(Q), NEW x1 \in Disc(Q), x1 \in S!NeighboursOf(n)
       PROVE  x1 \in Up(Q, n) \/ n \in Up(Q, x1)
  <2>1. CASE n = m
    <3>1. x1 \in Disc(P) /\ m \in S!NeighboursOf(x1)
      BY <2>1, <1>1, <1>7, <1>12, <1>17
    <3> QED BY <3>1, <2>1, <1>16
  <2>2. CASE n # m /\ x1 = m
    BY <2>2, <1>12, <1>16, <1>17
  <2>3. CASE n # m /\ x1 # m
    BY <2>3, <1>7, <1>12, <1>13, <1>17 DEF Joined
  <2> QED BY <2>1, <2>2, <2>3
<1>18. Joined(Q, m)'
  BY <1>11, <1>15, <1>17 DEF Joined
<1>19. Fathered(Q, m, sChildren', {})
  <2>1. ASSUME NEW n \in Large, NEW x1 \in S!ToSet(sChildren[n])
        PROVE  Q[x1] = n /\ x1 # n /\ x1 \notin Up(Q, m)
    <3>1. x1 \in Large
      <4>1. sChildren[n] \in Seq(Large)
        BY <1>1 DEF SShape
      <4> QED BY <4>1 DEF S!ToSet
    <3>2. P[x1] = n /\ x1 # n /\ x1 \notin Up(P, h)
      BY <1>7 DEF Fathered
    <3>3. x1 # m
      BY <3>2, <1>1, <1>6
    <3> QED BY <3>1, <3>2, <3>3, <1>12, <1>13
  <2>2. ASSUME NEW x1 \in Disc(Q), Q[x1] # x1 PROVE x1 \in S!ToSet(sChildren[Q[x1]]) \/ x1 \in Up(Q, m)
    <3>1. CASE x1 = m
      BY <3>1, <1>13
    <3>2. CASE x1 # m
      <4>1. x1 \in Disc(P) /\ Q[x1] = P[x1]
        BY <3>2, <1>7, <1>12
      <4> QED BY <4>1, <2>2, <1>7, <1>13 DEF Fathered
    <3> QED BY <3>1, <3>2
  <2>3. \A n \in Large : Distinct(sChildren[n])
    BY <1>7 DEF Fathered
  <2>4. sChildren' = sChildren
    BY <1>10
  <2> QED BY <2>1, <2>2, <2>3, <2>4 DEF Fathered
<1>20. ASSUME NEW n \in Large, NEW x1 \in S!ToSet(unvisited[n]), x1 \in Disc(Q)
       PROVE  Fr("visited", x1, n) \in DOMAIN sAir'
  <2>1. x1 = m
    BY <1>5, <1>12, <1>20 DEF Goes
  <2>2. m \in S!NeighboursOf(n)
    BY <2>1, <1>20 DEF SInv, SNodeOK
  <2>3. n \in S!NeighboursOf(m)
    BY <2>2, <1>1
  <2> QED BY <2>1, <2>3, <1>10
<1>21. \A n \in Large : S!NeighboursOf(n) \subseteq S!ToSet(unvisited[n]) \cup Disc(Q)
  BY <1>5, <1>12 DEF Goes
<1>22. Halts(m)'
  <2>1. flagged'[m] # {} /\ sFinished' = 0
    BY <1>1, <1>6, <1>10 DEF Goes
  <2>2. \A x1 \in DOMAIN sAir' : x1.type = "visited" /\ x1.from = m /\ x1.to \in flagged'[m]
    BY <1>10 DEF Fr
  <2>3. \A n : Fr("ack", n, m) \notin DOMAIN sAir'
    BY <1>10 DEF Fr
  <2>4. \A n \in flagged'[m] : Fr("visited", m, n) \in DOMAIN sAir'
    BY <1>10
  <2>5. unvisited' = unvisited
    BY <1>10
  <2> QED BY <2>1, <2>2, <2>3, <2>4, <2>5, <1>5, <1>11, <1>19, <1>20, <1>21 DEF Halts, S!ToSet
<1>23. Known' /\ \A n \in Large : n # m => flagged'[n] = {}
  BY <1>7, <1>9, <1>10, <1>11 DEF Known, SRun, Goes
<1>24. Grown(Q, m)'
  BY <1>14 DEF Grown
<1> QED BY <1>5, <1>10, <1>18, <1>22, <1>23, <1>24 DEF SRun

LEMMA VisitedHalts ==
  ASSUME SInv, NEW h \in Large, SRun(h), Halts(h),
         NEW f \in DOMAIN sAir, S!ReceiveVisited(f.to, f)
  PROVE  SRun(h)'
<1>1. PICK n : n = f.to
  OBVIOUS
<1>2. /\ SBag(sAir) /\ SShape /\ SNodeOK(n) /\ n \in Large
  <2>1. n \in Large
    BY <1>1, FrameSame
  <2> QED BY <2>1 DEF SInv, SShape
<1>3. /\ f = Fr("visited", h, n) /\ n \in flagged[h] /\ sAir[f] = 1
      /\ Fr("ack", n, h) \notin DOMAIN sAir
  <2>1. f.type = "visited" /\ f.from = h /\ n \in flagged[h]
    BY <1>1 DEF Halts, S!ReceiveVisited
  <2> QED BY <2>1, <1>1, FrameSame DEF Halts, SRun
<1>4. /\ unvisited' = [unvisited EXCEPT ![n] = S!Without(@, h)]
      /\ sAir' = S!Sending(S!Taken(f), S!Message("ack", n, {h}))
      /\ UNCHANGED <<sLink, announced, begun, sParent, sChildren, neighbours, flagged,
                     discovered, sFinished>>
  BY <1>1, <1>3 DEF S!ReceiveVisited, Fr
<1>5. PICK r1, g1 : r1 = S!Taken(f) /\ g1 = Fr("ack", n, h)
  OBVIOUS
<1>6. /\ SBag(r1) /\ DOMAIN r1 = DOMAIN sAir \ {f}
      /\ \A x1 \in DOMAIN r1 : r1[x1] = sAir[x1]
  BY <1>3, <1>5, LastTaken
<1>7. S!Message("ack", n, {h}) = {g1}
  BY <1>5 DEF S!Message, Fr
<1>8. More(r1, {g1}, sAir')
  BY <1>4, <1>5, <1>6, <1>7, Sent
<1>9. /\ DOMAIN sAir' = (DOMAIN sAir \ {f}) \cup {g1}
      /\ \A x1 \in DOMAIN sAir' : sAir'[x1] = 1
  BY <1>3, <1>5, <1>6, <1>8 DEF More, SRun
<1>10. /\ S!ToSet(unvisited'[n]) = S!ToSet(unvisited[n]) \ {h}
       /\ \A k1 \in Large : k1 # n => unvisited'[k1] = unvisited[k1]
  <2>1. unvisited[n] \in Seq(Large) /\ Distinct(unvisited[n])
    BY <1>2 DEF SShape, SNodeOK
  <2>2. S!ToSet(S!Without(unvisited[n], h)) = S!ToSet(unvisited[n]) \ {h}
    BY <2>1, Erased
  <2> QED BY <2>2, <1>2, <1>4 DEF SShape
<1>11. \A k1 : S!NeighboursOf(k1)' = S!NeighboursOf(k1)
  BY <1>4 DEF S!NeighboursOf
<1>12. ASSUME NEW x1 \in DOMAIN sAir'
       PROVE  \/ x1.type = "visited" /\ x1.from = h /\ x1.to \in flagged[h]
              \/ x1.type = "ack" /\ x1.to = h /\ x1.from \in flagged[h]
  BY <1>3, <1>5, <1>9 DEF Halts, Fr
<1>13. ASSUME NEW m \in flagged[h]
       PROVE  Fr("visited", h, m) \in DOMAIN sAir' <=> Fr("ack", m, h) \notin DOMAIN sAir'
  <2>1. CASE m = n
    BY <2>1, <1>3, <1>5, <1>9 DEF Fr
  <2>2. CASE m # n
    <3>1. Fr("visited", h, m) \notin {f, g1} /\ Fr("ack", m, h) \notin {f, g1}
      BY <2>2, <1>3, <1>5 DEF Fr
    <3> QED BY <3>1, <1>9 DEF Halts
  <2> QED BY <2>1, <2>2
<1>14. ASSUME NEW k1 \in Large, NEW m \in S!ToSet(unvisited'[k1]), m \in Disc(sParent)
       PROVE  Fr("visited", m, k1) \in DOMAIN sAir'
  <2>1. m \in S!ToSet(unvisited[k1]) /\ (k1 = n => m # h)
    BY <1>10
  <2>2. Fr("visited", m, k1) \in DOMAIN sAir
    BY <2>1, <1>14 DEF Halts
  <2>3. m = h
    BY <2>2 DEF Halts, Fr
  <2>4. Fr("visited", m, k1) # f
    BY <2>1, <2>3, <1>3 DEF Fr
  <2> QED BY <2>2, <2>4, <1>9
<1>15. \A k1 \in Large : S!NeighboursOf(k1) \subseteq S!ToSet(unvisited'[k1]) \cup Disc(sParent)
  BY <1>10 DEF Halts, SRun, Grown
<1>16. Halts(h)'
  <2>1. Fathered(sParent, h, sChildren, {}) /\ flagged[h] # {} /\ sFinished = 0
    BY DEF Halts
  <2> QED BY <2>1, <1>4, <1>11, <1>12, <1>13, <1>14, <1>15 DEF Halts, S!ToSet
<1>17. Known' /\ Grown(sParent, h)' /\ Joined(sParent, h)'
  BY <1>4, <1>11 DEF SRun, Known, Grown, Joined
<1>18. \A k1 \in Large : k1 # h => flagged'[k1] = {}
  BY <1>4 DEF SRun
<1> QED BY <1>9, <1>16, <1>17, <1>18 DEF SRun

LEMMA AckRuns ==
  ASSUME SInv, NEW h \in Large, SRun(h), Halts(h),
         NEW f \in DOMAIN sAir, S!ReceiveAck(f.to, f)
  PROVE  \E n \in Large : SRun(n)'
<1>1. PICK m, rest : m = f.from /\ rest = S!Taken(f)
  OBVIOUS
<1>2. /\ f = Fr("ack", m, h) /\ m \in flagged[h] /\ sAir[f] = 1 /\ f.to = h
      /\ Fr("visited", h, m) \notin DOMAIN sAir
  <2>1. f.type = "ack" /\ f.to = h /\ m \in flagged[h]
    BY <1>1 DEF Halts, S!ReceiveAck
  <2> QED BY <2>1, <1>1, FrameSame DEF Halts, SRun
<1>3. /\ SBag(rest) /\ DOMAIN rest = DOMAIN sAir \ {f}
      /\ \A x1 \in DOMAIN rest : rest[x1] = sAir[x1]
  BY <1>1, <1>2, LastTaken
<1>4. /\ flagged' = [flagged EXCEPT ![h] = @ \ {m}]
      /\ UNCHANGED <<sLink, announced, begun, sParent, sChildren, neighbours, discovered>>
      /\ IF S!AllAcknowledged(h, f) THEN S!Resume(h, rest)
         ELSE sAir' = rest /\ UNCHANGED <<unvisited, sFinished>>
  BY <1>1, <1>2 DEF S!ReceiveAck
<1>5. flagged'[h] = flagged[h] \ {m} /\ \A n \in Large : n # h => flagged'[n] = {}
  BY <1>4 DEF SInv, SShape, SRun
<1>6. /\ Known /\ Grown(sParent, h) /\ Joined(sParent, h) /\ sFinished = 0
      /\ Fathered(sParent, h, sChildren, {})
  BY DEF SRun, Halts
<1>7. \A n : S!NeighboursOf(n)' = S!NeighboursOf(n)
  BY <1>4 DEF S!NeighboursOf
<1>8. CASE S!AllAcknowledged(h, f)
  <2>1. flagged[h] = {m}
    BY <1>1, <1>2, <1>8 DEF S!AllAcknowledged
  <2>2. DOMAIN sAir = {f}
    <3> SUFFICES ASSUME NEW x1 \in DOMAIN sAir PROVE x1 = f
      OBVIOUS
    <3>1. x1 = Fr(x1.type, x1.from, x1.to)
      BY FrameSame
    <3>2. x1 = Fr("visited", h, m) \/ x1 = Fr("ack", m, h)
      BY <3>1, <2>1 DEF Halts
    <3> QED BY <3>2, <1>2
  <2>3. DOMAIN rest = {}
    BY <2>2, <1>3
  <2>4. ASSUME NEW n \in Large PROVE S!ToSet(unvisited[n]) \cap Disc(sParent) = {}
    <3> SUFFICES ASSUME NEW x1 \in S!ToSet(unvisited[n]), x1 \in Disc(sParent) PROVE FALSE
      OBVIOUS
    <3>1. Fr("visited", x1, n) \in DOMAIN sAir
      BY DEF Halts
    <3> QED BY <3>1, <2>2, <1>2 DEF Fr
  <2>5. \A n \in Large : S!NeighboursOf(n) \subseteq S!ToSet(unvisited[n]) \cup Disc(sParent)
    BY DEF Halts
  <2>6. S!Resume(h, rest) /\ \A n \in Large : flagged'[n] = {}
    BY <1>4, <1>5, <1>8, <2>1
  <2>7. sChildren' = sChildren /\ UNCHANGED <<sLink, announced, begun, sParent, neighbours>>
    BY <1>4
  <2>8. Fathered(sParent, h, sChildren', {})
    BY <1>6, <2>7
  <2> QED BY <1>3, <1>6, <2>3, <2>4, <2>5, <2>6, <2>7, <2>8, ResumeRuns
<1>9. CASE ~S!AllAcknowledged(h, f)
  <2>1. sAir' = rest /\ UNCHANGED <<unvisited, sFinished>> /\ flagged'[h] # {}
    BY <1>1, <1>4, <1>5, <1>9 DEF S!AllAcknowledged
  <2>2. DOMAIN sAir' = DOMAIN sAir \ {f} /\ \A x1 \in DOMAIN sAir' : sAir'[x1] = 1
    BY <2>1, <1>3 DEF SRun
  <2>3. ASSUME NEW x1 \in DOMAIN sAir'
        PROVE  \/ x1.type = "visited" /\ x1.from = h /\ x1.to \in flagged'[h]
               \/ x1.type = "ack" /\ x1.to = h /\ x1.from \in flagged'[h]
    <3>1. x1 = Fr(x1.type, x1.from, x1.to) /\ x1 \in DOMAIN sAir /\ x1 # f
      BY <2>2, FrameSame
    <3>2. x1 # Fr("visited", h, m) /\ x1 # Fr("ack", m, h)
      BY <3>1, <1>2
    <3> QED BY <3>1, <3>2, <1>5 DEF Halts
  <2>4. ASSUME NEW x1 \in flagged'[h]
        PROVE  Fr("visited", h, x1) \in DOMAIN sAir' <=> Fr("ack", x1, h) \notin DOMAIN sAir'
    <3>1. x1 # m /\ x1 \in flagged[h]
      BY <1>5
    <3>2. Fr("visited", h, x1) # f /\ Fr("ack", x1, h) # f
      BY <3>1, <1>2 DEF Fr
    <3> QED BY <3>1, <3>2, <2>2 DEF Halts
  <2>5. ASSUME NEW n \in Large, NEW x1 \in S!ToSet(unvisited[n]), x1 \in Disc(sParent)
        PROVE  Fr("visited", x1, n) \in DOMAIN sAir'
    <3>1. Fr("visited", x1, n) \in DOMAIN sAir
      BY <2>5 DEF Halts
    <3>2. Fr("visited", x1, n) # f
      BY <1>2 DEF Fr
    <3> QED BY <3>1, <3>2, <2>2
  <2>6. \A n \in Large : S!NeighboursOf(n) \subseteq S!ToSet(unvisited[n]) \cup Disc(sParent)
    BY DEF Halts
  <2>7. Halts(h)'
    BY <1>4, <1>6, <1>7, <2>1, <2>3, <2>4, <2>5, <2>6 DEF Halts, S!ToSet
  <2>8. Known' /\ Grown(sParent, h)' /\ Joined(sParent, h)'
    BY <1>4, <1>6, <1>7 DEF Known, Grown, Joined
  <2> QED BY <2>2, <2>7, <2>8, <1>5 DEF SRun
<1> QED BY <1>8, <1>9

LEMMA ReturnRuns ==
  ASSUME SInv, NEW h \in Large, NEW m \in Large, SRun(h), Comes(h, m),
         NEW f \in DOMAIN sAir, S!ReceiveReturn(f.to, f)
  PROVE  \E n \in Large : SRun(n)'
<1>1. /\ f = Fr("return", m, h) /\ sAir[f] = 1 /\ f.to = h /\ f.from = m
  BY DEF SRun, Comes, Fr
<1>2. PICK rest : rest = S!Taken(f)
  OBVIOUS
<1>3. SBag(rest) /\ DOMAIN rest = {}
  <2>1. DOMAIN sAir = {f}
    BY <1>1 DEF Comes
  <2> QED BY <1>1, <1>2, <2>1, LastTaken
<1>4. /\ sChildren' = [sChildren EXCEPT ![h] = Append(@, m)] /\ S!Resume(h, rest)
      /\ UNCHANGED <<sLink, announced, begun, sParent, neighbours, flagged, discovered>>
  BY <1>1, <1>2 DEF S!ReceiveReturn
<1>5. PICK P : P = sParent
  OBVIOUS
<1>6. /\ Known /\ Grown(P, h) /\ Joined(P, h) /\ sFinished = 0
      /\ Fathered(P, h, sChildren, {m}) /\ m \in Disc(P) /\ P[m] = h /\ m # h
      /\ m \notin S!ToSet(sChildren[h])
  BY <1>5 DEF SRun, Comes
<1>7. m \notin Up(P, h)
  BY <1>6 DEF Grown
<1>8. /\ Distinct(sChildren'[h]) /\ S!ToSet(sChildren'[h]) = S!ToSet(sChildren[h]) \cup {m}
      /\ \A n \in Large : n # h => sChildren'[n] = sChildren[n]
  <2>1. sChildren[h] \in Seq(Large) /\ Distinct(sChildren[h])
    BY <1>6 DEF SInv, SShape, Fathered
  <2>2. /\ S!ToSet(Append(sChildren[h], m)) = S!ToSet(sChildren[h]) \cup {m}
        /\ Distinct(Append(sChildren[h], m))
    BY <2>1, <1>6, Appended
  <2>3. sChildren'[h] = Append(sChildren[h], m) /\ \A n \in Large : n # h => sChildren'[n] = sChildren[n]
    BY <1>4 DEF SInv, SShape
  <2> QED BY <2>2, <2>3
<1>9. Fathered(P, h, sChildren', {})
  <2>1. \A n \in Large : Distinct(sChildren'[n])
    BY <1>6, <1>8 DEF Fathered
  <2>2. ASSUME NEW n \in Large, NEW x1 \in S!ToSet(sChildren'[n])
        PROVE  P[x1] = n /\ x1 # n /\ x1 \notin Up(P, h)
    <3>1. CASE x1 \in S!ToSet(sChildren[n])
      BY <3>1, <1>6 DEF Fathered
    <3>2. CASE x1 \notin S!ToSet(sChildren[n])
      <4>1. n = h /\ x1 = m
        BY <3>2, <1>8
      <4> QED BY <4>1, <1>6, <1>7
    <3> QED BY <3>1, <3>2
  <2>3. ASSUME NEW x1 \in Disc(P), P[x1] # x1 PROVE x1 \in S!ToSet(sChildren'[P[x1]]) \/ x1 \in Up(P, h)
    <3>1. P[x1] \in Large
      BY <1>6 DEF Grown, Disc
    <3>2. x1 \in S!ToSet(sChildren[P[x1]]) \/ x1 \in Up(P, h) \/ x1 = m
      BY <2>3, <1>6 DEF Fathered
    <3> QED BY <3>1, <3>2, <1>6, <1>8
  <2> QED BY <2>1, <2>2, <2>3 DEF Fathered
<1>10. \A n \in Large : flagged'[n] = {}
  BY <1>4 DEF SRun, Comes
<1>11. /\ \A n \in Large : S!ToSet(unvisited[n]) \cap Disc(sParent) = {}
       /\ \A n \in Large : S!NeighboursOf(n) \subseteq S!ToSet(unvisited[n]) \cup Disc(sParent)
  BY DEF Comes
<1>12. Grown(sParent, h) /\ Joined(sParent, h) /\ Fathered(sParent, h, sChildren', {})
  BY <1>5, <1>6, <1>9
<1>13. UNCHANGED <<sLink, announced, begun, sParent, neighbours>>
  BY <1>4
<1> QED BY <1>3, <1>4, <1>6, <1>10, <1>11, <1>12, <1>13, ResumeRuns

LEMMA SAnnounceBefore ==
  ASSUME SInv, SBefore, NEW n \in Large, S!Announce(n)
  PROVE  SBefore'
<1> DEFINE X == S!Message("neighbourhood", n, S!NeighboursOf(n))
<1>1. /\ announced' = announced \cup {n} /\ sAir' = S!Sending(sAir, X)
      /\ UNCHANGED <<sLink, begun, sParent, sChildren, neighbours, unvisited, flagged, discovered, sFinished>>
  BY DEF S!Announce
<1>2. \A f : f \in X <=> \E m \in S!NeighboursOf(n) : f = Fr("neighbourhood", n, m)
  BY DEF S!Message, Fr
<1> HIDE DEF X
<1>3. More(sAir, X, sAir')
  BY <1>1, Sent DEF SInv, SShape
<1>4. DOMAIN sAir' = DOMAIN sAir \cup X
  BY <1>3 DEF More
<1>5. \A f \in DOMAIN sAir' : f.type = "neighbourhood"
  BY <1>2, <1>4 DEF SBefore, Fr
<1>6. \A m : S!NeighboursOf(m)' = S!NeighboursOf(m)
  BY <1>1 DEF S!NeighboursOf
<1>7. ASSUME NEW x1 \in announced', NEW m \in S!NeighboursOf(x1)
      PROVE  x1 \in S!ToSet(neighbours[m]) \/ Fr("neighbourhood", x1, m) \in DOMAIN sAir'
  BY <1>1, <1>2, <1>4 DEF SBefore
<1>8. \A x1 \in Large : S!ToSet(unvisited'[x1]) = S!ToSet(neighbours'[x1])
  BY <1>1 DEF SBefore
<1>9. \A x1 \in Large : sParent'[x1] = Null /\ flagged'[x1] = {} /\ sChildren'[x1] = <<>>
  BY <1>1 DEF SBefore
<1>10. neighbours' = neighbours /\ ~begun' /\ sFinished' = 0
  BY <1>1 DEF SBefore
<1> QED BY <1>5, <1>6, <1>7, <1>8, <1>9, <1>10 DEF SBefore, S!ToSet

LEMMA SNeighbourhoodBefore ==
  ASSUME SInv, SBefore, NEW f \in DOMAIN sAir, S!ReceiveNeighbourhood(f.to, f)
  PROVE  SBefore'
<1>1. PICK n, m : n = f.to /\ m = f.from
  OBVIOUS
<1>2. /\ f = Fr("neighbourhood", m, n) /\ n \in Large /\ m \in Large /\ sAir[f] = 1
  BY <1>1, FrameSame DEF S!ReceiveNeighbourhood, SInv, SShape
<1>3. /\ neighbours' = [neighbours EXCEPT ![n] = Append(@, m)]
      /\ unvisited' = [unvisited EXCEPT ![n] = Append(@, m)]
      /\ sAir' = S!Taken(f)
      /\ UNCHANGED <<sLink, announced, begun, sParent, sChildren, flagged, discovered, sFinished>>
  BY <1>1 DEF S!ReceiveNeighbourhood
<1>4. DOMAIN sAir' = DOMAIN sAir \ {f}
  BY <1>2, <1>3, LastTaken
<1>5. /\ S!ToSet(neighbours'[n]) = S!ToSet(neighbours[n]) \cup {m}
      /\ S!ToSet(unvisited'[n]) = S!ToSet(unvisited[n]) \cup {m}
      /\ \A x1 \in Large : x1 # n => neighbours'[x1] = neighbours[x1] /\ unvisited'[x1] = unvisited[x1]
  <2>1. neighbours[n] \in Seq(Large) /\ unvisited[n] \in Seq(Large)
    BY <1>2 DEF SInv, SShape
  <2>2. /\ S!ToSet(Append(neighbours[n], m)) = S!ToSet(neighbours[n]) \cup {m}
        /\ S!ToSet(Append(unvisited[n], m)) = S!ToSet(unvisited[n]) \cup {m}
    BY <2>1, <1>2, Appended
  <2> QED BY <2>2, <1>2, <1>3 DEF SInv, SShape
<1>6. \A x1 : S!NeighboursOf(x1)' = S!NeighboursOf(x1)
  BY <1>3 DEF S!NeighboursOf
<1>7. ASSUME NEW x1 \in announced, NEW x2 \in S!NeighboursOf(x1)
      PROVE  x1 \in S!ToSet(neighbours'[x2]) \/ Fr("neighbourhood", x1, x2) \in DOMAIN sAir'
  <2>0. x2 \in Large
    BY DEF S!NeighboursOf
  <2>1. x1 \in S!ToSet(neighbours[x2]) \/ Fr("neighbourhood", x1, x2) \in DOMAIN sAir
    BY DEF SBefore
  <2>2. Fr("neighbourhood", x1, x2) = f => x1 = m /\ x2 = n
    BY <1>2 DEF Fr
  <2> QED BY <2>0, <2>1, <2>2, <1>4, <1>5
<1>8. \A x1 \in Large : S!ToSet(unvisited'[x1]) = S!ToSet(neighbours'[x1])
  BY <1>5 DEF SBefore
<1> QED BY <1>3, <1>4, <1>6, <1>7, <1>8 DEF SBefore, S!ToSet

LEMMA InitSDeep == S!Init => SDeep
<1> SUFFICES ASSUME S!Init PROVE SDeep
  OBVIOUS
<1>1. ~begun /\ announced = {} /\ sFinished = 0 /\ DOMAIN sAir = {}
  BY DEF S!Init, S!EmptyBag, S!SetToBag
<1>2. ASSUME NEW n \in Large
      PROVE  /\ sParent[n] = Null /\ flagged[n] = {} /\ sChildren[n] = <<>>
             /\ unvisited[n] = neighbours[n]
  BY DEF S!Init
<1>3. SBefore
  BY <1>1, <1>2 DEF SBefore
<1> QED BY <1>1, <1>3 DEF SDeep

LEMMA RunFrames ==
  ASSUME NEW h \in Large, SRun(h), NEW f \in DOMAIN sAir
  PROVE  \/ f.type \in {"visited", "ack"} /\ Halts(h)
         \/ f.type = "discover" /\ \E m \in Large : Goes(h, m)
         \/ f.type = "return" /\ \E m \in Large : Comes(h, m)
<1>1. CASE Halts(h)
  BY <1>1 DEF Halts
<1>2. ASSUME NEW m \in Large, Goes(h, m) PROVE f.type = "discover"
  BY <1>2 DEF Goes, Fr
<1>3. ASSUME NEW m \in Large, Comes(h, m) PROVE f.type = "return"
  BY <1>3 DEF Comes, Fr
<1>4. CASE IsOver
  BY <1>4 DEF IsOver
<1> QED BY <1>1, <1>2, <1>3, <1>4 DEF SRun

LEMMA StepSDeep == SInv /\ SDeep /\ [S!Next]_sVars => SDeep'
<1> SUFFICES ASSUME SInv, SDeep, [S!Next]_sVars PROVE SDeep'
  OBVIOUS
<1>1. CASE UNCHANGED sVars
  <2>1. UNCHANGED <<sLink, announced, begun, sParent, sChildren, neighbours, unvisited, flagged,
                    sAir, discovered, sFinished>>
    BY <1>1 DEF sVars
  <2>2. \A k1 : S!NeighboursOf(k1)' = S!NeighboursOf(k1)
    BY <2>1 DEF S!NeighboursOf
  <2>3. (SBefore => SBefore') /\ (SIdle => SIdle') /\ (S!NoLeaf' => S!NoLeaf)
    <3>1. SBefore => SBefore'
      <4> SUFFICES ASSUME SBefore PROVE SBefore'
        OBVIOUS
      <4>1. \A n \in Large : /\ sParent'[n] = Null /\ flagged'[n] = {} /\ sChildren'[n] = <<>>
                             /\ S!ToSet(unvisited'[n]) = S!ToSet(neighbours'[n])
        BY <2>1 DEF SBefore
      <4>2. ~begun' /\ sFinished' = 0 /\ \A f \in DOMAIN sAir' : f.type = "neighbourhood"
        BY <2>1 DEF SBefore
      <4>3. \A n \in announced' : \A m \in S!NeighboursOf(n) :
              n \in S!ToSet(neighbours'[m]) \/ Fr("neighbourhood", n, m) \in DOMAIN sAir'
        BY <2>1 DEF SBefore
      <4> QED BY <4>1, <4>2, <4>3, <2>2 DEF SBefore, S!ToSet
    <3>2. SIdle => SIdle'
      BY <2>1 DEF SIdle
    <3>3. S!NoLeaf' => S!NoLeaf
      BY <2>2 DEF S!NoLeaf, S!Cardinality
    <3> QED BY <3>1, <3>2, <3>3
  <2>4. ASSUME NEW h \in Large, SRun(h) PROVE SRun(h)'
    <3>1. Halts(h)' = Halts(h)
      BY <2>1, <2>2 DEF Halts, S!ToSet, Fathered
    <3>2. \A m : Goes(h, m)' = Goes(h, m)
      BY <2>1, <2>2 DEF Goes, S!ToSet, Fathered
    <3>3. \A m : Comes(h, m)' = Comes(h, m)
      BY <2>1, <2>2 DEF Comes, S!ToSet, Fathered
    <3>4. IsOver' = IsOver
      BY <2>1, <2>2 DEF IsOver, S!ToSet, Fathered
    <3>5. Known' = Known /\ Grown(sParent, h)' = Grown(sParent, h) /\ Joined(sParent, h)' = Joined(sParent, h)
      BY <2>1, <2>2 DEF Known, Grown, Joined, S!ToSet
    <3> QED BY <2>4, <2>1, <3>1, <3>2, <3>3, <3>4, <3>5 DEF SRun
  <2> QED BY <2>1, <2>2, <2>3, <2>4 DEF SDeep
<1>2. ASSUME ~begun, S!Next PROVE SDeep'
  <2>1. SBefore
    BY <1>2 DEF SDeep
  <2>2. ASSUME SBefore' PROVE SDeep'
    BY <2>2 DEF SDeep, SBefore
  <2>3. ASSUME NEW n \in Large, S!Announce(n) PROVE SDeep'
    BY <2>1, <2>2, <2>3, SAnnounceBefore
  <2>4. CASE S!Begin
    BY <2>1, <2>4, BeginRuns
  <2>5. ASSUME NEW f \in DOMAIN sAir, S!Receive(f.to, f) PROVE SDeep'
    <3>1. f.type = "neighbourhood"
      BY <2>1 DEF SBefore
    <3>2. S!ReceiveNeighbourhood(f.to, f)
      BY <2>5, <3>1 DEF S!Receive, S!ReceiveDiscover, S!ReceiveReturn, S!ReceiveVisited, S!ReceiveAck
    <3> QED BY <2>1, <2>2, <3>2, SNeighbourhoodBefore
  <2> QED BY <1>2, <2>3, <2>4, <2>5 DEF S!Next, S!BagToSet
<1>3. ASSUME begun, S!Next PROVE SDeep'
  <2>1. CASE S!NeighboursOf(searchRoot) = {}
    <3>1. SIdle
      BY <1>3, <2>1 DEF SDeep
    <3> QED BY <1>3, <3>1 DEF SIdle, S!Next, S!Announce, S!Begin, S!BagToSet
  <2>2. CASE ~S!NoLeaf
    <3>1. sLink' = sLink /\ begun'
      BY <1>3 DEF S!Next, S!Announce, S!Begin, S!Receive, S!ReceiveNeighbourhood, S!ReceiveDiscover,
             S!ReceiveReturn, S!ReceiveVisited, S!ReceiveAck, S!Discover
    <3>2. \A n : S!NeighboursOf(n)' = S!NeighboursOf(n)
      BY <3>1 DEF S!NeighboursOf
    <3> QED BY <2>1, <2>2, <3>1, <3>2 DEF SDeep, S!NoLeaf
  <2>3. CASE S!NeighboursOf(searchRoot) # {} /\ S!NoLeaf
    <3>1. PICK h \in Large : SRun(h)
      BY <1>3, <2>3 DEF SDeep
    <3>2. announced = Large
      BY <3>1 DEF SRun, Known
    <3>3. PICK f \in DOMAIN sAir : S!Receive(f.to, f)
      BY <1>3, <3>2 DEF S!Next, S!Announce, S!Begin, S!BagToSet
    <3>4. f.type # "neighbourhood"
      BY <3>1, RunFrames
    <3>5. sLink' = sLink /\ begun' = begun
      BY <3>3 DEF S!Receive, S!ReceiveNeighbourhood, S!ReceiveDiscover,
             S!ReceiveReturn, S!ReceiveVisited, S!ReceiveAck, S!Discover
    <3>6. \A n : S!NeighboursOf(n)' = S!NeighboursOf(n)
      BY <3>5 DEF S!NeighboursOf
    <3>7. \E n \in Large : SRun(n)'
      <4>1. CASE S!ReceiveDiscover(f.to, f)
        <5>1. PICK m \in Large : Goes(h, m)
          BY <3>1, <4>1, RunFrames DEF S!ReceiveDiscover
        <5> QED BY <2>3, <3>1, <4>1, <5>1, DiscoverRuns
      <4>2. CASE S!ReceiveReturn(f.to, f)
        <5>1. PICK m \in Large : Comes(h, m)
          BY <3>1, <4>2, RunFrames DEF S!ReceiveReturn
        <5> QED BY <3>1, <4>2, <5>1, ReturnRuns
      <4>3. CASE S!ReceiveVisited(f.to, f)
        <5>1. Halts(h)
          BY <3>1, <4>3, RunFrames DEF S!ReceiveVisited
        <5> QED BY <3>1, <4>3, <5>1, VisitedHalts
      <4>4. CASE S!ReceiveAck(f.to, f)
        <5>1. Halts(h)
          BY <3>1, <4>4, RunFrames DEF S!ReceiveAck
        <5> QED BY <3>1, <4>4, <5>1, AckRuns
      <4> QED BY <3>3, <3>4, <4>1, <4>2, <4>3, <4>4 DEF S!Receive, S!ReceiveNeighbourhood
    <3> QED BY <1>3, <2>3, <3>5, <3>6, <3>7 DEF SDeep
  <2> QED BY <2>1, <2>2, <2>3
<1> QED BY <1>1, <1>2, <1>3

LEMMA OneSearchDeep == SInv /\ SDeep => S!OneSearch
<1> SUFFICES ASSUME SInv, SDeep, S!NoLeaf, S!NeighboursOf(searchRoot) # {}, begun
             PROVE  sFinished + S!Cardinality({n \in Large : flagged[n] # {}})
                      + S!Cardinality({x \in S!Travelling \X (1..2) : x[2] <= sAir[x[1]]}) = 1
  BY DEF S!OneSearch
<1>1. PICK h \in Large : SRun(h)
  BY DEF SDeep
<1> DEFINE H == {n \in Large : flagged[n] # {}}
           G == {x \in S!Travelling \X (1..2) : x[2] <= sAir[x[1]]}
<1>2. S!Cardinality({}) = 0 /\ \A x : S!Cardinality({x}) = 1
  BY FS_EmptySet, FS_Singleton, SameSizeSearch
<1>3. flagged[h] = {} => H = {}
  BY <1>1 DEF SRun
<1>4. S!Travelling = {} => G = {}
  OBVIOUS
<1>5. \A f \in DOMAIN sAir : sAir[f] = 1
  BY <1>1 DEF SRun
<1>6. CASE Halts(h)
  <2>1. H = {h}
    BY <1>1, <1>6 DEF SRun, Halts
  <2>2. S!Travelling = {}
    BY <1>6 DEF S!Travelling, S!BagToSet, Halts
  <2>3. sFinished = 0
    BY <1>6 DEF Halts
  <2>4. S!Cardinality(H) = 1 /\ S!Cardinality(G) = 0
    BY <2>1, <2>2, <1>2, <1>4
  <2> QED BY <2>3, <2>4
<1>7. ASSUME NEW f, DOMAIN sAir = {f}, f.type \in {"discover", "return"} PROVE G = {<<f, 1>>}
  <2>1. S!Travelling = {f} /\ sAir[f] = 1
    BY <1>5, <1>7 DEF S!Travelling, S!BagToSet
  <2>2. ASSUME NEW x \in G PROVE x = <<f, 1>>
    <3>1. x \in {f} \X (1..2) /\ x[2] <= sAir[x[1]]
      BY <2>1
    <3>2. x = <<x[1], x[2]>> /\ x[1] = f /\ x[2] \in 1..2 /\ x[2] <= 1
      BY <2>1, <3>1
    <3>3. x[2] = 1
      BY <3>2
    <3> QED BY <3>2, <3>3
  <2>3. <<f, 1>> \in G
    BY <2>1
  <2> HIDE DEF G
  <2> QED BY <2>2, <2>3
<1>8. ASSUME NEW m \in Large, Goes(h, m) PROVE sFinished + S!Cardinality(H) + S!Cardinality(G) = 1
  <2>1. G = {<<Fr("discover", h, m), 1>>}
    BY <1>7, <1>8 DEF Goes, Fr
  <2>2. flagged[h] = {} /\ sFinished = 0
    BY <1>8 DEF Goes
  <2>3. S!Cardinality(H) = 0 /\ S!Cardinality(G) = 1
    BY <2>1, <2>2, <1>2, <1>3
  <2> HIDE DEF G, H
  <2> QED BY <2>2, <2>3
<1>9. ASSUME NEW m \in Large, Comes(h, m) PROVE sFinished + S!Cardinality(H) + S!Cardinality(G) = 1
  <2>1. G = {<<Fr("return", m, h), 1>>}
    BY <1>7, <1>9 DEF Comes, Fr
  <2>2. flagged[h] = {} /\ sFinished = 0
    BY <1>9 DEF Comes
  <2>3. S!Cardinality(H) = 0 /\ S!Cardinality(G) = 1
    BY <2>1, <2>2, <1>2, <1>3
  <2> HIDE DEF G, H
  <2> QED BY <2>2, <2>3
<1>10. CASE h = searchRoot /\ IsOver
  <2>1. S!Travelling = {} /\ flagged[h] = {} /\ sFinished = 1
    BY <1>10 DEF IsOver, S!Travelling, S!BagToSet
  <2>2. S!Cardinality(H) = 0 /\ S!Cardinality(G) = 0
    BY <2>1, <1>2, <1>3, <1>4
  <2> QED BY <2>1, <2>2
<1> QED BY <1>1, <1>6, <1>8, <1>9, <1>10 DEF SRun

LEMMA DepthFirstDeep == SInv /\ SDeep => S!DepthFirstTree
<1> SUFFICES ASSUME SInv, SDeep, S!NoLeaf, sFinished > 0
    PROVE  /\ \A n \in Large : S!InReach(n) => searchRoot \in S!Above(n)
           /\ \A n, m \in Large : m \in S!ToSet(sChildren[n]) <=> sParent[m] = n /\ m # n
           /\ \A n \in Large : Len(sChildren[n]) = S!Cardinality(S!ToSet(sChildren[n]))
           /\ \A e \in sLink : S!InReach(e[1]) => e[1] \in S!Above(e[2]) \/ e[2] \in S!Above(e[1])
  BY DEF S!DepthFirstTree
<1>1. begun /\ S!NeighboursOf(searchRoot) # {}
  BY DEF SDeep, SBefore, SIdle
<1>2. PICK h \in Large : SRun(h)
  BY <1>1 DEF SDeep
<1>3. h = searchRoot /\ IsOver
  <2>1. ~Halts(h) /\ \A m : ~Goes(h, m) /\ ~Comes(h, m)
    BY DEF Halts, Goes, Comes
  <2> QED BY <1>2, <2>1 DEF SRun
<1>4. PICK P : P = sParent
  OBVIOUS
<1>5. /\ Grown(P, searchRoot) /\ Joined(P, searchRoot) /\ Fathered(P, searchRoot, sChildren, {})
      /\ S!NeighboursOf(searchRoot) \subseteq Disc(P) /\ Disc(P) \subseteq Large
  BY <1>2, <1>3, <1>4 DEF SRun, IsOver, Disc
<1>6. P \in [Large -> Large \cup {Null}] /\ Null \notin Large /\ searchRoot \in Large
  BY <1>4, SFacts DEF SInv, SShape
<1>7. Up(P, searchRoot) = {searchRoot}
  BY <1>5, <1>6, UpFacts DEF Grown
<1>8. S!Linked(Disc(P)) /\ searchRoot \in Disc(P)
  BY <1>5, <1>7 DEF Joined, S!Linked, Grown
<1>9. \A n : S!InReach(n) => n \in Disc(P)
  BY <1>5, <1>8 DEF S!InReach
<1>10. \A n : S!Above(n) = Up(P, n)
  BY <1>4 DEF S!Above, S!Ascending, Up, Climbs
<1>11. \A n \in Large : S!InReach(n) => searchRoot \in S!Above(n)
  BY <1>5, <1>9, <1>10 DEF Grown
<1>12. ASSUME NEW n \in Large, NEW m \in Large
       PROVE  m \in S!ToSet(sChildren[n]) <=> P[m] = n /\ m # n
  <2>1. m \in S!ToSet(sChildren[n]) => P[m] = n /\ m # n
    BY <1>5 DEF Fathered
  <2>2. ASSUME P[m] = n, m # n PROVE m \in S!ToSet(sChildren[n])
    <3>1. m \in Disc(P) /\ m # searchRoot
      BY <2>2, <1>5, <1>6 DEF Disc, Grown
    <3> QED BY <3>1, <2>2, <1>5, <1>7 DEF Fathered
  <2> QED BY <2>1, <2>2
<1>13. ASSUME NEW n \in Large PROVE Len(sChildren[n]) = S!Cardinality(S!ToSet(sChildren[n]))
  <2>1. sChildren[n] \in Seq(Large) /\ Distinct(sChildren[n])
    BY <1>5 DEF SInv, SShape, Fathered
  <2> QED BY <2>1, LengthOfDistinct
<1>14. ASSUME NEW e \in sLink, S!InReach(e[1])
       PROVE  e[1] \in S!Above(e[2]) \/ e[2] \in S!Above(e[1])
  <2>1. e \in Large \X Large
    BY DEF SInv, SShape, S!DdfsAssumption
  <2>2. PICK n \in Large, m \in Large : e = <<n, m>>
    BY <2>1
  <2>3. n \in Disc(P) /\ m \in S!NeighboursOf(n)
    BY <2>2, <1>9, <1>14 DEF S!NeighboursOf
  <2>4. m \in Disc(P)
    BY <2>3, <1>8 DEF S!Linked
  <2> QED BY <2>2, <2>3, <2>4, <1>5, <1>10 DEF Joined
<1> QED BY <1>4, <1>11, <1>12, <1>13, <1>14

------------------------------------------------------------------------------
(***************************************************************************)
(* Breadth first search.  What is a number of links away at most.          *)
(***************************************************************************)
Beside(X) == UNION {B!NeighboursOf(n) : n \in X}

Grows(W) == /\ W[0] = {searchRoot}
            /\ \A k \in Nat : W[k + 1] = W[k] \cup Beside(W[k])

Layers(W) == W \in [Nat -> SUBSET Large] /\ Grows(W)

LEMMA Least ==
  ASSUME NEW X, X \in SUBSET Nat, X # {}
  PROVE  \E i \in X : \A j \in X : i <= j
<1>1. PICK i \in X : \A j \in X : ~(<<j, i>> \in OpToRel(<, Nat))
  BY NatLessThanWellFounded, WFMin
<1>2. ASSUME NEW j \in X PROVE ~(j < i)
  BY <1>1 DEF OpToRel
<1>3. i \in Nat
  OBVIOUS
<1>4. ASSUME NEW j \in X PROVE i <= j
  <2>1. j \in Nat
    OBVIOUS
  <2> QED BY <1>2, <1>3, <2>1
<1> QED BY <1>4

LEMMA LayersGrow ==
  ASSUME NEW W, Grows(W), NEW j \in Nat, NEW k \in Nat, j <= k
  PROVE  W[j] \subseteq W[k]
<1> DEFINE X == {i \in Nat : j <= i /\ ~(W[j] \subseteq W[i])}
<1> SUFFICES ASSUME X # {} PROVE FALSE
  OBVIOUS
<1>1. PICK i \in X : \A m \in X : i <= m
  <2> HIDE DEF X
  <2>1. X \in SUBSET Nat
    BY DEF X
  <2> QED BY <2>1, Least
<1>2. i # j
  BY <1>1
<1>3. i - 1 \in Nat /\ j <= i - 1 /\ i - 1 \notin X
  BY <1>1, <1>2
<1>4. W[i] = W[i - 1] \cup Beside(W[i - 1])
  BY <1>3 DEF Grows
<1> QED BY <1>1, <1>3, <1>4

LEMMA LayersAgree ==
  ASSUME NEW W, NEW Y, Grows(W), Grows(Y), NEW k \in Nat
  PROVE  W[k] = Y[k]
<1> DEFINE X == {i \in Nat : W[i] # Y[i]}
<1> SUFFICES ASSUME X # {} PROVE FALSE
  OBVIOUS
<1>1. PICK i \in X : \A m \in X : i <= m
  <2> HIDE DEF X
  <2>1. X \in SUBSET Nat
    BY DEF X
  <2> QED BY <2>1, Least
<1>2. i # 0
  BY <1>1 DEF Grows
<1>3. i - 1 \in Nat /\ i - 1 \notin X
  BY <1>1, <1>2
<1>4. W[i] = W[i - 1] \cup Beside(W[i - 1]) /\ Y[i] = Y[i - 1] \cup Beside(Y[i - 1])
  BY <1>3 DEF Grows
<1> QED BY <1>1, <1>3, <1>4

\* The layers up to the k-th.
Upto(Y, k) == /\ Y \in [0..k -> SUBSET Large] /\ Y[0] = {searchRoot}
              /\ \A i \in 1..k : Y[i] = Y[i - 1] \cup Beside(Y[i - 1])

LEMMA UptoAgree ==
  ASSUME NEW j \in Nat, NEW k \in Nat, NEW Y, NEW Z, Upto(Y, j), Upto(Z, k), NEW m \in Nat,
         m <= j, m <= k
  PROVE  Y[m] = Z[m]
<1> DEFINE X == {i \in Nat : i <= j /\ i <= k /\ Y[i] # Z[i]}
<1> SUFFICES ASSUME X # {} PROVE FALSE
  OBVIOUS
<1>1. PICK i \in X : \A n \in X : i <= n
  <2> HIDE DEF X
  <2>1. X \in SUBSET Nat
    BY DEF X
  <2> QED BY <2>1, Least
<1>2. i # 0
  BY <1>1 DEF Upto
<1>3. i - 1 \in Nat /\ i - 1 \notin X /\ i \in 1..j /\ i \in 1..k
  BY <1>1, <1>2
<1>4. Y[i] = Y[i - 1] \cup Beside(Y[i - 1]) /\ Z[i] = Z[i - 1] \cup Beside(Z[i - 1])
  BY <1>3 DEF Upto
<1>5. Y[i - 1] = Z[i - 1]
  BY <1>1, <1>3
<1> QED BY <1>1, <1>4, <1>5

LEMMA UptoExists ==
  ASSUME searchRoot \in Large, NEW k \in Nat
  PROVE  \E Y : Upto(Y, k)
<1> DEFINE X == {i \in Nat : ~\E Y : Upto(Y, i)}
<1> SUFFICES ASSUME X # {} PROVE FALSE
  OBVIOUS
<1>1. PICK i \in X : \A m \in X : i <= m
  <2> HIDE DEF X
  <2>1. X \in SUBSET Nat
    BY DEF X
  <2> QED BY <2>1, Least
<1>2. CASE i = 0
  <2>1. Upto([m \in 0..0 |-> {searchRoot}], 0)
    BY DEF Upto
  <2> QED BY <2>1, <1>1, <1>2
<1>3. CASE i # 0
  <2>1. i - 1 \in Nat /\ i - 1 \notin X
    BY <1>1, <1>3
  <2>2. PICK Y : Upto(Y, i - 1)
    BY <2>1
  <2> DEFINE Z == [m \in 0..i |-> IF m = i THEN Y[i - 1] \cup Beside(Y[i - 1]) ELSE Y[m]]
  <2>3. Beside(Y[i - 1]) \subseteq Large
    BY DEF Beside, B!NeighboursOf
  <2>4. Z \in [0..i -> SUBSET Large]
    BY <2>1, <2>2, <2>3 DEF Upto
  <2>5. Z[0] = {searchRoot}
    BY <1>3, <2>1, <2>2 DEF Upto
  <2>6. ASSUME NEW m \in 1..i PROVE Z[m] = Z[m - 1] \cup Beside(Z[m - 1])
    <3>1. CASE m = i
      BY <3>1, <2>1
    <3>2. CASE m # i
      <4>1. m \in 1..i - 1 /\ Z[m] = Y[m] /\ Z[m - 1] = Y[m - 1]
        BY <3>2, <2>1
      <4> QED BY <4>1, <2>2 DEF Upto
    <3> QED BY <3>1, <3>2
  <2> QED BY <2>4, <2>5, <2>6, <1>1 DEF Upto
<1> QED BY <1>2, <1>3

\* The definition by recursion has a solution.
LEMMA WithinLayers ==
  ASSUME searchRoot \in Large
  PROVE  Layers(B!Within)
<1> DEFINE Y(k) == CHOOSE Z : Upto(Z, k)
           W == [k \in Nat |-> Y(k)[k]]
<1>1. \A k \in Nat : Upto(Y(k), k)
  BY UptoExists
<1> HIDE DEF Y
<1>2. W \in [Nat -> SUBSET Large]
  BY <1>1 DEF Upto
<1>3. W[0] = {searchRoot}
  BY <1>1 DEF Upto
<1>4. ASSUME NEW k \in Nat PROVE W[k + 1] = W[k] \cup Beside(W[k])
  <2>1. Upto(Y(k + 1), k + 1) /\ Upto(Y(k), k)
    BY <1>1
  <2>2. Y(k + 1)[k] = Y(k)[k]
    BY <2>1, UptoAgree
  <2>3. k + 1 \in 1..k + 1 /\ (k + 1) - 1 = k
    OBVIOUS
  <2>4. Y(k + 1)[k + 1] = Y(k + 1)[k] \cup Beside(Y(k + 1)[k])
    BY <2>1, <2>3 DEF Upto
  <2> QED BY <2>2, <2>4
<1> HIDE DEF W
<1> DEFINE e(U) == [k \in Nat |-> IF k = 0 THEN {searchRoot}
                                  ELSE U[k - 1] \cup Beside(U[k - 1])]
<1>5. ASSUME NEW k \in Nat
      PROVE  W[k] = IF k = 0 THEN {searchRoot} ELSE W[k - 1] \cup Beside(W[k - 1])
  <2>1. k # 0 => k - 1 \in Nat /\ (k - 1) + 1 = k
    OBVIOUS
  <2> QED BY <2>1, <1>3, <1>4
<1>6. W = e(W)
  BY <1>2, <1>5
<1>7. B!Within = CHOOSE U : U = e(U)
  BY DEF B!Within, Beside
<1>8. B!Within = e(B!Within)
  BY <1>6, <1>7
<1>9. Grows(B!Within)
  <2>1. \A k \in Nat : B!Within[k] = e(B!Within)[k]
    BY <1>8
  <2>2. \A k \in Nat : k + 1 \in Nat /\ k + 1 # 0 /\ (k + 1) - 1 = k
    OBVIOUS
  <2> QED BY <2>1, <2>2 DEF Grows
<1>10. Grows(W)
  BY <1>3, <1>4 DEF Grows
<1>11. DOMAIN B!Within = Nat
  BY <1>8
<1>12. \A k \in Nat : B!Within[k] = W[k]
  BY <1>9, <1>10, LayersAgree
<1>13. B!Within = [k \in Nat |-> B!Within[k]]
  BY <1>8
<1>14. B!Within \in [Nat -> SUBSET Large]
  BY <1>2, <1>12, <1>13
<1> QED BY <1>9, <1>14 DEF Layers
------------------------------------------------------------------------------
(***************************************************************************)
(* The wave that is on its way, what has been labeled, and who waits for   *)
(* whom: k is the number of the wave, h the depths, r the stages, W the    *)
(* layers.                                                                 *)
(***************************************************************************)
Stages == {"none", "before", "in", "after", "end"}

BKids(n) == {m \in Large : bParent[m] = n /\ m # n}

Waits(n) == sendTo[n] \ echoed[n]

LabelTo(n, m) == [type |-> "label", from |-> n, to |-> m, level |-> level[n]]

StatusOf(m, n, r) == IF bParent[m] # n THEN "stop"
                     ELSE IF r[m] = "after" THEN "keepon" ELSE "end"

Answer(m, n, r) == [type |-> "echo", from |-> m, to |-> n, status |-> StatusOf(m, n, r)]

BShape ==
  /\ B!DbfsAssumption /\ link \in breadthNetworks /\ bAnnounced \subseteq Large
  /\ labeled \in [Large -> BOOLEAN] /\ level \in [Large -> 0..breadthMod - 1]
  /\ bParent \in [Large -> Large \cup {Null}]
  /\ bNeighbours \in [Large -> SUBSET Large] /\ children \in [Large -> SUBSET Large]
  /\ sendTo \in [Large -> SUBSET Large] /\ echoed \in [Large -> SUBSET Large]
  /\ bAir \subseteq B!Frame

Blank(n) == /\ bParent[n] = Null /\ children[n] = {} /\ sendTo[n] = {} /\ echoed[n] = {}

BBefore ==
  /\ \A n \in Large : ~labeled[n] /\ Blank(n) /\ bNeighbours[n] \subseteq B!NeighboursOf(n)
  /\ \A f \in bAir : f.type = "neighbourhood" /\ f.to \in B!NeighboursOf(f.from)
  /\ \A n \in bAnnounced : \A m \in B!NeighboursOf(n) :
       \/ n \in bNeighbours[m]
       \/ \E f \in bAir : f.type = "neighbourhood" /\ f.from = n /\ f.to = m
  /\ finished = 0 /\ level[searchRoot] = 0

\* A labeled node and the nodes above it.
Placed(n, k, h, r, W) ==
  IF labeled[n]
  THEN /\ r[n] # "none" /\ h[n] <= k + 1
       /\ h[n] = k + 1 => r[n] \in {"after", "end"}
       /\ n = searchRoot => bParent[n] = n /\ h[n] = 0 /\ r[n] \in {"in", "end"}
       /\ n # searchRoot => /\ bParent[n] \in B!NeighboursOf(n) /\ labeled[bParent[n]]
                            /\ h[n] = h[bParent[n]] + 1
       /\ n \in W[h[n]]
       /\ h[n] > 0 => n \notin W[h[n] - 1]
       /\ h[n] < breadthMod => level[n] = h[n]
  ELSE r[n] = "none" /\ Blank(n)

\* A node that the wave has not sent to its neighbours.
Newest(n, k, h, r) ==
  (r[n] = "before" /\ h[n] = k) \/ (r[n] = "after" /\ h[n] = k + 1) =>
    BKids(n) = {} /\ sendTo[n] = B!NeighboursOf(n) \ {bParent[n]}

Passed(n, k, h, r) ==
  (r[n] = "before" /\ h[n] < k) \/ (r[n] = "after" /\ h[n] <= k) =>
    /\ sendTo[n] \subseteq BKids(n)
    /\ \A m \in BKids(n) : r[m] = IF m \in sendTo[n] THEN r[n] ELSE "end"

Ended(n, r) == r[n] = "end" => sendTo[n] = {} /\ \A m \in BKids(n) : r[m] = "end"

Covered(n, k, h, r) ==
  /\ r[n] = "end" \/ (r[n] = "after" /\ h[n] <= k) => \A m \in B!NeighboursOf(n) : labeled[m]
  /\ r[n] = "in" /\ h[n] = k => \A m \in B!NeighboursOf(n) : labeled[m] \/ LabelTo(n, m) \in bAir

\* What a node in the wave waits for from m.
Expects(n, m, k, h, r) ==
  /\ m \in BKids(n) => \/ r[m] = "before" /\ LabelTo(n, m) \in bAir
                       \/ r[m] = "in"
                       \/ r[m] \in {"after", "end"} /\ Answer(m, n, r) \in bAir
  /\ m \notin BKids(n) =>
       h[n] = k /\ (LabelTo(n, m) \in bAir \/ (labeled[m] /\ Answer(m, n, r) \in bAir))

Waiting(n, k, h, r) ==
  r[n] = "in" =>
    /\ Waits(n) # {}
    /\ \A m \in echoed[n] : m \in BKids(n) /\ r[m] = "after"
    /\ \A m \in BKids(n) : m \notin sendTo[n] => r[m] = "end"
    /\ \A m \in Waits(n) : Expects(n, m, k, h, r)

Sets(n, r) == /\ echoed[n] \subseteq sendTo[n] /\ sendTo[n] \subseteq B!NeighboursOf(n)
              /\ r[n] \in {"before", "after"} => sendTo[n] # {} /\ n # searchRoot

Due(f, r) ==
  \/ /\ f.type = "label" /\ f = LabelTo(f.from, f.to) /\ r[f.from] = "in"
     /\ f.to \in Waits(f.from)
     /\ f.to \in BKids(f.from) => r[f.to] = "before"
  \/ /\ f.type = "echo" /\ f = Answer(f.from, f.to, r) /\ r[f.to] = "in"
     /\ f.from \in Waits(f.to) /\ labeled[f.from]
     /\ f.from \in BKids(f.to) => r[f.from] \in {"after", "end"}
     /\ LabelTo(f.to, f.from) \notin bAir

Tallied(n, r) == /\ children[n] \subseteq BKids(n)
                 /\ \A m \in BKids(n) : m \in children[n] \/ Answer(m, n, r) \in bAir

BRun(k, h, r, W) ==
  /\ labeled[searchRoot] /\ bAnnounced = Large
  /\ \A n \in Large : bNeighbours[n] = B!NeighboursOf(n)
  /\ \A n \in Large : Placed(n, k, h, r, W)
  /\ \A n \in W[k] : labeled[n]
  /\ \A n \in Large : labeled[n] =>
       /\ Sets(n, r) /\ Newest(n, k, h, r) /\ Passed(n, k, h, r) /\ Ended(n, r)
       /\ Covered(n, k, h, r) /\ Waiting(n, k, h, r)
  /\ \A f \in bAir : Due(f, r)
  /\ \A n \in Large : Tallied(n, r)
  /\ finished = IF r[searchRoot] = "end" THEN 1 ELSE 0

Ghosts(k, h, r, W) == k \in Nat /\ h \in [Large -> Nat] /\ r \in [Large -> Stages] /\ Layers(W)

WInv == /\ BShape
        /\ BBefore \/ \E k, h, r, W : Ghosts(k, h, r, W) /\ BRun(k, h, r, W)

BNeighbours == \A n, m \in Large : m \in B!NeighboursOf(n) => n \in B!NeighboursOf(m) /\ n # m

LEMMA BLinks ==
  ASSUME BShape
  PROVE  BNeighbours /\ \A n \in Large : B!NeighboursOf(n) \subseteq Large
BY DEF BShape, B!DbfsAssumption, BNeighbours, B!NeighboursOf

LEMMA BFrames ==
  ASSUME BShape, NEW f \in bAir
  PROVE  /\ f.from \in Large /\ f.to \in Large
         /\ f.type \in {"neighbourhood", "label", "echo"}
         /\ f.type = "neighbourhood" => f = [type |-> "neighbourhood", from |-> f.from, to |-> f.to]
         /\ f.type = "label" => f.level \in 0..breadthMod - 1
         /\ f.type = "echo" => f.status \in {"keepon", "stop", "end"}
BY DEF BShape, B!Frame
LEMMA BLinked ==
  ASSUME link' = link
  PROVE  /\ \A n : B!NeighboursOf(n)' = B!NeighboursOf(n)
         /\ \A W : Layers(W) => Layers(W)'
BY DEF B!NeighboursOf, Layers, Grows, Beside

\* Who waits for the sender of a label or of an echo, and what for.
LEMMA LabelHeard ==
  ASSUME BShape, NEW k, NEW h, NEW r, NEW W, Ghosts(k, h, r, W), BRun(k, h, r, W),
         NEW f \in bAir, f.type = "label"
  PROVE  /\ f.from \in Large /\ f.to \in Large /\ labeled[f.from] /\ r[f.from] = "in"
         /\ f.level = level[f.from] /\ f = LabelTo(f.from, f.to)
         /\ f.to \in Waits(f.from) /\ f.to \in B!NeighboursOf(f.from)
         /\ Answer(f.to, f.from, r) \notin bAir
         /\ f.to \in BKids(f.from) => r[f.to] = "before"
         /\ f.to \notin BKids(f.from) => h[f.from] = k
         /\ h[f.from] <= k
<1>1. f.from \in Large /\ f.to \in Large
  BY BFrames
<1>2. /\ f = LabelTo(f.from, f.to) /\ r[f.from] = "in" /\ f.to \in Waits(f.from)
      /\ f.to \in BKids(f.from) => r[f.to] = "before"
  BY DEF BRun, Due
<1>3. labeled[f.from] /\ h[f.from] <= k
  BY <1>1, <1>2 DEF BRun, Placed, Ghosts
<1>4. f.level = level[f.from]
  BY <1>2 DEF LabelTo
<1>5. f.to \in B!NeighboursOf(f.from)
  BY <1>1, <1>2, <1>3 DEF BRun, Sets, Waits
<1>6. Expects(f.from, f.to, k, h, r)
  BY <1>1, <1>2, <1>3 DEF BRun, Waiting
<1>7. f.to \notin BKids(f.from) => h[f.from] = k
  BY <1>6 DEF Expects
<1>8. Answer(f.to, f.from, r) \notin bAir
  <2> DEFINE g == Answer(f.to, f.from, r)
  <2> SUFFICES ASSUME g \in bAir PROVE FALSE
    OBVIOUS
  <2>1. g.type = "echo" /\ g.from = f.to /\ g.to = f.from
    BY DEF Answer
  <2>2. Due(g, r)
    BY DEF BRun
  <2> HIDE DEF g
  <2>3. LabelTo(g.to, g.from) \notin bAir
    BY <2>1, <2>2 DEF Due
  <2> QED BY <2>1, <2>3, <1>2
<1> QED BY <1>1, <1>2, <1>3, <1>4, <1>5, <1>7, <1>8

LEMMA EchoHeard ==
  ASSUME BShape, NEW k, NEW h, NEW r, NEW W, Ghosts(k, h, r, W), BRun(k, h, r, W),
         NEW f \in bAir, f.type = "echo"
  PROVE  /\ f.from \in Large /\ f.to \in Large /\ labeled[f.from] /\ labeled[f.to]
         /\ f = Answer(f.from, f.to, r) /\ f.status = StatusOf(f.from, f.to, r)
         /\ r[f.to] = "in"
         /\ f.from \in Waits(f.to) /\ f.from \in B!NeighboursOf(f.to)
         /\ f.from \in BKids(f.to) => r[f.from] \in {"after", "end"}
         /\ f.from \notin BKids(f.to) => h[f.to] = k
         /\ LabelTo(f.to, f.from) \notin bAir
         /\ h[f.to] <= k
<1>1. f.from \in Large /\ f.to \in Large
  BY BFrames
<1>2. /\ f = Answer(f.from, f.to, r) /\ r[f.to] = "in" /\ f.from \in Waits(f.to)
      /\ labeled[f.from]
      /\ f.from \in BKids(f.to) => r[f.from] \in {"after", "end"}
      /\ LabelTo(f.to, f.from) \notin bAir
  BY DEF BRun, Due
<1>3. labeled[f.to] /\ h[f.to] <= k
  BY <1>1, <1>2 DEF BRun, Placed, Ghosts
<1>4. f.status = StatusOf(f.from, f.to, r)
  BY <1>2 DEF Answer
<1>5. f.from \in B!NeighboursOf(f.to)
  BY <1>1, <1>2, <1>3 DEF BRun, Sets, Waits
<1>6. Expects(f.to, f.from, k, h, r)
  BY <1>1, <1>2, <1>3 DEF BRun, Waiting
<1>7. f.from \notin BKids(f.to) => h[f.to] = k
  BY <1>6 DEF Expects
<1> QED BY <1>1, <1>2, <1>3, <1>4, <1>5, <1>7
LEMMA FirstLabelShape ==
  ASSUME BShape, NEW k, NEW h, NEW r, NEW W, Ghosts(k, h, r, W), BRun(k, h, r, W),
         NEW f \in bAir, B!FirstLabel(f.to, f)
  PROVE  BShape'
<1>1. /\ f.from \in Large /\ f.to \in Large
      /\ f.level \in 0..breadthMod - 1 /\ f.type = "label"
  BY BFrames DEF B!FirstLabel
<1>2. breadthMod \in Nat \ {0}
  BY DEF BShape, B!DbfsAssumption
<1>3. (f.level + 1) % breadthMod \in 0..breadthMod - 1
  BY <1>1, <1>2
<1>4. /\ labeled' \in [Large -> BOOLEAN] /\ level' \in [Large -> 0..breadthMod - 1]
      /\ bParent' \in [Large -> Large \cup {Null}]
  BY <1>1, <1>3 DEF BShape, B!FirstLabel
<1>5. /\ bNeighbours' \in [Large -> SUBSET Large] /\ children' \in [Large -> SUBSET Large]
      /\ sendTo' \in [Large -> SUBSET Large] /\ echoed' \in [Large -> SUBSET Large]
  BY <1>1 DEF BShape, B!FirstLabel
<1>6. bAir' \subseteq B!Frame
  BY <1>1 DEF BShape, B!FirstLabel, B!Echo, B!Frame
<1> QED BY <1>4, <1>5, <1>6 DEF BShape, B!FirstLabel, B!DbfsAssumption, B!Frame

LEMMA FirstLabelRun ==
  ASSUME BShape, NEW k, NEW h, NEW r, NEW W, Ghosts(k, h, r, W), BRun(k, h, r, W),
         NEW f \in bAir, B!FirstLabel(f.to, f)
  PROVE  \E h1, r1 : Ghosts(k, h1, r1, W)' /\ BRun(k, h1, r1, W)'
<1> DEFINE n == f.to
           p == f.from
<1>1. /\ p \in Large /\ n \in Large /\ labeled[p] /\ r[p] = "in" /\ f.level = level[p]
      /\ f = LabelTo(p, n) /\ n \in Waits(p) /\ n \in B!NeighboursOf(p)
      /\ Answer(n, p, r) \notin bAir /\ h[p] <= k
      /\ n \notin BKids(p) => h[p] = k
  BY LabelHeard DEF B!FirstLabel
<1>2. ~labeled[n] /\ r[n] = "none" /\ Blank(n) /\ n # p
  BY <1>1 DEF B!FirstLabel, BRun, Placed
<1>3. /\ Null \notin Large /\ searchRoot \in Large /\ breadthMod \in Nat \ {0}
      /\ BNeighbours /\ k \in Nat /\ h \in [Large -> Nat] /\ r \in [Large -> Stages] /\ Layers(W)
  BY BLinks DEF BShape, B!DbfsAssumption, Ghosts
<1>4. n \notin BKids(p) /\ h[p] = k /\ n # searchRoot /\ p \in B!NeighboursOf(n)
  BY <1>1, <1>2, <1>3 DEF BKids, Blank, BRun, BNeighbours
<1>5. PICK h1 : h1 = [h EXCEPT ![n] = k + 1]
  OBVIOUS
<1>6. PICK r1 : r1 = [r EXCEPT ![n] = IF B!NeighboursOf(n) \ {p} = {} THEN "end" ELSE "after"]
  OBVIOUS
<1>7. /\ h1 \in [Large -> Nat] /\ h1[n] = k + 1 /\ \A m \in Large : m # n => h1[m] = h[m]
      /\ r1 \in [Large -> Stages] /\ r1[n] \in {"after", "end"}
      /\ r1[n] = "end" <=> B!NeighboursOf(n) \ {p} = {}
      /\ \A m \in Large : m # n => r1[m] = r[m]
  BY <1>1, <1>3, <1>5, <1>6 DEF Stages
<1>8. /\ \A m \in Large : m # n => /\ labeled'[m] = labeled[m] /\ bParent'[m] = bParent[m]
                                   /\ level'[m] = level[m] /\ sendTo'[m] = sendTo[m]
                                   /\ echoed'[m] = echoed[m]
      /\ labeled'[n] /\ bParent'[n] = p /\ level'[n] = (level[p] + 1) % breadthMod
      /\ sendTo'[n] = B!NeighboursOf(n) \ {p} /\ echoed'[n] = {}
      /\ bNeighbours' = bNeighbours /\ bAnnounced' = bAnnounced /\ finished' = finished
      /\ \A m \in Large : children'[m] = children[m]
  BY <1>1, <1>2 DEF B!FirstLabel, BShape, BRun, Blank
<1>9. link' = link /\ \A m : B!NeighboursOf(m)' = B!NeighboursOf(m)
  BY BLinked DEF B!FirstLabel
<1>10. /\ \A m \in Large : m # p => BKids(m)' = BKids(m)
       /\ BKids(p)' = BKids(p) \cup {n} /\ BKids(n) = {} /\ BKids(n)' = {}
  <2>1. BKids(n) = {}
    <3> SUFFICES ASSUME NEW m \in Large, bParent[m] = n, m # n PROVE FALSE
      BY DEF BKids
    <3> QED BY <1>1, <1>2, <1>3, <1>4 DEF BRun, Placed, Blank
  <2>2. \A m \in Large : m # p => BKids(m)' = BKids(m)
    BY <1>1, <1>2, <1>3, <1>8 DEF BKids, Blank
  <2>3. BKids(p)' = BKids(p) \cup {n}
    BY <1>1, <1>2, <1>3, <1>8 DEF BKids, Blank
  <2> QED BY <2>1, <2>2, <2>3, <1>2, <1>1
<1>11. bAir' = (bAir \ {f}) \cup {Answer(n, p, r1)'} /\ Answer(n, p, r1)' \notin bAir
  <2>1. B!Echo(n, p, IF B!NeighboursOf(n) \ {p} = {} THEN "end" ELSE "keepon")
          = {Answer(n, p, r1)'}
    BY <1>7, <1>8 DEF B!Echo, Answer, StatusOf
  <2>2. bAir' = (bAir \ {f}) \cup {Answer(n, p, r1)'}
    BY <2>1, <1>1 DEF B!FirstLabel, BRun
  <2>3. ASSUME Answer(n, p, r1)' \in bAir PROVE FALSE
    <3> DEFINE g == Answer(n, p, r1)'
    <3>1. g.type = "echo" /\ g.from = n /\ g.to = p
      BY DEF Answer
    <3>2. labeled[g.from]
      BY <2>3, <3>1, EchoHeard
    <3> QED BY <3>1, <3>2, <1>2
  <2> QED BY <2>2, <2>3
<1>12. /\ \A m, x1 \in Large : m # n => LabelTo(m, x1)' = LabelTo(m, x1)
       /\ \A m, x1 \in Large : m # n => Answer(m, x1, r1)' = Answer(m, x1, r)
       /\ \A m, x1 \in Large : LabelTo(m, x1) \in bAir /\ (m # p \/ x1 # n) => LabelTo(m, x1) \in bAir'
       /\ \A m, x1 \in Large : Answer(m, x1, r) \in bAir => Answer(m, x1, r) \in bAir'
  <2>1. \A m, x1 \in Large : m # n => LabelTo(m, x1)' = LabelTo(m, x1)
    BY <1>8 DEF LabelTo
  <2>2. \A m, x1 \in Large : m # n => Answer(m, x1, r1)' = Answer(m, x1, r)
    BY <1>7, <1>8 DEF Answer, StatusOf
  <2>3. \A m, x1 \in Large : LabelTo(m, x1) = f => m = p /\ x1 = n
    BY <1>1 DEF LabelTo
  <2>4. \A m, x1 \in Large : Answer(m, x1, r) # f
    BY <1>1 DEF LabelTo, Answer
  <2> QED BY <2>1, <2>2, <2>3, <2>4, <1>11
<1> HIDE DEF n, p
<1>13. ASSUME NEW m \in Large PROVE Placed(m, k, h1, r1, W)'
  <2>1. CASE m = n
    <3>1. n \in W[k + 1] /\ n \notin W[k]
      <4>1. p \in W[k]
        BY <1>1, <1>4 DEF BRun, Placed
      <4>2. n \in Beside(W[k])
        BY <4>1, <1>1 DEF Beside
      <4> QED BY <4>2, <1>2, <1>3 DEF Layers, Grows, BRun
    <3>2. k + 1 < breadthMod => level'[n] = k + 1
      <4>1. ASSUME k + 1 < breadthMod PROVE level'[n] = k + 1
        <5>1. level[p] = k
          BY <4>1, <1>1, <1>3, <1>4 DEF BRun, Placed
        <5> QED BY <4>1, <5>1, <1>3, <1>8
      <4> QED BY <4>1
    <3>3. bParent'[n] \in B!NeighboursOf(n)' /\ labeled'[bParent'[n]] /\ h1[n] = h1[bParent'[n]] + 1
      BY <1>1, <1>2, <1>4, <1>7, <1>8, <1>9
    <3>4. (k + 1) - 1 = k /\ k + 1 > 0
      BY <1>3
    <3> QED BY <2>1, <3>1, <3>2, <3>3, <3>4, <1>4, <1>7, <1>8, <1>3 DEF Placed
  <2>2. CASE m # n
    <3>1. Placed(m, k, h, r, W)
      BY DEF BRun
    <3>2. CASE labeled[m]
      <4>1. bParent[m] # n /\ bParent[m] \in Large
        BY <3>1, <3>2, <1>2, <1>3, <1>4 DEF Placed, B!NeighboursOf
      <4> QED BY <4>1, <3>1, <3>2, <2>2, <1>7, <1>8, <1>9 DEF Placed
    <3>3. CASE ~labeled[m]
      BY <3>1, <3>3, <2>2, <1>7, <1>8 DEF Placed, Blank
    <3> QED BY <3>2, <3>3
  <2> QED BY <2>1, <2>2
<1>14. ASSUME NEW m \in Large, labeled'[m]
       PROVE  (Sets(m, r1) /\ Newest(m, k, h1, r1))'
  <2>1. CASE m = n
    BY <2>1, <1>2, <1>3, <1>4, <1>7, <1>8, <1>9, <1>10 DEF Sets, Newest
  <2>2. CASE m # n
    <3>1. Sets(m, r) /\ Newest(m, k, h, r)
      BY <1>14, <1>8, <2>2 DEF BRun
    <3>2. CASE m = p
      BY <3>1, <3>2, <2>2, <1>1, <1>7, <1>8, <1>9 DEF Sets, Newest
    <3>3. CASE m # p
      BY <3>1, <3>3, <2>2, <1>7, <1>8, <1>9, <1>10 DEF Sets, Newest
    <3> QED BY <3>2, <3>3
  <2> QED BY <2>1, <2>2
<1>15. ASSUME NEW m \in Large, labeled'[m]
       PROVE  (Passed(m, k, h1, r1) /\ Ended(m, r1))'
  <2>1. CASE m = n
    BY <2>1, <1>3, <1>7, <1>8, <1>10 DEF Passed, Ended
  <2>2. CASE m = p
    BY <2>2, <1>1, <1>2, <1>7 DEF Passed, Ended
  <2>3. CASE m # n /\ m # p
    <3>1. Passed(m, k, h, r) /\ Ended(m, r)
      BY <1>15, <1>8, <2>3 DEF BRun
    <3>2. n \notin BKids(m)
      BY <1>2, <1>3, <2>3 DEF BKids, Blank
    <3>3. \A x1 \in BKids(m) : x1 \in Large /\ r1[x1] = r[x1]
      BY <3>2, <1>7 DEF BKids
    <3> QED BY <3>1, <3>3, <2>3, <1>7, <1>8, <1>10 DEF Passed, Ended
  <2> QED BY <2>1, <2>2, <2>3
<1>16. ASSUME NEW m \in Large, labeled'[m]
       PROVE  Covered(m, k, h1, r1)'
  <2>1. CASE m = n
    BY <2>1, <1>1, <1>2, <1>3, <1>7, <1>8, <1>9 DEF Covered
  <2>2. CASE m # n
    <3>1. Covered(m, k, h, r)
      BY <1>16, <1>8, <2>2 DEF BRun
    <3>2. \A x1 \in B!NeighboursOf(m) : x1 \in Large /\ (labeled[x1] => labeled'[x1])
      BY <1>8 DEF B!NeighboursOf
    <3>3. \A x1 \in B!NeighboursOf(m) : LabelTo(m, x1) \in bAir => labeled'[x1] \/ LabelTo(m, x1)' \in bAir'
      BY <3>2, <2>2, <1>8, <1>12
    <3> QED BY <3>1, <3>2, <3>3, <2>2, <1>7, <1>9 DEF Covered
  <2> QED BY <2>1, <2>2
<1>17. ASSUME NEW m \in Large, labeled'[m]
       PROVE  Waiting(m, k, h1, r1)'
  <2>1. CASE m = n
    BY <2>1, <1>7 DEF Waiting
  <2>2. CASE m # n
    <3> SUFFICES ASSUME r[m] = "in" PROVE Waiting(m, k, h1, r1)'
      BY <2>2, <1>7 DEF Waiting
    <3>1. Waiting(m, k, h, r) /\ Sets(m, r)
      BY <1>17, <1>8, <2>2 DEF BRun
    <3>2. Waits(m)' = Waits(m) /\ Waits(m) \subseteq Large
      BY <1>8, <2>2, <3>1 DEF Waits, Sets, B!NeighboursOf
    <3>3. n \notin BKids(m)
      BY <1>2, <1>3, <2>2 DEF BKids, Blank
    <3>4. BKids(m)' = BKids(m) \cup (IF m = p THEN {n} ELSE {})
      BY <1>10
    <3>5. \A x1 \in Large : x1 # n => r1[x1] = r[x1]
      BY <1>7
    <3>6. BKids(m) \subseteq Large
      BY DEF BKids
    <3>7. \A x1 \in echoed'[m] : x1 \in BKids(m)' /\ r1[x1] = "after"
      BY <3>1, <3>3, <3>4, <3>5, <3>6, <2>2, <1>8 DEF Waiting
    <3>8. \A x1 \in BKids(m)' : x1 \notin sendTo'[m] => r1[x1] = "end"
      <4>1. m = p => n \in sendTo[m]
        BY <1>1 DEF Waits
      <4> QED BY <4>1, <3>1, <3>3, <3>4, <3>5, <3>6, <2>2, <1>8 DEF Waiting
    <3>9. ASSUME NEW x1 \in Waits(m) PROVE Expects(m, x1, k, h1, r1)'
      <4>1. Expects(m, x1, k, h, r) /\ x1 \in Large
        BY <3>1, <3>2 DEF Waiting
      <4>2. CASE x1 = n /\ m = p
        BY <4>2, <3>4, <1>7, <1>11 DEF Expects
      <4>3. CASE x1 = n /\ m # p
        BY <4>3, <4>1, <3>3, <3>4, <2>2, <1>2, <1>7, <1>12 DEF Expects
      <4>4. CASE x1 # n
        <5>1. x1 \in BKids(m)' <=> x1 \in BKids(m)
          BY <4>4, <3>4
        <5>2. /\ r1[x1] = r[x1] /\ labeled'[x1] = labeled[x1] /\ h1[m] = h[m]
              /\ LabelTo(m, x1)' = LabelTo(m, x1) /\ Answer(x1, m, r1)' = Answer(x1, m, r)
              /\ LabelTo(m, x1) \in bAir => LabelTo(m, x1) \in bAir'
              /\ Answer(x1, m, r) \in bAir => Answer(x1, m, r) \in bAir'
          BY <4>1, <4>4, <2>2, <1>7, <1>8, <1>12
        <5> QED BY <5>1, <5>2, <4>1 DEF Expects
      <4> QED BY <4>2, <4>3, <4>4
    <3> QED BY <3>1, <3>2, <3>7, <3>8, <3>9 DEF Waiting
  <2> QED BY <2>1, <2>2
<1>18. ASSUME NEW g \in bAir' PROVE Due(g, r1)'
  <2>1. CASE g = Answer(n, p, r1)'
    <3>1. g.type = "echo" /\ g.from = n /\ g.to = p
      BY <2>1 DEF Answer
    <3>2. r1[p] = "in" /\ n \in Waits(p)' /\ labeled'[n] /\ r1[n] \in {"after", "end"}
      BY <1>1, <1>2, <1>7, <1>8 DEF Waits
    <3>3. LabelTo(p, n)' \notin bAir'
      <4>1. LabelTo(p, n)' = f /\ f # Answer(n, p, r1)'
        BY <1>1, <1>2, <1>12 DEF Answer, LabelTo
      <4> QED BY <4>1, <1>11
    <3> QED BY <2>1, <3>1, <3>2, <3>3 DEF Due
  <2>2. CASE g \in bAir /\ g # f
    <3>1. Due(g, r) /\ g.from \in Large /\ g.to \in Large
      BY <2>2, BFrames DEF BRun
    <3>2. CASE g.type = "label"
      <4>1. /\ g.from # n /\ g = LabelTo(g.from, g.to)
            /\ r[g.from] = "in" /\ g.to \in Waits(g.from)
            /\ g.to \in BKids(g.from) => r[g.to] = "before"
        BY <3>1, <3>2, <1>2 DEF Due
      <4>2. ~(g.from = p /\ g.to = n)
        BY <4>1, <2>2, <1>1
      <4>3. g.to \in BKids(g.from)' => g.to \in BKids(g.from) /\ g.to # n
        BY <4>1, <4>2, <3>1, <1>2, <1>3, <1>10 DEF BKids, Blank
      <4>4. g = LabelTo(g.from, g.to)' /\ r1[g.from] = "in" /\ g.to \in Waits(g.from)'
        BY <4>1, <3>1, <1>7, <1>8, <1>12 DEF Waits
      <4>5. g.to \in BKids(g.from)' => r1[g.to] = "before"
        BY <4>1, <4>3, <3>1, <1>7
      <4> QED BY <4>4, <4>5, <3>2 DEF Due
    <3>3. CASE g.type = "echo"
      <4>1. /\ g = Answer(g.from, g.to, r) /\ r[g.to] = "in" /\ g.from \in Waits(g.to) /\ labeled[g.from]
            /\ g.from \in BKids(g.to) => r[g.from] \in {"after", "end"}
            /\ LabelTo(g.to, g.from) \notin bAir
        BY <3>1, <3>3 DEF Due
      <4>2. g.from # n /\ g.to # n
        BY <4>1, <1>2
      <4>3. g = Answer(g.from, g.to, r1)' /\ r1[g.to] = "in" /\ g.from \in Waits(g.to)' /\ labeled'[g.from]
        BY <4>1, <4>2, <3>1, <1>7, <1>8, <1>12 DEF Waits
      <4>4. g.from \in BKids(g.to)' => r1[g.from] \in {"after", "end"}
        BY <4>1, <4>2, <3>1, <1>7, <1>10
      <4>5. LabelTo(g.to, g.from)' \notin bAir'
        <5>1. LabelTo(g.to, g.from)' = LabelTo(g.to, g.from)
          BY <4>2, <3>1, <1>12
        <5>2. LabelTo(g.to, g.from) # Answer(n, p, r1)'
          BY DEF LabelTo, Answer
        <5> QED BY <5>1, <5>2, <4>1, <1>11
      <4> QED BY <4>3, <4>4, <4>5, <3>3 DEF Due
    <3> QED BY <3>1, <3>2, <3>3 DEF Due
  <2> QED BY <2>1, <2>2, <1>11
<1>19. ASSUME NEW m \in Large PROVE Tallied(m, r1)'
  <2>1. Tallied(m, r) /\ BKids(m) \subseteq Large
    BY DEF BRun, BKids
  <2>2. children'[m] \subseteq BKids(m)'
    BY <2>1, <1>8, <1>10 DEF Tallied
  <2>3. ASSUME NEW x1 \in BKids(m)' PROVE x1 \in children'[m] \/ Answer(x1, m, r1)' \in bAir'
    <3>1. CASE x1 = n
      <4>1. m = p
        BY <3>1, <2>3, <1>8 DEF BKids
      <4> QED BY <3>1, <4>1, <1>11
    <3>2. CASE x1 # n
      <4>1. x1 \in BKids(m) /\ x1 \in Large
        BY <3>2, <2>3, <1>10, <2>1
      <4> QED BY <4>1, <3>2, <2>1, <1>8, <1>12 DEF Tallied
    <3> QED BY <3>1, <3>2
  <2> QED BY <2>2, <2>3 DEF Tallied
<1>20. \A m \in W[k] : labeled'[m]
  <2>1. W[k] \subseteq Large
    BY <1>3 DEF Layers
  <2> QED BY <2>1, <1>8 DEF BRun
<1>21. /\ labeled'[searchRoot] /\ bAnnounced' = Large
       /\ \A m \in Large : bNeighbours'[m] = B!NeighboursOf(m)'
       /\ finished' = IF r1[searchRoot] = "end" THEN 1 ELSE 0
  BY <1>3, <1>4, <1>7, <1>8, <1>9 DEF BRun
<1>22. BRun(k, h1, r1, W)'
  BY <1>13, <1>14, <1>15, <1>16, <1>17, <1>18, <1>19, <1>20, <1>21 DEF BRun
<1>23. Ghosts(k, h1, r1, W)'
  BY <1>3, <1>7, <1>9, BLinked DEF Ghosts
<1> QED BY <1>22, <1>23
LEMMA NextLevelRun ==
  ASSUME BShape, NEW k, NEW h, NEW r, NEW W, Ghosts(k, h, r, W), BRun(k, h, r, W),
         NEW f \in bAir, B!NextLevel(f.to, f)
  PROVE  BShape' /\ \E h1, r1 : Ghosts(k, h1, r1, W)' /\ BRun(k, h1, r1, W)'
<1> DEFINE n == f.to
           p == f.from
<1>1. /\ p \in Large /\ n \in Large /\ labeled[p] /\ r[p] = "in"
      /\ f = LabelTo(p, n) /\ n \in Waits(p) /\ n \in B!NeighboursOf(p)
      /\ Answer(n, p, r) \notin bAir /\ h[p] <= k
      /\ n \in BKids(p) => r[n] = "before"
      /\ f.type = "label"
  BY LabelHeard DEF B!NextLevel
<1>2. labeled[n] /\ bParent[n] = p
  BY DEF B!NextLevel
<1>3. /\ Null \notin Large /\ searchRoot \in Large /\ BNeighbours
      /\ k \in Nat /\ h \in [Large -> Nat] /\ r \in [Large -> Stages] /\ Layers(W)
  BY BLinks DEF BShape, B!DbfsAssumption, Ghosts
<1>4. n # p /\ n \in BKids(p) /\ r[n] = "before" /\ n # searchRoot
  <2>1. n # p
    BY <1>1, <1>3 DEF BNeighbours
  <2>2. n \in BKids(p)
    BY <2>1, <1>1, <1>2 DEF BKids
  <2> QED BY <2>1, <2>2, <1>1, <1>2, <1>3 DEF BRun, Placed
<1>5. /\ Sets(n, r) /\ Newest(n, k, h, r) /\ Passed(n, k, h, r) /\ Placed(n, k, h, r, W)
      /\ Tallied(n, r)
  BY <1>1, <1>2 DEF BRun
<1>6. h[n] <= k /\ h[n] \in Nat
  BY <1>1, <1>2, <1>3, <1>4, <1>5 DEF Placed
<1>7. PICK r1 : r1 = [r EXCEPT ![n] = "in"]
  OBVIOUS
<1>8. /\ r1 \in [Large -> Stages] /\ r1[n] = "in"
      /\ \A m \in Large : m # n => r1[m] = r[m]
  BY <1>1, <1>3, <1>7 DEF Stages
<1>9. /\ link' = link /\ labeled' = labeled /\ bParent' = bParent /\ level' = level
      /\ sendTo' = sendTo /\ bNeighbours' = bNeighbours /\ bAnnounced' = bAnnounced
      /\ finished' = finished /\ children' = children
      /\ echoed' = [echoed EXCEPT ![n] = {}]
      /\ bAir' = (bAir \ {f}) \cup B!Label(n, level[n], sendTo[n])
  BY DEF B!NextLevel
<1>10. /\ \A m : B!NeighboursOf(m)' = B!NeighboursOf(m)
       /\ \A m : BKids(m)' = BKids(m)
       /\ \A m, x1 : LabelTo(m, x1)' = LabelTo(m, x1)
       /\ \A m, x1 : Answer(m, x1, r1)' = Answer(m, x1, r1)
       /\ \A m \in Large : m # n => Waits(m)' = Waits(m) /\ echoed'[m] = echoed[m]
       /\ Waits(n)' = sendTo[n] /\ echoed'[n] = {}
  <2>1. /\ \A m \in Large : m # n => echoed'[m] = echoed[m]
        /\ echoed'[n] = {}
    BY <1>1, <1>9 DEF BShape
  <2> QED BY <2>1, <1>9, BLinked DEF BKids, LabelTo, Answer, StatusOf, Waits
<1>11. B!Label(n, level[n], sendTo[n]) = {LabelTo(n, m) : m \in sendTo[n]}
  BY DEF B!Label, LabelTo
<1>12. BShape'
  <2>1. B!Label(n, level[n], sendTo[n]) \subseteq B!Frame
    BY <1>1, <1>5 DEF B!Label, B!Frame, BShape
  <2> QED BY <2>1, <1>1, <1>9 DEF BShape, B!DbfsAssumption, B!Frame
<1>13. /\ \A m, x1 \in Large : LabelTo(m, x1) \in bAir /\ (m # p \/ x1 # n) => LabelTo(m, x1) \in bAir'
       /\ \A m, x1 \in Large : Answer(m, x1, r) \in bAir => Answer(m, x1, r) \in bAir'
       /\ \A m \in sendTo[n] : LabelTo(n, m) \in bAir'
       /\ \A m, x1 \in Large : (m # n \/ x1 # p) => Answer(m, x1, r1) = Answer(m, x1, r)
       /\ \A m, x1 : m # n /\ LabelTo(m, x1) \notin bAir => LabelTo(m, x1) \notin bAir'
  <2>1. \A m, x1 \in Large : LabelTo(m, x1) = f => m = p /\ x1 = n
    BY <1>1 DEF LabelTo
  <2>2. \A m, x1 \in Large : Answer(m, x1, r) # f
    BY <1>1 DEF LabelTo, Answer
  <2>3. \A m, x1 \in Large : (m # n \/ x1 # p) => Answer(m, x1, r1) = Answer(m, x1, r)
    BY <1>2, <1>8 DEF Answer, StatusOf
  <2>4. \A m, x1 : m # n => LabelTo(m, x1) \notin {LabelTo(n, y1) : y1 \in sendTo[n]}
    BY DEF LabelTo
  <2> QED BY <2>1, <2>2, <2>3, <2>4, <1>9, <1>11
<1> HIDE DEF n, p
<1>14. ASSUME NEW m \in Large PROVE Placed(m, k, h, r1, W)'
  <2>1. Placed(m, k, h, r, W)
    BY DEF BRun
  <2>2. CASE m = n
    BY <2>1, <2>2, <1>2, <1>4, <1>6, <1>8, <1>9, <1>10 DEF Placed
  <2>3. CASE m # n
    <3>1. Blank(m) => Blank(m)'
      BY <2>3, <1>9, <1>10 DEF Blank
    <3> QED BY <3>1, <2>1, <2>3, <1>8, <1>9, <1>10 DEF Placed
  <2> QED BY <2>2, <2>3
<1>15. ASSUME NEW m \in Large, labeled'[m]
       PROVE  /\ (Sets(m, r1) /\ Newest(m, k, h, r1))'
              /\ (Passed(m, k, h, r1) /\ Ended(m, r1))'
  <2>1. /\ Sets(m, r) /\ Newest(m, k, h, r) /\ Passed(m, k, h, r) /\ Ended(m, r)
    BY <1>15, <1>9 DEF BRun
  <2>2. CASE m = n
    BY <2>1, <2>2, <1>3, <1>8, <1>9, <1>10 DEF Sets, Newest, Passed, Ended
  <2>3. CASE m # n
    <3>1. r1[m] # "in" => n \notin BKids(m)
      BY <2>3, <1>1, <1>2, <1>8 DEF BKids
    <3>2. r1[m] # "in" => \A x1 \in BKids(m) : r1[x1] = r[x1]
      BY <3>1, <1>8 DEF BKids
    <3> QED BY <2>1, <2>3, <3>2, <1>8, <1>9, <1>10 DEF Sets, Newest, Passed, Ended
  <2> QED BY <2>2, <2>3
<1>16. ASSUME NEW m \in Large, labeled'[m]
       PROVE  Covered(m, k, h, r1)'
  <2>1. Covered(m, k, h, r)
    BY <1>16, <1>9 DEF BRun
  <2>2. CASE m = n
    <3>1. ASSUME h[n] = k, NEW x1 \in B!NeighboursOf(n)
          PROVE  labeled[x1] \/ LabelTo(n, x1) \in bAir'
      <4>1. x1 = p \/ x1 \in sendTo[n]
        BY <3>1, <1>2, <1>4, <1>5 DEF Newest
      <4> QED BY <4>1, <1>1, <1>13
    <3> QED BY <3>1, <2>2, <1>8, <1>9, <1>10 DEF Covered
  <2>3. CASE m # n
    <3>1. \A x1 \in B!NeighboursOf(m) : LabelTo(m, x1) \in bAir => labeled[x1] \/ LabelTo(m, x1)' \in bAir'
      BY <2>3, <1>2, <1>10, <1>13 DEF B!NeighboursOf
    <3> QED BY <3>1, <2>1, <2>3, <1>8, <1>9, <1>10 DEF Covered
  <2> QED BY <2>2, <2>3
<1>17. ASSUME NEW m \in Large, labeled'[m]
       PROVE  Waiting(m, k, h, r1)'
  <2>1. CASE m = n
    <3>1. sendTo[n] # {}
      BY <1>4, <1>5 DEF Sets
    <3>2. \A x1 \in BKids(n) : x1 \notin sendTo[n] => r1[x1] = "end"
      BY <1>3, <1>4, <1>5, <1>6, <1>8 DEF Newest, Passed, BKids
    <3>3. ASSUME NEW x1 \in sendTo[n] PROVE Expects(n, x1, k, h, r1)'
      <4>1. LabelTo(n, x1)' \in bAir'
        BY <1>10, <1>13
      <4>2. CASE h[n] = k
        BY <4>1, <4>2, <1>4, <1>5, <1>10 DEF Expects, Newest
      <4>3. CASE h[n] < k
        <5>1. x1 \in BKids(n) /\ r[x1] = "before" /\ x1 # n /\ x1 \in Large
          BY <3>3, <4>3, <1>4, <1>5 DEF Passed, BKids
        <5> QED BY <5>1, <4>1, <1>8, <1>10 DEF Expects
      <4> QED BY <4>2, <4>3, <1>3, <1>6
    <3> QED BY <2>1, <3>1, <3>2, <3>3, <1>9, <1>10 DEF Waiting
  <2>2. CASE m # n
    <3> SUFFICES ASSUME r[m] = "in" PROVE Waiting(m, k, h, r1)'
      BY <2>2, <1>8 DEF Waiting
    <3>1. Waiting(m, k, h, r) /\ Sets(m, r)
      BY <1>17, <1>9 DEF BRun
    <3>2. Waits(m)' = Waits(m) /\ Waits(m) \subseteq Large /\ echoed'[m] = echoed[m]
      BY <1>10, <2>2, <3>1 DEF Waits, Sets, B!NeighboursOf
    <3>3. \A x1 \in echoed[m] : x1 \in BKids(m) /\ r1[x1] = "after"
      BY <3>1, <1>4, <1>8 DEF Waiting, BKids
    <3>4. \A x1 \in BKids(m) : x1 \notin sendTo[m] => r1[x1] = "end"
      BY <3>1, <1>4, <1>8 DEF Waiting, BKids
    <3>5. ASSUME NEW x1 \in Waits(m) PROVE Expects(m, x1, k, h, r1)'
      <4>1. Expects(m, x1, k, h, r) /\ x1 \in Large
        BY <3>1, <3>2, <3>5 DEF Waiting
      <4>2. CASE x1 = n /\ m = p
        BY <4>2, <1>4, <1>8, <1>10 DEF Expects
      <4>3. CASE x1 # n \/ m # p
        <5>1. x1 \in BKids(m) => r1[x1] = r[x1]
          BY <4>1, <4>3, <1>2, <1>8 DEF BKids
        <5>2. /\ LabelTo(m, x1)' = LabelTo(m, x1) /\ Answer(x1, m, r1)' = Answer(x1, m, r)
              /\ LabelTo(m, x1) \in bAir => LabelTo(m, x1) \in bAir'
              /\ Answer(x1, m, r) \in bAir => Answer(x1, m, r) \in bAir'
          BY <4>1, <4>3, <1>10, <1>13
        <5> QED BY <5>1, <5>2, <4>1, <1>9, <1>10 DEF Expects
      <4> QED BY <4>2, <4>3
    <3> QED BY <3>1, <3>2, <3>3, <3>4, <3>5, <1>9, <1>10 DEF Waiting
  <2> QED BY <2>1, <2>2
<1>18. ASSUME NEW g \in bAir' PROVE Due(g, r1)'
  <2>1. CASE g \in {LabelTo(n, m) : m \in sendTo[n]}
    <3>1. PICK m \in sendTo[n] : g = LabelTo(n, m)
      BY <2>1
    <3>2. g.type = "label" /\ g.from = n /\ g.to = m
      BY <3>1 DEF LabelTo
    <3>3. m \in BKids(n) => r1[m] = "before"
      BY <1>3, <1>4, <1>5, <1>6, <1>8 DEF Newest, Passed, BKids
    <3> QED BY <3>1, <3>2, <3>3, <1>8, <1>10 DEF Due
  <2>2. CASE g \in bAir /\ g # f
    <3>1. Due(g, r) /\ g.from \in Large /\ g.to \in Large
      BY <2>2, BFrames DEF BRun
    <3>2. CASE g.type = "label"
      <4>1. /\ g = LabelTo(g.from, g.to)
            /\ r[g.from] = "in" /\ g.to \in Waits(g.from)
            /\ g.to \in BKids(g.from) => r[g.to] = "before"
        BY <3>1, <3>2 DEF Due
      <4>2. g.from # n /\ ~(g.from = p /\ g.to = n)
        BY <4>1, <2>2, <1>1, <1>4
      <4>3. g.to \in BKids(g.from) => g.to # n
        BY <4>2, <1>2 DEF BKids
      <4> QED BY <4>1, <4>2, <4>3, <3>1, <3>2, <1>8, <1>10 DEF Due
    <3>3. CASE g.type = "echo"
      <4>1. /\ g = Answer(g.from, g.to, r) /\ r[g.to] = "in" /\ g.from \in Waits(g.to) /\ labeled[g.from]
            /\ g.from \in BKids(g.to) => r[g.from] \in {"after", "end"}
            /\ LabelTo(g.to, g.from) \notin bAir
        BY <3>1, <3>3 DEF Due
      <4>2. g.to # n /\ (g.from \in BKids(g.to) => g.from # n)
        BY <4>1, <1>4
      <4>3. g.from # n \/ g.to # p
        BY <4>2, <1>4
      <4> QED BY <4>1, <4>2, <4>3, <3>1, <3>3, <1>8, <1>9, <1>10, <1>13 DEF Due
    <3> QED BY <3>1, <3>2, <3>3 DEF Due
  <2> QED BY <2>1, <2>2, <1>9, <1>11
<1>19. ASSUME NEW m \in Large PROVE Tallied(m, r1)'
  <2>1. Tallied(m, r) /\ BKids(m) \subseteq Large
    BY DEF BRun, BKids
  <2>2. ASSUME NEW x1 \in BKids(m) PROVE x1 \in children[m] \/ Answer(x1, m, r1)' \in bAir'
    <3>1. CASE x1 = n
      <4>1. m = p
        BY <3>1, <2>2, <1>2 DEF BKids
      <4> QED BY <3>1, <4>1, <2>1, <1>1, <1>4 DEF Tallied
    <3>2. CASE x1 # n
      BY <3>2, <2>1, <1>10, <1>13 DEF Tallied
    <3> QED BY <3>1, <3>2
  <2> QED BY <2>1, <2>2, <1>9, <1>10 DEF Tallied
<1>20. BRun(k, h, r1, W)'
  BY <1>4, <1>8, <1>9, <1>10, <1>14, <1>15, <1>16, <1>17, <1>18, <1>19, <1>3 DEF BRun
<1>21. Ghosts(k, h, r1, W)'
  BY <1>3, <1>8, <1>9, BLinked DEF Ghosts
<1> QED BY <1>12, <1>20, <1>21
LEMMA StopRun ==
  ASSUME BShape, NEW k, NEW h, NEW r, NEW W, Ghosts(k, h, r, W), BRun(k, h, r, W),
         NEW f \in bAir, B!Stop(f.to, f)
  PROVE  BShape' /\ \E h1, r1 : Ghosts(k, h1, r1, W)' /\ BRun(k, h1, r1, W)'
<1> DEFINE n == f.to
           p == f.from
<1>1. /\ p \in Large /\ n \in Large /\ labeled[p] /\ r[p] = "in"
      /\ f = LabelTo(p, n) /\ n \in Waits(p) /\ h[p] <= k
      /\ n \notin BKids(p) => h[p] = k
      /\ f.type = "label"
  BY LabelHeard DEF B!Stop
<1>2. labeled[n] /\ bParent[n] # p /\ n \notin BKids(p)
  BY DEF B!Stop, BKids
<1>3. k \in Nat /\ h \in [Large -> Nat] /\ r \in [Large -> Stages] /\ Layers(W)
  BY DEF Ghosts
<1>4. /\ link' = link /\ labeled' = labeled /\ bParent' = bParent /\ level' = level
      /\ sendTo' = sendTo /\ bNeighbours' = bNeighbours /\ bAnnounced' = bAnnounced
      /\ finished' = finished /\ children' = children /\ echoed' = echoed
      /\ bAir' = (bAir \ {f}) \cup {Answer(n, p, r)}
  BY <1>2 DEF B!Stop, B!Echo, Answer, StatusOf
<1>5. /\ \A m : B!NeighboursOf(m)' = B!NeighboursOf(m)
      /\ \A m : BKids(m)' = BKids(m)
      /\ \A m, x1 : LabelTo(m, x1)' = LabelTo(m, x1)
      /\ \A m, x1 : Answer(m, x1, r)' = Answer(m, x1, r)
      /\ \A m : Waits(m)' = Waits(m)
  BY <1>4, BLinked DEF BKids, LabelTo, Answer, StatusOf, Waits
<1>6. BShape'
  <2>1. Answer(n, p, r) \in B!Frame
    BY <1>1, <1>2 DEF Answer, StatusOf, B!Frame
  <2> QED BY <2>1, <1>4 DEF BShape, B!DbfsAssumption, B!Frame
<1>7. /\ \A m, x1 \in Large : LabelTo(m, x1) \in bAir /\ (m # p \/ x1 # n) => LabelTo(m, x1) \in bAir'
      /\ \A m, x1 \in Large : Answer(m, x1, r) \in bAir => Answer(m, x1, r) \in bAir'
      /\ Answer(n, p, r) \in bAir'
      /\ \A m, x1 : LabelTo(m, x1) \notin bAir \/ LabelTo(m, x1) = f => LabelTo(m, x1) \notin bAir'
  <2>1. \A m, x1 \in Large : LabelTo(m, x1) = f => m = p /\ x1 = n
    BY <1>1 DEF LabelTo
  <2>2. \A m, x1 \in Large : Answer(m, x1, r) # f
    BY <1>1 DEF LabelTo, Answer
  <2>3. \A m, x1 : LabelTo(m, x1) # Answer(n, p, r)
    BY DEF LabelTo, Answer
  <2> QED BY <2>1, <2>2, <2>3, <1>4
<1> HIDE DEF n, p
<1>8. ASSUME NEW m \in Large PROVE Placed(m, k, h, r, W)'
  <2>1. Placed(m, k, h, r, W)
    BY DEF BRun
  <2> QED BY <2>1, <1>4, <1>5 DEF Placed, Blank
<1>9. ASSUME NEW m \in Large, labeled'[m]
       PROVE  /\ (Sets(m, r) /\ Newest(m, k, h, r))'
              /\ (Passed(m, k, h, r) /\ Ended(m, r))'
  <2>1. /\ Sets(m, r) /\ Newest(m, k, h, r) /\ Passed(m, k, h, r) /\ Ended(m, r)
    BY <1>9, <1>4 DEF BRun
  <2> QED BY <2>1, <1>4, <1>5 DEF Sets, Newest, Passed, Ended
<1>10. ASSUME NEW m \in Large, labeled'[m]
       PROVE  Covered(m, k, h, r)'
  <2>1. Covered(m, k, h, r)
    BY <1>10, <1>4 DEF BRun
  <2>2. \A x1 \in B!NeighboursOf(m) : LabelTo(m, x1) \in bAir => labeled[x1] \/ LabelTo(m, x1)' \in bAir'
    BY <1>2, <1>5, <1>7 DEF B!NeighboursOf
  <2> QED BY <2>1, <2>2, <1>4, <1>5 DEF Covered
<1>11. ASSUME NEW m \in Large, labeled'[m]
       PROVE  Waiting(m, k, h, r)'
  <2> SUFFICES ASSUME r[m] = "in" PROVE Waiting(m, k, h, r)'
    BY DEF Waiting
  <2>1. Waiting(m, k, h, r) /\ Sets(m, r)
    BY <1>11, <1>4 DEF BRun
  <2>2. Waits(m) \subseteq Large
    BY <2>1 DEF Waits, Sets, B!NeighboursOf
  <2>3. ASSUME NEW x1 \in Waits(m) PROVE Expects(m, x1, k, h, r)'
    <3>1. Expects(m, x1, k, h, r) /\ x1 \in Large
      BY <2>1, <2>2 DEF Waiting
    <3>2. CASE x1 = n /\ m = p
      BY <3>2, <1>1, <1>2, <1>4, <1>5, <1>7 DEF Expects
    <3>3. CASE x1 # n \/ m # p
      BY <3>1, <3>3, <1>4, <1>5, <1>7 DEF Expects
    <3> QED BY <3>2, <3>3
  <2> QED BY <2>1, <2>3, <1>4, <1>5 DEF Waiting
<1>12. ASSUME NEW g \in bAir' PROVE Due(g, r)'
  <2>1. CASE g = Answer(n, p, r)
    <3>1. g.type = "echo" /\ g.from = n /\ g.to = p
      BY <2>1 DEF Answer
    <3>2. LabelTo(p, n) \notin bAir'
      BY <1>1, <1>7
    <3> QED BY <2>1, <3>1, <3>2, <1>1, <1>2, <1>4, <1>5 DEF Due
  <2>2. CASE g \in bAir /\ g # f
    <3>1. Due(g, r) /\ g.from \in Large /\ g.to \in Large
      BY <2>2, BFrames DEF BRun
    <3> QED BY <3>1, <1>4, <1>5, <1>7 DEF Due
  <2> QED BY <2>1, <2>2, <1>4
<1>13. ASSUME NEW m \in Large PROVE Tallied(m, r)'
  <2>1. Tallied(m, r) /\ BKids(m) \subseteq Large
    BY DEF BRun, BKids
  <2> QED BY <2>1, <1>4, <1>5, <1>7 DEF Tallied
<1>14. BRun(k, h, r, W)'
  BY <1>4, <1>5, <1>8, <1>9, <1>10, <1>11, <1>12, <1>13 DEF BRun
<1>15. Ghosts(k, h, r, W)'
  BY <1>3, <1>4, BLinked DEF Ghosts
<1> QED BY <1>6, <1>14, <1>15

\* What an echo changes at the node that gets it.
EchoStep(f, n, q, waves, hs, k, h, r) ==
  /\ n \in Large /\ q \in Large /\ labeled[n] /\ r[n] = "in" /\ labeled[q]
  /\ f = Answer(q, n, r) /\ q \in Waits(n) /\ LabelTo(n, q) \notin bAir
  /\ q \in BKids(n) => r[q] \in {"after", "end"}
  /\ h[n] <= k
  /\ waves = IF q \in BKids(n) /\ r[q] = "after" THEN sendTo[n] ELSE sendTo[n] \ {q}
  /\ hs = IF q \in BKids(n) /\ r[q] = "after" THEN echoed[n] \cup {q} ELSE echoed[n]
  /\ hs \subseteq waves /\ waves \ hs = Waits(n) \ {q}
  /\ link' = link /\ labeled' = labeled /\ bParent' = bParent /\ level' = level
  /\ bNeighbours' = bNeighbours /\ bAnnounced' = bAnnounced
  /\ \A m \in Large : m # n => /\ sendTo'[m] = sendTo[m] /\ echoed'[m] = echoed[m]
                               /\ children'[m] = children[m]
  /\ sendTo'[n] = waves
  /\ children'[n] = children[n] \cup (IF q \in BKids(n) THEN {q} ELSE {})
  /\ \A m : B!NeighboursOf(m)' = B!NeighboursOf(m)
  /\ \A m : BKids(m)' = BKids(m)
  /\ \A m, x1 : LabelTo(m, x1)' = LabelTo(m, x1)
  /\ \A m, x1, r1 : Answer(m, x1, r1)' = Answer(m, x1, r1)
  /\ \A m \in Large : m # n => Waits(m)' = Waits(m)
  /\ \A m \in BKids(n) : m \in Large /\ m # n

LEMMA EchoTaken ==
  ASSUME BShape, NEW k, NEW h, NEW r, NEW W, Ghosts(k, h, r, W), BRun(k, h, r, W),
         NEW f \in bAir, B!ReceiveEcho(f.to, f)
  PROVE  EchoStep(f, f.to, f.from, B!Remaining(f.to, f), B!Heard(f.to, f), k, h, r)
<1> DEFINE n == f.to
           q == f.from
           waves == B!Remaining(n, f)
           hs == B!Heard(n, f)
<1>1. /\ n \in Large /\ q \in Large /\ labeled[n] /\ r[n] = "in" /\ labeled[q]
      /\ f = Answer(q, n, r) /\ f.status = StatusOf(q, n, r)
      /\ q \in Waits(n) /\ LabelTo(n, q) \notin bAir
      /\ q \in BKids(n) => r[q] \in {"after", "end"}
      /\ h[n] <= k /\ q # n
  BY EchoHeard, BLinks DEF B!ReceiveEcho, BNeighbours
<1>2. Sets(n, r)
  BY <1>1 DEF BRun
<1>3. /\ bParent[q] = n <=> q \in BKids(n)
      /\ f.status \in {"keepon", "stop", "end"}
      /\ f.status = "keepon" <=> q \in BKids(n) /\ r[q] = "after"
      /\ f.status = "stop" <=> q \notin BKids(n)
  BY <1>1 DEF BKids, StatusOf
<1>4. waves = IF q \in BKids(n) /\ r[q] = "after" THEN sendTo[n] ELSE sendTo[n] \ {q}
  BY <1>3 DEF B!Remaining
<1>5. hs = IF q \in BKids(n) /\ r[q] = "after" THEN echoed[n] \cup {q} ELSE echoed[n]
  BY <1>1, <1>2, <1>3, <1>4 DEF B!Heard, Sets, Waits
<1>6. hs \subseteq waves /\ waves \ hs = Waits(n) \ {q}
  BY <1>1, <1>2, <1>4, <1>5 DEF Sets, Waits
<1>7. /\ link' = link /\ labeled' = labeled /\ bParent' = bParent /\ level' = level
      /\ bNeighbours' = bNeighbours /\ bAnnounced' = bAnnounced
      /\ \A m \in Large : m # n => /\ sendTo'[m] = sendTo[m] /\ echoed'[m] = echoed[m]
                                   /\ children'[m] = children[m]
      /\ sendTo'[n] = waves
      /\ children'[n] = children[n] \cup (IF q \in BKids(n) THEN {q} ELSE {})
  BY <1>1, <1>3 DEF B!ReceiveEcho, BShape, B!IsChild
<1>8. /\ \A m : B!NeighboursOf(m)' = B!NeighboursOf(m)
      /\ \A m : BKids(m)' = BKids(m)
      /\ \A m, x1 : LabelTo(m, x1)' = LabelTo(m, x1)
      /\ \A m, x1, r1 : Answer(m, x1, r1)' = Answer(m, x1, r1)
      /\ \A m \in Large : m # n => Waits(m)' = Waits(m)
      /\ \A m \in BKids(n) : m \in Large /\ m # n
  BY <1>7, BLinked DEF BKids, LabelTo, Answer, StatusOf, Waits
<1> QED BY <1>1, <1>4, <1>5, <1>6, <1>7, <1>8 DEF EchoStep

LEMMA EchoShape ==
  ASSUME BShape, NEW k, NEW h, NEW r, NEW W, Ghosts(k, h, r, W), BRun(k, h, r, W),
         NEW f \in bAir, B!ReceiveEcho(f.to, f)
  PROVE  BShape'
<1> DEFINE n == f.to
           waves == B!Remaining(n, f)
           hs == B!Heard(n, f)
<1>1. /\ n \in Large /\ f.from \in Large /\ labeled[n]
  BY EchoHeard DEF B!ReceiveEcho
<1>2. waves \subseteq sendTo[n] /\ hs \subseteq waves
  BY DEF B!Remaining, B!Heard
<1>3. sendTo[n] \subseteq Large
  BY <1>1 DEF BShape
<1>4. bParent[n] \in Large
  BY <1>1 DEF BRun, Placed, B!NeighboursOf, BShape
<1>5. bAir' \subseteq (bAir \ {f}) \cup B!Label(n, level[n], waves)
          \cup B!Echo(n, bParent[n], IF waves = {} THEN "end" ELSE "keepon")
  BY DEF B!ReceiveEcho
<1>6. level[n] \in 0..breadthMod - 1
  BY <1>1 DEF BShape
<1>7. sendTo' \in [Large -> SUBSET Large] /\ echoed' \in [Large -> SUBSET Large]
      /\ children' \in [Large -> SUBSET Large]
  BY <1>1, <1>2, <1>3 DEF B!ReceiveEcho, BShape
<1>8. bAir' \subseteq B!Frame
  BY <1>1, <1>2, <1>3, <1>4, <1>5, <1>6 DEF BShape, B!Label, B!Echo, B!Frame
<1> QED BY <1>7, <1>8 DEF B!ReceiveEcho, BShape, B!DbfsAssumption, B!Frame
\* All that n waits for is the echo of q.
LEMMA LastEcho ==
  ASSUME BShape, NEW k, NEW h, NEW r, NEW W, Ghosts(k, h, r, W), BRun(k, h, r, W),
         NEW f \in bAir, B!ReceiveEcho(f.to, f),
         NEW n, n = f.to, NEW q, q = f.from, NEW waves, waves = B!Remaining(n, f),
         NEW hs, hs = B!Heard(n, f), waves \subseteq hs
  PROVE  /\ \A m \in BKids(n) : r[m] = IF m \in waves THEN "after" ELSE "end"
         /\ waves \subseteq BKids(n) /\ waves = hs /\ Waits(n) = {q}
         /\ \A m \in B!NeighboursOf(n) : labeled[m]
         /\ \A g \in bAir : /\ g.type = "label" => g.from # n
                            /\ g.type = "echo" /\ g.to = n => g = f
<1>1. /\ n \in Large /\ q \in Large /\ labeled[n] /\ r[n] = "in"
      /\ f = Answer(q, n, r) /\ q \in Waits(n) /\ LabelTo(n, q) \notin bAir
      /\ q \in BKids(n) => r[q] \in {"after", "end"}
      /\ h[n] <= k
      /\ waves = IF q \in BKids(n) /\ r[q] = "after" THEN sendTo[n] ELSE sendTo[n] \ {q}
      /\ hs = IF q \in BKids(n) /\ r[q] = "after" THEN echoed[n] \cup {q} ELSE echoed[n]
      /\ hs \subseteq waves /\ waves \ hs = Waits(n) \ {q}
  <2>1. EchoStep(f, n, q, waves, hs, k, h, r)
    BY EchoTaken
  <2> QED BY <2>1 DEF EchoStep
<1>2. waves = hs /\ Waits(n) = {q}
  BY <1>1
<1>3. /\ \A m \in echoed[n] : m \in BKids(n) /\ r[m] = "after"
      /\ \A m \in BKids(n) : m \notin sendTo[n] => r[m] = "end"
  BY <1>1 DEF BRun, Waiting
<1>4. waves \subseteq BKids(n) /\ \A m \in waves : r[m] = "after"
  BY <1>1, <1>2, <1>3
<1>5. \A m \in BKids(n) : m \notin waves => r[m] = "end"
  BY <1>1, <1>3
<1>6. ASSUME NEW g \in bAir PROVE /\ g.type = "label" => g.from # n
                                  /\ g.type = "echo" /\ g.to = n => g = f
  <2>1. Due(g, r)
    BY DEF BRun
  <2>2. ASSUME g.type = "label", g.from = n PROVE FALSE
    BY <2>1, <2>2, <1>1, <1>2 DEF Due
  <2>3. ASSUME g.type = "echo", g.to = n PROVE g = f
    BY <2>1, <2>3, <1>1, <1>2 DEF Due
  <2> QED BY <2>2, <2>3
<1>7. ASSUME NEW m \in B!NeighboursOf(n) PROVE labeled[m]
  <2>1. k \in Nat /\ h \in [Large -> Nat] /\ Layers(W)
    BY DEF Ghosts
  <2>2. CASE h[n] = k
    <3>1. labeled[m] \/ LabelTo(n, m) \in bAir
      BY <2>2, <1>1 DEF BRun, Covered
    <3>2. LabelTo(n, m) \notin bAir
      BY <1>6 DEF LabelTo
    <3> QED BY <3>1, <3>2
  <2>3. CASE h[n] < k
    <3>1. n \in W[h[n]]
      BY <1>1 DEF BRun, Placed
    <3>2. m \in W[h[n] + 1]
      BY <3>1, <2>1, <1>1 DEF Layers, Grows, Beside
    <3>3. W[h[n] + 1] \subseteq W[k]
      <4>1. h[n] + 1 \in Nat /\ h[n] + 1 <= k
        BY <2>1, <2>3, <1>1
      <4> QED BY <4>1, <2>1, LayersGrow DEF Layers
    <3> QED BY <3>2, <3>3 DEF BRun
  <2> QED BY <2>1, <2>2, <2>3, <1>1
<1> QED BY <1>2, <1>4, <1>5, <1>6, <1>7

\* The parent of a node in the wave waits for it.
LEMMA ParentWaits ==
  ASSUME BShape, NEW k, NEW h, NEW r, NEW W, Ghosts(k, h, r, W), BRun(k, h, r, W),
         NEW n \in Large, labeled[n], r[n] = "in", n # searchRoot, NEW p, p = bParent[n]
  PROVE  /\ p \in Large /\ p # n /\ labeled[p] /\ n \in BKids(p) /\ r[p] = "in" /\ n \in Waits(p)
         /\ p \in B!NeighboursOf(n) /\ n \in children[p]
         /\ \A g \in bAir : /\ g.type = "label" => g # LabelTo(p, n)
                            /\ g.type = "echo" => ~(g.from = n /\ g.to = p)
<1>1. /\ p \in B!NeighboursOf(n) /\ labeled[p] /\ h[n] = h[p] + 1 /\ h[n] <= k + 1
      /\ h[n] # k + 1
  BY DEF BRun, Placed
<1>2. p \in Large /\ p # n
  BY <1>1, BLinks DEF BNeighbours
<1>3. n \in BKids(p)
  BY <1>2 DEF BKids
<1>4. h[p] <= k /\ h[p] < k /\ h[p] \in Nat /\ k \in Nat /\ r[p] \in Stages
  BY <1>1, <1>2 DEF Ghosts
<1>5. /\ Newest(p, k, h, r) /\ Passed(p, k, h, r) /\ Ended(p, r) /\ Waiting(p, k, h, r)
      /\ Placed(p, k, h, r, W)
  BY <1>1, <1>2 DEF BRun
<1>6. r[p] # "end"
  BY <1>3, <1>5 DEF Ended
<1>7. r[p] \notin {"before", "after"}
  BY <1>3, <1>4, <1>5 DEF Passed
<1>8. r[p] = "in"
  BY <1>1, <1>4, <1>5, <1>6, <1>7 DEF Placed, Stages
<1>9. n \in Waits(p)
  BY <1>3, <1>5, <1>8 DEF Waiting, Waits
<1>10. ASSUME NEW g \in bAir
       PROVE  /\ g.type = "label" => g # LabelTo(p, n)
              /\ g.type = "echo" => ~(g.from = n /\ g.to = p)
  <2>1. Due(g, r)
    BY DEF BRun
  <2>2. ASSUME g.type = "label", g = LabelTo(p, n) PROVE FALSE
    <3>1. g.from = p /\ g.to = n
      BY <2>2 DEF LabelTo
    <3> QED BY <2>1, <2>2, <3>1, <1>3 DEF Due
  <2>3. ASSUME g.type = "echo", g.from = n, g.to = p PROVE FALSE
    BY <2>1, <2>3, <1>3 DEF Due
  <2> QED BY <2>2, <2>3
<1>11. n \in children[p]
  <2>1. n \in children[p] \/ Answer(n, p, r) \in bAir
    BY <1>2, <1>3 DEF BRun, Tallied
  <2>2. Answer(n, p, r) \notin bAir
    BY <1>10 DEF Answer
  <2> QED BY <2>1, <2>2
<1> QED BY <1>1, <1>2, <1>3, <1>8, <1>9, <1>10, <1>11

\* When the root has heard all nobody else is in the wave.
LEMMA Quiet ==
  ASSUME BShape, NEW k, NEW h, NEW r, NEW W, Ghosts(k, h, r, W), BRun(k, h, r, W),
         NEW f \in bAir, B!ReceiveEcho(f.to, f), f.to = searchRoot,
         B!Remaining(f.to, f) \subseteq B!Heard(f.to, f)
  PROVE  /\ \A n \in Large \ {searchRoot} : labeled[n] => r[n] \in {"after", "end"}
         /\ bAir = {f}
         /\ B!Remaining(f.to, f) = {} =>
              \A n \in Large \ {searchRoot} : labeled[n] => r[n] = "end"
<1> DEFINE waves == B!Remaining(f.to, f)
<1>1. /\ \A m \in BKids(searchRoot) : r[m] = IF m \in waves THEN "after" ELSE "end"
      /\ Waits(searchRoot) = {f.from}
      /\ \A g \in bAir : /\ g.type = "label" => g.from # searchRoot
                         /\ g.type = "echo" /\ g.to = searchRoot => g = f
  BY LastEcho
<1> HIDE DEF waves
<1>2. k \in Nat /\ h \in [Large -> Nat] /\ r \in [Large -> Stages]
  BY DEF Ghosts
<1> DEFINE Good(n) == r[n] \in {"after", "end"} /\ (waves = {} => r[n] = "end")
           Bad == {n \in Large \ {searchRoot} : labeled[n] /\ ~Good(n)}
<1>3. Bad = {}
  <2> SUFFICES ASSUME Bad # {} PROVE FALSE
    OBVIOUS
  <2> DEFINE X == {h[n] : n \in Bad}
  <2>1. X \in SUBSET Nat /\ X # {}
    BY <1>2
  <2>2. PICK i \in X : \A j \in X : i <= j
    <3> HIDE DEF X
    <3> QED BY <2>1, Least
  <2>3. PICK n \in Bad : h[n] = i
    OBVIOUS
  <2>4. n \in Large /\ n # searchRoot /\ labeled[n] /\ ~Good(n)
    BY <2>3
  <2> DEFINE p == bParent[n]
  <2>5. p \in B!NeighboursOf(n) /\ labeled[p] /\ h[n] = h[p] + 1 /\ h[n] <= k + 1
    BY <2>4 DEF BRun, Placed
  <2>6. p \in Large /\ p # n
    BY <2>4, <2>5, BLinks DEF BNeighbours
  <2>7. n \in BKids(p)
    BY <2>4, <2>6 DEF BKids
  <2>8. p # searchRoot
    BY <2>4, <2>7, <1>1
  <2>9. Good(p)
    <3>1. h[p] < h[n] /\ h[p] \in Nat /\ h[n] \in Nat
      BY <2>4, <2>5, <2>6, <1>2
    <3>2. p \notin Bad
      <4> SUFFICES ASSUME p \in Bad PROVE FALSE
        OBVIOUS
      <4>1. h[p] \in X
        OBVIOUS
      <4>2. i <= h[p]
        BY <4>1, <2>2
      <4> QED BY <4>2, <3>1, <2>3
    <3> QED BY <3>2, <2>5, <2>6, <2>8
  <2>10. Newest(p, k, h, r) /\ Passed(p, k, h, r) /\ Ended(p, r)
    BY <2>5, <2>6 DEF BRun
  <2>11. h[p] <= k /\ h[p] \in Nat
    BY <2>4, <2>5, <2>6, <1>2
  <2> HIDE DEF p, X, Bad
  <2>12. CASE r[p] = "end"
    BY <2>4, <2>7, <2>10, <2>12 DEF Ended
  <2>13. CASE r[p] = "after" /\ waves # {}
    BY <2>4, <2>7, <2>10, <2>11, <2>13 DEF Passed
  <2> QED BY <2>9, <2>12, <2>13
<1>4. \A n \in Large \ {searchRoot} : labeled[n] => Good(n)
  BY <1>3
<1>5. ASSUME NEW g \in bAir PROVE g = f
  <2>1. Due(g, r) /\ g.from \in Large /\ g.to \in Large
    BY BFrames DEF BRun
  <2>2. CASE g.type = "label"
    <3>1. r[g.from] = "in" /\ g.from # searchRoot
      BY <2>1, <2>2, <1>1 DEF Due
    <3>2. labeled[g.from]
      BY <3>1, <2>1 DEF BRun, Placed
    <3> QED BY <3>1, <3>2, <2>1, <1>4
  <2>3. CASE g.type = "echo"
    <3>1. r[g.to] = "in"
      BY <2>1, <2>3 DEF Due
    <3>2. labeled[g.to]
      BY <3>1, <2>1 DEF BRun, Placed
    <3>3. g.to = searchRoot
      BY <3>1, <3>2, <2>1, <1>4
    <3> QED BY <3>3, <2>3, <1>1
  <2> QED BY <2>1, <2>2, <2>3 DEF Due
<1>6. bAir = {f}
  BY <1>5
<1> QED BY <1>4, <1>6 DEF waves
LEMMA EchoGoesOn ==
  ASSUME BShape, NEW k, NEW h, NEW r, NEW W, Ghosts(k, h, r, W), BRun(k, h, r, W),
         NEW f \in bAir, B!ReceiveEcho(f.to, f),
         ~(B!Remaining(f.to, f) \subseteq B!Heard(f.to, f))
  PROVE  Ghosts(k, h, r, W)' /\ BRun(k, h, r, W)'
<1> DEFINE n == f.to
           q == f.from
<1>1. PICK waves, hs : waves = B!Remaining(n, f) /\ hs = B!Heard(n, f)
  OBVIOUS
<1>2. EchoStep(f, n, q, waves, hs, k, h, r)
  BY <1>1, EchoTaken
<1>3. /\ n \in Large /\ q \in Large /\ labeled[n] /\ r[n] = "in" /\ labeled[q]
      /\ f = Answer(q, n, r) /\ q \in Waits(n) /\ LabelTo(n, q) \notin bAir
      /\ q \in BKids(n) => r[q] \in {"after", "end"}
  BY <1>2 DEF EchoStep
<1>4. /\ waves = IF q \in BKids(n) /\ r[q] = "after" THEN sendTo[n] ELSE sendTo[n] \ {q}
      /\ hs = IF q \in BKids(n) /\ r[q] = "after" THEN echoed[n] \cup {q} ELSE echoed[n]
      /\ hs \subseteq waves /\ waves \ hs = Waits(n) \ {q}
  BY <1>2 DEF EchoStep
<1>5. /\ link' = link /\ labeled' = labeled /\ bParent' = bParent /\ level' = level
      /\ bNeighbours' = bNeighbours /\ bAnnounced' = bAnnounced
      /\ \A m : B!NeighboursOf(m)' = B!NeighboursOf(m)
      /\ \A m : BKids(m)' = BKids(m)
      /\ \A m, x1 : LabelTo(m, x1)' = LabelTo(m, x1)
      /\ \A m, x1 : Answer(m, x1, r)' = Answer(m, x1, r)
  BY <1>2 DEF EchoStep
<1>6. /\ \A m \in Large : m # n => /\ sendTo'[m] = sendTo[m] /\ echoed'[m] = echoed[m]
                                   /\ children'[m] = children[m] /\ Waits(m)' = Waits(m)
      /\ sendTo'[n] = waves
      /\ children'[n] = children[n] \cup (IF q \in BKids(n) THEN {q} ELSE {})
  BY <1>2 DEF EchoStep
<1>7. echoed'[n] = hs /\ bAir' = bAir \ {f} /\ Waits(n)' = waves \ hs /\ waves # {} /\ finished' = finished
  <2>1. echoed'[n] = hs /\ bAir' = bAir \ {f} /\ waves # {} /\ finished' = finished
    BY <1>1, <1>3 DEF B!ReceiveEcho, BShape
  <2> QED BY <2>1, <1>6 DEF Waits
<1>8. waves \ hs # {}
  BY <1>1
<1>9. /\ \A m, x1 \in Large : LabelTo(m, x1) \in bAir => LabelTo(m, x1) \in bAir'
      /\ \A m, x1 \in Large : Answer(m, x1, r) \in bAir /\ (m # q \/ x1 # n) => Answer(m, x1, r) \in bAir'
  <2>1. \A m, x1 \in Large : LabelTo(m, x1) # f
    BY <1>3 DEF LabelTo, Answer
  <2>2. \A m, x1 \in Large : Answer(m, x1, r) = f => m = q /\ x1 = n
    BY <1>3 DEF Answer
  <2> QED BY <2>1, <2>2, <1>7
<1> HIDE DEF n, q
<1>10. ASSUME NEW m \in Large PROVE Placed(m, k, h, r, W)'
  <2>1. Placed(m, k, h, r, W)
    BY DEF BRun
  <2>2. Blank(m) /\ m # n => Blank(m)'
    BY <1>5, <1>6 DEF Blank
  <2> QED BY <2>1, <2>2, <1>3, <1>5 DEF Placed
<1>11. ASSUME NEW m \in Large, labeled'[m]
       PROVE  /\ (Sets(m, r) /\ Newest(m, k, h, r))'
              /\ (Passed(m, k, h, r) /\ Ended(m, r) /\ Covered(m, k, h, r))'
  <2>1. /\ Sets(m, r) /\ Newest(m, k, h, r) /\ Passed(m, k, h, r) /\ Ended(m, r)
        /\ Covered(m, k, h, r)
    BY <1>11, <1>5 DEF BRun
  <2>2. (Covered(m, k, h, r))'
    <3>1. \A x1 \in B!NeighboursOf(m) : LabelTo(m, x1) \in bAir => LabelTo(m, x1)' \in bAir'
      BY <1>5, <1>9 DEF B!NeighboursOf
    <3> QED BY <3>1, <2>1, <1>5 DEF Covered
  <2>3. CASE m = n
    <3>1. waves \subseteq B!NeighboursOf(n)
      BY <2>1, <2>3, <1>4 DEF Sets
    <3> QED BY <2>1, <2>2, <2>3, <3>1, <1>3, <1>4, <1>5, <1>6, <1>7 DEF Sets, Newest, Passed, Ended
  <2>4. CASE m # n
    BY <2>1, <2>2, <2>4, <1>5, <1>6 DEF Sets, Newest, Passed, Ended
  <2> QED BY <2>3, <2>4
<1>12. ASSUME NEW m \in Large, labeled'[m]
       PROVE  Waiting(m, k, h, r)'
  <2> SUFFICES ASSUME r[m] = "in" PROVE Waiting(m, k, h, r)'
    BY DEF Waiting
  <2>1. Waiting(m, k, h, r) /\ Sets(m, r)
    BY <1>12, <1>5 DEF BRun
  <2>2. Waits(m) \subseteq Large
    BY <2>1 DEF Waits, Sets, B!NeighboursOf
  <2>3. ASSUME NEW x1 \in Waits(m), m # n \/ x1 # q PROVE Expects(m, x1, k, h, r)'
    <3>1. Expects(m, x1, k, h, r) /\ x1 \in Large
      BY <2>1, <2>2 DEF Waiting
    <3> QED BY <2>3, <3>1, <1>5, <1>9 DEF Expects
  <2>4. CASE m = n
    <3>1. \A x1 \in echoed'[n] : x1 \in BKids(n) /\ r[x1] = "after"
      BY <2>1, <2>4, <1>4, <1>7 DEF Waiting
    <3>2. \A x1 \in BKids(n) : x1 \notin sendTo'[n] => r[x1] = "end"
      BY <2>1, <2>4, <1>3, <1>4, <1>6 DEF Waiting
    <3>3. Waits(n)' # {} /\ \A x1 \in Waits(n)' : Expects(n, x1, k, h, r)'
      BY <2>3, <2>4, <1>4, <1>7, <1>8
    <3> QED BY <2>4, <3>1, <3>2, <3>3, <1>5 DEF Waiting
  <2>5. CASE m # n
    BY <2>1, <2>3, <2>5, <1>5, <1>6 DEF Waiting
  <2> QED BY <2>4, <2>5
<1>13. ASSUME NEW g \in bAir' PROVE Due(g, r)'
  <2>1. g \in bAir /\ g # f
    BY <1>7
  <2>2. Due(g, r) /\ g.from \in Large /\ g.to \in Large
    BY <2>1, BFrames DEF BRun
  <2>3. CASE g.type = "label"
    <3>1. /\ g = LabelTo(g.from, g.to)
          /\ r[g.from] = "in" /\ g.to \in Waits(g.from)
          /\ g.to \in BKids(g.from) => r[g.to] = "before"
      BY <2>2, <2>3 DEF Due
    <3>2. g.to \in Waits(g.from)'
      BY <3>1, <2>1, <2>2, <1>3, <1>4, <1>6, <1>7
    <3> QED BY <3>1, <3>2, <2>3, <1>5 DEF Due
  <2>4. CASE g.type = "echo"
    <3>1. /\ g = Answer(g.from, g.to, r) /\ r[g.to] = "in" /\ g.from \in Waits(g.to) /\ labeled[g.from]
          /\ g.from \in BKids(g.to) => r[g.from] \in {"after", "end"}
          /\ LabelTo(g.to, g.from) \notin bAir
      BY <2>2, <2>4 DEF Due
    <3>2. g.from \in Waits(g.to)'
      BY <3>1, <2>1, <2>2, <1>3, <1>4, <1>6, <1>7
    <3> QED BY <3>1, <3>2, <2>4, <1>5, <1>7 DEF Due
  <2> QED BY <2>2, <2>3, <2>4 DEF Due
<1>14. ASSUME NEW m \in Large PROVE Tallied(m, r)'
  <2>1. Tallied(m, r) /\ BKids(m) \subseteq Large
    BY DEF BRun, BKids
  <2>2. CASE m = n
    BY <2>1, <2>2, <1>5, <1>6, <1>9 DEF Tallied
  <2>3. CASE m # n
    BY <2>1, <2>3, <1>5, <1>6, <1>9 DEF Tallied
  <2> QED BY <2>2, <2>3
<1>15. BRun(k, h, r, W)'
  BY <1>5, <1>7, <1>10, <1>11, <1>12, <1>13, <1>14 DEF BRun
<1>16. Ghosts(k, h, r, W)'
  BY <1>5, BLinked DEF Ghosts
<1> QED BY <1>15, <1>16

LEMMA EchoAnswers ==
  ASSUME BShape, NEW k, NEW h, NEW r, NEW W, Ghosts(k, h, r, W), BRun(k, h, r, W),
         NEW f \in bAir, B!ReceiveEcho(f.to, f), f.to # searchRoot,
         B!Remaining(f.to, f) \subseteq B!Heard(f.to, f)
  PROVE  \E h1, r1 : Ghosts(k, h1, r1, W)' /\ BRun(k, h1, r1, W)'
<1> DEFINE n == f.to
           q == f.from
<1>1. PICK waves, hs : waves = B!Remaining(n, f) /\ hs = B!Heard(n, f)
  OBVIOUS
<1>2. EchoStep(f, n, q, waves, hs, k, h, r)
  BY <1>1, EchoTaken
<1>3. /\ n \in Large /\ q \in Large /\ labeled[n] /\ r[n] = "in" /\ labeled[q]
      /\ f = Answer(q, n, r) /\ q \in Waits(n) /\ LabelTo(n, q) \notin bAir
      /\ q \in BKids(n) => r[q] \in {"after", "end"}
      /\ waves = IF q \in BKids(n) /\ r[q] = "after" THEN sendTo[n] ELSE sendTo[n] \ {q}
      /\ h[n] <= k
  BY <1>2 DEF EchoStep
<1>4. /\ \A m \in BKids(n) : r[m] = IF m \in waves THEN "after" ELSE "end"
      /\ waves \subseteq BKids(n) /\ waves = hs
      /\ \A m \in B!NeighboursOf(n) : labeled[m]
      /\ \A g \in bAir : /\ g.type = "label" => g.from # n
                         /\ g.type = "echo" /\ g.to = n => g = f
  BY <1>1, LastEcho
<1>5. /\ link' = link /\ labeled' = labeled /\ bParent' = bParent /\ level' = level
      /\ bNeighbours' = bNeighbours /\ bAnnounced' = bAnnounced
      /\ \A m : B!NeighboursOf(m)' = B!NeighboursOf(m)
      /\ \A m : BKids(m)' = BKids(m)
      /\ \A m, x1 : LabelTo(m, x1)' = LabelTo(m, x1)
      /\ \A m, x1, y1 : Answer(m, x1, y1)' = Answer(m, x1, y1)
  BY <1>2 DEF EchoStep
<1>6. /\ \A m \in Large : m # n => /\ sendTo'[m] = sendTo[m] /\ echoed'[m] = echoed[m]
                                   /\ children'[m] = children[m] /\ Waits(m)' = Waits(m)
      /\ sendTo'[n] = waves /\ \A m \in BKids(n) : m \in Large /\ m # n
      /\ children'[n] = children[n] \cup (IF q \in BKids(n) THEN {q} ELSE {})
  BY <1>2 DEF EchoStep
<1>7. PICK p : p = bParent[n]
  OBVIOUS
<1>8. /\ p \in Large /\ p # n /\ labeled[p] /\ n \in BKids(p) /\ r[p] = "in" /\ n \in Waits(p)
      /\ p \in B!NeighboursOf(n) /\ n \in children[p]
      /\ \A g \in bAir : /\ g.type = "label" => g # LabelTo(p, n)
                         /\ g.type = "echo" => ~(g.from = n /\ g.to = p)
  BY <1>3, <1>7, ParentWaits
<1>9. PICK r1 : r1 = [r EXCEPT ![n] = IF waves = {} THEN "end" ELSE "after"]
  OBVIOUS
<1>10. /\ k \in Nat /\ h \in [Large -> Nat] /\ r \in [Large -> Stages] /\ Layers(W)
       /\ r1 \in [Large -> Stages] /\ r1[n] = IF waves = {} THEN "end" ELSE "after"
       /\ \A m \in Large : m # n => r1[m] = r[m]
  BY <1>3, <1>9 DEF Stages, Ghosts
<1>11. /\ echoed'[n] = hs /\ finished' = finished
       /\ bAir' = (bAir \ {f}) \cup {Answer(n, p, r1)}
  <2>1. B!Echo(n, p, IF waves = {} THEN "end" ELSE "keepon") = {Answer(n, p, r1)}
    BY <1>7, <1>10 DEF B!Echo, Answer, StatusOf
  <2> QED BY <2>1, <1>1, <1>3, <1>7 DEF B!ReceiveEcho, BShape
<1>12. /\ \A m, x1 \in Large : LabelTo(m, x1) \in bAir => LabelTo(m, x1) \in bAir'
       /\ \A m, x1 : LabelTo(m, x1) \notin bAir => LabelTo(m, x1) \notin bAir'
       /\ \A m, x1 \in Large : Answer(m, x1, r) \in bAir /\ (m # q \/ x1 # n) => Answer(m, x1, r) \in bAir'
       /\ \A m, x1 \in Large : (m # n \/ x1 # p) => Answer(m, x1, r1) = Answer(m, x1, r)
       /\ LabelTo(p, n) \notin bAir
  <2>1. \A m, x1 \in Large : LabelTo(m, x1) # f
    BY <1>3 DEF LabelTo, Answer
  <2>2. \A m, x1 \in Large : Answer(m, x1, r) = f => m = q /\ x1 = n
    BY <1>3 DEF Answer
  <2>3. \A m, x1 : LabelTo(m, x1) # Answer(n, p, r1)
    BY DEF LabelTo, Answer
  <2>4. \A m, x1 \in Large : (m # n \/ x1 # p) => Answer(m, x1, r1) = Answer(m, x1, r)
    BY <1>7, <1>10 DEF Answer, StatusOf
  <2>5. LabelTo(p, n) \notin bAir
    BY <1>8 DEF LabelTo
  <2> QED BY <2>1, <2>2, <2>3, <2>4, <2>5, <1>11
<1> HIDE DEF n, q
<1>13. ASSUME NEW m \in Large PROVE Placed(m, k, h, r1, W)'
  <2>1. Placed(m, k, h, r, W)
    BY DEF BRun
  <2>2. Blank(m) /\ m # n => Blank(m)'
    BY <1>5, <1>6 DEF Blank
  <2>3. r1[n] # "none" /\ r1[n] \in {"after", "end"} /\ n # searchRoot
    BY <1>10 DEF n
  <2>4. CASE m = n
    BY <2>1, <2>3, <2>4, <1>3, <1>5 DEF Placed
  <2>5. CASE m # n
    BY <2>1, <2>2, <2>5, <1>5, <1>10 DEF Placed
  <2> QED BY <2>4, <2>5
<1>14. ASSUME NEW m \in Large, labeled'[m]
       PROVE  /\ (Sets(m, r1) /\ Newest(m, k, h, r1))'
              /\ (Passed(m, k, h, r1) /\ Ended(m, r1) /\ Covered(m, k, h, r1))'
  <2>1. /\ Sets(m, r) /\ Newest(m, k, h, r) /\ Passed(m, k, h, r) /\ Ended(m, r)
        /\ Covered(m, k, h, r)
    BY <1>14, <1>5 DEF BRun
  <2>2. CASE m = n
    <3>1. h[n] # k + 1 /\ n # searchRoot
      BY <1>3, <1>10 DEF n
    <3>2. waves \subseteq B!NeighboursOf(n)
      BY <2>1, <2>2, <1>3 DEF Sets
    <3>3. \A x1 \in BKids(n) : r1[x1] = IF x1 \in waves THEN "after" ELSE "end"
      BY <1>4, <1>6, <1>10
    <3>4. (Sets(n, r1) /\ Newest(n, k, h, r1))'
      BY <3>1, <3>2, <1>4, <1>5, <1>6, <1>10, <1>11 DEF Sets, Newest
    <3>5. (Passed(n, k, h, r1) /\ Ended(n, r1))'
      BY <3>3, <1>4, <1>5, <1>6, <1>10 DEF Passed, Ended
    <3>6. (Covered(n, k, h, r1))'
      BY <1>4, <1>5, <1>10 DEF Covered
    <3> QED BY <2>2, <3>4, <3>5, <3>6
  <2>3. CASE m # n
    <3>1. (Covered(m, k, h, r1))'
      <4>1. \A x1 \in B!NeighboursOf(m) : LabelTo(m, x1) \in bAir => LabelTo(m, x1)' \in bAir'
        BY <1>5, <1>12 DEF B!NeighboursOf
      <4> QED BY <4>1, <2>1, <2>3, <1>5, <1>10 DEF Covered
    <3>2. r1[m] # "in" => n \notin BKids(m)
      BY <2>3, <1>7, <1>8, <1>10 DEF BKids
    <3>3. r1[m] # "in" => \A x1 \in BKids(m) : r1[x1] = r[x1]
      BY <3>2, <1>10 DEF BKids
    <3> QED BY <2>1, <2>3, <3>1, <3>3, <1>5, <1>6, <1>10 DEF Sets, Newest, Passed, Ended
  <2> QED BY <2>2, <2>3
<1>15. ASSUME NEW m \in Large, labeled'[m]
       PROVE  Waiting(m, k, h, r1)'
  <2>1. CASE m = n
    BY <2>1, <1>10 DEF Waiting
  <2>2. CASE m # n
    <3> SUFFICES ASSUME r[m] = "in" PROVE Waiting(m, k, h, r1)'
      BY <2>2, <1>10 DEF Waiting
    <3>1. Waiting(m, k, h, r) /\ Sets(m, r)
      BY <1>15, <1>5 DEF BRun
    <3>2. Waits(m) \subseteq Large
      BY <3>1 DEF Waits, Sets, B!NeighboursOf
    <3>3. \A x1 \in echoed[m] : x1 \in BKids(m) /\ r1[x1] = "after"
      BY <3>1, <1>3, <1>10 DEF Waiting, BKids
    <3>4. \A x1 \in BKids(m) : x1 \notin sendTo[m] => r1[x1] = "end"
      BY <3>1, <1>3, <1>10 DEF Waiting, BKids
    <3>5. ASSUME NEW x1 \in Waits(m) PROVE Expects(m, x1, k, h, r1)'
      <4>1. Expects(m, x1, k, h, r) /\ x1 \in Large
        BY <3>1, <3>2 DEF Waiting
      <4>2. CASE x1 = n /\ m = p
        BY <4>2, <1>5, <1>8, <1>10, <1>11 DEF Expects
      <4>3. CASE x1 # n \/ m # p
        <5>1. x1 \in BKids(m) => r1[x1] = r[x1]
          BY <4>1, <4>3, <1>7, <1>10 DEF BKids
        <5>2. /\ LabelTo(m, x1)' = LabelTo(m, x1) /\ Answer(x1, m, r1)' = Answer(x1, m, r)
              /\ LabelTo(m, x1) \in bAir => LabelTo(m, x1) \in bAir'
              /\ Answer(x1, m, r) \in bAir => Answer(x1, m, r) \in bAir'
          BY <4>1, <4>3, <2>2, <1>5, <1>12
        <5> QED BY <5>1, <5>2, <4>1, <1>5 DEF Expects
      <4> QED BY <4>2, <4>3
    <3> QED BY <2>2, <3>1, <3>3, <3>4, <3>5, <1>5, <1>6 DEF Waiting
  <2> QED BY <2>1, <2>2
<1>16. ASSUME NEW g \in bAir' PROVE Due(g, r1)'
  <2>1. CASE g = Answer(n, p, r1)
    <3>1. g.type = "echo" /\ g.from = n /\ g.to = p
      BY <2>1 DEF Answer
    <3>2. LabelTo(p, n) \notin bAir'
      BY <1>12
    <3>3. r1[p] = "in" /\ n \in Waits(p)' /\ r1[n] \in {"after", "end"}
      BY <1>6, <1>8, <1>10
    <3> QED BY <2>1, <3>1, <3>2, <3>3, <1>3, <1>5 DEF Due
  <2>2. CASE g \in bAir /\ g # f
    <3>1. Due(g, r) /\ g.from \in Large /\ g.to \in Large
      BY <2>2, BFrames DEF BRun
    <3>2. CASE g.type = "label"
      <4>1. /\ g = LabelTo(g.from, g.to)
            /\ r[g.from] = "in" /\ g.to \in Waits(g.from)
            /\ g.to \in BKids(g.from) => r[g.to] = "before"
        BY <3>1, <3>2 DEF Due
      <4>2. g.from # n /\ ~(g.from = p /\ g.to = n)
        BY <4>1, <3>2, <2>2, <1>4, <1>8
      <4>3. g.to \in BKids(g.from) => g.to # n
        BY <4>2, <1>7 DEF BKids
      <4> QED BY <4>1, <4>2, <4>3, <3>1, <3>2, <1>5, <1>6, <1>10 DEF Due
    <3>3. CASE g.type = "echo"
      <4>1. /\ g = Answer(g.from, g.to, r) /\ r[g.to] = "in" /\ g.from \in Waits(g.to) /\ labeled[g.from]
            /\ g.from \in BKids(g.to) => r[g.from] \in {"after", "end"}
            /\ LabelTo(g.to, g.from) \notin bAir
        BY <3>1, <3>3 DEF Due
      <4>2. g.to # n /\ ~(g.from = n /\ g.to = p)
        BY <3>3, <2>2, <1>4, <1>8
      <4>3. g.from \in BKids(g.to) => g.from # n
        BY <4>2, <1>7 DEF BKids
      <4>4. g = Answer(g.from, g.to, r1)'
        BY <4>1, <4>2, <3>1, <1>5, <1>12
      <4>5. LabelTo(g.to, g.from)' \notin bAir'
        BY <4>1, <1>5, <1>12
      <4> QED BY <4>1, <4>2, <4>3, <4>4, <4>5, <3>1, <3>3, <1>5, <1>6, <1>10 DEF Due
    <3> QED BY <3>1, <3>2, <3>3 DEF Due
  <2> QED BY <2>1, <2>2, <1>11
<1>17. ASSUME NEW m \in Large PROVE Tallied(m, r1)'
  <2>1. Tallied(m, r) /\ BKids(m) \subseteq Large
    BY DEF BRun, BKids
  <2>2. children'[m] \subseteq BKids(m) /\ children[m] \subseteq children'[m]
    BY <2>1, <1>6 DEF Tallied
  <2>3. ASSUME NEW x1 \in BKids(m) PROVE x1 \in children'[m] \/ Answer(x1, m, r1)' \in bAir'
    <3>1. CASE x1 = n /\ m = p
      BY <3>1, <2>2, <1>8
    <3>2. CASE x1 = q /\ m = n
      BY <3>2, <2>3, <1>6
    <3>3. CASE ~(x1 = n /\ m = p) /\ ~(x1 = q /\ m = n)
      BY <3>3, <2>1, <2>2, <2>3, <1>5, <1>12 DEF Tallied
    <3> QED BY <3>1, <3>2, <3>3
  <2> QED BY <2>2, <2>3, <1>5 DEF Tallied
<1>18. BRun(k, h, r1, W)'
  <2>1. searchRoot # n /\ searchRoot \in Large
    BY DEF n, BShape, B!DbfsAssumption
  <2> QED BY <2>1, <1>5, <1>10, <1>11, <1>13, <1>14, <1>15, <1>16, <1>17 DEF BRun
<1>19. Ghosts(k, h, r1, W)'
  BY <1>5, <1>10, BLinked DEF Ghosts
<1> QED BY <1>18, <1>19
LEMMA EchoEnds ==
  ASSUME BShape, NEW k, NEW h, NEW r, NEW W, Ghosts(k, h, r, W), BRun(k, h, r, W),
         NEW f \in bAir, B!ReceiveEcho(f.to, f), f.to = searchRoot,
         B!Remaining(f.to, f) = {}
  PROVE  \E h1, r1 : Ghosts(k, h1, r1, W)' /\ BRun(k, h1, r1, W)'
<1> DEFINE n == searchRoot
           q == f.from
<1>1. PICK waves, hs : waves = B!Remaining(n, f) /\ hs = B!Heard(n, f)
  OBVIOUS
<1>2. EchoStep(f, n, q, waves, hs, k, h, r) /\ waves = {} /\ hs = {}
  <2>1. EchoStep(f, n, q, waves, hs, k, h, r)
    BY <1>1, EchoTaken
  <2>2. waves = {}
    BY <1>1
  <2> QED BY <2>1, <2>2 DEF EchoStep
<1>3. n \in Large /\ q \in Large /\ labeled[n] /\ r[n] = "in"
  BY <1>2 DEF EchoStep
<1>4. /\ \A m \in BKids(n) : r[m] = IF m \in waves THEN "after" ELSE "end"
      /\ \A m \in B!NeighboursOf(n) : labeled[m]
  BY <1>1, <1>2, LastEcho
<1>5. /\ link' = link /\ labeled' = labeled /\ bParent' = bParent /\ level' = level
      /\ bNeighbours' = bNeighbours /\ bAnnounced' = bAnnounced
      /\ \A m : B!NeighboursOf(m)' = B!NeighboursOf(m)
      /\ \A m : BKids(m)' = BKids(m)
  BY <1>2 DEF EchoStep
<1>6. /\ \A m \in Large : m # n => /\ sendTo'[m] = sendTo[m] /\ echoed'[m] = echoed[m]
                                   /\ children'[m] = children[m]
      /\ sendTo'[n] = {} /\ \A m \in BKids(n) : m \in Large /\ m # n
      /\ children'[n] = children[n] \cup (IF q \in BKids(n) THEN {q} ELSE {})
  BY <1>2 DEF EchoStep
<1>7. bAir = {f} /\ \A m \in Large \ {searchRoot} : labeled[m] => r[m] = "end"
  BY <1>1, <1>2, Quiet
<1>8. PICK r1 : r1 = [r EXCEPT ![n] = "end"]
  OBVIOUS
<1>9. /\ k \in Nat /\ h \in [Large -> Nat] /\ r \in [Large -> Stages] /\ Layers(W)
      /\ r1 \in [Large -> Stages] /\ r1[n] = "end"
      /\ \A m \in Large : m # n => r1[m] = r[m]
  BY <1>3, <1>8 DEF Stages, Ghosts
<1>10. echoed'[n] = {} /\ bAir' = {} /\ finished' = 1
  <2>1. finished = 0
    BY <1>3 DEF BRun
  <2>2. B!Label(n, level[n], {}) = {}
    BY DEF B!Label
  <2>3. echoed' = [echoed EXCEPT ![n] = {}] /\ finished' = finished + 1
    BY <1>1, <1>2 DEF B!ReceiveEcho
  <2>4. bAir' = (bAir \ {f}) \cup B!Label(n, level[n], {})
    BY <1>1, <1>2 DEF B!ReceiveEcho
  <2> QED BY <2>1, <2>2, <2>3, <2>4, <1>3, <1>7 DEF BShape
<1> HIDE DEF n, q
<1>11. n = searchRoot
  BY DEF n
<1>12. ASSUME NEW m \in Large PROVE Placed(m, k, h, r1, W)'
  <2>1. Placed(m, k, h, r, W)
    BY DEF BRun
  <2>2. Blank(m) /\ m # n => Blank(m)'
    BY <1>5, <1>6 DEF Blank
  <2>3. CASE m = n
    BY <2>1, <2>3, <1>3, <1>5, <1>9, <1>11 DEF Placed
  <2>4. CASE m # n
    BY <2>1, <2>2, <2>4, <1>5, <1>9 DEF Placed
  <2> QED BY <2>3, <2>4
<1>13. ASSUME NEW m \in Large, labeled'[m] PROVE r1[m] = "end"
  BY <1>13, <1>5, <1>7, <1>9, <1>11
<1>14. ASSUME NEW m \in Large, labeled'[m]
       PROVE  /\ (Sets(m, r1) /\ Newest(m, k, h, r1))'
              /\ (Passed(m, k, h, r1) /\ Ended(m, r1) /\ Covered(m, k, h, r1))'
              /\ (Waiting(m, k, h, r1))'
  <2>1. /\ Sets(m, r) /\ Ended(m, r) /\ Covered(m, k, h, r)
    BY <1>14, <1>5 DEF BRun
  <2>2. r1[m] = "end"
    BY <1>13, <1>14
  <2>3. \A x1 \in BKids(m) : x1 \in Large /\ r[x1] = "end" => r1[x1] = "end"
    BY <1>9 DEF BKids
  <2>4. CASE m = n
    BY <2>2, <2>4, <1>2, <1>4, <1>5, <1>6, <1>9, <1>10 DEF Sets, Newest, Passed, Ended, Covered, Waiting
  <2>5. CASE m # n
    <3>1. r[m] = "end"
      BY <2>2, <2>5, <1>9
    <3>2. \A x1 \in BKids(m) : r1[x1] = "end"
      BY <2>1, <2>3, <3>1 DEF Ended, BKids
    <3> QED BY <2>1, <2>2, <2>5, <3>1, <3>2, <1>5, <1>6 DEF Sets, Newest, Passed, Ended, Covered, Waiting
  <2> QED BY <2>4, <2>5
<1>15. ASSUME NEW m \in Large PROVE Tallied(m, r1)'
  <2>1. Tallied(m, r) /\ BKids(m) \subseteq Large
    BY DEF BRun, BKids
  <2>2. children'[m] \subseteq BKids(m) /\ children[m] \subseteq children'[m]
    BY <2>1, <1>6 DEF Tallied
  <2>3. ASSUME NEW x1 \in BKids(m) PROVE x1 \in children'[m]
    <3>1. x1 \in children[m] \/ Answer(x1, m, r) = f
      BY <2>1, <2>3, <1>7 DEF Tallied
    <3>2. Answer(x1, m, r) = f => x1 = q /\ m = n
      BY <1>11 DEF Answer, q
    <3> QED BY <3>1, <3>2, <2>2, <2>3, <1>6
  <2> QED BY <2>2, <2>3, <1>5 DEF Tallied
<1>16. BRun(k, h, r1, W)'
  BY <1>5, <1>9, <1>10, <1>11, <1>12, <1>14, <1>15 DEF BRun
<1>17. Ghosts(k, h, r1, W)'
  BY <1>5, <1>9, BLinked DEF Ghosts
<1> QED BY <1>16, <1>17

LEMMA EchoNextWave ==
  ASSUME BShape, NEW k, NEW h, NEW r, NEW W, Ghosts(k, h, r, W), BRun(k, h, r, W),
         NEW f \in bAir, B!ReceiveEcho(f.to, f), f.to = searchRoot,
         B!Remaining(f.to, f) # {}, B!Remaining(f.to, f) \subseteq B!Heard(f.to, f)
  PROVE  \E k1, h1, r1 : Ghosts(k1, h1, r1, W)' /\ BRun(k1, h1, r1, W)'
<1> DEFINE n == searchRoot
           q == f.from
<1>1. PICK waves, hs : waves = B!Remaining(n, f) /\ hs = B!Heard(n, f)
  OBVIOUS
<1>2. EchoStep(f, n, q, waves, hs, k, h, r) /\ waves # {} /\ waves \subseteq hs
  BY <1>1, EchoTaken
<1>3. n \in Large /\ q \in Large /\ labeled[n] /\ r[n] = "in"
  BY <1>2 DEF EchoStep
<1>4. /\ \A m \in BKids(n) : r[m] = IF m \in waves THEN "after" ELSE "end"
      /\ waves \subseteq BKids(n)
      /\ \A m \in B!NeighboursOf(n) : labeled[m]
  BY <1>1, <1>2, LastEcho
<1>5. /\ link' = link /\ labeled' = labeled /\ bParent' = bParent /\ level' = level
      /\ bNeighbours' = bNeighbours /\ bAnnounced' = bAnnounced
      /\ \A m : B!NeighboursOf(m)' = B!NeighboursOf(m)
      /\ \A m : BKids(m)' = BKids(m)
      /\ \A m, x1 : LabelTo(m, x1)' = LabelTo(m, x1)
  BY <1>2 DEF EchoStep
<1>6. /\ \A m \in Large : m # n => /\ sendTo'[m] = sendTo[m] /\ echoed'[m] = echoed[m]
                                   /\ children'[m] = children[m]
      /\ sendTo'[n] = waves /\ \A m \in BKids(n) : m \in Large /\ m # n
      /\ children'[n] = children[n] \cup (IF q \in BKids(n) THEN {q} ELSE {})
      /\ waves \subseteq sendTo[n]
  BY <1>2 DEF EchoStep
<1>7. bAir = {f} /\ \A m \in Large \ {searchRoot} : labeled[m] => r[m] \in {"after", "end"}
  BY <1>1, <1>2, Quiet
<1>8. PICK r1 : r1 = [m \in Large |-> IF r[m] = "after" THEN "before" ELSE r[m]]
  OBVIOUS
<1>9. /\ k \in Nat /\ h \in [Large -> Nat] /\ r \in [Large -> Stages] /\ Layers(W)
      /\ r1 \in [Large -> Stages] /\ r1[n] = "in"
      /\ \A m \in Large : r1[m] = IF r[m] = "after" THEN "before" ELSE r[m]
      /\ k + 1 \in Nat
  BY <1>3, <1>8 DEF Stages, Ghosts
<1>10. /\ echoed'[n] = {} /\ finished' = finished /\ finished = 0
       /\ bAir' = {LabelTo(n, m) : m \in waves} /\ Waits(n)' = waves
  <2>1. finished = 0
    BY <1>3 DEF BRun
  <2>2. B!Label(n, level[n], waves) = {LabelTo(n, m) : m \in waves}
    BY DEF B!Label, LabelTo
  <2>3. echoed' = [echoed EXCEPT ![n] = {}] /\ finished' = finished
    BY <1>1, <1>2 DEF B!ReceiveEcho
  <2>4. bAir' = (bAir \ {f}) \cup B!Label(n, level[n], waves)
    BY <1>1, <1>2 DEF B!ReceiveEcho
  <2> QED BY <2>1, <2>2, <2>3, <2>4, <1>3, <1>6, <1>7 DEF BShape, Waits
<1> HIDE DEF n, q
<1>11. n = searchRoot
  BY DEF n
<1>12. ASSUME NEW m \in Large PROVE Placed(m, k + 1, h, r1, W)' /\ (labeled[m] => h[m] <= k + 1)
  <2>1. Placed(m, k, h, r, W)
    BY DEF BRun
  <2>2. Blank(m) /\ m # n => Blank(m)'
    BY <1>5, <1>6 DEF Blank
  <2>3. labeled[m] => h[m] <= k + 1 /\ h[m] # (k + 1) + 1 /\ h[m] <= (k + 1) + 1
    <3>1. labeled[m] => h[m] <= k + 1
      BY <2>1 DEF Placed
    <3> QED BY <3>1, <1>9
  <2>4. labeled[m] => r1[m] # "none"
    BY <2>1, <1>9 DEF Placed
  <2>5. m = searchRoot => r1[m] = "in"
    BY <1>9, <1>11
  <2>6. ~labeled[m] => m # n /\ r1[m] = "none"
    BY <2>1, <1>3, <1>9 DEF Placed
  <2> QED BY <2>1, <2>2, <2>3, <2>4, <2>5, <2>6, <1>5 DEF Placed
<1>13. \A m \in W[k + 1] : labeled'[m]
  <2> SUFFICES ASSUME NEW m \in W[k + 1], ~labeled[m] PROVE FALSE
    BY <1>5
  <2>1. m \notin W[k]
    BY DEF BRun
  <2>2. PICK y1 \in W[k] : m \in B!NeighboursOf(y1)
    BY <2>1, <1>9 DEF Layers, Grows, Beside
  <2>3. y1 \in Large /\ labeled[y1]
    BY <2>2, <1>9 DEF Layers, BRun
  <2>4. Placed(y1, k, h, r, W) /\ Covered(y1, k, h, r)
    BY <2>3 DEF BRun
  <2>5. h[y1] <= k
    <3> SUFFICES ASSUME h[y1] = k + 1 PROVE FALSE
      BY <2>3, <2>4, <1>9 DEF Placed
    <3> QED BY <2>2, <2>3, <2>4, <1>9 DEF Placed
  <2>6. y1 # n
    BY <2>2, <1>4
  <2>7. r[y1] \in {"after", "end"}
    BY <2>3, <2>6, <1>7, <1>11
  <2> QED BY <2>2, <2>4, <2>5, <2>7 DEF Covered
<1>14. ASSUME NEW m \in Large, labeled'[m], m # n
       PROVE  /\ (Sets(m, r1) /\ Newest(m, k + 1, h, r1))'
              /\ (Passed(m, k + 1, h, r1) /\ Ended(m, r1) /\ Covered(m, k + 1, h, r1))'
              /\ (Waiting(m, k + 1, h, r1))'
  <2>1. /\ Sets(m, r) /\ Ended(m, r) /\ Covered(m, k, h, r) /\ Passed(m, k, h, r) /\ Newest(m, k, h, r)
    BY <1>14, <1>5 DEF BRun
  <2>2. /\ r[m] \in {"after", "end"} /\ r1[m] = IF r[m] = "after" THEN "before" ELSE "end"
        /\ h[m] \in Nat /\ h[m] <= k + 1
    BY <1>14, <1>5, <1>7, <1>9, <1>11, <1>12
  <2>3. \A x1 \in BKids(m) : x1 \in Large
    BY DEF BKids
  <2>4. (Sets(m, r1))' /\ (Covered(m, k + 1, h, r1))' /\ (Waiting(m, k + 1, h, r1))'
    BY <2>1, <2>2, <1>14, <1>5, <1>6 DEF Sets, Covered, Waiting
  <2>5. (Ended(m, r1))'
    BY <2>1, <2>2, <2>3, <1>14, <1>5, <1>6, <1>9 DEF Ended
  <2>6. (Newest(m, k + 1, h, r1))'
    BY <2>1, <2>2, <1>14, <1>5, <1>6, <1>9 DEF Newest
  <2>7. (Passed(m, k + 1, h, r1))'
    <3> SUFFICES ASSUME r1[m] = "before", h[m] < k + 1
                 PROVE  /\ sendTo[m] \subseteq BKids(m)
                        /\ \A x1 \in BKids(m) : r1[x1] = IF x1 \in sendTo[m] THEN "before" ELSE "end"
      BY <2>2, <1>14, <1>5, <1>6 DEF Passed
    <3>1. h[m] <= k /\ r[m] = "after"
      BY <2>2, <1>9
    <3> QED BY <3>1, <2>1, <2>3, <1>9 DEF Passed
  <2> QED BY <2>4, <2>5, <2>6, <2>7
<1>15. /\ (Sets(n, r1) /\ Newest(n, k + 1, h, r1))'
       /\ (Passed(n, k + 1, h, r1) /\ Ended(n, r1) /\ Covered(n, k + 1, h, r1))'
       /\ (Waiting(n, k + 1, h, r1))'
  <2>1. Sets(n, r) /\ Placed(n, k, h, r, W)
    BY <1>3 DEF BRun
  <2>2. h[n] = 0 /\ h[n] # k + 1
    BY <2>1, <1>3, <1>9, <1>11 DEF Placed
  <2>3. (Sets(n, r1))'
    BY <2>1, <1>5, <1>6, <1>9, <1>10 DEF Sets
  <2>4. \A x1 \in BKids(n) : x1 \notin waves => r1[x1] = "end"
    BY <1>4, <1>6, <1>9
  <2>5. ASSUME NEW x1 \in waves PROVE Expects(n, x1, k + 1, h, r1)'
    <3>1. x1 \in BKids(n) /\ r1[x1] = "before"
      BY <1>4, <1>6, <1>9
    <3>2. LabelTo(n, x1)' \in bAir'
      BY <1>5, <1>10
    <3> QED BY <3>1, <3>2, <1>5 DEF Expects
  <2>6. (Waiting(n, k + 1, h, r1))'
    BY <2>4, <2>5, <1>2, <1>5, <1>6, <1>10 DEF Waiting
  <2> QED BY <2>2, <2>3, <2>6, <1>9 DEF Newest, Passed, Ended, Covered
<1>16. ASSUME NEW g \in bAir' PROVE Due(g, r1)'
  <2>1. PICK m \in waves : g = LabelTo(n, m)
    BY <1>10
  <2>2. g.type = "label" /\ g.from = n /\ g.to = m
    BY <2>1 DEF LabelTo
  <2>3. r1[m] = "before"
    BY <1>4, <1>6, <1>9
  <2> QED BY <2>1, <2>2, <2>3, <1>5, <1>9, <1>10 DEF Due
<1>17. ASSUME NEW m \in Large PROVE Tallied(m, r1)'
  <2>1. Tallied(m, r) /\ BKids(m) \subseteq Large
    BY DEF BRun, BKids
  <2>2. children'[m] \subseteq BKids(m) /\ children[m] \subseteq children'[m]
    BY <2>1, <1>6 DEF Tallied
  <2>3. ASSUME NEW x1 \in BKids(m) PROVE x1 \in children'[m]
    <3>1. x1 \in children[m] \/ Answer(x1, m, r) = f
      BY <2>1, <2>3, <1>7 DEF Tallied
    <3>2. Answer(x1, m, r) = f => x1 = q /\ m = n
      BY <1>11 DEF Answer, q
    <3> QED BY <3>1, <3>2, <2>2, <2>3, <1>6
  <2> QED BY <2>2, <2>3, <1>5 DEF Tallied
<1>18. BRun(k + 1, h, r1, W)'
  BY <1>5, <1>9, <1>10, <1>11, <1>12, <1>13, <1>14, <1>15, <1>16, <1>17 DEF BRun
<1>19. Ghosts(k + 1, h, r1, W)'
  BY <1>5, <1>9, BLinked DEF Ghosts
<1> QED BY <1>18, <1>19
LEMMA InitWInv ==
  ASSUME B!DbfsAssumption, B!Init
  PROVE  WInv
<1>1. BShape
  BY DEF BShape, B!Init, B!DbfsAssumption
<1>2. BBefore
  BY DEF BBefore, B!Init, B!DbfsAssumption, Blank
<1> QED BY <1>1, <1>2 DEF WInv

LEMMA BAnnounceBefore ==
  ASSUME BShape, BBefore, NEW n \in Large, B!Announce(n)
  PROVE  BShape' /\ BBefore'
<1>1. link' = link /\ \A m : B!NeighboursOf(m)' = B!NeighboursOf(m)
  BY BLinked DEF B!Announce
<1>2. \A m \in B!NeighboursOf(n) : m \in Large
  BY DEF B!NeighboursOf
<1>3. B!Announcement(n) \subseteq B!Frame
  BY <1>2 DEF B!Announcement, B!Frame
<1>4. BShape'
  BY <1>3 DEF BShape, B!Announce, B!DbfsAssumption, B!Frame
<1>5. \A f \in bAir' : f.type = "neighbourhood" /\ f.to \in B!NeighboursOf(f.from)'
  BY <1>1 DEF BBefore, B!Announce, B!Announcement
<1>6. \A m \in B!NeighboursOf(n) : [type |-> "neighbourhood", from |-> n, to |-> m] \in bAir'
  BY DEF B!Announce, B!Announcement
<1>7. ASSUME NEW m \in bAnnounced', NEW x1 \in B!NeighboursOf(m)'
      PROVE  \/ m \in bNeighbours'[x1]
             \/ \E f \in bAir' : f.type = "neighbourhood" /\ f.from = m /\ f.to = x1
  <2>1. CASE m = n
    BY <2>1, <1>1, <1>6
  <2>2. CASE m # n
    <3>1. m \in bAnnounced /\ bNeighbours' = bNeighbours /\ bAir \subseteq bAir'
      BY <2>2 DEF B!Announce
    <3> QED BY <3>1, <1>1 DEF BBefore
  <2> QED BY <2>1, <2>2
<1>8. \A m \in Large : ~labeled'[m] /\ Blank(m)' /\ bNeighbours'[m] \subseteq B!NeighboursOf(m)'
  BY <1>1 DEF BBefore, B!Announce, Blank
<1>9. finished' = 0 /\ level'[searchRoot] = 0
  BY DEF BBefore, B!Announce
<1> QED BY <1>4, <1>5, <1>7, <1>8, <1>9 DEF BBefore

LEMMA BNeighbourBefore ==
  ASSUME BShape, BBefore, NEW g \in bAir, B!ReceiveNeighbourhood(g.to, g)
  PROVE  BShape' /\ BBefore'
<1> DEFINE n == g.to
<1>1. /\ n \in Large /\ g.from \in Large /\ n \in B!NeighboursOf(g.from)
      /\ g.from \in B!NeighboursOf(n)
  BY BFrames, BLinks DEF BBefore, BNeighbours
<1>2. link' = link /\ \A m : B!NeighboursOf(m)' = B!NeighboursOf(m)
  BY BLinked DEF B!ReceiveNeighbourhood
<1>3. /\ \A m \in Large : m # n => bNeighbours'[m] = bNeighbours[m]
      /\ bNeighbours'[n] = bNeighbours[n] \cup {g.from}
      /\ bNeighbours' \in [Large -> SUBSET Large] /\ bAir' = bAir \ {g}
  BY <1>1 DEF B!ReceiveNeighbourhood, BShape
<1>4. BShape'
  BY <1>3 DEF BShape, B!ReceiveNeighbourhood, B!DbfsAssumption, B!Frame
<1> HIDE DEF n
<1>5. ASSUME NEW m \in bAnnounced', NEW x1 \in B!NeighboursOf(m)'
      PROVE  \/ m \in bNeighbours'[x1]
             \/ \E f \in bAir' : f.type = "neighbourhood" /\ f.from = m /\ f.to = x1
  <2>1. m \in bAnnounced /\ x1 \in B!NeighboursOf(m) /\ x1 \in Large
    BY <1>2 DEF B!ReceiveNeighbourhood, B!NeighboursOf
  <2>2. CASE m \in bNeighbours[x1]
    BY <2>1, <2>2, <1>3
  <2>3. CASE m \notin bNeighbours[x1]
    <3>1. PICK f \in bAir : f.type = "neighbourhood" /\ f.from = m /\ f.to = x1
      BY <2>1, <2>3 DEF BBefore
    <3>2. CASE f = g
      BY <3>1, <3>2, <1>3 DEF n
    <3>3. CASE f # g
      BY <3>1, <3>3, <1>3
    <3> QED BY <3>2, <3>3
  <2> QED BY <2>2, <2>3
<1>6. \A m \in Large : ~labeled'[m] /\ Blank(m)' /\ bNeighbours'[m] \subseteq B!NeighboursOf(m)'
  BY <1>1, <1>2, <1>3 DEF BBefore, B!ReceiveNeighbourhood, Blank
<1>7. /\ finished' = 0 /\ level'[searchRoot] = 0
      /\ \A f \in bAir' : f.type = "neighbourhood" /\ f.to \in B!NeighboursOf(f.from)'
  BY <1>2, <1>3 DEF BBefore, B!ReceiveNeighbourhood
<1> QED BY <1>4, <1>5, <1>6, <1>7 DEF BBefore

LEMMA BeginRun ==
  ASSUME BShape, BBefore, B!Begin
  PROVE  BShape' /\ \E k, h, r, W : Ghosts(k, h, r, W)' /\ BRun(k, h, r, W)'
<1> DEFINE n == searchRoot
<1>1. n \in Large /\ bAnnounced = Large /\ bAir = {} /\ breadthMod \in Nat \ {0} /\ Null \notin Large
  BY DEF B!Begin, BShape, B!DbfsAssumption
<1>2. link' = link /\ \A m : B!NeighboursOf(m)' = B!NeighboursOf(m)
  BY BLinked DEF B!Begin
<1>3. \A m \in Large : bNeighbours[m] = B!NeighboursOf(m)
  <2> SUFFICES ASSUME NEW m \in Large, NEW x1 \in B!NeighboursOf(m) PROVE x1 \in bNeighbours[m]
    BY DEF BBefore
  <2>1. x1 \in Large /\ m \in B!NeighboursOf(x1)
    BY BLinks DEF BNeighbours
  <2> QED BY <2>1, <1>1 DEF BBefore
<1>4. PICK st \in {"in", "end"} : st = IF B!NeighboursOf(n) = {} THEN "end" ELSE "in"
  OBVIOUS
<1>5. PICK h : h = [m \in Large |-> 0]
  OBVIOUS
<1>6. PICK r : r = [m \in Large |-> IF m = n THEN st ELSE "none"]
  OBVIOUS
<1>7. PICK W : W = B!Within
  OBVIOUS
<1>8. Layers(W)
  BY <1>1, <1>7, WithinLayers
<1>9. /\ \A m \in Large : m # n => /\ ~labeled'[m] /\ Blank(m)'
      /\ labeled'[n] /\ bParent'[n] = n /\ sendTo'[n] = B!NeighboursOf(n) /\ echoed'[n] = {}
      /\ children'[n] = {} /\ level'[n] = 0 /\ bNeighbours' = bNeighbours /\ bAnnounced' = Large
      /\ finished' = IF B!NeighboursOf(n) = {} THEN 1 ELSE 0
  BY <1>1, <1>3 DEF B!Begin, BShape, BBefore, Blank
<1>10. bAir' = {LabelTo(n, m)' : m \in B!NeighboursOf(n)}
  <2>1. bAir' = B!Label(n, 0, B!NeighboursOf(n))
    BY <1>1, <1>3 DEF B!Begin
  <2>2. \A m : LabelTo(n, m)' = [type |-> "label", from |-> n, to |-> m, level |-> 0]
    BY <1>9 DEF LabelTo
  <2> QED BY <2>1, <2>2 DEF B!Label
<1>11. BShape'
  <2>1. bAir' \subseteq B!Frame
    <3>1. bAir' = B!Label(n, 0, B!NeighboursOf(n))
      BY <1>1, <1>3 DEF B!Begin
    <3>2. B!NeighboursOf(n) \subseteq Large /\ 0 \in 0..breadthMod - 1
      BY <1>1 DEF B!NeighboursOf
    <3> QED BY <3>1, <3>2, <1>1 DEF B!Label, B!Frame
  <2>2. /\ labeled' \in [Large -> BOOLEAN] /\ bParent' \in [Large -> Large \cup {Null}]
        /\ sendTo' \in [Large -> SUBSET Large]
    BY <1>1 DEF B!Begin, BShape
  <2> QED BY <2>1, <2>2 DEF BShape, B!Begin, B!DbfsAssumption, B!Frame
<1> HIDE DEF n
<1>12. /\ r[n] = st /\ h[n] = 0 /\ \A m \in Large : h[m] = 0 /\ (m # n => r[m] = "none")
       /\ h \in [Large -> Nat] /\ r \in [Large -> Stages]
       /\ st = "end" <=> B!NeighboursOf(n) = {}
       /\ st \in {"in", "end"} /\ n = searchRoot
  BY <1>1, <1>4, <1>5, <1>6 DEF Stages, n
<1>13. \A m \in Large : BKids(m)' = {}
  BY <1>1, <1>9 DEF BKids, Blank
<1>14. W[0] = {n}
  BY <1>8, <1>12 DEF Layers, Grows
<1>15. ASSUME NEW m \in Large PROVE Placed(m, 0, h, r, W)'
  BY <1>9, <1>12, <1>14 DEF Placed
<1>16. /\ (Sets(n, r) /\ Newest(n, 0, h, r))'
       /\ (Passed(n, 0, h, r) /\ Ended(n, r) /\ Covered(n, 0, h, r))'
       /\ (Waiting(n, 0, h, r))'
  <2>1. Waits(n)' = B!NeighboursOf(n)
    BY <1>9 DEF Waits
  <2>2. \A m \in B!NeighboursOf(n) : LabelTo(n, m)' \in bAir'
    BY <1>10
  <2>3. ASSUME NEW m \in B!NeighboursOf(n) PROVE Expects(n, m, 0, h, r)'
    BY <2>2, <1>1, <1>12, <1>13 DEF Expects
  <2> QED BY <2>1, <2>2, <2>3, <1>1, <1>2, <1>9, <1>12, <1>13 DEF Sets, Newest, Passed, Ended, Covered, Waiting
<1>17. ASSUME NEW g \in bAir' PROVE Due(g, r)'
  <2>1. PICK m \in B!NeighboursOf(n) : g = LabelTo(n, m)'
    BY <1>10
  <2>2. g.type = "label" /\ g.from = n /\ g.to = m
    BY <2>1 DEF LabelTo
  <2>3. m \in Waits(n)' /\ r[n] = "in"
    BY <2>1, <1>9, <1>12 DEF Waits
  <2> QED BY <2>1, <2>2, <2>3, <1>1, <1>13 DEF Due
<1>18. ASSUME NEW m \in Large PROVE Tallied(m, r)'
  BY <1>9, <1>13 DEF Tallied, Blank
<1>19. BRun(0, h, r, W)'
  BY <1>2, <1>3, <1>9, <1>12, <1>14, <1>15, <1>16, <1>17, <1>18 DEF BRun
<1>20. Ghosts(0, h, r, W)'
  BY <1>2, <1>8, <1>12, BLinked DEF Ghosts
<1> QED BY <1>11, <1>19, <1>20

LEMMA StepWInv ==
  ASSUME WInv, [B!Next]_bVars
  PROVE  WInv'
<1>1. CASE UNCHANGED bVars
  <2>1. BShape'
    BY <1>1 DEF WInv, BShape, bVars, B!DbfsAssumption, B!Frame
  <2>2. \A n : B!NeighboursOf(n)' = B!NeighboursOf(n)
    BY <1>1, BLinked DEF bVars
  <2>3. CASE BBefore
    <3>1. BBefore'
      BY <1>1, <2>2, <2>3 DEF BBefore, bVars, Blank
    <3> QED BY <2>1, <3>1 DEF WInv
  <2>4. CASE ~BBefore
    <3>1. PICK k, h, r, W : Ghosts(k, h, r, W) /\ BRun(k, h, r, W)
      BY <2>4 DEF WInv
    <3>2. Ghosts(k, h, r, W)'
      BY <1>1, <3>1, BLinked DEF Ghosts, bVars
    <3>3. BRun(k, h, r, W)'
      BY <1>1, <2>2, <3>1 DEF BRun, bVars, Placed, Blank, Sets, Newest, Passed, Ended,
         Covered, Waiting, Expects, Due, Tallied, Waits, BKids, LabelTo, Answer, StatusOf
    <3> QED BY <2>1, <3>2, <3>3 DEF WInv
  <2> QED BY <2>3, <2>4
<1>2. CASE B!Next /\ BShape /\ BBefore
  <2>1. CASE \E n \in Large : B!Announce(n)
    BY <1>2, <2>1, BAnnounceBefore DEF WInv
  <2>2. CASE B!Begin
    BY <1>2, <2>2, BeginRun DEF WInv
  <2>3. CASE \E f \in bAir : B!Receive(f.to, f)
    <3>1. PICK f \in bAir : B!Receive(f.to, f)
      BY <2>3
    <3>2. f.type = "neighbourhood"
      BY <1>2 DEF BBefore
    <3>3. B!ReceiveNeighbourhood(f.to, f)
      BY <3>1, <3>2 DEF B!Receive, B!FirstLabel, B!NextLevel, B!Stop, B!ReceiveEcho
    <3> QED BY <3>3, <1>2, BNeighbourBefore DEF WInv
  <2> QED BY <1>2, <2>1, <2>2, <2>3 DEF B!Next
<1>3. CASE B!Next /\ ~BBefore
  <2>1. BShape
    BY DEF WInv
  <2>2. PICK k, h, r, W : Ghosts(k, h, r, W) /\ BRun(k, h, r, W)
    BY <1>3 DEF WInv
  <2>3. ~\E n \in Large : B!Announce(n)
    BY <2>2 DEF BRun, B!Announce
  <2>4. ~B!Begin
    BY <2>2 DEF BRun, B!Begin
  <2>5. PICK f \in bAir : B!Receive(f.to, f)
    BY <1>3, <2>3, <2>4 DEF B!Next
  <2>6. CASE B!ReceiveNeighbourhood(f.to, f)
    BY <2>2, <2>6 DEF BRun, Due, B!ReceiveNeighbourhood
  <2>7. CASE B!FirstLabel(f.to, f)
    BY <2>1, <2>2, <2>7, FirstLabelShape, FirstLabelRun DEF WInv
  <2>8. CASE B!NextLevel(f.to, f)
    BY <2>1, <2>2, <2>8, NextLevelRun DEF WInv
  <2>9. CASE B!Stop(f.to, f)
    BY <2>1, <2>2, <2>9, StopRun DEF WInv
  <2>10. CASE B!ReceiveEcho(f.to, f)
    <3>1. BShape'
      BY <2>1, <2>2, <2>10, EchoShape
    <3>2. CASE ~(B!Remaining(f.to, f) \subseteq B!Heard(f.to, f))
      BY <2>1, <2>2, <2>10, <3>1, <3>2, EchoGoesOn DEF WInv
    <3>3. CASE B!Remaining(f.to, f) \subseteq B!Heard(f.to, f) /\ f.to # searchRoot
      BY <2>1, <2>2, <2>10, <3>1, <3>3, EchoAnswers DEF WInv
    <3>4. CASE B!Remaining(f.to, f) = {} /\ f.to = searchRoot
      BY <2>1, <2>2, <2>10, <3>1, <3>4, EchoEnds DEF WInv
    <3>5. CASE /\ B!Remaining(f.to, f) \subseteq B!Heard(f.to, f) /\ f.to = searchRoot
               /\ B!Remaining(f.to, f) # {}
      BY <2>1, <2>2, <2>10, <3>1, <3>5, EchoNextWave DEF WInv
    <3> QED BY <3>2, <3>3, <3>4, <3>5
  <2> QED BY <2>5, <2>6, <2>7, <2>8, <2>9, <2>10 DEF B!Receive
<1>4. BShape
  BY DEF WInv
<1> QED BY <1>1, <1>2, <1>3, <1>4
LEMMA WInvTypes ==
  ASSUME WInv
  PROVE  B!TypeOK
<1>1. BShape
  BY DEF WInv
<1>2. CASE BBefore
  <2>1. \A n \in Large : /\ bParent[n] \in B!NeighboursOf(n) \cup {Null, n}
                         /\ bNeighbours[n] \subseteq B!NeighboursOf(n)
                         /\ children[n] \subseteq bNeighbours[n]
                         /\ echoed[n] \subseteq sendTo[n] /\ sendTo[n] \subseteq bNeighbours[n]
    BY <1>2 DEF BBefore, Blank
  <2> QED BY <1>1, <1>2, <2>1 DEF BBefore, BShape, B!TypeOK
<1>3. CASE ~BBefore
  <2>1. PICK k, h, r, W : Ghosts(k, h, r, W) /\ BRun(k, h, r, W)
    BY <1>3 DEF WInv
  <2>2. ASSUME NEW n \in Large
        PROVE  /\ bParent[n] \in B!NeighboursOf(n) \cup {Null, n}
               /\ bNeighbours[n] \subseteq B!NeighboursOf(n)
               /\ children[n] \subseteq bNeighbours[n]
               /\ echoed[n] \subseteq sendTo[n] /\ sendTo[n] \subseteq bNeighbours[n]
    <3>1. Placed(n, k, h, r, W) /\ Tallied(n, r) /\ bNeighbours[n] = B!NeighboursOf(n)
      BY <2>1 DEF BRun
    <3>2. bParent[n] \in B!NeighboursOf(n) \cup {Null, n}
      BY <3>1 DEF Placed, Blank
    <3>3. echoed[n] \subseteq sendTo[n] /\ sendTo[n] \subseteq bNeighbours[n]
      BY <2>1, <3>1 DEF BRun, Placed, Blank, Sets
    <3>4. ASSUME NEW m \in children[n] PROVE m \in bNeighbours[n]
      <4>1. m \in Large /\ bParent[m] = n /\ m # n
        BY <3>1 DEF Tallied, BKids
      <4>2. labeled[m]
        BY <4>1, <2>1, <1>1 DEF BRun, Placed, Blank, BShape, B!DbfsAssumption
      <4>3. m # searchRoot
        BY <4>1, <4>2, <2>1 DEF BRun, Placed
      <4>4. n \in B!NeighboursOf(m)
        BY <4>1, <4>2, <4>3, <2>1 DEF BRun, Placed
      <4> QED BY <4>1, <4>4, <3>1, <1>1, BLinks DEF BNeighbours
    <3> QED BY <3>1, <3>2, <3>3, <3>4
  <2>3. finished \in 0..1
    BY <2>1 DEF BRun
  <2> QED BY <1>1, <2>2, <2>3 DEF BShape, B!TypeOK
<1> QED BY <1>2, <1>3

LEMMA WInvLevels ==
  ASSUME WInv
  PROVE  B!LevelIsDistance
<1>1. BShape
  BY DEF WInv
<1>2. CASE BBefore
  BY <1>2 DEF BBefore, B!LevelIsDistance
<1>3. CASE ~BBefore
  <2>1. PICK k, h, r, W : Ghosts(k, h, r, W) /\ BRun(k, h, r, W)
    BY <1>3 DEF WInv
  <2>2. k \in Nat /\ h \in [Large -> Nat] /\ Layers(W) /\ breadthMod \in Nat \ {0} /\ searchRoot \in Large
    BY <2>1, <1>1 DEF Ghosts, BShape, B!DbfsAssumption
  <2>3. \A i \in Nat : B!Within[i] = W[i]
    BY <2>2, WithinLayers, LayersAgree DEF Layers
  <2> DEFINE far == breadthMod - 1
  <2>4. far \in Nat
    BY <2>2
  <2> SUFFICES ASSUME B!Linked(W[far]), NEW n \in Large, labeled[n]
               PROVE  n \in W[level[n]] /\ (level[n] > 0 => n \notin W[level[n] - 1])
    <3>1. level \in [Large -> 0..breadthMod - 1]
      BY <1>1 DEF BShape
    <3>2. \A n \in Large : level[n] \in Nat /\ (level[n] > 0 => level[n] - 1 \in Nat)
      BY <3>1, <2>2
    <3> QED BY <3>2, <2>3, <2>4 DEF B!LevelIsDistance
  <2> HIDE DEF far
  <2>5. \A m \in Large : labeled[m] => m \in W[far]
    <3> DEFINE Bad == {m \in Large : labeled[m] /\ m \notin W[far]}
               X == {h[m] : m \in Bad}
    <3> SUFFICES ASSUME Bad # {} PROVE FALSE
      OBVIOUS
    <3>1. X \in SUBSET Nat /\ X # {}
      BY <2>2
    <3>2. PICK i \in X : \A j \in X : i <= j
      <4> HIDE DEF X
      <4> QED BY <3>1, Least
    <3>3. PICK m \in Bad : h[m] = i
      OBVIOUS
    <3>4. m \in Large /\ labeled[m] /\ m \notin W[far]
      BY <3>3
    <3>5. m # searchRoot
      <4>1. W[0] \subseteq W[far]
        BY <2>2, <2>4, LayersGrow DEF Layers
      <4> QED BY <4>1, <3>4, <2>2 DEF Layers, Grows
    <3> DEFINE p == bParent[m]
    <3>6. p \in B!NeighboursOf(m) /\ labeled[p] /\ h[m] = h[p] + 1
      BY <2>1, <3>4, <3>5 DEF BRun, Placed
    <3>7. p \in Large /\ m \in B!NeighboursOf(p)
      BY <1>1, <3>4, <3>6, BLinks DEF BNeighbours
    <3>8. p \notin W[far]
      BY <3>4, <3>7 DEF B!Linked
    <3>9. h[p] \in X
      BY <3>6, <3>7, <3>8
    <3>10. i <= h[p]
      BY <3>2, <3>9
    <3> QED BY <3>10, <3>3, <3>4, <3>6, <3>7, <2>2
  <2>6. Placed(n, k, h, r, W)
    BY <2>1 DEF BRun
  <2>7. n \in W[h[n]] /\ (h[n] > 0 => n \notin W[h[n] - 1]) /\ (h[n] < breadthMod => level[n] = h[n])
    BY <2>6 DEF Placed
  <2>8. h[n] < breadthMod
    <3> SUFFICES ASSUME ~(h[n] < breadthMod) PROVE FALSE
      OBVIOUS
    <3>1. h[n] - 1 \in Nat /\ far <= h[n] - 1 /\ h[n] > 0
      BY <2>2 DEF far
    <3>2. W[far] \subseteq W[h[n] - 1]
      BY <3>1, <2>2, <2>4, LayersGrow DEF Layers
    <3> QED BY <3>1, <3>2, <2>5, <2>7
  <2> QED BY <2>7, <2>8
<1> QED BY <1>2, <1>3

LEMMA WInvFinished ==
  ASSUME WInv
  PROVE  B!FinishedTree
<1>1. BShape
  BY DEF WInv
<1>2. CASE BBefore
  BY <1>2 DEF BBefore, B!FinishedTree
<1>3. CASE ~BBefore
  <2> SUFFICES ASSUME finished > 0 PROVE B!FinishedTree
    BY DEF B!FinishedTree
  <2>1. PICK k, h, r, W : Ghosts(k, h, r, W) /\ BRun(k, h, r, W)
    BY <1>3 DEF WInv
  <2>2. /\ k \in Nat /\ h \in [Large -> Nat] /\ r \in [Large -> Stages] /\ searchRoot \in Large
        /\ Null \notin Large
    BY <2>1, <1>1 DEF Ghosts, BShape, B!DbfsAssumption
  <2>3. r[searchRoot] = "end" /\ finished = 1
    BY <2>1 DEF BRun
  <2>4. \A n \in Large : labeled[n] => r[n] = "end"
    <3> DEFINE Bad == {n \in Large : labeled[n] /\ r[n] # "end"}
               X == {h[n] : n \in Bad}
    <3> SUFFICES ASSUME Bad # {} PROVE FALSE
      OBVIOUS
    <3>1. X \in SUBSET Nat /\ X # {}
      BY <2>2
    <3>2. PICK i \in X : \A j \in X : i <= j
      <4> HIDE DEF X
      <4> QED BY <3>1, Least
    <3>3. PICK n \in Bad : h[n] = i
      OBVIOUS
    <3>4. n \in Large /\ n # searchRoot /\ labeled[n] /\ r[n] # "end"
      BY <3>3, <2>3
    <3> DEFINE p == bParent[n]
    <3>5. p \in B!NeighboursOf(n) /\ labeled[p] /\ h[n] = h[p] + 1
      BY <2>1, <3>4 DEF BRun, Placed
    <3>6. p \in Large /\ p # n
      BY <1>1, <3>4, <3>5, BLinks DEF BNeighbours
    <3>7. r[p] # "end"
      <4>1. Ended(p, r)
        BY <3>5, <3>6, <2>1 DEF BRun
      <4> QED BY <4>1, <3>4, <3>6 DEF Ended, BKids
    <3>8. h[p] \in X
      BY <3>5, <3>6, <3>7
    <3>9. i <= h[p]
      BY <3>2, <3>8
    <3> QED BY <3>9, <3>3, <3>4, <3>5, <3>6, <2>2
  <2>5. \A n \in Large : r[n] # "in"
    BY <2>1, <2>4 DEF BRun, Placed
  <2>6. bAir = {}
    <3> SUFFICES ASSUME NEW f \in bAir PROVE FALSE
      OBVIOUS
    <3>1. Due(f, r) /\ f.from \in Large /\ f.to \in Large
      BY <2>1, <1>1, BFrames DEF BRun
    <3> QED BY <3>1, <2>5 DEF Due
  <2>7. \A n \in Large : labeled[n] =>
          sendTo[n] = {} /\ \A m \in B!NeighboursOf(n) : labeled[m]
    <3> SUFFICES ASSUME NEW n \in Large, labeled[n]
                 PROVE  sendTo[n] = {} /\ \A m \in B!NeighboursOf(n) : labeled[m]
      OBVIOUS
    <3>1. r[n] = "end" /\ Ended(n, r) /\ Covered(n, k, h, r)
      BY <2>1, <2>4 DEF BRun
    <3> QED BY <3>1 DEF Ended, Covered
  <2>8. ASSUME NEW n \in Large, B!InReach(n) PROVE labeled[n] /\ sendTo[n] = {}
    <3> DEFINE X == {m \in Large : labeled[m]}
    <3>1. B!Linked(X)
      BY <2>7 DEF B!Linked, B!NeighboursOf
    <3>2. searchRoot \in X
      BY <2>1, <2>2 DEF BRun
    <3>3. n \in X
      BY <2>8, <3>1, <3>2 DEF B!InReach
    <3> QED BY <3>3, <2>7
  <2>9. ASSUME NEW n \in Large, NEW m \in Large PROVE m \in children[n] <=> bParent[m] = n /\ m # n
    <3>1. Tallied(n, r)
      BY <2>1 DEF BRun
    <3> QED BY <3>1, <2>6 DEF Tallied, BKids
  <2> QED BY <2>3, <2>6, <2>8, <2>9 DEF B!FinishedTree
<1> QED BY <1>2, <1>3

------------------------------------------------------------------------------
(***************************************************************************)
(* Convergecast.  In each convergecast a node is idle, then asked, busy    *)
(* with the results of its children, then it has told its parent, and at   *)
(* last its result is there.                                               *)
(***************************************************************************)
InitTo(n, i) == [type |-> "init", from |-> vParent[n], to |-> n, id |-> i]

ResponseOf(n, i) ==
  [type |-> "response", from |-> n, to |-> vParent[n], id |-> i,
   result |-> V!Once(V!Branch(n))]

VShape ==
  /\ V!ConvergecastAssumption /\ vParent \in castTrees /\ started \subseteq castId
  /\ buffer \in [Large -> [castId -> Seq([Large -> Nat])]]
  /\ \A n \in Large : \A i \in castId : Len(buffer[n][i]) <= castBuffer
  /\ vFinished \in [castId -> Seq([Large -> Nat])]

CastPhase == [castId -> [Large -> {"idle", "asked", "busy", "told", "there"}]]

CastFrames(g) ==
  \A f \in vAir : \E n \in Large : \E i \in castId :
    /\ vParent[n] \in Large
    /\ \/ f = InitTo(n, i) /\ g[i][n] = "asked"
       \/ f = ResponseOf(n, i) /\ g[i][n] = "told"

RootOf(g, i) ==
  \A n \in Large : vParent[n] = Null =>
    /\ g[i][n] \in {"idle", "busy", "there"}
    /\ g[i][n] = "idle" <=> i \notin started
    /\ vFinished[i] = IF g[i][n] = "there" THEN <<V!Once(Large)>> ELSE <<>>

DownInTurn(g, i) ==
  \A n \in Large : \A m \in V!Children(n) :
    /\ g[i][n] \in {"idle", "asked"} => g[i][m] = "idle"
    /\ g[i][n] \in {"told", "there"} => g[i][m] = "there"


CollectedOf(g, i) ==
  \A n \in Large :
    /\ \A k \in DOMAIN buffer[n][i] :
         \E m \in V!Children(n) : g[i][m] = "there" /\ buffer[n][i][k] = V!Once(V!Branch(m))
    /\ Distinct(buffer[n][i])

VGood(g) == /\ CastFrames(g)
            /\ \A i \in castId : RootOf(g, i) /\ DownInTurn(g, i) /\ CollectedOf(g, i)

VInv == VShape /\ \E g \in CastPhase : VGood(g)

LEMMA VFacts ==
  ASSUME VShape
  PROVE  /\ Null \notin Large /\ IsFiniteSet(Large) /\ castBuffer \in Nat
         /\ vParent \in [Large -> Large \cup {Null}]
         /\ \E r \in Large : vParent[r] = Null /\
              \A X \in SUBSET Large :
                r \in X /\ (\A m \in Large : vParent[m] \in X => m \in X) => X = Large
BY SameSizeSearch DEF VShape, V!ConvergecastAssumption, V!IsTree

LEMMA BranchStep ==
  ASSUME VShape, NEW n \in Large, NEW m \in Large
  PROVE  /\ n \in V!Branch(n)
         /\ m \in V!Branch(n) <=> m = n \/ \E k \in V!Children(n) : m \in V!Branch(k)
<1> DEFINE X == {n} \cup {x \in Large : \E k \in V!Children(n) : x \in V!Branch(k)}
<1>1. \A k \in Large : k \in V!Branch(k) /\ V!Descending(V!Branch(k))
  BY DEF V!Branch, V!Descending, V!Children
<1>2. n \in X /\ X \subseteq Large
  OBVIOUS
<1>3. V!Descending(X)
  BY <1>1 DEF V!Descending, V!Children
<1>4. V!Branch(n) \subseteq X
  BY <1>2, <1>3 DEF V!Branch
<1>5. ASSUME NEW k \in V!Children(n) PROVE V!Branch(k) \subseteq V!Branch(n)
  BY <1>5 DEF V!Branch, V!Descending, V!Children
<1> QED BY <1>1, <1>4, <1>5

LEMMA BranchUp ==
  ASSUME VShape, NEW n \in Large, NEW m \in V!Branch(n), m # n
  PROVE  vParent[m] \in V!Branch(n)
<1> DEFINE X == {x \in V!Branch(n) : x = n \/ vParent[x] \in V!Branch(n)}
<1>1. n \in V!Branch(n) /\ V!Descending(V!Branch(n)) /\ V!Branch(n) \subseteq Large
  BY DEF V!Branch, V!Descending, V!Children
<1>2. V!Descending(X) /\ X \in SUBSET Large /\ n \in X
  BY <1>1 DEF V!Descending, V!Children
<1>3. m \in X
  BY <1>2 DEF V!Branch
<1> QED BY <1>3

LEMMA ParentNotBelow ==
  ASSUME VShape, NEW n \in Large
  PROVE  vParent[n] \notin V!Branch(n)
<1> DEFINE X == {m \in Large : vParent[m] \notin V!Branch(m)}
<1>1. \A k \in Large : V!Branch(k) \subseteq Large
  BY DEF V!Branch
<1>2. PICK r \in Large : vParent[r] = Null /\
        \A Y \in SUBSET Large :
          r \in Y /\ (\A m \in Large : vParent[m] \in Y => m \in Y) => Y = Large
  BY VFacts
<1>3. r \in X
  BY <1>1, <1>2, VFacts
<1>4. ASSUME NEW m \in Large, vParent[m] \in X PROVE m \in X
  <2> DEFINE p == vParent[m]
  <2>1. SUFFICES ASSUME p \in V!Branch(m) PROVE FALSE
    OBVIOUS
  <2>2. p \in Large /\ m \in V!Children(p)
    BY <1>4 DEF V!Children
  <2>3. V!Branch(m) \subseteq V!Branch(p)
    BY <2>2, BranchStep, <1>1
  <2>4. vParent[p] \in V!Branch(m)
    BY <2>1, <1>4, BranchUp
  <2> QED BY <2>3, <2>4, <1>4
<1> QED BY <1>2, <1>3, <1>4

LEMMA BranchesApart ==
  ASSUME VShape, NEW k \in Large, NEW l \in Large, k # l,
         vParent[k] = vParent[l], vParent[k] \in Large,
         NEW m \in V!Branch(k)
  PROVE  m \notin V!Branch(l)
<1> DEFINE X == {x \in Large : ~(x \in V!Branch(k) /\ x \in V!Branch(l))}
<1>1. \A y \in Large : V!Branch(y) \subseteq Large
  BY DEF V!Branch
<1>2. PICK r \in Large : vParent[r] = Null /\
        \A Y \in SUBSET Large :
          r \in Y /\ (\A x1 \in Large : vParent[x1] \in Y => x1 \in Y) => Y = Large
  BY VFacts
<1>3. r \in X
  BY <1>1, <1>2, VFacts, BranchUp
<1>4. ASSUME NEW x1 \in Large, vParent[x1] \in X PROVE x1 \in X
  BY <1>4, BranchUp, ParentNotBelow
<1>5. X = Large
  BY <1>2, <1>3, <1>4
<1> QED BY <1>5, <1>1

LEMMA BranchOfRoot ==
  ASSUME VShape, NEW n \in Large, vParent[n] = Null
  PROVE  V!Branch(n) = Large
<1>1. V!Branch(n) \subseteq Large /\ n \in V!Branch(n) /\ V!Descending(V!Branch(n))
  BY DEF V!Branch, V!Descending, V!Children
<1>2. PICK r \in Large : vParent[r] = Null /\
        \A Y \in SUBSET Large :
          r \in Y /\ (\A m \in Large : vParent[m] \in Y => m \in Y) => Y = Large
  BY VFacts
<1>3. r = n
  <2>1. SUFFICES ASSUME r # n PROVE FALSE
    OBVIOUS
  <2> DEFINE Y == Large \ {n}
  <2>2. \A m \in Large : vParent[m] \in Y => m \in Y
    BY VFacts
  <2>3. Y \in SUBSET Large /\ r \in Y
    BY <2>1
  <2>4. Y = Large
    BY <1>2, <2>2, <2>3
  <2> QED BY <2>4
<1>4. \A m \in Large : vParent[m] \in V!Branch(n) => m \in V!Branch(n)
  BY <1>1 DEF V!Descending, V!Children
<1> QED BY <1>1, <1>2, <1>3, <1>4

LEMMA CastSent ==
  ASSUME NEW n \in Large, NEW i \in castId, NEW f
  PROVE  /\ f \in V!Ask(n, i) <=> \E m \in V!Children(n) : f = InitTo(m, i)
         /\ f \in V!Respond(n, i, V!Once(V!Branch(n))) <=> f = ResponseOf(n, i)
BY DEF V!Ask, V!Respond, InitTo, ResponseOf, V!Children

LEMMA CastFrameFields ==
  ASSUME NEW n, NEW i
  PROVE  /\ InitTo(n, i).type = "init" /\ InitTo(n, i).to = n /\ InitTo(n, i).id = i
         /\ ResponseOf(n, i).type = "response" /\ ResponseOf(n, i).from = n
         /\ ResponseOf(n, i).to = vParent[n] /\ ResponseOf(n, i).id = i
         /\ ResponseOf(n, i).result = V!Once(V!Branch(n))
BY DEF InitTo, ResponseOf

(***************************************************************************)
(* What a node that has heard all its children tells.                      *)
(***************************************************************************)
LEMMA CalculatedAll ==
  ASSUME VShape, NEW n \in Large, NEW s \in Seq([Large -> Nat]), Distinct(s),
         \A k \in DOMAIN s : \E m \in V!Children(n) : s[k] = V!Once(V!Branch(m)),
         \A m \in V!Children(n) : \E k \in DOMAIN s : s[k] = V!Once(V!Branch(m))
  PROVE  V!Calculated(n, s) = V!Once(V!Branch(n))
<1>0. \A m : m \in V!Children(n) => m \in Large /\ vParent[m] = n
  BY DEF V!Children
<1>00. ASSUME NEW m \in Large PROVE V!Once({n})[m] = IF m = n THEN 1 ELSE 0
  BY DEF V!Once
<1>1. ASSUME NEW m \in Large
      PROVE  V!Once({n})[m] + V!Cardinality(V!Counts(s, m)) = V!Once(V!Branch(n))[m]
  <2>1. ASSUME NEW k \in DOMAIN s PROVE s[k][m] \in {0, 1}
    BY <1>0, <2>1 DEF V!Once
  <2>2. ASSUME NEW x1 PROVE x1 \in V!Counts(s, m) <=> \E k \in DOMAIN s : s[k][m] = 1 /\ x1 = <<k, 1>>
    <3>1. ASSUME NEW k \in DOMAIN s
          PROVE  {k} \X (1..s[k][m]) = IF s[k][m] = 1 THEN {<<k, 1>>} ELSE {}
      <4>1. CASE s[k][m] = 1
        <5>1. 1..s[k][m] = {1}
          BY <4>1
        <5> QED BY <5>1, <4>1
      <4>2. CASE s[k][m] = 0
        <5>1. 1..s[k][m] = {}
          BY <4>2
        <5> QED BY <5>1, <4>2
      <4> QED BY <2>1, <4>1, <4>2
    <3> QED BY <3>1 DEF V!Counts
  <2>3. CASE m = n
    <3>1. V!Counts(s, m) = {}
      <4>1. ASSUME NEW k \in DOMAIN s, s[k][m] = 1 PROVE FALSE
        <5>1. PICK h \in V!Children(n) : s[k] = V!Once(V!Branch(h))
          OBVIOUS
        <5>2. n \in V!Branch(h)
          BY <5>1, <4>1, <2>3 DEF V!Once
        <5> QED BY <5>2, <1>0, ParentNotBelow
      <4> QED BY <4>1, <2>2
    <3> QED BY <3>1, <2>3, <1>00, FS_EmptySet, SameSizeSearch, BranchStep DEF V!Once
  <2>4. CASE m # n /\ m \in V!Branch(n)
    <3>1. PICK k \in V!Children(n) : m \in V!Branch(k)
      BY <2>4, BranchStep
    <3>2. PICK j \in DOMAIN s : s[j] = V!Once(V!Branch(k))
      BY <3>1
    <3>3. s[j][m] = 1
      BY <3>1, <3>2 DEF V!Once
    <3>4. ASSUME NEW l \in DOMAIN s, s[l][m] = 1 PROVE l = j
      <4>1. PICK h \in V!Children(n) : s[l] = V!Once(V!Branch(h))
        OBVIOUS
      <4>2. m \in V!Branch(h)
        BY <4>1, <3>4 DEF V!Once
      <4>3. h = k
        BY <4>2, <3>1, <1>0, BranchesApart
      <4> QED BY <4>1, <4>3, <3>2 DEF Distinct
    <3>5. V!Counts(s, m) = {<<j, 1>>}
      BY <2>2, <3>3, <3>4
    <3>6. V!Cardinality(V!Counts(s, m)) = 1
      BY <3>5, FS_Singleton, SameSizeSearch
    <3> QED BY <3>6, <2>4, <1>00 DEF V!Once
  <2>5. CASE m # n /\ m \notin V!Branch(n)
    <3>1. V!Counts(s, m) = {}
      BY <2>2, <2>5, BranchStep DEF V!Once
    <3> QED BY <3>1, <2>5, <1>00, FS_EmptySet, SameSizeSearch DEF V!Once
  <2> QED BY <2>3, <2>4, <2>5
<1> QED BY <1>1 DEF V!Calculated, V!Once

\* As many results as there are children are the results of all of them.
LEMMA AllCollected ==
  ASSUME VShape, NEW n \in Large, NEW s, NEW l \in Nat, DOMAIN s = 1..l, Distinct(s),
         NEW M \in SUBSET V!Children(n),
         \A k \in DOMAIN s : \E m \in M : s[k] = V!Once(V!Branch(m)),
         l = V!Cardinality(V!Children(n))
  PROVE  /\ M = V!Children(n)
         /\ \A m \in V!Children(n) : \E k \in DOMAIN s : s[k] = V!Once(V!Branch(m))
<1> DEFINE h == [k \in 1..l |-> CHOOSE m \in M : s[k] = V!Once(V!Branch(m))]
<1>1. V!Children(n) \subseteq Large /\ IsFiniteSet(V!Children(n))
  BY VFacts, FS_Subset DEF V!Children
<1>2. ASSUME NEW k \in 1..l PROVE h[k] \in M /\ s[k] = V!Once(V!Branch(h[k]))
  OBVIOUS
<1>3. h \in Injection(1..l, V!Children(n))
  BY <1>2 DEF Injection, IsInjective, Distinct
<1>4. Cardinality(1..l) = l
  BY FS_Interval
<1>5. h \in Surjection(1..l, V!Children(n))
  BY <1>1, <1>3, <1>4, FS_Injection, SameSizeSearch
<1>6. \A m \in V!Children(n) : \E k \in 1..l : h[k] = m
  BY <1>5 DEF Surjection
<1>7. \A m \in V!Children(n) : m \in M /\ \E k \in 1..l : s[k] = V!Once(V!Branch(m))
  BY <1>2, <1>6
<1> QED BY <1>7

LEMMA AppendPlaces ==
  ASSUME NEW X, NEW s \in Seq(X), NEW e \in X, NEW j \in DOMAIN Append(s, e)
  PROVE  \/ j \in DOMAIN s /\ Append(s, e)[j] = s[j]
         \/ j = Len(s) + 1 /\ Append(s, e)[j] = e
OBVIOUS

LEMMA CastTreeStays ==
  ASSUME vParent' = vParent
  PROVE  /\ \A n : V!Branch(n)' = V!Branch(n) /\ V!Children(n)' = V!Children(n)
         /\ \A n, i : InitTo(n, i)' = InitTo(n, i) /\ ResponseOf(n, i)' = ResponseOf(n, i)
<1>1. \A n : V!Children(n)' = V!Children(n)
  BY DEF V!Children
<1>2. \A n : V!Branch(n)' = V!Branch(n)
  BY <1>1 DEF V!Branch, V!Descending
<1> QED BY <1>1, <1>2 DEF InitTo, ResponseOf

LEMMA OtherCast ==
  ASSUME NEW g, NEW h, NEW j \in castId, h[j] = g[j], vParent' = vParent,
         j \in started' <=> j \in started, vFinished'[j] = vFinished[j],
         \A n \in Large : buffer'[n][j] = buffer[n][j],
         RootOf(g, j), DownInTurn(g, j), CollectedOf(g, j)
  PROVE  RootOf(h, j)' /\ DownInTurn(h, j)' /\ CollectedOf(h, j)'
<1>1. RootOf(h, j)'
  BY DEF RootOf
<1>2. DownInTurn(h, j)'
  BY CastTreeStays DEF DownInTurn
<1>3. \A n \in Large : Distinct(buffer[n][j])'
  BY DEF CollectedOf, Distinct
<1>4. ASSUME NEW n \in Large, NEW k \in DOMAIN buffer[n][j]
      PROVE  \E m \in V!Children(n)' : h[j][m] = "there" /\ buffer[n][j][k] = V!Once(V!Branch(m))'
  BY CastTreeStays DEF CollectedOf
<1> QED BY <1>1, <1>2, <1>3, <1>4 DEF CollectedOf

\* Of the frames on their way before, those of nodes whose phase is the same.
LEMMA FrameStays ==
  ASSUME NEW g \in CastPhase, NEW h, NEW f \in vAir, CastFrames(g), vParent' = vParent,
         \A n \in Large : \A i \in castId :
           \/ h[i][n] = g[i][n]
           \/ g[i][n] \notin {"asked", "told"}
           \/ f # (IF g[i][n] = "asked" THEN InitTo(n, i) ELSE ResponseOf(n, i))
  PROVE  \E n \in Large : \E i \in castId :
           /\ vParent'[n] \in Large
           /\ \/ f = InitTo(n, i)' /\ h[i][n] = "asked"
              \/ f = ResponseOf(n, i)' /\ h[i][n] = "told"
<1>1. PICK n \in Large, i \in castId :
        /\ vParent[n] \in Large
        /\ \/ f = InitTo(n, i) /\ g[i][n] = "asked"
           \/ f = ResponseOf(n, i) /\ g[i][n] = "told"
  BY DEF CastFrames
<1>2. h[i][n] = g[i][n]
  BY <1>1
<1> QED BY <1>1, <1>2, CastTreeStays

LEMMA InitVInv == V!ConvergecastAssumption /\ V!Init => VInv
<1> SUFFICES ASSUME V!ConvergecastAssumption, V!Init PROVE VInv
  OBVIOUS
<1> DEFINE g == [i \in castId |-> [n \in Large |-> "idle"]]
<1>1. VShape
  BY DEF V!Init, VShape, V!ConvergecastAssumption
<1>2. g \in CastPhase /\ VGood(g)
  BY DEF V!Init, VGood, CastPhase, CastFrames, RootOf, DownInTurn, CollectedOf, Distinct, V!Children
<1> QED BY <1>1, <1>2 DEF VInv

LEMMA StartVInv ==
  ASSUME VInv, NEW n \in Large, NEW i \in castId, V!StartConvergecast(n, i)
  PROVE  VInv'
<1>1. PICK g \in CastPhase : VGood(g)
  BY DEF VInv
<1>2. VShape /\ VShape'
  BY DEF VInv, VShape, V!StartConvergecast
<1>3. /\ vParent' = vParent /\ \A m \in Large : V!Branch(m)' = V!Branch(m)
      /\ \A m \in Large : V!Children(m)' = V!Children(m)
      /\ buffer' = buffer /\ vFinished' = vFinished
  BY DEF V!StartConvergecast, V!Branch, V!Children, V!Descending
<1>4. g[i][n] = "idle" /\ vParent[n] = Null
  BY <1>1 DEF VGood, RootOf, V!StartConvergecast
<1>5. \A m \in V!Children(n) : g[i][m] = "idle" /\ m # n /\ m \in Large /\ vParent[m] \in Large
  BY <1>1, <1>4, <1>2, VFacts DEF VGood, DownInTurn, V!Children
<1>6. PICK h \in CastPhase :
        /\ \A j \in castId \ {i} : h[j] = g[j]
        /\ \A m \in Large : h[i][m] = IF m = n THEN "busy"
                                      ELSE IF m \in V!Children(n) THEN "asked" ELSE g[i][m]
  <2> DEFINE h0 == [g EXCEPT ![i] = [m \in Large |-> IF m = n THEN "busy"
                                     ELSE IF m \in V!Children(n) THEN "asked" ELSE g[i][m]]]
  <2>1. h0 \in CastPhase
    BY <1>1 DEF CastPhase
  <2> QED BY <2>1 DEF CastPhase
<1>7. CastFrames(h)'
  <2>1. ASSUME NEW f \in vAir'
        PROVE  \E m \in Large : \E j \in castId :
                 /\ vParent'[m] \in Large
                 /\ \/ f = InitTo(m, j)' /\ h[j][m] = "asked"
                    \/ f = ResponseOf(m, j)' /\ h[j][m] = "told"
    <3>1. CASE f \in vAir
      <4>1. CastFrames(g)
        BY <1>1 DEF VGood
      <4>2. ASSUME NEW m \in Large, NEW j \in castId
            PROVE  h[j][m] = g[j][m] \/ g[j][m] \notin {"asked", "told"}
        BY <1>4, <1>5, <1>6
      <4> QED BY <4>1, <4>2, <3>1, <1>1, <1>3, FrameStays
    <3>2. CASE f \in V!Ask(n, i)
      <4>1. PICK m \in V!Children(n) : f = InitTo(m, i)
        BY <3>2, CastSent
      <4> QED BY <4>1, <1>3, <1>5, <1>6, CastTreeStays
    <3> QED BY <3>1, <3>2 DEF V!StartConvergecast
  <2> QED BY <2>1 DEF CastFrames
<1>8. ASSUME NEW j \in castId \ {i} PROVE RootOf(h, j)' /\ DownInTurn(h, j)' /\ CollectedOf(h, j)'
  <2>1. RootOf(g, j) /\ DownInTurn(g, j) /\ CollectedOf(g, j)
    BY <1>1 DEF VGood
  <2>2. h[j] = g[j] /\ (j \in started' <=> j \in started)
    BY <1>6 DEF V!StartConvergecast
  <2> QED BY <2>1, <2>2, <1>3, OtherCast
<1>9. RootOf(g, i) /\ DownInTurn(g, i) /\ CollectedOf(g, i)
  BY <1>1 DEF VGood
<1>10. RootOf(h, i)'
  <2>1. \A m \in Large : vParent[m] = Null => m = n
    BY <1>4, <1>2, BranchOfRoot, BranchUp, VFacts
  <2> QED BY <2>1, <1>6, <1>9, <1>3, <1>4 DEF RootOf, V!StartConvergecast
<1>11. DownInTurn(h, i)'
  <2>1. ASSUME NEW k \in Large, NEW m \in V!Children(k)
        PROVE  /\ h[i][k] \in {"idle", "asked"} => h[i][m] = "idle"
               /\ h[i][k] \in {"told", "there"} => h[i][m] = "there"
    <3>1. m \in Large /\ vParent[m] = k
      BY DEF V!Children
    <3>2. CASE k = n
      BY <3>2, <1>6
    <3>3. CASE k \in V!Children(n)
      <4>1. m \notin V!Children(n) /\ m # n
        BY <3>1, <3>3, <1>5, <1>4, <1>2, VFacts DEF V!Children
      <4> QED BY <4>1, <3>3, <3>1, <1>6, <1>5, <1>9 DEF DownInTurn
    <3>4. CASE k # n /\ k \notin V!Children(n)
      <4>1. m \notin V!Children(n) /\ m # n
        BY <3>1, <3>4, <1>4, <1>2, VFacts DEF V!Children
      <4> QED BY <4>1, <3>4, <3>1, <1>6, <1>9 DEF DownInTurn
    <3> QED BY <3>2, <3>3, <3>4
  <2> QED BY <2>1, <1>3 DEF DownInTurn
<1>12. CollectedOf(h, i)'
  <2>1. ASSUME NEW k \in Large, NEW l \in DOMAIN buffer[k][i]
        PROVE  \E m \in V!Children(k) : h[i][m] = "there" /\ buffer[k][i][l] = V!Once(V!Branch(m))
    <3>1. PICK m \in V!Children(k) : g[i][m] = "there" /\ buffer[k][i][l] = V!Once(V!Branch(m))
      BY <1>9 DEF CollectedOf
    <3>2. m \in Large /\ h[i][m] = "there"
      BY <3>1, <1>6, <1>4, <1>5 DEF V!Children
    <3> QED BY <3>1, <3>2
  <2>2. \A k \in Large : Distinct(buffer[k][i])'
    BY <1>3, <1>9 DEF CollectedOf, Distinct
  <2> QED BY <2>1, <2>2, <1>3, CastTreeStays DEF CollectedOf
<1> QED BY <1>2, <1>6, <1>7, <1>8, <1>10, <1>11, <1>12 DEF VInv, VGood

LEMMA CallVInv ==
  ASSUME VInv, NEW n \in Large, NEW f \in vAir, V!OnReceiveCall(n, f)
  PROVE  VInv'
<1>1. PICK g \in CastPhase : VGood(g)
  BY DEF VInv
<1>2. PICK i \in castId : f = InitTo(n, i) /\ g[i][n] = "asked" /\ vParent[n] \in Large
  BY <1>1, CastFrameFields DEF VGood, CastFrames, V!OnReceiveCall
<1>0. f.id = i /\ VShape /\ f.type = "init"
  BY <1>2, CastFrameFields DEF VInv
<1>3. /\ vParent' = vParent /\ vFinished' = vFinished /\ started' = started
      /\ buffer' = [buffer EXCEPT ![n][i] = <<>>]
      /\ vAir' = (vAir \ {f}) \cup IF V!Children(n) = {} THEN V!Respond(n, i, V!Calculated(n, <<>>))
                                    ELSE V!Ask(n, i)
  BY <1>0 DEF V!OnReceiveCall, V!Cleared
<1>4. VShape'
  <2>1. buffer' \in [Large -> [castId -> Seq([Large -> Nat])]]
    BY <1>3, <1>0 DEF VShape
  <2>2. \A m \in Large : \A j \in castId : Len(buffer'[m][j]) <= castBuffer
    BY <1>3, <1>0, VFacts DEF VShape
  <2> QED BY <2>1, <2>2, <1>3, <1>0 DEF VShape
<1>5. \A m \in V!Children(n) : g[i][m] = "idle" /\ m # n /\ m \in Large /\ vParent[m] = n
  BY <1>1, <1>2 DEF VGood, DownInTurn, V!Children
<1>6. PICK h \in CastPhase :
        /\ \A j \in castId \ {i} : h[j] = g[j]
        /\ \A m \in Large : h[i][m] = IF m = n THEN IF V!Children(n) = {} THEN "told" ELSE "busy"
                                      ELSE IF m \in V!Children(n) THEN "asked" ELSE g[i][m]
  <2> DEFINE h0 == [g EXCEPT ![i] = [m \in Large |->
                      IF m = n THEN IF V!Children(n) = {} THEN "told" ELSE "busy"
                      ELSE IF m \in V!Children(n) THEN "asked" ELSE g[i][m]]]
  <2>1. h0 \in CastPhase
    BY <1>1 DEF CastPhase
  <2> QED BY <2>1 DEF CastPhase
<1>61. V!Children(n) = {} => V!Calculated(n, <<>>) = V!Once(V!Branch(n))
  <2>1. \A s \in Seq([Large -> Nat]) : s = <<>> => DOMAIN s = {}
    OBVIOUS
  <2>2. <<>> \in Seq([Large -> Nat])
    OBVIOUS
  <2> QED BY <2>1, <2>2, <1>0, CalculatedAll DEF Distinct
<1>7. CastFrames(h)'
  <2>1. ASSUME NEW x1 \in vAir'
        PROVE  \E m \in Large : \E j \in castId :
                 /\ vParent'[m] \in Large
                 /\ \/ x1 = InitTo(m, j)' /\ h[j][m] = "asked"
                    \/ x1 = ResponseOf(m, j)' /\ h[j][m] = "told"
    <3>1. CASE x1 \in vAir \ {f}
      <4>1. CastFrames(g)
        BY <1>1 DEF VGood
      <4>2. ASSUME NEW m \in Large, NEW j \in castId
            PROVE  \/ h[j][m] = g[j][m]
                   \/ g[j][m] \notin {"asked", "told"}
                   \/ x1 # (IF g[j][m] = "asked" THEN InitTo(m, j) ELSE ResponseOf(m, j))
        BY <1>2, <1>5, <1>6, <3>1
      <4> QED BY <4>1, <4>2, <3>1, <1>1, <1>3, FrameStays
    <3>2. CASE V!Children(n) = {} /\ x1 \in V!Respond(n, i, V!Calculated(n, <<>>))
      <4>1. x1 = ResponseOf(n, i)
        BY <3>2, <1>61, CastSent
      <4> QED BY <4>1, <3>2, <1>2, <1>3, <1>6, CastTreeStays
    <3>3. CASE V!Children(n) # {} /\ x1 \in V!Ask(n, i)
      <4>1. PICK m \in V!Children(n) : x1 = InitTo(m, i)
        BY <3>3, CastSent
      <4> QED BY <4>1, <1>3, <1>5, <1>6, CastTreeStays
    <3> QED BY <3>1, <3>2, <3>3, <1>3
  <2> QED BY <2>1 DEF CastFrames
<1>8. ASSUME NEW j \in castId \ {i} PROVE RootOf(h, j)' /\ DownInTurn(h, j)' /\ CollectedOf(h, j)'
  <2>1. RootOf(g, j) /\ DownInTurn(g, j) /\ CollectedOf(g, j)
    BY <1>1 DEF VGood
  <2>2. h[j] = g[j] /\ \A m \in Large : buffer'[m][j] = buffer[m][j]
    BY <1>6, <1>3, <1>0 DEF VShape
  <2> QED BY <2>1, <2>2, <1>3, OtherCast
<1>9. RootOf(g, i) /\ DownInTurn(g, i) /\ CollectedOf(g, i)
  BY <1>1 DEF VGood
<1>10. RootOf(h, i)'
  BY <1>9, <1>6, <1>3, <1>2, <1>5, <1>0, VFacts DEF RootOf
<1>11. DownInTurn(h, i)'
  <2>1. ASSUME NEW k \in Large, NEW m \in V!Children(k)
        PROVE  /\ h[i][k] \in {"idle", "asked"} => h[i][m] = "idle"
               /\ h[i][k] \in {"told", "there"} => h[i][m] = "there"
    <3>1. m \in Large /\ vParent[m] = k
      BY DEF V!Children
    <3>2. CASE k = n
      BY <3>2, <1>6
    <3>3. CASE k \in V!Children(n)
      <4>1. m \notin V!Children(n) /\ g[i][m] = "idle" /\ m # n
        BY <3>1, <3>3, <1>5, <1>2, <1>9 DEF V!Children, DownInTurn
      <4> QED BY <4>1, <3>3, <3>1, <1>6, <1>5, <1>9 DEF DownInTurn
    <3>4. CASE k # n /\ k \notin V!Children(n)
      <4>1. m \notin V!Children(n)
        BY <3>1, <3>4 DEF V!Children
      <4>2. h[i][k] = g[i][k]
        BY <3>4, <1>6
      <4>3. CASE m = n
        BY <4>2, <4>3, <1>2, <1>9 DEF DownInTurn
      <4>4. CASE m # n
        BY <4>1, <4>2, <4>4, <3>1, <1>6, <1>9 DEF DownInTurn
      <4> QED BY <4>3, <4>4
    <3> QED BY <3>2, <3>3, <3>4
  <2> QED BY <2>1, <1>3, CastTreeStays DEF DownInTurn
<1>12. CollectedOf(h, i)'
  <2>1. ASSUME NEW k \in Large \ {n}
        PROVE  buffer'[k][i] = buffer[k][i]
    BY <1>3, <1>0 DEF VShape
  <2>2. buffer'[n][i] = <<>>
    BY <1>3, <1>0 DEF VShape
  <2>3. ASSUME NEW k \in Large, NEW l \in DOMAIN buffer'[k][i]
        PROVE  \E m \in V!Children(k) : h[i][m] = "there" /\ buffer'[k][i][l] = V!Once(V!Branch(m))
    <3>1. k # n
      BY <2>2
    <3>2. PICK m \in V!Children(k) : g[i][m] = "there" /\ buffer[k][i][l] = V!Once(V!Branch(m))
      BY <1>9, <2>1, <3>1 DEF CollectedOf
    <3>3. m \in Large /\ h[i][m] = "there"
      BY <3>2, <1>6, <1>2, <1>5 DEF V!Children
    <3> QED BY <3>2, <3>3, <2>1, <3>1
  <2>4. \A k \in Large : Distinct(buffer[k][i])'
    BY <2>1, <2>2, <1>9 DEF CollectedOf, Distinct
  <2> QED BY <2>3, <2>4, <1>3, CastTreeStays DEF CollectedOf
<1> QED BY <1>4, <1>6, <1>7, <1>8, <1>10, <1>11, <1>12 DEF VInv, VGood

LEMMA ResponseVInv ==
  ASSUME VInv, NEW n \in Large, NEW f \in vAir, V!OnReceiveResponse(n, f)
  PROVE  VInv'
<1>1. PICK g \in CastPhase : VGood(g)
  BY DEF VInv
<1>2. PICK k \in Large, i \in castId : f = ResponseOf(k, i) /\ g[i][k] = "told" /\ vParent[k] = n
  BY <1>1, CastFrameFields DEF VGood, CastFrames, V!OnReceiveResponse
<1> DEFINE s == V!PushBack(buffer[n][i], V!Once(V!Branch(k)))
           done == V!Complete(n, s)
<1>0. f.id = i /\ VShape /\ f.result = V!Once(V!Branch(k)) /\ k \in V!Children(n)
  BY <1>2, CastFrameFields DEF VInv, V!Children
<1>3. /\ vParent' = vParent /\ started' = started
      /\ buffer' = [buffer EXCEPT ![n][i] = s]
      /\ vAir' = (vAir \ {f}) \cup IF done /\ vParent[n] # Null THEN V!Respond(n, i, V!Calculated(n, s)) ELSE {}
      /\ vFinished' = IF done /\ vParent[n] = Null
                      THEN [vFinished EXCEPT ![i] = Append(@, V!Calculated(n, s))] ELSE vFinished
  BY <1>0 DEF V!OnReceiveResponse, V!Addressed
<1>4. /\ V!Once(V!Branch(k)) \in [Large -> Nat] /\ V!Once(V!Branch(n)) \in [Large -> Nat]
      /\ buffer[n][i] \in Seq([Large -> Nat])
      /\ s \in Seq([Large -> Nat]) /\ Len(s) <= castBuffer
  <2>1. V!Once(V!Branch(k)) \in [Large -> Nat] /\ V!Once(V!Branch(n)) \in [Large -> Nat]
    BY DEF V!Once
  <2>2. buffer[n][i] \in Seq([Large -> Nat]) /\ Len(buffer[n][i]) <= castBuffer
    BY <1>0 DEF VShape
  <2> QED BY <2>1, <2>2, VFacts, <1>0 DEF V!PushBack
<1>5. g[i][n] = "busy" /\ k # n
  <2>1. DownInTurn(g, i)
    BY <1>1 DEF VGood
  <2>2. g[i][n] \notin {"idle", "asked", "told", "there"}
    BY <2>1, <1>0, <1>2 DEF DownInTurn
  <2> QED BY <2>2, <1>1, <1>2 DEF CastPhase
<1>6. PICK h \in CastPhase :
        /\ \A j \in castId \ {i} : h[j] = g[j]
        /\ \A m \in Large : h[i][m] = IF m = k THEN "there"
                                      ELSE IF m = n /\ done
                                           THEN IF vParent[n] = Null THEN "there" ELSE "told"
                                      ELSE g[i][m]
  <2> DEFINE h0 == [g EXCEPT ![i] = [m \in Large |->
                      IF m = k THEN "there"
                      ELSE IF m = n /\ done THEN IF vParent[n] = Null THEN "there" ELSE "told"
                      ELSE g[i][m]]]
  <2> HIDE DEF s, done
  <2>1. h0 \in CastPhase
    BY <1>1 DEF CastPhase
  <2> QED BY <2>1 DEF CastPhase
<1>9. RootOf(g, i) /\ DownInTurn(g, i) /\ CollectedOf(g, i)
  BY <1>1 DEF VGood
<1>10. /\ Distinct(s)
       /\ \A j \in DOMAIN s : \E m \in V!Children(n) : h[i][m] = "there" /\ s[j] = V!Once(V!Branch(m))
  <2>1. /\ Distinct(buffer[n][i])
        /\ \A j \in DOMAIN buffer[n][i] :
             \E m \in V!Children(n) : g[i][m] = "there" /\ buffer[n][i][j] = V!Once(V!Branch(m))
    BY <1>9 DEF CollectedOf
  <2>2. ASSUME NEW j \in DOMAIN buffer[n][i] PROVE buffer[n][i][j] # V!Once(V!Branch(k))
    <3>1. PICK m \in V!Children(n) : g[i][m] = "there" /\ buffer[n][i][j] = V!Once(V!Branch(m))
      BY <2>1
    <3>2. m # k /\ m \in Large /\ vParent[m] = n
      BY <3>1, <1>2 DEF V!Children
    <3>3. k \in V!Branch(k) /\ k \notin V!Branch(m)
      BY <3>2, <1>0, <1>2, BranchStep, BranchesApart
    <3> QED BY <3>1, <3>3 DEF V!Once
  <2>3. CASE s = buffer[n][i]
    <3> HIDE DEF s
    <3>1. \A m \in V!Children(n) : g[i][m] = "there" => h[i][m] = "there"
      BY <1>6, <1>5 DEF V!Children
    <3> QED BY <3>1, <2>3, <2>1
  <2>4. CASE s = Append(buffer[n][i], V!Once(V!Branch(k)))
    <3> HIDE DEF s
    <3>1. \A j \in DOMAIN s :
            \/ j \in DOMAIN buffer[n][i] /\ s[j] = buffer[n][i][j]
            \/ j = Len(buffer[n][i]) + 1 /\ s[j] = V!Once(V!Branch(k))
      <4> DEFINE s0 == buffer[n][i]
                 e == V!Once(V!Branch(k))
      <4>1. s0 \in Seq([Large -> Nat]) /\ e \in [Large -> Nat]
        BY <1>4
      <4> HIDE DEF s0, e
      <4>2. \A j \in DOMAIN Append(s0, e) :
              \/ j \in DOMAIN s0 /\ Append(s0, e)[j] = s0[j]
              \/ j = Len(s0) + 1 /\ Append(s0, e)[j] = e
        BY <4>1, AppendPlaces
      <4> QED BY <4>2, <2>4 DEF s0, e
    <3>2. Distinct(s)
      BY <3>1, <2>1, <2>2 DEF Distinct
    <3>3. h[i][k] = "there"
      BY <1>6
    <3>4. \A m \in V!Children(n) : g[i][m] = "there" => h[i][m] = "there"
      BY <1>6, <1>5 DEF V!Children
    <3> QED BY <3>1, <3>2, <3>3, <3>4, <2>1, <1>0
  <2> QED BY <2>3, <2>4 DEF V!PushBack
<1>11. ASSUME done
       PROVE  /\ \A m \in V!Children(n) : h[i][m] = "there"
              /\ V!Calculated(n, s) = V!Once(V!Branch(n))
  <2> DEFINE M == {m \in V!Children(n) : h[i][m] = "there"}
  <2>1. Len(s) \in Nat /\ DOMAIN s = 1..Len(s) /\ Len(s) = V!Cardinality(V!Children(n))
    BY <1>4, <1>11 DEF V!Complete
  <2> HIDE DEF s
  <2>2. \A j \in DOMAIN s : \E m \in M : s[j] = V!Once(V!Branch(m))
    BY <1>10
  <2>20. M \in SUBSET V!Children(n) /\ Distinct(s)
    BY <1>10
  <2> HIDE DEF M
  <2>3. /\ M = V!Children(n)
        /\ \A m \in V!Children(n) : \E j \in DOMAIN s : s[j] = V!Once(V!Branch(m))
    BY <2>1, <2>2, <2>20, <1>0, AllCollected
  <2>4. V!Calculated(n, s) = V!Once(V!Branch(n))
    BY <2>3, <1>10, <1>4, <1>0, CalculatedAll
  <2> QED BY <2>3, <2>4 DEF M
<1> HIDE DEF s, done
<1>12. /\ VShape'
       /\ done /\ vParent[n] = Null => vFinished'[i] = <<V!Once(Large)>>
       /\ ~(done /\ vParent[n] = Null) => vFinished' = vFinished
       /\ \A j \in castId \ {i} : vFinished'[j] = vFinished[j]
  <2>1. CASE done /\ vParent[n] = Null
    <3>1. vFinished' = [vFinished EXCEPT ![i] = Append(@, V!Once(Large))]
      BY <2>1, <1>3, <1>11, <1>0, BranchOfRoot
    <3>2. vFinished[i] = <<>>
      BY <2>1, <1>9, <1>5 DEF RootOf
    <3>3. V!Once(Large) \in [Large -> Nat]
      BY DEF V!Once
    <3>4. vFinished' \in [castId -> Seq([Large -> Nat])] /\ vFinished'[i] = <<V!Once(Large)>>
      BY <3>1, <3>2, <3>3, <1>0 DEF VShape
    <3> QED BY <3>1, <3>4, <2>1, <1>3, <1>4, <1>0 DEF VShape
  <2>2. CASE ~(done /\ vParent[n] = Null)
    BY <2>2, <1>3, <1>4, <1>0 DEF VShape
  <2> QED BY <2>1, <2>2
<1>7. CastFrames(h)'
  <2>1. ASSUME NEW x1 \in vAir'
        PROVE  \E m \in Large : \E j \in castId :
                 /\ vParent'[m] \in Large
                 /\ \/ x1 = InitTo(m, j)' /\ h[j][m] = "asked"
                    \/ x1 = ResponseOf(m, j)' /\ h[j][m] = "told"
    <3>1. CASE x1 \in vAir \ {f}
      <4>1. CastFrames(g)
        BY <1>1 DEF VGood
      <4>2. ASSUME NEW m \in Large, NEW j \in castId
            PROVE  \/ h[j][m] = g[j][m]
                   \/ g[j][m] \notin {"asked", "told"}
                   \/ x1 # (IF g[j][m] = "asked" THEN InitTo(m, j) ELSE ResponseOf(m, j))
        BY <1>2, <1>5, <1>6, <3>1
      <4> QED BY <4>1, <4>2, <3>1, <1>1, <1>3, FrameStays
    <3>2. CASE done /\ vParent[n] # Null /\ x1 \in V!Respond(n, i, V!Calculated(n, s))
      <4>1. x1 = ResponseOf(n, i)
        BY <3>2, <1>11, CastSent
      <4>2. h[i][n] = "told" /\ vParent[n] \in Large
        BY <3>2, <1>6, <1>5, <1>0, VFacts
      <4> QED BY <4>1, <4>2, <1>3, CastTreeStays
    <3> QED BY <3>1, <3>2, <1>3
  <2> QED BY <2>1 DEF CastFrames
<1>8. ASSUME NEW j \in castId \ {i} PROVE RootOf(h, j)' /\ DownInTurn(h, j)' /\ CollectedOf(h, j)'
  <2>1. RootOf(g, j) /\ DownInTurn(g, j) /\ CollectedOf(g, j)
    BY <1>1 DEF VGood
  <2>2. h[j] = g[j] /\ \A m \in Large : buffer'[m][j] = buffer[m][j]
    BY <1>6, <1>3, <1>0 DEF VShape
  <2> QED BY <2>1, <2>2, <1>3, <1>12, OtherCast
<1>13. RootOf(h, i)'
  <2>1. vParent[k] # Null
    BY <1>2, <1>0, VFacts
  <2>2. \A m \in Large : vParent[m] = Null => m = n \/ vParent[n] # Null
    BY <1>0, BranchOfRoot, BranchUp, VFacts
  <2>3. CASE done /\ vParent[n] = Null
    BY <2>1, <2>2, <2>3, <1>9, <1>6, <1>3, <1>12, <1>5 DEF RootOf
  <2>4. CASE ~(done /\ vParent[n] = Null)
    BY <2>1, <2>2, <2>4, <1>9, <1>6, <1>3, <1>12, <1>5 DEF RootOf
  <2> QED BY <2>3, <2>4
<1>14. DownInTurn(h, i)'
  <2>1. ASSUME NEW l \in Large, NEW m \in V!Children(l)
        PROVE  /\ h[i][l] \in {"idle", "asked"} => h[i][m] = "idle"
               /\ h[i][l] \in {"told", "there"} => h[i][m] = "there"
    <3>1. m \in Large /\ vParent[m] = l
      BY DEF V!Children
    <3>2. CASE l = n
      BY <3>2, <1>6, <1>5, <1>11
    <3>3. CASE l = k
      <4>1. g[i][m] = "there" /\ m # n
        BY <3>3, <1>2, <1>9, <1>5 DEF DownInTurn
      <4> QED BY <4>1, <3>3, <3>1, <1>6
    <3>4. CASE l # n /\ l # k
      <4>1. h[i][l] = g[i][l] /\ m # k
        BY <3>4, <3>1, <1>6, <1>2
      <4>2. CASE m = n
        BY <4>1, <4>2, <1>5, <1>9 DEF DownInTurn
      <4>3. CASE m # n
        BY <4>1, <4>3, <3>1, <1>6, <1>9 DEF DownInTurn
      <4> QED BY <4>2, <4>3
    <3> QED BY <3>2, <3>3, <3>4
  <2> QED BY <2>1, <1>3, CastTreeStays DEF DownInTurn
<1>15. CollectedOf(h, i)'
  <2>1. /\ \A l \in Large \ {n} : buffer'[l][i] = buffer[l][i]
        /\ buffer'[n][i] = s
    BY <1>3, <1>0 DEF VShape
  <2>2. ASSUME NEW l \in Large
        PROVE  /\ Distinct(buffer'[l][i])
               /\ \A j \in DOMAIN buffer'[l][i] :
                    \E m \in V!Children(l) : h[i][m] = "there" /\ buffer'[l][i][j] = V!Once(V!Branch(m))
    <3>1. CASE l = n
      BY <3>1, <2>1, <1>10
    <3>2. CASE l # n
      <4>1. \A m \in V!Children(l) : g[i][m] = "there" => h[i][m] = "there"
        BY <1>6, <1>5 DEF V!Children
      <4>2. /\ Distinct(buffer[l][i])
            /\ \A j \in DOMAIN buffer[l][i] :
                 \E m \in V!Children(l) : g[i][m] = "there" /\ buffer[l][i][j] = V!Once(V!Branch(m))
        BY <1>9 DEF CollectedOf
      <4> QED BY <4>1, <4>2, <3>2, <2>1
    <3> QED BY <3>1, <3>2
  <2>3. \A l \in Large : Distinct(buffer[l][i])'
    BY <2>2 DEF Distinct
  <2> QED BY <2>2, <2>3, <1>3, CastTreeStays DEF CollectedOf
<1> QED BY <1>12, <1>6, <1>7, <1>8, <1>13, <1>14, <1>15 DEF VInv, VGood

LEMMA StepVInv == VInv /\ [V!Next]_vVars => VInv'
<1> SUFFICES ASSUME VInv, [V!Next]_vVars PROVE VInv'
  OBVIOUS
<1>1. ASSUME NEW n \in Large, NEW i \in castId, V!StartConvergecast(n, i) PROVE VInv'
  BY <1>1, StartVInv
<1>2. ASSUME NEW n \in Large, NEW f \in vAir, V!OnReceiveCall(n, f) PROVE VInv'
  BY <1>2, CallVInv
<1>3. ASSUME NEW n \in Large, NEW f \in vAir, V!OnReceiveResponse(n, f) PROVE VInv'
  BY <1>3, ResponseVInv
<1>4. CASE UNCHANGED vVars
  <2>1. PICK g \in CastPhase : VGood(g)
    BY DEF VInv
  <2>2. UNCHANGED <<vParent, started, buffer, vAir, vFinished>>
    BY <1>4 DEF vVars
  <2>3. VShape'
    BY <2>2 DEF VInv, VShape
  <2>4. CastFrames(g)'
    BY <2>1, <2>2, CastTreeStays DEF VGood, CastFrames
  <2>5. \A i \in castId : RootOf(g, i)' /\ DownInTurn(g, i)' /\ CollectedOf(g, i)'
    BY <2>1, <2>2, OtherCast DEF VGood
  <2> QED BY <2>3, <2>4, <2>5 DEF VInv, VGood
<1> QED BY <1>1, <1>2, <1>3, <1>4 DEF V!Next, V!Arriving

LEMMA VInvCounts == VInv => V!TypeOK /\ V!CountedOnce
<1> SUFFICES ASSUME VInv PROVE V!TypeOK /\ V!CountedOnce
  OBVIOUS
<1>1. PICK g \in CastPhase : VGood(g)
  BY DEF VInv
<1>2. VShape
  BY DEF VInv
<1>3. ASSUME NEW f \in vAir
      PROVE  f \in V!Frame /\ (f.type = "response" => f.result = V!Once(V!Branch(f.from)))
  <2>1. PICK n \in Large, i \in castId :
          vParent[n] \in Large /\ (f = InitTo(n, i) \/ f = ResponseOf(n, i))
    BY <1>1 DEF VGood, CastFrames
  <2>2. V!Once(V!Branch(n)) \in [Large -> Nat]
    BY DEF V!Once
  <2> QED BY <2>1, <2>2 DEF InitTo, ResponseOf, V!Frame
<1>4. V!TypeOK
  BY <1>2, <1>3 DEF VShape, V!TypeOK
<1>5. ASSUME NEW i \in castId
      PROVE  vFinished[i] \in {<<>>, <<V!Once(Large)>>} /\ (vFinished[i] # <<>> => i \in started)
  <2>1. PICK n \in Large : vParent[n] = Null
    BY <1>2, VFacts
  <2> QED BY <2>1, <1>1 DEF VGood, RootOf
<1> QED BY <1>3, <1>4, <1>5 DEF V!CountedOnce

------------------------------------------------------------------------------
(***************************************************************************)
(* The parts together: a step is one of a class, and leaves the variables  *)
(* of the others as they are.                                              *)
(***************************************************************************)
LEMMA StepOfEach ==
  ASSUME [Next]_vars
  PROVE  /\ [F!Next]_fVars /\ [T!Next]_tVars /\ [E!Next]_eVars /\ [C!Next]_cVars
         /\ [S!Next]_sVars /\ [B!Next]_bVars /\ [V!Next]_vVars
<1>1. CASE UNCHANGED vars
  BY <1>1 DEF vars
<1>2. CASE Flooding
  BY <1>2 DEF Flooding
<1>3. CASE FloodTree
  BY <1>3 DEF FloodTree
<1>4. CASE DepthFirst
  BY <1>4 DEF DepthFirst
<1>5. CASE BreadthFirst
  BY <1>5 DEF BreadthFirst
<1>6. CASE Discovery
  BY <1>6 DEF Discovery
<1>7. CASE Clusters
  BY <1>7 DEF Clusters
<1>8. CASE Collecting
  BY <1>8 DEF Collecting
<1> QED BY <1>1, <1>2, <1>3, <1>4, <1>5, <1>6, <1>7, <1>8 DEF Next

LEMMA FloodInductive == Spec => []FInv
<1>1. Init => FInv
  BY InitFInv, SpreadingAssumption DEF Init
<1>2. FInv /\ [Next]_vars => FInv'
  BY StepOfEach, StepFInv
<1> QED BY <1>1, <1>2, PTL DEF Spec

LEMMA TreeInductive == Spec => []TInv
<1>1. Init => TInv
  BY InitTInv, SpreadingAssumption DEF Init
<1>2. TInv /\ [Next]_vars => TInv'
  BY StepOfEach, StepTInv
<1> QED BY <1>1, <1>2, PTL DEF Spec

LEMMA EchoInductive == Spec => []EInv
<1>1. Init => EInv
  BY InitEInv, SpreadingAssumption DEF Init
<1>2. EInv /\ [Next]_vars => EInv'
  BY StepOfEach, StepEInv
<1> QED BY <1>1, <1>2, PTL DEF Spec

LEMMA ClusterInductive == Spec => []CInv
<1>1. Init => CInv
  BY InitCInv, SpreadingAssumption DEF Init
<1>2. CInv /\ [Next]_vars => CInv'
  BY StepOfEach, StepCInv
<1> QED BY <1>1, <1>2, PTL DEF Spec

LEMMA BranchInductive == TwoWay(clusterLink) /\ Spec => []BInv
<1>1. TwoWay(clusterLink) /\ Init => BInv
  BY InitBInv, SpreadingAssumption DEF Init
<1>2. BInv /\ [Next]_vars => BInv'
  BY StepOfEach, StepBInv
<1> QED BY <1>1, <1>2, PTL DEF Spec

LEMMA DepthInductive == Spec => [](SInv /\ SDeep)
<1>1. Init => SInv /\ SDeep
  BY InitSInv, InitSDeep, SpreadingAssumption DEF Init
<1>2. SInv /\ SDeep /\ [Next]_vars => (SInv /\ SDeep)'
  BY StepOfEach, StepSInv, StepSDeep
<1> QED BY <1>1, <1>2, PTL DEF Spec

LEMMA BreadthInductive == Spec => []WInv
<1>1. Init => WInv
  BY InitWInv, SpreadingAssumption DEF Init
<1>2. WInv /\ [Next]_vars => WInv'
  BY StepOfEach, StepWInv
<1> QED BY <1>1, <1>2, PTL DEF Spec

LEMMA CastInductive == Spec => []VInv
<1>1. Init => VInv
  BY InitVInv, SpreadingAssumption DEF Init
<1>2. VInv /\ [Next]_vars => VInv'
  BY StepOfEach, StepVInv
<1> QED BY <1>1, <1>2, PTL DEF Spec

(***************************************************************************)
(* The members of all classes keep their types: the table of Flooding, the *)
(* vector of Echo and the buffers of Convergecast stay within their sizes, *)
(* no neighbor of Echo is older than timeout_period and a round, the       *)
(* parents FloodingNd and the searches set are neighbors, and a search has *)
(* a neighbor once (flooding_algorithm.h:144-146, flooding_nd.h:187-194,   *)
(* echo.h:127-177, 1120-1193, bfsclustering.h:325-340, 401-409,            *)
(* ddfs_graph.h:60-153, dbfs_graph.h:60-170, Convergecast.h:34-63).        *)
(***************************************************************************)
THEOREM TypeCorrect == Spec => []TypesOK
<1>1. FInv /\ TInv /\ EInv /\ CInv /\ SInv /\ WInv /\ VInv => TypesOK
  BY FInvHandedOnce, EInvTells, SInvTypes, WInvTypes, VInvCounts DEF TInv, CInv, TypesOK
<1> QED BY <1>1, FloodInductive, TreeInductive, EchoInductive, ClusterInductive, DepthInductive,
           BreadthInductive, CastInductive, PTL

(***************************************************************************)
(* A message is handed up once by whoever knows its source, however its    *)
(* copies overtake each other, if the source is paced or no copy of number *)
(* 0 was taken for a new start (flooding_algorithm.h:237-285).             *)
(***************************************************************************)
THEOREM FloodsHandedOnce == Spec => []HandedOnce
<1>1. FInv => HandedOnce
  BY FInvHandedOnce DEF HandedOnce
<1> QED BY <1>1, FloodInductive, PTL

(***************************************************************************)
(* Clusters are trees: a node is in the cluster of its parent and one hop  *)
(* farther, and no parents form a circle, however many heads ask at the    *)
(* same time, whatever is late, on whatever links (bfsclustering.h:399-409,*)
(* 429-431).                                                               *)
(***************************************************************************)
THEOREM ClustersAreTrees == Spec => [](C!OneFarther /\ C!NoCircle)
<1>1. CInv => C!OneFarther /\ C!NoCircle
  BY DEF CInv
<1> QED BY <1>1, ClusterInductive, PTL

(***************************************************************************)
(* Parents lead home: those a flooding sink leaves behind form no circle   *)
(* and results on their way always have a parent to go to; those of a      *)
(* cluster lead to its head, who is named to a node as joined has it as an *)
(* ancestor, and if links are two-way and timers not early, only branches  *)
(* that nobody joins any more are called finished (flooding_nd.h:177-200,  *)
(* forward_on_directed_nd.h:123-148, bfsclustering.h:399-409, 451-481,     *)
(* 519-548).                                                               *)
(***************************************************************************)
THEOREM ParentsDoLeadHome == TwoWay(clusterLink) /\ Spec => []ParentsLeadHome
<1>1. TInv /\ BInv => ParentsLeadHome
  BY BInvBranches DEF ParentsLeadHome, TInv, BInv, CInv
<1> QED BY <1>1, TreeInductive, BranchInductive, PTL

(***************************************************************************)
(* What the events of Echo say is what is_neighbor() and is_neighbor_bidi()*)
(* say, neighbors are heard and bidirectional ones hear each other,        *)
(* however beacons are lost, late or from before a restart, and however    *)
(* many timers run (echo.h:704-829, 977-990, 1120-1193, 1300-1317).        *)
(***************************************************************************)
THEOREM NeighborsAreKnown == Spec => []NeighborsKnown
<1>1. EInv => NeighborsKnown
  BY EInvTells DEF NeighborsKnown
<1> QED BY <1>1, EchoInductive, PTL

(***************************************************************************)
(* A depth first search without a node of one neighbour, the root apart,   *)
(* is in one place at a time and leaves a depth first tree of all that is  *)
(* in reach.  A breadth first search gives whom it labels the distance     *)
(* from the root, and all in reach are labeled when the root says that it  *)
(* is over.  A convergecast counts each node of a tree once.  All this in  *)
(* whatever order messages come, on whatever networks                      *)
(* (ddfs_graph.h:262-349, dbfs_graph.h:287-402, Convergecast.h:90-155).    *)
(***************************************************************************)
THEOREM SearchesDoMakeTrees == Spec => []SearchesMakeTrees
<1>1. SInv /\ SDeep /\ WInv /\ VInv => SearchesMakeTrees
  BY OneSearchDeep, DepthFirstDeep, WInvLevels, WInvFinished, VInvCounts DEF SearchesMakeTrees
<1> QED BY <1>1, DepthInductive, BreadthInductive, CastInductive, PTL
=============================================================================
