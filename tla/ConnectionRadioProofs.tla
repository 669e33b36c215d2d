------------------------ MODULE ConnectionRadioProofs -------------------------
(***************************************************************************)
(* Proofs about ConnectionRadio, for every network, every size of its      *)
(* buffers and every width of its numbers: what is acknowledged was heard, *)
(* and a message is handed up again only after its number has left the     *)
(* window.                                                                 *)
(***************************************************************************)
EXTENDS ConnectionRadio, FiniteSetTheorems, SequenceTheorems, TLAPS

(***************************************************************************)
(* The inductive invariant.  What is said of a map of connections or of    *)
(* the messages heard does not depend on the state.                        *)
(***************************************************************************)
Number == Seq16 \ {0}

Windows == {w \in Seq(Number) : Len(w) <= MaxRecv}

GoodOpen(o) == /\ DOMAIN o \subseteq Node /\ IsFiniteSet(DOMAIN o)
               /\ Cardinality(DOMAIN o) <= MaxConnections
               /\ \A p \in DOMAIN o : o[p] \in [next : Seq16, window : Windows]

GoodHeard(h) == /\ h \in [DOMAIN h -> SUBSET DOMAIN h] /\ DOMAIN h \subseteq Message
                /\ \A m \in DOMAIN h : IsFiniteSet(h[m])

Typed == /\ halted \subseteq Node
         /\ clock \in [Node -> 0..TimeMod - 1] /\ phase \in [Node -> 0..DaemonPeriod]
         /\ sent \in [Node -> 0..MaxSends] /\ air \subseteq Frame
         /\ pending \in [Node -> SUBSET Entry] /\ unnumbered \in [Node -> SUBSET (1..MaxSends)]
         /\ confirmed \in [Node -> SUBSET Message]
         /\ DOMAIN open = Node /\ DOMAIN heard = Node /\ DOMAIN early = Node
         /\ \A n \in Node : /\ GoodOpen(open[n]) /\ GoodHeard(heard[n])
                            /\ IsFiniteSet(pending[n])
                            /\ Cardinality(pending[n]) <= MaxPending

(***************************************************************************)
(* The frames with messages never leave `air': it remembers what was sent. *)
(* No number stands for two messages of a connection; those sent without   *)
(* one all have number 1, and then the map is full, and stays so.          *)
(***************************************************************************)
Messages == {f \in air : f.type = "reliable"}

SentTo(n, d) == {f \in Messages : f.from = n /\ f.to = d}

BodiesUnique == \A f \in Messages :
                  /\ f.body <= sent[f.from]
                  /\ \A g \in Messages : g.from = f.from /\ g.body = f.body => g = f

Unconnected(n, d) ==
  /\ SentTo(n, d) # {} => Cardinality(DOMAIN open[n]) >= MaxConnections
  /\ \A f \in SentTo(n, d) : f.seq = 1 /\ f.body \in unnumbered[n]

Counted(n, d, next) ==
  \/ next # 0 /\ next - 1 <= sent[n] /\ \A f \in SentTo(n, d) : f.seq < next
  \/ next = 0 /\ sent[n] >= SeqMod - 1
  \/ sent[n] >= MaxSends

Apart(n, d) == \A f, g \in SentTo(n, d) : f.seq = g.seq => f = g

Numbered(n, d) == IF d \in DOMAIN open[n] THEN Counted(n, d, open[n][d].next) /\ Apart(n, d)
                  ELSE Unconnected(n, d)

NumbersUnique == \A n, d \in Node : Numbered(n, d)

EntriesSent == \A n \in Node : \A e \in pending[n] : Reliable(n, e) \in air

(***************************************************************************)
(* A number in a window or in an acknowledgement is that of a message that *)
(* was given to the receivers.  The window names the messages given last:  *)
(* those it has forgotten were followed by all it still knows, and each it *)
(* knows by those after it.                                                *)
(***************************************************************************)
Given(f) == <<f.from, f.body>> \in Heard(f.to)

Reached(p, n, s) == \E f \in SentTo(p, n) : f.seq = s /\ Given(f)

AcksTrue == \A f \in air : f.type = "ack" => \A s \in f.seqs : Reached(f.to, f.from, s)

WindowsTrue == \A n \in Node : \A p \in DOMAIN open[n] : \A s \in Number :
  Copy(open[n][p].window, s) => Reached(p, n, s)

HeardSent == \A n \in Node : \A m \in Heard(n) :
  /\ \E f \in SentTo(m[1], n) : f.body = m[2]
  /\ m[1] \in DOMAIN open[n] \/ n \in halted

Before(w, s, i) == \A j \in DOMAIN w : w[j] = s => j < i

Different(w) == \A i, j \in DOMAIN w : w[i] = w[j] => i = j

Followed(n, p, w, f) ==
  /\ Copy(w, f.seq) \/ Len(w) = MaxRecv
  /\ \A g \in SentTo(p, n) : \A i \in DOMAIN w :
       Given(g) /\ g.seq = w[i] /\ Before(w, f.seq, i)
         => <<p, g.body>> \in heard[n][<<p, f.body>>]

WindowsLatest == \A n \in Node : \A p \in DOMAIN open[n] :
  /\ Different(open[n][p].window)
  /\ \A f \in SentTo(p, n) : Given(f) => Followed(n, p, open[n][p].window, f)

Remembering == AcksTrue /\ WindowsTrue /\ HeardSent /\ WindowsLatest

IInv == /\ ConnectionAssumption /\ Typed /\ BodiesUnique /\ NumbersUnique /\ EntriesSent
        /\ Remembering /\ AckMeansHeard /\ AgainOnlyIfOvertaken

-----------------------------------------------------------------------------
(***************************************************************************)
(* What the three kinds of frames are, and the window.                     *)
(***************************************************************************)
LEMMA FrameKinds ==
  ASSUME NEW f \in Frame
  PROVE  /\ f.from \in Node
         /\ f.type = "reliable" => f.to \in Node /\ f.seq \in Number /\ f.body \in 1..MaxSends
         /\ f.type = "ack" => f.to \in Node /\ f.seqs \subseteq Seq16
<1> QED BY DEF Frame, Number

LEMMA Constants ==
  ASSUME ConnectionAssumption
  PROVE  /\ SeqMod \in Nat /\ SeqMod > 2 /\ TimeMod \in Nat /\ TimeMod > 2
         /\ MaxPending \in Nat /\ MaxPending > 0 /\ MaxConnections \in Nat /\ MaxConnections > 0
         /\ MaxRecv \in Nat /\ MaxRecv > 0 /\ DaemonPeriod \in Nat /\ DaemonPeriod > 0
         /\ MaxRetries \in Nat /\ MaxSends \in Nat /\ MaxSends <= SeqMod
         /\ Number \subseteq Nat
<1> QED BY DEF ConnectionAssumption, Number, Seq16

LEMMA AckFrame ==
  ASSUME NEW n \in Node, NEW p \in Node, NEW w \in Windows
  PROVE  /\ Ack(n, p, w) \in Frame /\ Ack(n, p, w).type = "ack"
         /\ Ack(n, p, w).from = n /\ Ack(n, p, w).to = p
         /\ \A s \in Ack(n, p, w).seqs : \E i \in DOMAIN w : s = w[i]
<1>1. \A i \in DOMAIN w : w[i] \in Number
  BY DEF Windows
<1>2. {w[i] : i \in DOMAIN w} \in SUBSET Seq16
  BY <1>1 DEF Number
<1> QED BY <1>2 DEF Ack, Frame

LEMMA WindowGrows ==
  ASSUME ConnectionAssumption, NEW w \in Windows, NEW s \in Number
  PROVE  LET u == Remembered(w, s)
             k == IF Len(w) < MaxRecv THEN 0 ELSE 1
         IN  /\ u \in Windows /\ Len(w) \in Nat
             /\ DOMAIN w = 1..Len(w) /\ DOMAIN u = 1..Len(w) + 1 - k
             /\ u[Len(w) + 1 - k] = s /\ Len(u) = Len(w) + 1 - k
             /\ \A i \in 1..Len(w) - k : u[i] = w[i + k]
<1>1. /\ w \in Seq(Number) /\ Len(w) \in Nat /\ Len(w) <= MaxRecv
      /\ MaxRecv \in Nat /\ MaxRecv > 0
  BY Constants DEF Windows
<1>2. CASE Len(w) < MaxRecv
  <2>1. Remembered(w, s) = Append(w, s)
    BY <1>2 DEF Remembered
  <2> QED BY <1>1, <1>2, <2>1 DEF Windows
<1>3. CASE ~(Len(w) < MaxRecv)
  <2>1. Remembered(w, s) = Append(Tail(w), s)
    BY <1>3 DEF Remembered
  <2>2. /\ Tail(w) \in Seq(Number) /\ Len(Tail(w)) = Len(w) - 1
        /\ \A i \in 1..Len(w) - 1 : Tail(w)[i] = w[i + 1]
    BY <1>1, <1>3, HeadTailProperties
  <2>3. Len(w) = MaxRecv
    BY <1>1, <1>3
  <2> QED BY <1>1, <1>3, <2>1, <2>2, <2>3 DEF Windows
<1> QED BY <1>2, <1>3

(***************************************************************************)
(* push_back() of a connection.                                            *)
(***************************************************************************)
Opens(o, u, p, next) ==
  /\ GoodOpen(u)
  /\ DOMAIN o \subseteq DOMAIN u /\ Cardinality(DOMAIN o) <= Cardinality(DOMAIN u)
  /\ \A q \in DOMAIN o : u[q] = o[q]
  /\ \A q \in DOMAIN u \ DOMAIN o : /\ q = p /\ Cardinality(DOMAIN o) < MaxConnections
                                    /\ u[q] = Connection(next, <<>>)
  /\ p \notin DOMAIN u => Cardinality(DOMAIN u) >= MaxConnections

LEMMA EmptyWindow == ConnectionAssumption => <<>> \in Windows
<1> QED BY Constants DEF Windows

LEMMA Opened ==
  ASSUME ConnectionAssumption, Typed, NEW n \in Node, NEW p \in Node, NEW next \in Seq16
  PROVE  Opens(open[n], WithConnection(n, p, next), p, next)
<1> DEFINE o == open[n]
           u == WithConnection(n, p, next)
<1>1. /\ GoodOpen(o) /\ Cardinality(DOMAIN o) \in Nat /\ IsFiniteSet(DOMAIN o)
      /\ MaxConnections \in Nat
  BY FS_CardinalityType, Constants DEF Typed, GoodOpen
<1> SUFFICES Opens(o, u, p, next)
  OBVIOUS
<1>2. CASE p \in DOMAIN o \/ Cardinality(DOMAIN o) >= MaxConnections
  <2>1. u = o
    BY <1>2 DEF WithConnection
  <2> HIDE DEF o, u
  <2> QED BY <1>1, <1>2, <2>1 DEF Opens
<1>3. CASE p \notin DOMAIN o /\ Cardinality(DOMAIN o) < MaxConnections
  <2>1. u = [x \in DOMAIN o \cup {p} |-> IF x = p THEN Connection(next, <<>>) ELSE o[x]]
    BY <1>1, <1>3 DEF WithConnection
  <2>2. Connection(next, <<>>) \in [next : Seq16, window : Windows]
    BY EmptyWindow DEF Connection
  <2> HIDE DEF o, u
  <2>3. PICK c : c = Connection(next, <<>>)
    OBVIOUS
  <2>4. DOMAIN u = DOMAIN o \cup {p} /\ u[p] = c /\ \A q \in DOMAIN o : u[q] = o[q]
    BY <1>3, <2>1, <2>3
  <2>5. IsFiniteSet(DOMAIN u) /\ Cardinality(DOMAIN u) = Cardinality(DOMAIN o) + 1
    BY <1>1, <1>3, <2>4, FS_AddElement
  <2>6. GoodOpen(u)
    BY <1>1, <1>3, <2>2, <2>3, <2>4, <2>5 DEF GoodOpen
  <2> QED BY <1>1, <1>3, <2>3, <2>4, <2>5, <2>6 DEF Opens
<1> QED BY <1>1, <1>2, <1>3

-----------------------------------------------------------------------------
(***************************************************************************)
(* What a step leaves of the numbers, if it sends no message, and of the   *)
(* windows, if it gives none to a receiver.                                *)
(***************************************************************************)
CountsGrow ==
  /\ \A n \in Node : /\ sent[n] \in Nat /\ sent[n]' \in Nat /\ sent[n] <= sent[n]'
                     /\ unnumbered[n] \subseteq unnumbered[n]'

NumbersStay ==
  \A n \in Node :
    /\ DOMAIN open[n] \subseteq DOMAIN open[n]'
    /\ Cardinality(DOMAIN open[n]) \in Nat /\ Cardinality(DOMAIN open[n])' \in Nat
    /\ Cardinality(DOMAIN open[n]) <= Cardinality(DOMAIN open[n])'
    /\ \A d \in DOMAIN open[n] : open[n][d].next' = open[n][d].next
    /\ \A d \in DOMAIN open[n]' \ DOMAIN open[n] :
         Cardinality(DOMAIN open[n]) < MaxConnections /\ open[n][d].next' = 1

LEMMA NumbersKept ==
  ASSUME IInv, CountsGrow, NumbersStay, Messages' = Messages
  PROVE  BodiesUnique' /\ NumbersUnique'
<1>1. \A f \in Messages : f.from \in Node /\ f.to \in Node /\ f.seq \in Nat /\ f.body \in Nat
  BY FrameKinds, Constants DEF Messages, IInv, Typed
<1>2. BodiesUnique'
  BY <1>1 DEF IInv, BodiesUnique, CountsGrow
<1>3. \A n, d : SentTo(n, d)' = SentTo(n, d)
  BY DEF SentTo
<1>4. ASSUME NEW n \in Node, NEW d \in Node
      PROVE  IF d \in DOMAIN open[n]' THEN Counted(n, d, open[n][d].next)' /\ Apart(n, d)'
             ELSE Unconnected(n, d)'
  <2>1. IF d \in DOMAIN open[n] THEN Counted(n, d, open[n][d].next) /\ Apart(n, d)
        ELSE Unconnected(n, d)
    BY DEF IInv, NumbersUnique, Numbered
  <2>2. /\ sent[n] \in Nat /\ sent'[n] \in Nat /\ sent[n] <= sent'[n]
        /\ MaxSends \in Nat /\ SeqMod \in Nat /\ MaxConnections \in Nat
    BY Constants DEF CountsGrow, IInv
  <2>3. CASE d \in DOMAIN open[n]
    <3>1. d \in DOMAIN open'[n] /\ open'[n][d].next = open[n][d].next
      BY <2>3 DEF NumbersStay
    <3>2. open[n][d].next \in Nat
      BY <2>3 DEF IInv, Typed, GoodOpen, Seq16
    <3>3. Counted(n, d, open[n][d].next)'
      BY <1>3, <2>1, <2>2, <2>3, <3>1, <3>2 DEF Counted
    <3>4. Apart(n, d)'
      BY <1>3, <2>1, <2>3 DEF Apart
    <3> QED BY <3>1, <3>3, <3>4
  <2>4. CASE d \notin DOMAIN open[n] /\ d \in DOMAIN open'[n]
    <3>1. Cardinality(DOMAIN open[n]) < MaxConnections /\ open'[n][d].next = 1
      BY <2>4 DEF NumbersStay
    <3>2. SentTo(n, d) = {}
      BY <2>1, <2>2, <2>4, <3>1 DEF Unconnected, NumbersStay
    <3>3. Counted(n, d, open[n][d].next)'
      BY <1>3, <2>2, <3>1, <3>2 DEF Counted
    <3>4. Apart(n, d)'
      BY <1>3, <3>2 DEF Apart
    <3> QED BY <2>4, <3>3, <3>4
  <2>5. CASE d \notin DOMAIN open'[n]
    <3>1. d \notin DOMAIN open[n]
      BY <2>5 DEF NumbersStay
    <3>2. Unconnected(n, d)'
      BY <1>3, <2>1, <2>2, <3>1 DEF Unconnected, NumbersStay, CountsGrow
    <3> QED BY <2>5, <3>2
  <2> QED BY <2>3, <2>4, <2>5
<1> QED BY <1>2, <1>4 DEF NumbersUnique, Numbered

WindowsStay ==
  \A n \in Node :
    /\ DOMAIN open[n] \subseteq DOMAIN open[n]'
    /\ \A d \in DOMAIN open[n] : open[n][d].window' = open[n][d].window
    /\ \A d \in DOMAIN open[n]' \ DOMAIN open[n] : n \notin halted /\ open[n][d].window' = <<>>

\* A message of which a frame is sent for the first time has been given to nobody.
LEMMA NewNotGiven ==
  ASSUME IInv, NEW g, g.from \in Node, g.to \in Node, g.body \in Nat, g.body > sent[g.from]
  PROVE  ~Given(g)
<1> SUFFICES ASSUME Given(g) PROVE FALSE
  OBVIOUS
<1>1. PICK f \in SentTo(g.from, g.to) : f.body = g.body
  BY DEF IInv, Remembering, HeardSent, Given
<1>2. f.body <= sent[g.from] /\ sent[g.from] \in Nat
  BY <1>1 DEF IInv, BodiesUnique, SentTo, Typed
<1> QED BY <1>1, <1>2

LEMMA WindowsKept ==
  ASSUME IInv, WindowsStay, UNCHANGED heard, halted \subseteq halted',
         Messages \subseteq Messages',
         \A g \in Messages' \ Messages : /\ g.from \in Node /\ g.to \in Node
                                         /\ g.body \in Nat /\ g.body > sent[g.from],
         \A f \in air' : f.type = "ack" => f \in air \/ \A s \in f.seqs : Reached(f.to, f.from, s)
  PROVE  Remembering'
<1>1. \A n, d : SentTo(n, d) \subseteq SentTo(n, d)'
  BY DEF SentTo
<1>2. \A f : Given(f)' = Given(f)
  BY DEF Given, Heard
<1>3. ASSUME NEW p, NEW n, NEW s, Reached(p, n, s)
      PROVE  Reached(p, n, s)'
  BY <1>1, <1>2, <1>3 DEF Reached
<1>4. AcksTrue'
  <2> SUFFICES ASSUME NEW f \in air', f.type = "ack", NEW s \in f.seqs
               PROVE  Reached(f.to, f.from, s)'
    BY DEF AcksTrue
  <2>1. Reached(f.to, f.from, s)
    BY DEF IInv, Remembering, AcksTrue
  <2> QED BY <2>1, <1>3
<1>5. WindowsTrue'
  <2> SUFFICES ASSUME NEW n \in Node, NEW p \in DOMAIN open'[n], NEW s \in Number,
                      Copy(open'[n][p].window, s)
               PROVE  Reached(p, n, s)'
    BY DEF WindowsTrue
  <2>1. p \in DOMAIN open[n] /\ open'[n][p].window = open[n][p].window
    BY DEF WindowsStay, Copy
  <2>2. Reached(p, n, s)
    BY <2>1 DEF IInv, Remembering, WindowsTrue
  <2> QED BY <1>3, <2>2
<1>6. HeardSent'
  <2> SUFFICES ASSUME NEW n \in Node, NEW m \in Heard(n)'
               PROVE  /\ \E f \in SentTo(m[1], n)' : f.body = m[2]
                      /\ m[1] \in DOMAIN open'[n] \/ n \in halted'
    BY DEF HeardSent
  <2>1. m \in Heard(n)
    BY DEF Heard
  <2>2. /\ \E f \in SentTo(m[1], n) : f.body = m[2]
        /\ m[1] \in DOMAIN open[n] \/ n \in halted
    BY <2>1 DEF IInv, Remembering, HeardSent
  <2> QED BY <1>1, <2>2 DEF WindowsStay
<1>7. WindowsLatest'
  <2> SUFFICES ASSUME NEW n \in Node, NEW p \in DOMAIN open'[n]
               PROVE  /\ Different(open'[n][p].window)
                      /\ \A f \in SentTo(p, n)' :
                           Given(f)' => Followed(n, p, open[n][p].window, f)'
    BY DEF WindowsLatest
  <2>1. ASSUME NEW f \in SentTo(p, n)', Given(f)
        PROVE  f \in SentTo(p, n)
    <3>1. f \in Messages' /\ f.from = p /\ f.to = n
      BY DEF SentTo
    <3>2. CASE f \in Messages
      BY <3>1, <3>2 DEF SentTo
    <3>3. CASE f \notin Messages
      BY <2>1, <3>1, <3>3, NewNotGiven
    <3> QED BY <3>2, <3>3
  <2>2. CASE p \in DOMAIN open[n]
    <3>1. PICK w : w = open[n][p].window /\ w = open'[n][p].window
      BY <2>2 DEF WindowsStay
    <3>2. Different(w) /\ \A f \in SentTo(p, n) : Given(f) => Followed(n, p, w, f)
      BY <2>2, <3>1 DEF IInv, Remembering, WindowsLatest
    <3>3. ASSUME NEW f \in SentTo(p, n)', Given(f)'
          PROVE  Followed(n, p, w, f)'
      <4>1. f \in SentTo(p, n) /\ Followed(n, p, w, f)
        BY <1>2, <2>1, <3>2, <3>3
      <4>2. ASSUME NEW g \in SentTo(p, n)', Given(g)', NEW i \in DOMAIN w,
                   g.seq = w[i], Before(w, f.seq, i)
            PROVE  <<p, g.body>> \in heard[n][<<p, f.body>>]
        <5>1. g \in SentTo(p, n) /\ Given(g)
          BY <1>2, <2>1, <4>2
        <5> QED BY <4>1, <4>2, <5>1 DEF Followed
      <4> QED BY <4>1, <4>2 DEF Followed
    <3> QED BY <3>1, <3>2, <3>3
  <2>3. CASE p \notin DOMAIN open[n]
    <3>1. n \notin halted /\ open'[n][p].window = <<>>
      BY <2>3 DEF WindowsStay
    <3>2. ASSUME NEW f \in SentTo(p, n)', Given(f)'
          PROVE  FALSE
      <4>1. <<p, f.body>> \in Heard(n)
        BY <1>2, <3>2 DEF Given, SentTo
      <4> QED BY <2>3, <3>1, <4>1 DEF IInv, Remembering, HeardSent
    <3> QED BY <3>1, <3>2 DEF Different
  <2> QED BY <2>2, <2>3
<1> QED BY <1>4, <1>5, <1>6, <1>7 DEF Remembering

-----------------------------------------------------------------------------
(***************************************************************************)
(* What giving a message to the receivers does to what was heard.          *)
(***************************************************************************)
LEMMA HandedUp ==
  ASSUME Typed, NEW n \in Node, NEW f \in Messages, NEW m, m = <<f.from, f.body>>, HandUp(n, f)
  PROVE  /\ DOMAIN heard' = Node /\ \A k \in Node \ {n} : heard'[k] = heard[k]
         /\ m \in Message /\ GoodHeard(heard'[n])
         /\ DOMAIN heard'[n] = DOMAIN heard[n] \cup {m}
         /\ \A x \in DOMAIN heard[n] \ {m} :
              /\ x[1] = f.from => heard'[n][x] = heard[n][x] \cup {m}
              /\ x[1] # f.from => heard'[n][x] = heard[n][x]
<1> DEFINE h == heard[n]
           u == [x \in DOMAIN h \cup {m} |->
                  IF x = m THEN {} ELSE IF x[1] = f.from THEN h[x] \cup {m} ELSE h[x]]
<1>1. DOMAIN heard = Node /\ GoodHeard(h)
  BY DEF Typed
<1>2. heard' = [heard EXCEPT ![n] = u]
  BY DEF HandUp, Heard
<1>3. heard'[n] = u /\ DOMAIN heard' = Node /\ \A k \in Node \ {n} : heard'[k] = heard[k]
  BY <1>1, <1>2
<1>4. m \in Message
  <2>1. f.from \in Node /\ f.body \in 1..MaxSends
    BY FrameKinds DEF Messages, Typed
  <2> QED BY <2>1 DEF Message
<1> HIDE DEF h
<1>5. GoodHeard(u)
  <2>1. DOMAIN u = DOMAIN h \cup {m} /\ DOMAIN u \subseteq Message
    BY <1>1, <1>4 DEF GoodHeard
  <2>2. ASSUME NEW x \in DOMAIN u
        PROVE  u[x] \in SUBSET DOMAIN u /\ IsFiniteSet(u[x])
    <3>1. CASE x = m
      <4>1. u[x] = {}
        BY <3>1
      <4> HIDE DEF u
      <4> QED BY <4>1, FS_EmptySet
    <3>2. CASE x # m
      <4>1. x \in DOMAIN h /\ h[x] \subseteq DOMAIN h /\ IsFiniteSet(h[x])
        BY <1>1, <2>1, <3>2 DEF GoodHeard
      <4>2. u[x] = h[x] \cup {m} \/ u[x] = h[x]
        BY <3>2
      <4> HIDE DEF u
      <4>3. u[x] \subseteq DOMAIN u
        BY <2>1, <4>1, <4>2
      <4>4. IsFiniteSet(h[x] \cup {m})
        BY <4>1, FS_AddElement
      <4> QED BY <4>1, <4>2, <4>3, <4>4
    <3> QED BY <3>1, <3>2
  <2>3. u \in [DOMAIN u -> SUBSET DOMAIN u]
    <3>1. u = [x \in DOMAIN u |-> u[x]]
      OBVIOUS
    <3> HIDE DEF u
    <3> QED BY <2>2, <3>1
  <2> HIDE DEF u
  <2> QED BY <2>1, <2>2, <2>3 DEF GoodHeard
<1>6. /\ DOMAIN u = DOMAIN h \cup {m}
      /\ \A x \in DOMAIN h \ {m} : /\ x[1] = f.from => u[x] = h[x] \cup {m}
                                   /\ x[1] # f.from => u[x] = h[x]
  OBVIOUS
<1> HIDE DEF u
<1> QED BY <1>3, <1>4, <1>5, <1>6 DEF h

(***************************************************************************)
(* The window w that n keeps for p, and how it moves.                      *)
(***************************************************************************)
Sound(n, p, w) == /\ w \in Windows /\ Different(w)
                  /\ \A s \in Number : Copy(w, s) => Reached(p, n, s)
                  /\ \A f \in SentTo(p, n) : Given(f) => Followed(n, p, w, f)

LEMMA WindowsSound ==
  ASSUME IInv, NEW n \in Node, NEW p \in DOMAIN open[n], NEW w, w = open[n][p].window
  PROVE  Sound(n, p, w)
<1> QED BY DEF IInv, Typed, GoodOpen, Remembering, WindowsTrue, WindowsLatest, Sound

\* For its messages a window of no connection is empty: nothing came.
LEMMA NothingCame ==
  ASSUME IInv, NEW n \in Node \ halted, NEW p \in Node, p \notin DOMAIN open[n]
  PROVE  /\ \A m \in Heard(n) : m[1] # p
         /\ Sound(n, p, <<>>)
<1>1. \A m \in Heard(n) : m[1] # p
  BY DEF IInv, Remembering, HeardSent
<1>2. \A f \in SentTo(p, n) : ~Given(f)
  BY <1>1 DEF SentTo, Given
<1> QED BY <1>1, <1>2, EmptyWindow DEF IInv, Sound, Different, Copy

LEMMA SameNumber ==
  ASSUME IInv, NEW n \in Node, NEW p \in Node, NEW w, Sound(n, p, w),
         NEW f \in SentTo(p, n), NEW g \in SentTo(p, n), f.seq = g.seq, Given(g),
         ~Copy(w, f.seq)
  PROVE  f = g
<1>1. CASE n \in DOMAIN open[p]
  BY <1>1 DEF IInv, NumbersUnique, Numbered, Apart
<1>2. CASE n \notin DOMAIN open[p]
  <2>1. \A h \in SentTo(p, n) : h.seq = 1
    BY <1>2 DEF IInv, NumbersUnique, Numbered, Unconnected
  <2>2. w \in Seq(Number) /\ Len(w) = MaxRecv /\ MaxRecv \in Nat /\ MaxRecv > 0
    BY Constants DEF IInv, Sound, Followed, Windows
  <2>3. 1 \in DOMAIN w /\ w[1] \in Number
    BY <2>2
  <2>4. Reached(p, n, w[1])
    BY <2>3 DEF Sound, Copy
  <2>5. w[1] = 1
    BY <2>1, <2>4 DEF Reached
  <2> QED BY <2>1, <2>3, <2>5 DEF Copy
<1> QED BY <1>1, <1>2

(***************************************************************************)
(* A message that is new to the window is given to the receivers: it is    *)
(* the last of the window, and follows all of its source.                  *)
(***************************************************************************)
LEMMA WindowMoves ==
  ASSUME IInv, NEW n \in Node, NEW p \in Node, NEW w, Sound(n, p, w),
         NEW f \in SentTo(p, n), ~Copy(w, f.seq), HandUp(n, f),
         Messages' = Messages, NEW u, u = Remembered(w, f.seq)
  PROVE  Sound(n, p, u)'
<1> DEFINE m == <<p, f.body>>
           L == Len(w)
           k == IF L < MaxRecv THEN 0 ELSE 1
<1>1. /\ f \in Messages /\ f.from = p /\ f.to = n /\ f.seq \in Number
  BY FrameKinds DEF SentTo, Messages, IInv, Typed
<1>2. /\ DOMAIN heard'[n] = Heard(n) \cup {m}
      /\ \A x \in Heard(n) \ {m} : x[1] = p => heard'[n][x] = heard[n][x] \cup {m}
  <2>1. PICK x : x = m
    OBVIOUS
  <2>2. x = <<f.from, f.body>>
    BY <1>1, <2>1
  <2>3. /\ DOMAIN heard'[n] = DOMAIN heard[n] \cup {x}
        /\ \A y \in DOMAIN heard[n] \ {x} : y[1] = f.from => heard'[n][y] = heard[n][y] \cup {x}
    BY <1>1, <2>2, HandedUp DEF IInv
  <2> QED BY <1>1, <2>1, <2>3 DEF Heard
<1>3. /\ w \in Windows /\ Different(w) /\ MaxRecv \in Nat /\ MaxRecv > 0 /\ L \in Nat /\ L <= MaxRecv
      /\ \A s \in Number : Copy(w, s) => Reached(p, n, s)
      /\ \A g \in SentTo(p, n) : Given(g) => Followed(n, p, w, g)
  BY Constants DEF Sound, Windows, IInv
<1>4. /\ u \in Windows
      /\ DOMAIN w = 1..L /\ DOMAIN u = 1..L + 1 - k
      /\ u[L + 1 - k] = f.seq /\ Len(u) = L + 1 - k
      /\ \A i \in 1..L - k : u[i] = w[i + k]
  <2>1. PICK s \in Number : s = f.seq
    BY <1>1
  <2> QED BY <1>3, <2>1, WindowGrows DEF IInv
<1>5. L \in Nat /\ k \in 0..1 /\ (k = 1 => L = MaxRecv)
  BY <1>3
<1> HIDE DEF L, k
<1>6. \A a, b \in Node : SentTo(a, b)' = SentTo(a, b)
  BY DEF SentTo
\* Of what is given afterwards, f is the only one with its number.
<1>7. ASSUME NEW g \in SentTo(p, n)
      PROVE  /\ <<p, g.body>> = m => g = f
             /\ Given(g)' <=> Given(g) \/ g = f
             /\ Given(g)' /\ g.seq = f.seq => g = f
  <2>1. g \in Messages /\ g.from = p /\ g.to = n
    BY DEF SentTo
  <2>2. g.body = f.body => g = f
    BY <1>1, <2>1 DEF IInv, BodiesUnique
  <2>3. Given(g)' <=> Given(g) \/ g = f
    BY <1>2, <2>1, <2>2 DEF Given, Heard
  <2>4. Given(g) /\ g.seq = f.seq => g = f
    BY SameNumber
  <2> QED BY <2>2, <2>3, <2>4
<1>8. ASSUME NEW s, Reached(p, n, s)
      PROVE  Reached(p, n, s)'
  <2>1. PICK g \in SentTo(p, n) : g.seq = s /\ Given(g)
    BY <1>8 DEF Reached
  <2> QED BY <1>6, <1>7, <2>1 DEF Reached
<1>9. Reached(p, n, f.seq)'
  <2>1. Given(f)'
    BY <1>7
  <2>2. PICK s : s = f.seq
    OBVIOUS
  <2>3. Reached(p, n, s)'
    BY <1>6, <2>1, <2>2 DEF Reached
  <2> QED BY <2>2, <2>3
<1>10. ASSUME NEW i \in DOMAIN u
       PROVE  \/ i = L + 1 - k /\ u[i] = f.seq
              \/ i \in 1..L - k /\ i + k \in DOMAIN w /\ u[i] = w[i + k]
  <2>1. i = L + 1 - k \/ (i \in 1..L - k /\ i + k \in DOMAIN w)
    BY <1>4, <1>5
  <2> QED BY <1>4, <2>1
<1>11. Different(u)
  <2> SUFFICES ASSUME NEW i \in DOMAIN u, NEW j \in DOMAIN u, u[i] = u[j] PROVE i = j
    BY DEF Different
  <2>1. ~\E i1 \in DOMAIN w : w[i1] = f.seq
    BY DEF Copy
  <2>2. i \in Int /\ j \in Int
    BY <1>3, <1>4, <1>5
  <2> QED BY <1>3, <1>5, <1>10, <2>1, <2>2 DEF Different
<1>12. ASSUME NEW s \in Number, Copy(u, s)
       PROVE  Reached(p, n, s)'
  <2>1. PICK i \in DOMAIN u : u[i] = s
    BY <1>12 DEF Copy
  <2>2. CASE u[i] = f.seq
    BY <1>9, <2>1, <2>2
  <2>3. CASE i + k \in DOMAIN w /\ u[i] = w[i + k]
    <3>1. Reached(p, n, s)
      BY <1>3, <2>1, <2>3 DEF Copy
    <3> QED BY <1>8, <3>1
  <2> QED BY <1>10, <2>2, <2>3
<1>13. ASSUME NEW h \in SentTo(p, n), Given(h)'
       PROVE  Copy(u, h.seq) \/ Len(u) = MaxRecv
  <2>1. CASE h = f
    <3>1. L + 1 - k \in DOMAIN u
      BY <1>3, <1>4, <1>5
    <3> QED BY <1>4, <2>1, <3>1 DEF Copy
  <2>2. CASE h # f /\ k = 0
    <3>1. Copy(w, h.seq) \/ L = MaxRecv
      BY <1>3, <1>7, <1>13, <2>2 DEF Followed, L
    <3>2. L < MaxRecv
      BY <1>3, <2>2 DEF k
    <3>3. PICK i \in DOMAIN w : w[i] = h.seq
      BY <1>3, <3>1, <3>2 DEF Copy
    <3>4. i \in DOMAIN u /\ u[i] = h.seq
      BY <1>3, <1>4, <2>2, <3>3
    <3> QED BY <3>4 DEF Copy
  <2>3. CASE k = 1
    BY <1>3, <1>4, <1>5, <2>3
  <2> QED BY <1>5, <2>1, <2>2, <2>3
<1>14. ASSUME NEW h \in SentTo(p, n), Given(h)', NEW g \in SentTo(p, n), Given(g)',
              NEW i \in DOMAIN u, g.seq = u[i], Before(u, h.seq, i)
       PROVE  <<p, g.body>> \in heard'[n][<<p, h.body>>]
  <2>1. L + 1 - k \in DOMAIN u /\ i <= L + 1 - k
    BY <1>3, <1>4, <1>5
  <2>2. h # f
    <3> SUFFICES ASSUME h = f PROVE FALSE
      OBVIOUS
    <3>1. L + 1 - k < i
      BY <1>4, <1>14, <2>1 DEF Before
    <3> QED BY <1>3, <1>4, <1>5, <2>1, <3>1
  <2>3. /\ <<p, h.body>> \in Heard(n) \ {m} /\ Given(h)
        /\ heard'[n][<<p, h.body>>] = heard[n][<<p, h.body>>] \cup {m}
    <3>1. Given(h) /\ <<p, h.body>> # m /\ h.from = p /\ h.to = n
      BY <1>7, <1>14, <2>2 DEF SentTo
    <3>2. <<p, h.body>> \in Heard(n) \ {m}
      BY <3>1 DEF Given
    <3>3. PICK x \in Heard(n) \ {m} : x = <<p, h.body>>
      BY <3>2
    <3>4. x[1] = p
      BY <3>3
    <3>5. heard'[n][x] = heard[n][x] \cup {m}
      BY <1>2, <3>4
    <3> QED BY <3>1, <3>3, <3>5
  <2>4. CASE g = f
    BY <2>3, <2>4
  <2>5. CASE g # f
    <3>1. Given(g) /\ g.seq # f.seq
      BY <1>7, <1>14, <2>5
    <3>2. i \in 1..L - k /\ i + k \in DOMAIN w /\ g.seq = w[i + k]
      BY <1>10, <1>14, <3>1
    <3>3. Before(w, h.seq, i + k)
      <4> SUFFICES ASSUME NEW j \in DOMAIN w, w[j] = h.seq PROVE j < i + k
        BY DEF Before
      <4>0. /\ L \in Nat /\ k \in 0..1 /\ j \in 1..L /\ i \in 1..L - k
            /\ DOMAIN u = 1..L + 1 - k
        BY <1>3, <1>4, <1>5, <3>2
      <4>1. CASE j <= k
        BY <4>0, <4>1
      <4>2. CASE j > k
        <5>1. j - k \in 1..L - k /\ j - k \in DOMAIN u /\ j - k + k = j /\ j \in Int /\ i \in Int
          BY <4>0, <4>2
        <5>2. u[j - k] = h.seq
          BY <1>4, <5>1
        <5>3. j - k < i
          BY <1>14, <5>1, <5>2 DEF Before
        <5> QED BY <1>5, <5>1, <5>3
      <4> QED BY <4>0, <4>1, <4>2
    <3>4. Followed(n, p, w, h)
      BY <1>3, <2>3
    <3>5. <<p, g.body>> \in heard[n][<<p, h.body>>]
      BY <3>1, <3>2, <3>3, <3>4 DEF Followed
    <3> QED BY <2>3, <3>5
  <2> QED BY <2>4, <2>5
<1>15. \A h \in SentTo(p, n)' : Given(h)' => Followed(n, p, u, h)'
  BY <1>6, <1>13, <1>14 DEF Followed
<1> QED BY <1>4, <1>11, <1>12, <1>15 DEF Sound

\* The other windows stay as they are, and what they say stays so.
LEMMA OthersSound ==
  ASSUME IInv, NEW n \in Node, NEW f \in Messages, HandUp(n, f), Messages' = Messages,
         NEW k \in Node, NEW q \in Node, k # n \/ q # f.from, NEW w, Sound(k, q, w)
  PROVE  Sound(k, q, w)'
<1>1. PICK m : m = <<f.from, f.body>>
  OBVIOUS
<1>2. /\ \A x \in Node \ {n} : heard'[x] = heard[x]
      /\ DOMAIN heard'[n] = DOMAIN heard[n] \cup {m}
      /\ \A x \in DOMAIN heard[n] \ {m} : x[1] # f.from => heard'[n][x] = heard[n][x]
  BY <1>1, HandedUp DEF IInv
<1>3. SentTo(q, k)' = SentTo(q, k)
  BY DEF SentTo
<1>4. ASSUME NEW g \in SentTo(q, k)
      PROVE  /\ Given(g)' <=> Given(g)
             /\ Given(g) => heard'[k][<<q, g.body>>] = heard[k][<<q, g.body>>]
  <2>1. g.from = q /\ g.to = k
    BY DEF SentTo
  <2>2. PICK x : x = <<q, g.body>>
    OBVIOUS
  <2>3. Given(g) <=> x \in DOMAIN heard[k]
    BY <2>1, <2>2 DEF Given, Heard
  <2>4. Given(g)' <=> x \in DOMAIN heard'[k]
    BY <2>1, <2>2 DEF Given, Heard
  <2>5. CASE k # n
    BY <1>2, <2>2, <2>3, <2>4, <2>5
  <2>6. CASE k = n
    <3>1. x # m /\ x[1] = q /\ q # f.from
      BY <1>1, <2>2, <2>6
    <3> QED BY <1>2, <2>2, <2>3, <2>4, <2>6, <3>1
  <2> QED BY <2>5, <2>6
<1>5. ASSUME NEW s \in Number, Copy(w, s)
      PROVE  Reached(q, k, s)'
  <2>1. PICK g \in SentTo(q, k) : g.seq = s /\ Given(g)
    BY <1>5 DEF Sound, Reached
  <2> QED BY <1>3, <1>4, <2>1 DEF Reached
<1>6. ASSUME NEW h \in SentTo(q, k)', Given(h)'
      PROVE  Followed(k, q, w, h)'
  <2>1. h \in SentTo(q, k) /\ Given(h)
    BY <1>3, <1>4, <1>6
  <2>2. Followed(k, q, w, h)
    BY <2>1 DEF Sound
  <2>3. heard'[k][<<q, h.body>>] = heard[k][<<q, h.body>>]
    BY <1>4, <2>1
  <2>4. \A g \in SentTo(q, k)' : Given(g)' => Given(g)
    BY <1>3, <1>4
  <2>5. Followed(k, q, w, h)'
    BY <1>3, <2>2, <2>3, <2>4 DEF Followed
  <2> QED BY <2>5
<1> QED BY <1>5, <1>6 DEF Sound

\* A message that comes again had left the window: MaxRecv others followed it.
LEMMA NotEarly ==
  ASSUME IInv, NEW n \in Node, NEW p \in Node, NEW w, Sound(n, p, w),
         NEW f \in SentTo(p, n), ~Copy(w, f.seq), Given(f)
  PROVE  Cardinality(heard[n][<<f.from, f.body>>]) >= MaxRecv
<1> DEFINE T == heard[n][<<f.from, f.body>>]
           g[i \in 1..MaxRecv] == CHOOSE h \in SentTo(p, n) : h.seq = w[i] /\ Given(h)
           F == [i \in 1..MaxRecv |-> <<p, g[i].body>>]
<1>1. f.from = p /\ f.to = n
  BY DEF SentTo
<1>2. /\ w \in Windows /\ Different(w) /\ MaxRecv \in Nat
      /\ \A s \in Number : Copy(w, s) => Reached(p, n, s)
      /\ Followed(n, p, w, f)
  BY Constants DEF IInv, Sound
<1>3. Len(w) = MaxRecv /\ DOMAIN w = 1..MaxRecv
  BY <1>2 DEF Followed, Windows
<1>4. IsFiniteSet(T)
  <2>1. GoodHeard(heard[n])
    BY DEF IInv, Typed
  <2>2. <<f.from, f.body>> \in DOMAIN heard[n]
    BY <1>1 DEF Given, Heard
  <2> QED BY <2>1, <2>2 DEF GoodHeard
<1>5. ASSUME NEW i \in 1..MaxRecv
      PROVE  g[i] \in SentTo(p, n) /\ g[i].seq = w[i] /\ Given(g[i])
  <2>1. w[i] \in Number /\ Copy(w, w[i])
    BY <1>2, <1>3 DEF Windows, Copy
  <2>2. \E h \in SentTo(p, n) : h.seq = w[i] /\ Given(h)
    BY <1>2, <2>1 DEF Reached
  <2> QED BY <2>2
<1> HIDE DEF g
<1>6. ASSUME NEW i \in 1..MaxRecv
      PROVE  F[i] \in T
  <2>1. Before(w, f.seq, i)
    BY DEF Before, Copy
  <2>2. <<p, g[i].body>> \in heard[n][<<p, f.body>>]
    BY <1>2, <1>3, <1>5, <2>1 DEF Followed
  <2> QED BY <1>1, <2>2
<1>7. ASSUME NEW i \in 1..MaxRecv, NEW j \in 1..MaxRecv, F[i] = F[j]
      PROVE  i = j
  <2>1. g[i].body = g[j].body
    BY <1>7
  <2>2. g[i] = g[j]
    BY <1>5, <2>1 DEF IInv, BodiesUnique, SentTo
  <2>3. w[i] = w[j]
    BY <1>5, <2>2
  <2> QED BY <1>2, <1>3, <2>3 DEF Different
<1> HIDE DEF T
<1>8. F \in [1..MaxRecv -> T]
  BY <1>6
<1> HIDE DEF F
<1>9. F \in Injection(1..MaxRecv, T)
  BY <1>7, <1>8 DEF Injection, IsInjective
<1>10. Cardinality(1..MaxRecv) <= Cardinality(T)
  BY <1>4, <1>9, FS_Injection
<1>11. Cardinality(1..MaxRecv) = MaxRecv
  BY <1>2, FS_Interval
<1>12. Cardinality(T) \in Nat
  BY <1>4, FS_CardinalityType
<1> QED BY <1>2, <1>10, <1>11, <1>12 DEF T

-----------------------------------------------------------------------------
(***************************************************************************)
(* What the handlers of frames do to the connections: a new one may open,  *)
(* with the first number and an empty window.                              *)
(***************************************************************************)
SameNumbers(u, v) == DOMAIN v = DOMAIN u /\ \A q \in DOMAIN u : v[q].next = u[q].next

OpenTyped == DOMAIN open = Node /\ \A k \in Node : GoodOpen(open[k])

LEMMA SameSelf == \A u : SameNumbers(u, u)
BY DEF SameNumbers

LEMMA OneOpens ==
  ASSUME IInv, NEW n \in Node, NEW p \in Node, NEW u, u = WithConnection(n, p, 1),
         NEW v, GoodOpen(v), SameNumbers(u, v), open' = [open EXCEPT ![n] = v]
  PROVE  /\ NumbersStay /\ OpenTyped'
         /\ n \notin halted /\ v = u => WindowsStay
<1>1. DOMAIN open = Node /\ \A k \in Node : GoodOpen(open[k])
  BY DEF IInv, Typed
<1>2. open'[n] = v /\ DOMAIN open' = Node /\ \A k \in Node \ {n} : open'[k] = open[k]
  BY <1>1
<1>3. 1 \in Seq16
  BY Constants DEF IInv, Seq16
<1>4. Opens(open[n], u, p, 1) /\ SameNumbers(u, v)
  BY <1>3, Opened DEF IInv
<1>5. PICK o : o = open[n]
  OBVIOUS
<1>6. /\ DOMAIN o \subseteq DOMAIN v /\ Cardinality(DOMAIN o) <= Cardinality(DOMAIN v)
      /\ \A q \in DOMAIN o : u[q] = o[q]
      /\ \A q \in DOMAIN v \ DOMAIN o : /\ Cardinality(DOMAIN o) < MaxConnections
                                        /\ u[q] = Connection(1, <<>>)
  BY <1>4, <1>5 DEF Opens, SameNumbers
<1>7. NumbersStay
  <2> SUFFICES ASSUME NEW k \in Node
               PROVE  /\ DOMAIN open[k] \subseteq DOMAIN open'[k]
                      /\ Cardinality(DOMAIN open[k]) \in Nat
                      /\ Cardinality(DOMAIN open'[k]) \in Nat
                      /\ Cardinality(DOMAIN open[k]) <= Cardinality(DOMAIN open'[k])
                      /\ \A d \in DOMAIN open[k] : open'[k][d].next = open[k][d].next
                      /\ \A d \in DOMAIN open'[k] \ DOMAIN open[k] :
                           /\ Cardinality(DOMAIN open[k]) < MaxConnections
                           /\ open'[k][d].next = 1
    BY DEF NumbersStay
  <2>1. Cardinality(DOMAIN open[k]) \in Nat /\ Cardinality(DOMAIN v) \in Nat
    BY <1>1, FS_CardinalityType DEF GoodOpen
  <2>2. CASE k # n
    BY <1>2, <2>1, <2>2
  <2>3. CASE k = n
    BY <1>2, <1>4, <1>5, <1>6, <2>1, <2>3 DEF Connection, SameNumbers
  <2> QED BY <2>2, <2>3
<1>8. ASSUME n \notin halted, v = u
      PROVE  WindowsStay
  <2> SUFFICES ASSUME NEW k \in Node
               PROVE  /\ DOMAIN open[k] \subseteq DOMAIN open'[k]
                      /\ \A d \in DOMAIN open[k] : open'[k][d].window = open[k][d].window
                      /\ \A d \in DOMAIN open'[k] \ DOMAIN open[k] :
                           k \notin halted /\ open'[k][d].window = <<>>
    BY DEF WindowsStay
  <2>1. CASE k # n
    BY <1>2, <2>1
  <2>2. CASE k = n
    BY <1>2, <1>5, <1>6, <1>8, <2>2 DEF Connection
  <2> QED BY <2>1, <2>2
<1> QED BY <1>1, <1>2, <1>7, <1>8 DEF OpenTyped

\* Nothing is new where no connection opens.
LEMMA NoneOpens ==
  ASSUME IInv, \A k \in Node : open'[k] = open[k]
  PROVE  NumbersStay /\ WindowsStay
<1>1. \A n \in Node : Cardinality(DOMAIN open[n]) \in Nat
  BY FS_CardinalityType DEF IInv, Typed, GoodOpen
<1>2. NumbersStay
  BY <1>1 DEF NumbersStay
<1> QED BY <1>2 DEF WindowsStay

(***************************************************************************)
(* A step that sends no message and gives none to a receiver, and whose    *)
(* acknowledgements are true, keeps all but the types, what is pending and *)
(* what is confirmed.                                                      *)
(***************************************************************************)
LEMMA QuietStep ==
  ASSUME IInv, NumbersStay, WindowsStay, UNCHANGED <<sent, unnumbered, heard, early>>,
         halted \subseteq halted', Messages' = Messages,
         \A f \in air' : f.type = "ack" => f \in air \/ \A s \in f.seqs : Reached(f.to, f.from, s)
  PROVE  BodiesUnique' /\ NumbersUnique' /\ Remembering' /\ AgainOnlyIfOvertaken'
<1>1. CountsGrow
  BY DEF IInv, Typed, CountsGrow
<1>2. BodiesUnique' /\ NumbersUnique'
  BY <1>1, NumbersKept
<1>3. Remembering'
  BY WindowsKept
<1>4. AgainOnlyIfOvertaken'
  BY DEF IInv, AgainOnlyIfOvertaken
<1> QED BY <1>2, <1>3, <1>4

LEMMA ConfirmedKept ==
  ASSUME IInv, UNCHANGED confirmed, \A k \in Node : Heard(k) \subseteq Heard(k)',
         \A k \in Node : unnumbered[k] \subseteq unnumbered'[k]
  PROVE  AckMeansHeard'
<1> SUFFICES ASSUME NEW n \in Node, NEW m \in confirmed[n]
             PROVE  <<n, m[2]>> \in Heard(m[1])' \/ m[2] \in unnumbered'[n]
  BY DEF AckMeansHeard
<1>1. m[1] \in Node
  BY DEF IInv, Typed, Message
<1>2. <<n, m[2]>> \in Heard(m[1]) \/ m[2] \in unnumbered[n]
  BY DEF IInv, AckMeansHeard
<1> QED BY <1>1, <1>2

\* What was sent stays sent.
LEMMA EntriesKept ==
  ASSUME IInv, \A n \in Node : pending'[n] \subseteq pending[n], air \subseteq air'
  PROVE  EntriesSent'
<1> SUFFICES ASSUME NEW n \in Node, NEW e \in pending'[n]
             PROVE  Reliable(n, e)' \in air'
  BY DEF EntriesSent
<1>1. Reliable(n, e)' = Reliable(n, e)
  BY DEF Reliable
<1> QED BY <1>1 DEF IInv, EntriesSent

-----------------------------------------------------------------------------
(***************************************************************************)
(* One lemma per action.                                                   *)
(***************************************************************************)
LEMMA ReceiveBroadcastIInv ==
  ASSUME IInv, NEW n \in Node, NEW f \in air, ReceiveBroadcast(n, f)
  PROVE  IInv'
<1>1. /\ n \notin halted /\ f.from \in Node
      /\ open' = [open EXCEPT ![n] = WithConnection(n, f.from, 1)]
      /\ UNCHANGED <<halted, clock, phase, pending, air, sent, unnumbered, confirmed, heard, early>>
  BY FrameKinds DEF IInv, Typed, ReceiveBroadcast, Hears, Running
<1>2. PICK u : u = WithConnection(n, f.from, 1)
  OBVIOUS
<1>3. GoodOpen(u)
  BY <1>1, <1>2, Opened, Constants DEF IInv, Seq16, Opens
<1>4. NumbersStay /\ WindowsStay /\ OpenTyped'
  BY <1>1, <1>2, <1>3, OneOpens, SameSelf
<1>5. Typed'
  BY <1>1, <1>4 DEF IInv, Typed, OpenTyped
<1>6. BodiesUnique' /\ NumbersUnique' /\ Remembering' /\ AgainOnlyIfOvertaken'
  <2>1. Messages' = Messages
    BY <1>1 DEF Messages
  <2> QED BY <1>1, <1>4, <2>1, QuietStep
<1>7. AckMeansHeard'
  BY <1>1, ConfirmedKept DEF Heard
<1>8. EntriesSent'
  BY <1>1, EntriesKept
<1> QED BY <1>5, <1>6, <1>7, <1>8 DEF IInv

LEMMA SendBroadcastIInv ==
  ASSUME IInv, NEW n \in Node, SendBroadcast(n)
  PROVE  IInv'
<1>1. /\ air' = air \cup {Broadcast(n)}
      /\ UNCHANGED <<halted, clock, phase, open, pending, sent, unnumbered, confirmed,
                     heard, early>>
  BY DEF SendBroadcast
<1>2. Broadcast(n) \in Frame /\ Broadcast(n).type = "broadcast"
  BY DEF Broadcast, Frame
<1>3. Typed'
  BY <1>1, <1>2 DEF IInv, Typed
<1>4. BodiesUnique' /\ NumbersUnique' /\ Remembering' /\ AgainOnlyIfOvertaken'
  <2>1. Messages' = Messages
    BY <1>1, <1>2 DEF Messages
  <2> QED BY <1>1, <1>2, <2>1, NoneOpens, QuietStep
<1>5. AckMeansHeard'
  BY <1>1, ConfirmedKept DEF Heard
<1>6. EntriesSent'
  BY <1>1, EntriesKept
<1> QED BY <1>3, <1>4, <1>5, <1>6 DEF IInv

LEMMA TimePassesIInv ==
  ASSUME IInv, NEW n \in Node, TimePasses(n)
  PROVE  IInv'
<1>1. /\ phase[n] < DaemonPeriod
      /\ clock' = [clock EXCEPT ![n] = (@ + 1) % TimeMod]
      /\ phase' = [phase EXCEPT ![n] = @ + 1]
      /\ UNCHANGED <<halted, open, pending, air, sent, unnumbered, confirmed, heard, early>>
  BY DEF TimePasses
<1>2. Typed'
  <2>1. (clock[n] + 1) % TimeMod \in 0..TimeMod - 1 /\ phase[n] + 1 \in 0..DaemonPeriod
    BY <1>1, Constants DEF IInv, Typed
  <2> QED BY <1>1, <2>1 DEF IInv, Typed
<1>3. BodiesUnique' /\ NumbersUnique' /\ Remembering' /\ AgainOnlyIfOvertaken'
  <2>1. Messages' = Messages
    BY <1>1 DEF Messages
  <2> QED BY <1>1, <2>1, NoneOpens, QuietStep
<1>4. AckMeansHeard'
  BY <1>1, ConfirmedKept DEF Heard
<1>5. EntriesSent'
  BY <1>1, EntriesKept
<1> QED BY <1>2, <1>3, <1>4, <1>5 DEF IInv

LEMMA ReceiveAckIInv ==
  ASSUME IInv, NEW n \in Node, NEW f \in air, ReceiveAck(n, f)
  PROVE  IInv'
<1> DEFINE done == {e \in pending[n] : Acknowledges(f, e)}
<1>1. /\ n \notin halted /\ f.from \in Node /\ f.type = "ack" /\ f.to = n
      /\ open' = [open EXCEPT ![n] = WithConnection(n, f.from, 1)]
      /\ pending' = [pending EXCEPT ![n] = @ \ done]
      /\ confirmed' = [confirmed EXCEPT ![n] = @ \cup {<<e.to, e.body>> : e \in done}]
      /\ UNCHANGED <<halted, clock, phase, air, sent, unnumbered, heard, early>>
  BY FrameKinds DEF IInv, Typed, ReceiveAck, Hears, Running
<1>2. PICK u : u = WithConnection(n, f.from, 1)
  OBVIOUS
<1>3. GoodOpen(u)
  BY <1>1, <1>2, Opened, Constants DEF IInv, Seq16, Opens
<1>4. NumbersStay /\ WindowsStay /\ OpenTyped'
  BY <1>1, <1>2, <1>3, OneOpens, SameSelf
<1>5. ASSUME NEW e \in done
      PROVE  e \in pending[n] /\ e.to = f.from /\ e.seq \in f.seqs /\ e \in Entry
  BY DEF Acknowledges, IInv, Typed
<1>6. /\ pending' \in [Node -> SUBSET Entry] /\ \A k \in Node : pending'[k] \subseteq pending[k]
      /\ \A k \in Node : /\ IsFiniteSet(pending'[k])
                         /\ Cardinality(pending'[k]) <= MaxPending
  <2>1. pending' \in [Node -> SUBSET Entry] /\ \A k \in Node : pending'[k] \subseteq pending[k]
    BY <1>1 DEF IInv, Typed
  <2>2. ASSUME NEW k \in Node
        PROVE  IsFiniteSet(pending'[k]) /\ Cardinality(pending'[k]) <= MaxPending
    <3>1. /\ IsFiniteSet(pending[k]) /\ Cardinality(pending[k]) <= MaxPending
          /\ Cardinality(pending[k]) \in Nat /\ MaxPending \in Nat
      BY Constants, FS_CardinalityType DEF IInv, Typed
    <3>2. /\ IsFiniteSet(pending'[k]) /\ Cardinality(pending'[k]) <= Cardinality(pending[k])
      BY <2>1, <3>1, FS_Subset
    <3> QED BY <3>1, <3>2, FS_CardinalityType
  <2> QED BY <2>1, <2>2
<1>7. Typed'
  <2>1. {<<e.to, e.body>> : e \in done} \subseteq Message
    BY <1>5 DEF Entry, Message
  <2>2. confirmed' \in [Node -> SUBSET Message]
    BY <1>1, <2>1 DEF IInv, Typed
  <2> QED BY <1>1, <1>4, <1>6, <2>2 DEF IInv, Typed, OpenTyped
<1>8. BodiesUnique' /\ NumbersUnique' /\ Remembering' /\ AgainOnlyIfOvertaken'
  <2>1. Messages' = Messages
    BY <1>1 DEF Messages
  <2> QED BY <1>1, <1>4, <2>1, QuietStep
<1>9. EntriesSent'
  BY <1>1, <1>6, EntriesKept
\* The number in the acknowledgement is that of a message given to its sender.
<1>10. ASSUME NEW e \in done
       PROVE  <<n, e.body>> \in Heard(e.to) \/ e.body \in unnumbered[n]
  <2>1. PICK g \in air : g = Reliable(n, e)
    BY <1>5 DEF IInv, EntriesSent
  <2>2. g \in SentTo(n, e.to) /\ g.seq = e.seq /\ g.body = e.body
    BY <2>1 DEF Reliable, SentTo, Messages
  <2>3. PICK h \in SentTo(n, e.to) : h.seq = e.seq /\ Given(h)
    BY <1>1, <1>5 DEF IInv, Remembering, AcksTrue, Reached
  <2>4. CASE e.to \in DOMAIN open[n]
    <3>1. h = g
      BY <1>1, <1>5, <2>2, <2>3, <2>4 DEF IInv, NumbersUnique, Numbered, Apart
    <3> QED BY <2>2, <2>3, <3>1 DEF Given, SentTo
  <2>5. CASE e.to \notin DOMAIN open[n]
    BY <1>1, <1>5, <2>2, <2>5 DEF IInv, NumbersUnique, Numbered, Unconnected
  <2> QED BY <2>4, <2>5
<1>11. AckMeansHeard'
  <2> SUFFICES ASSUME NEW k \in Node, NEW m \in confirmed'[k]
               PROVE  <<k, m[2]>> \in Heard(m[1])' \/ m[2] \in unnumbered'[k]
    BY DEF AckMeansHeard
  <2>1. UNCHANGED heard /\ UNCHANGED unnumbered
    BY <1>1
  <2>2. CASE m \in confirmed[k]
    BY <2>1, <2>2 DEF IInv, AckMeansHeard, Heard
  <2>3. CASE k = n /\ m \notin confirmed[k]
    <3>1. PICK e \in done : m = <<e.to, e.body>>
      BY <1>1, <2>3 DEF IInv, Typed
    <3>2. m[1] = e.to /\ m[2] = e.body
      BY <3>1
    <3> QED BY <1>10, <2>1, <2>3, <3>2 DEF Heard
  <2>4. k = n \/ m \in confirmed[k]
    BY <1>1 DEF IInv, Typed
  <2> QED BY <2>2, <2>3, <2>4
<1> QED BY <1>7, <1>8, <1>9, <1>11 DEF IInv

LEMMA RewrittenFits ==
  ASSUME NEW S, IsFiniteSet(S), NEW g
  PROVE  LET T == {g[x] : x \in S}
         IN  /\ IsFiniteSet(T) /\ Cardinality(T) \in Nat
             /\ Cardinality(T) <= Cardinality(S)
<1> DEFINE T == {g[x] : x \in S}
           h == [x \in S |-> g[x]]
<1>1. h \in Surjection(S, T)
  BY DEF Surjection
<1>2. IsFiniteSet(T) /\ Cardinality(T) <= Cardinality(S)
  BY <1>1, FS_Surjection
<1> QED BY <1>2, FS_CardinalityType

LEMMA DaemonIInv ==
  ASSUME IInv, NEW n \in Node, Daemon(n)
  PROVE  IInv'
<1> DEFINE due   == {e \in pending[n] : Due(n, e)}
           again == {e \in due : e.retries < MaxRetries}
           gone  == {e \in due : GivenUp(e)}
           left  == (pending[n] \ (again \cup gone)) \cup {Resent(n, e) : e \in again}
<1>1. /\ phase' = [phase EXCEPT ![n] = 0]
      /\ pending' = [pending EXCEPT ![n] = left]
      /\ air' = air \cup {Reliable(n, e) : e \in again}
      /\ UNCHANGED <<halted, clock, open, sent, unnumbered, confirmed, heard, early>>
  BY DEF Daemon, IInv, Typed
<1>2. /\ pending[n] \subseteq Entry /\ IsFiniteSet(pending[n])
      /\ Cardinality(pending[n]) <= MaxPending /\ Cardinality(pending[n]) \in Nat
      /\ MaxPending \in Nat /\ MaxRetries \in Nat /\ clock[n] \in 0..TimeMod - 1
  BY FS_CardinalityType, Constants DEF IInv, Typed
<1>3. ASSUME NEW e \in again
      PROVE  Resent(n, e) \in Entry /\ Reliable(n, Resent(n, e)) = Reliable(n, e)
  <2>1. e \in Entry /\ e.retries < MaxRetries
    BY <1>2
  <2>2. e.retries + 1 \in 0..MaxRetries
    BY <1>2, <2>1 DEF Entry
  <2> QED BY <1>2, <2>1, <2>2 DEF Resent, Entry, Reliable
<1>4. air' = air
  BY <1>1 DEF IInv, EntriesSent
<1>5. left \subseteq Entry /\ IsFiniteSet(left) /\ Cardinality(left) <= MaxPending
  <2> DEFINE g == [x \in pending[n] |-> IF x \in again THEN Resent(n, x) ELSE x]
             T == {g[x] : x \in pending[n]}
  <2>1. left \subseteq T
    OBVIOUS
  <2>2. left \subseteq Entry
    BY <1>2, <1>3
  <2>3. IsFiniteSet(T) /\ Cardinality(T) \in Nat /\ Cardinality(T) <= Cardinality(pending[n])
    <3> HIDE DEF g
    <3> QED BY <1>2, RewrittenFits
  <2> HIDE DEF T, left
  <2>4. IsFiniteSet(left) /\ Cardinality(left) <= Cardinality(T) /\ Cardinality(left) \in Nat
    BY <2>1, <2>3, FS_Subset, FS_CardinalityType
  <2> QED BY <1>2, <2>2, <2>3, <2>4
<1>6. /\ pending'[n] = left /\ pending' \in [Node -> SUBSET Entry]
      /\ \A k \in Node \ {n} : pending'[k] = pending[k]
  <2> HIDE DEF left
  <2> QED BY <1>1, <1>5 DEF IInv, Typed
<1>7. Typed'
  <2>1. \A k \in Node : IsFiniteSet(pending'[k]) /\ Cardinality(pending'[k]) <= MaxPending
    <3> HIDE DEF left
    <3> QED BY <1>5, <1>6 DEF IInv, Typed
  <2>2. phase' \in [Node -> 0..DaemonPeriod]
    BY <1>1, Constants DEF IInv, Typed
  <2> QED BY <1>1, <1>4, <1>6, <2>1, <2>2 DEF IInv, Typed
<1>8. BodiesUnique' /\ NumbersUnique' /\ Remembering' /\ AgainOnlyIfOvertaken'
  <2>1. Messages' = Messages
    BY <1>4 DEF Messages
  <2> QED BY <1>1, <1>4, <2>1, NoneOpens, QuietStep
<1>9. AckMeansHeard'
  BY <1>1, ConfirmedKept DEF Heard
<1>10. EntriesSent'
  <2> SUFFICES ASSUME NEW k \in Node, NEW e \in pending'[k]
               PROVE  Reliable(k, e) \in air
    BY <1>4 DEF EntriesSent, Reliable
  <2>1. CASE e \in pending[k]
    BY <2>1 DEF IInv, EntriesSent
  <2>2. CASE e \notin pending[k]
    <3>1. k = n /\ e \in left
      BY <1>6, <2>2
    <3>2. PICK a \in again : e = Resent(n, a)
      BY <2>2, <3>1
    <3>3. Reliable(k, e) = Reliable(n, a) /\ a \in pending[n]
      BY <1>3, <3>1, <3>2
    <3> QED BY <3>3 DEF IInv, EntriesSent
  <2> QED BY <2>1, <2>2
<1> QED BY <1>7, <1>8, <1>9, <1>10 DEF IInv

-----------------------------------------------------------------------------
(***************************************************************************)
(* A message comes that is given to the receivers.                         *)
(***************************************************************************)
LEMMA GivenStays ==
  ASSUME IInv, NEW n \in Node, NEW f \in Messages, HandUp(n, f)
  PROVE  /\ \A k \in Node : /\ GoodHeard(heard'[k]) /\ Heard(k) \subseteq Heard(k)'
                            /\ \A x \in Heard(k)' : x \in Heard(k) \/ (k = n /\ x = <<f.from, f.body>>)
         /\ DOMAIN heard' = Node
<1>1. PICK m : m = <<f.from, f.body>>
  OBVIOUS
<1>2. /\ DOMAIN heard' = Node /\ \A k \in Node \ {n} : heard'[k] = heard[k]
      /\ GoodHeard(heard'[n]) /\ DOMAIN heard'[n] = DOMAIN heard[n] \cup {m}
  BY <1>1, HandedUp DEF IInv
<1>3. \A k \in Node : GoodHeard(heard[k])
  BY DEF IInv, Typed
<1> QED BY <1>1, <1>2, <1>3 DEF Heard

LEMMA WindowsMoved ==
  ASSUME IInv, NEW n \in Node, NEW f \in Messages, f.to = n, HandUp(n, f), Messages' = Messages,
         halted \subseteq halted', f.from \in DOMAIN open'[n] \/ n \in halted',
         \A k \in Node : DOMAIN open[k] \subseteq DOMAIN open'[k],
         \A k \in Node : \A q \in DOMAIN open'[k] : \A w :
           w = open'[k][q].window => Sound(k, q, w)',
         \A a \in air' : a.type = "ack" =>
           a \in air \/ \A s \in a.seqs : Reached(a.to, a.from, s)'
  PROVE  Remembering'
<1>1. \A p, k : SentTo(p, k)' = SentTo(p, k)
  BY DEF SentTo
<1>2. ASSUME NEW p, NEW k \in Node, NEW s, Reached(p, k, s)
      PROVE  Reached(p, k, s)'
  <2>1. PICK g \in SentTo(p, k) : g.seq = s /\ Given(g)
    BY <1>2 DEF Reached
  <2>2. Given(g)'
    BY <2>1, GivenStays DEF Given, SentTo
  <2> QED BY <1>1, <2>1, <2>2 DEF Reached
<1>3. AcksTrue'
  <2> SUFFICES ASSUME NEW a \in air', a.type = "ack", NEW s \in a.seqs
               PROVE  Reached(a.to, a.from, s)'
    BY DEF AcksTrue
  <2>1. CASE a \in air
    <3>1. Reached(a.to, a.from, s) /\ a.from \in Node
      BY <2>1, FrameKinds DEF IInv, Typed, Remembering, AcksTrue
    <3> QED BY <1>2, <3>1
  <2> QED BY <2>1
<1>4. HeardSent'
  <2> SUFFICES ASSUME NEW k \in Node, NEW x \in Heard(k)'
               PROVE  /\ \E g \in SentTo(x[1], k)' : g.body = x[2]
                      /\ x[1] \in DOMAIN open'[k] \/ k \in halted'
    BY DEF HeardSent
  <2>1. CASE x \in Heard(k)
    BY <1>1, <2>1 DEF IInv, Remembering, HeardSent
  <2>2. CASE x \notin Heard(k)
    <3>1. k = n /\ x[1] = f.from /\ x[2] = f.body
      BY <2>2, GivenStays
    <3>2. f \in SentTo(f.from, n)
      BY DEF SentTo
    <3> QED BY <1>1, <3>1, <3>2
  <2> QED BY <2>1, <2>2
<1>5. ASSUME NEW k \in Node, NEW q \in DOMAIN open'[k], NEW w, w = open'[k][q].window
      PROVE  /\ \A s \in Number : Copy(w, s) => Reached(q, k, s)'
             /\ Different(w) /\ \A g \in SentTo(q, k)' : Given(g)' => Followed(k, q, w, g)'
  <2>1. Sound(k, q, w)'
    BY <1>5
  <2> QED BY <2>1 DEF Sound
<1>6. WindowsTrue'
  BY <1>5 DEF WindowsTrue
<1>7. WindowsLatest'
  <2> SUFFICES ASSUME NEW k \in Node, NEW q \in DOMAIN open'[k]
               PROVE  /\ Different(open'[k][q].window)
                      /\ \A g \in SentTo(q, k)' :
                           Given(g)' => Followed(k, q, open[k][q].window, g)'
    BY DEF WindowsLatest
  <2>1. PICK w : w = open'[k][q].window
    OBVIOUS
  <2>2. Different(w) /\ \A g \in SentTo(q, k)' : Given(g)' => Followed(k, q, w, g)'
    BY <1>5, <2>1
  <2> QED BY <2>1, <2>2
<1> QED BY <1>3, <1>4, <1>6, <1>7 DEF Remembering

LEMMA NoneEarly ==
  ASSUME IInv, NEW n \in Node, NEW f \in Messages, f.to = n, HandUp(n, f),
         Given(f) => Cardinality(heard[n][<<f.from, f.body>>]) >= MaxRecv
  PROVE  AgainOnlyIfOvertaken' /\ DOMAIN early' = Node
<1> DEFINE m == <<f.from, f.body>>
           c == Cardinality(heard[n][m])
           again == m \in Heard(n) /\ c < MaxRecv
<1>1. early' = [early EXCEPT ![n] = IF again THEN @ \cup {m} ELSE @]
  BY DEF HandUp
<1>2. ~again
  <2> SUFFICES ASSUME m \in Heard(n) PROVE ~(c < MaxRecv)
    OBVIOUS
  <2>1. GoodHeard(heard[n]) /\ MaxRecv \in Nat
    BY Constants DEF IInv, Typed
  <2>2. IsFiniteSet(heard[n][m])
    BY <2>1 DEF GoodHeard, Heard
  <2>3. c \in Nat
    BY <2>2, FS_CardinalityType
  <2>4. c >= MaxRecv
    BY DEF Given
  <2> HIDE DEF c
  <2> QED BY <2>1, <2>3, <2>4
<1> HIDE DEF again
<1>3. DOMAIN early = Node /\ \A k \in Node : early[k] = {}
  BY DEF IInv, Typed, AgainOnlyIfOvertaken
<1>4. DOMAIN early' = Node /\ \A k \in Node : early'[k] = {}
  BY <1>1, <1>2, <1>3
<1> QED BY <1>4 DEF AgainOnlyIfOvertaken

\* A handed up message leaves what was sent and confirmed as it is.
LEMMA HandingUp ==
  ASSUME IInv, NEW n \in Node, NEW f \in Messages, f.to = n, HandUp(n, f),
         Given(f) => Cardinality(heard[n][<<f.from, f.body>>]) >= MaxRecv,
         NumbersStay, Remembering', halted' \subseteq Node, OpenTyped',
         air' \subseteq Frame, air \subseteq air',
         Messages' = Messages,
         UNCHANGED <<clock, phase, pending, sent, unnumbered, confirmed>>
  PROVE  IInv'
<1>1. AgainOnlyIfOvertaken' /\ DOMAIN early' = Node
  BY NoneEarly
<1>2. /\ \A k \in Node : GoodHeard(heard'[k]) /\ Heard(k) \subseteq Heard(k)'
      /\ DOMAIN heard' = Node
  BY GivenStays
<1>3. Typed'
  BY <1>1, <1>2 DEF IInv, Typed, OpenTyped
<1>4. BodiesUnique' /\ NumbersUnique'
  <2>1. CountsGrow
    BY DEF IInv, Typed, CountsGrow
  <2> QED BY <2>1, NumbersKept
<1>5. AckMeansHeard'
  BY <1>2, ConfirmedKept
<1>6. EntriesSent'
  BY EntriesKept
<1> QED BY <1>1, <1>3, <1>4, <1>5, <1>6 DEF IInv

LEMMA ReceiveReliableIInv ==
  ASSUME IInv, NEW n \in Node, NEW f \in air, ReceiveReliable(n, f)
  PROVE  IInv'
<1>1. PICK p : p = f.from
  OBVIOUS
<1>2. PICK u : u = WithConnection(n, p, 1)
  OBVIOUS
<1>3. PICK w : w = u[p].window
  OBVIOUS
<1>4. /\ n \notin halted /\ p \in Node /\ f.type = "reliable" /\ f.to = n /\ p \in DOMAIN u
      /\ f \in Messages /\ f \in SentTo(p, n) /\ f.seq \in Number
      /\ UNCHANGED <<halted, clock, phase, pending, sent, unnumbered, confirmed>>
      /\ halted \subseteq Node /\ air \subseteq Frame
  BY <1>1, <1>2, FrameKinds
  DEF ReceiveReliable, Hears, Running, IInv, Typed, Messages, SentTo
<1>5. Opens(open[n], u, p, 1)
  BY <1>2, <1>4, Opened, Constants DEF IInv, Seq16
<1>6. Sound(n, p, w)
  <2>1. CASE p \in DOMAIN open[n]
    <3>1. w = open[n][p].window
      BY <1>3, <1>5, <2>1 DEF Opens
    <3> QED BY <2>1, <3>1, WindowsSound
  <2>2. CASE p \notin DOMAIN open[n]
    <3>1. w = <<>>
      BY <1>3, <1>4, <1>5, <2>2 DEF Opens, Connection
    <3> QED BY <1>4, <2>2, <3>1, NothingCame
  <2> QED BY <2>1, <2>2
<1>7. w \in Windows /\ GoodOpen(u) /\ u[p] \in [next : Seq16, window : Windows]
  BY <1>4, <1>5, <1>6 DEF Sound, Opens, GoodOpen
<1>8. CASE Copy(w, f.seq)
  <2>1. /\ open' = [open EXCEPT ![n] = u]
        /\ air' = air \cup {Ack(n, p, w)} /\ UNCHANGED <<heard, early>>
    BY <1>1, <1>2, <1>3, <1>8 DEF ReceiveReliable
  <2>2. NumbersStay /\ WindowsStay /\ OpenTyped'
    BY <1>2, <1>4, <1>7, <2>1, OneOpens, SameSelf
  <2>3. PICK a : a = Ack(n, p, w)
    OBVIOUS
  <2>4. /\ a \in Frame /\ a.type = "ack" /\ a.from = n /\ a.to = p
        /\ \A s \in a.seqs : \E i \in DOMAIN w : s = w[i]
    BY <1>4, <1>7, <2>3, AckFrame
  <2>5. \A s \in a.seqs : Reached(p, n, s)
    <3>1. \A i \in DOMAIN w : w[i] \in Number
      BY <1>7 DEF Windows
    <3> QED BY <1>6, <2>4, <3>1 DEF Sound, Copy
  <2>6. Messages' = Messages
    BY <2>1, <2>3, <2>4 DEF Messages
  <2>7. Typed'
    BY <1>4, <2>1, <2>2, <2>3, <2>4 DEF IInv, Typed, OpenTyped
  <2>8. BodiesUnique' /\ NumbersUnique' /\ Remembering' /\ AgainOnlyIfOvertaken'
    BY <1>4, <2>1, <2>2, <2>3, <2>4, <2>5, <2>6, QuietStep
  <2>9. AckMeansHeard'
    BY <1>4, <2>1, ConfirmedKept DEF Heard
  <2>10. EntriesSent'
    BY <1>4, <2>1, EntriesKept
  <2> QED BY <2>7, <2>8, <2>9, <2>10 DEF IInv
<1>9. CASE ~Copy(w, f.seq)
  <2>1. PICK r : r = Remembered(w, f.seq)
    OBVIOUS
  <2>2. PICK v : v = [u EXCEPT ![p].window = r]
    OBVIOUS
  <2>3. /\ open' = [open EXCEPT ![n] = v]
        /\ air' = air \cup {Ack(n, p, r)} /\ HandUp(n, f)
    BY <1>1, <1>2, <1>3, <1>9, <2>1, <2>2 DEF ReceiveReliable
  <2>4. r \in Windows
    BY <1>4, <1>7, <2>1, WindowGrows DEF IInv
  <2>5. /\ DOMAIN v = DOMAIN u /\ v[p].window = r /\ v[p].next = u[p].next
        /\ v[p] \in [next : Seq16, window : Windows]
        /\ \A q \in DOMAIN u \ {p} : v[q] = u[q]
    BY <1>4, <1>7, <2>2, <2>4
  <2>6. GoodOpen(v)
    BY <1>7, <2>5 DEF GoodOpen
  <2>7. NumbersStay /\ OpenTyped'
    <3>1. SameNumbers(u, v)
      BY <2>5 DEF SameNumbers
    <3> QED BY <1>2, <1>4, <2>3, <2>6, <3>1, OneOpens
  <2>8. PICK a : a = Ack(n, p, r)
    OBVIOUS
  <2>9. /\ a \in Frame /\ a.type = "ack" /\ a.from = n /\ a.to = p
        /\ \A s \in a.seqs : \E i \in DOMAIN r : s = r[i]
    BY <1>4, <2>4, <2>8, AckFrame
  <2>10. Messages' = Messages
    BY <2>3, <2>8, <2>9 DEF Messages
  <2>11. Sound(n, p, r)'
    BY <1>4, <1>6, <1>9, <2>1, <2>3, <2>10, WindowMoves
  <2>12. \A s \in a.seqs : Reached(p, n, s)'
    <3>1. \A i \in DOMAIN r : r[i] \in Number
      BY <2>4 DEF Windows
    <3>2. \A s \in Number : Copy(r, s) => Reached(p, n, s)'
      BY <2>11 DEF Sound
    <3> QED BY <2>9, <3>1, <3>2 DEF Copy
  <2>13. ASSUME NEW k \in Node, NEW q \in DOMAIN open'[k], NEW x, x = open'[k][q].window
         PROVE  Sound(k, q, x)'
    <3>1. open'[n] = v /\ (k # n => open'[k] = open[k])
      BY <2>3 DEF IInv, Typed
    <3>2. q \in Node
      BY <2>7 DEF GoodOpen, OpenTyped
    <3>3. CASE k = n /\ q = p
      BY <2>5, <2>11, <2>13, <3>1, <3>3
    <3>4. CASE ~(k = n /\ q = p)
      <4>1. q \in DOMAIN open[k] /\ x = open[k][q].window
        <5>1. CASE k # n
          BY <2>13, <3>1, <5>1
        <5>2. CASE k = n /\ q # p
          <6>1. q \in DOMAIN u /\ x = u[q].window
            BY <2>5, <2>13, <3>1, <5>2
          <6> QED BY <1>5, <5>2, <6>1 DEF Opens
        <5> QED BY <3>4, <5>1, <5>2
      <4>2. Sound(k, q, x)
        BY <4>1, WindowsSound
      <4> QED BY <1>1, <1>4, <2>3, <2>10, <3>2, <3>4, <4>2, OthersSound
    <3> QED BY <3>3, <3>4
  <2>14. Remembering'
    <3>1. p \in DOMAIN open'[n]
      BY <1>4, <2>3, <2>5 DEF IInv, Typed
    <3>2. \A k \in Node : DOMAIN open[k] \subseteq DOMAIN open'[k]
      BY <2>7 DEF NumbersStay
    <3>3. \A b \in air' : b.type = "ack" =>
            b \in air \/ \A s \in b.seqs : Reached(b.to, b.from, s)'
      BY <2>3, <2>8, <2>9, <2>12
    <3> QED BY <1>1, <1>4, <2>3, <2>10, <2>13, <3>1, <3>2, <3>3, WindowsMoved
  <2>15. Given(f) => Cardinality(heard[n][<<f.from, f.body>>]) >= MaxRecv
    BY <1>4, <1>6, <1>9, NotEarly
  <2>16. air \subseteq air' /\ air' \subseteq Frame
    BY <1>4, <2>3, <2>8, <2>9
  <2> QED BY <1>4, <2>3, <2>7, <2>10, <2>14, <2>15, <2>16, HandingUp
<1> QED BY <1>8, <1>9

LEMMA ReceiveUnconnectedIInv ==
  ASSUME IInv, NEW n \in Node, NEW f \in air, ReceiveUnconnected(n, f)
  PROVE  IInv'
<1>1. PICK p : p = f.from
  OBVIOUS
<1>2. /\ n \notin halted /\ p \in Node /\ f.to = n /\ f \in Messages
      /\ p \notin DOMAIN WithConnection(n, p, 1) /\ HandUp(n, f)
      /\ halted' = halted \cup {n} /\ air \subseteq Frame /\ halted \subseteq Node
      /\ UNCHANGED <<clock, phase, open, pending, air, sent, unnumbered, confirmed>>
  BY <1>1, FrameKinds DEF ReceiveUnconnected, Hears, Running, IInv, Typed, Messages
<1>3. p \notin DOMAIN open[n]
  BY <1>2, Opened, Constants DEF IInv, Seq16, Opens
<1>4. ~Given(f)
  BY <1>1, <1>2, <1>3, NothingCame DEF Given
<1>5. Messages' = Messages
  BY <1>2 DEF Messages
<1>6. ASSUME NEW k \in Node, NEW q \in DOMAIN open'[k], NEW x, x = open'[k][q].window
      PROVE  Sound(k, q, x)'
  <2>1. q \in DOMAIN open[k] /\ x = open[k][q].window /\ q \in Node
    BY <1>2, <1>6 DEF IInv, Typed, GoodOpen
  <2>2. k # n \/ q # p
    BY <1>3, <2>1
  <2>3. Sound(k, q, x)
    BY <2>1, WindowsSound
  <2> QED BY <1>1, <1>2, <1>5, <2>1, <2>2, <2>3, OthersSound
<1>7. Remembering'
  <2>1. \A k \in Node : DOMAIN open[k] \subseteq DOMAIN open'[k]
    BY <1>2
  <2> QED BY <1>2, <1>5, <1>6, <2>1, WindowsMoved
<1>8. NumbersStay /\ OpenTyped'
  BY <1>2, NoneOpens DEF IInv, Typed, OpenTyped
<1>9. halted' \subseteq Node
  BY <1>2
<1> QED BY <1>2, <1>4, <1>5, <1>7, <1>8, <1>9, HandingUp

-----------------------------------------------------------------------------
(***************************************************************************)
(* send(): the connections after it, and that its number is a new one.     *)
(***************************************************************************)
Room(n) == Cardinality(pending[n]) < MaxPending

OpenAfter(n, d) == IF Room(n) THEN NumberTaken(n, d) ELSE open[n]

Takes(o, v, d) ==
  /\ GoodOpen(v) /\ DOMAIN o \subseteq DOMAIN v
  /\ Cardinality(DOMAIN o) \in Nat /\ Cardinality(DOMAIN v) \in Nat
  /\ Cardinality(DOMAIN o) <= Cardinality(DOMAIN v)
  /\ \A q \in DOMAIN o : v[q].window = o[q].window /\ (q # d => v[q].next = o[q].next)
  /\ \A q \in DOMAIN v \ DOMAIN o : /\ q = d /\ v[q] = Connection(2, <<>>)
                                    /\ Cardinality(DOMAIN o) < MaxConnections

LEMMA NumberTakes ==
  ASSUME IInv, NEW n \in Node, NEW d \in Node, NEW v, v = OpenAfter(n, d)
  PROVE  /\ Takes(open[n], v, d)
         /\ Room(n) /\ d \in DOMAIN open[n] =>
              d \in DOMAIN v /\ v[d].next = (open[n][d].next + 1) % SeqMod
         /\ Room(n) /\ d \notin DOMAIN v => Cardinality(DOMAIN v) >= MaxConnections
         /\ ~Room(n) => v = open[n]
<1>1. PICK o : o = open[n]
  OBVIOUS
<1>2. GoodOpen(o) /\ Cardinality(DOMAIN o) \in Nat /\ SeqMod \in Nat /\ SeqMod > 2
  BY <1>1, FS_CardinalityType, Constants DEF IInv, Typed, GoodOpen
<1>3. CASE ~Room(n)
  <2>1. v = o
    BY <1>1, <1>3 DEF OpenAfter
  <2> QED BY <1>1, <1>2, <1>3, <2>1 DEF Takes
<1>4. CASE Room(n) /\ d \in DOMAIN o
  <2>1. v = [o EXCEPT ![d].next = (@ + 1) % SeqMod]
    BY <1>1, <1>4 DEF OpenAfter, NumberTaken
  <2>2. o[d] \in [next : Seq16, window : Windows] /\ (o[d].next + 1) % SeqMod \in Seq16
    BY <1>2, <1>4 DEF GoodOpen, Seq16
  <2>3. /\ DOMAIN v = DOMAIN o /\ v[d] = [o[d] EXCEPT !.next = (@ + 1) % SeqMod]
        /\ \A q \in DOMAIN o \ {d} : v[q] = o[q]
    BY <1>4, <2>1
  <2>4. /\ v[d] \in [next : Seq16, window : Windows] /\ v[d].window = o[d].window
        /\ v[d].next = (o[d].next + 1) % SeqMod
    BY <2>2, <2>3
  <2>5. GoodOpen(v)
    BY <1>2, <2>3, <2>4 DEF GoodOpen
  <2> QED BY <1>1, <1>2, <1>4, <2>3, <2>4, <2>5 DEF Takes
<1>5. CASE Room(n) /\ d \notin DOMAIN o
  <2>1. v = WithConnection(n, d, 2)
    BY <1>1, <1>5 DEF OpenAfter, NumberTaken
  <2>2. Opens(o, v, d, 2)
    BY <1>1, <1>2, <2>1, Opened DEF IInv, Seq16
  <2>3. Cardinality(DOMAIN v) \in Nat
    BY <2>2, FS_CardinalityType DEF Opens, GoodOpen
  <2> QED BY <1>1, <1>2, <1>5, <2>2, <2>3 DEF Takes, Opens
<1> QED BY <1>1, <1>3, <1>4, <1>5

\* Pairs that no message was sent along keep their numbers.
LEMMA OthersNumbered ==
  ASSUME IInv, CountsGrow, NEW n \in Node, NEW d \in Node, NEW v, Takes(open[n], v, d),
         open' = [open EXCEPT ![n] = v],
         NEW a \in Node, NEW b \in Node, SentTo(a, b)' = SentTo(a, b), a # n \/ b # d
  PROVE  Numbered(a, b)'
<1>1. /\ open'[n] = v /\ (a # n => open'[a] = open[a])
  BY DEF IInv, Typed
<1>2. /\ b \in DOMAIN open'[a] <=> b \in DOMAIN open[a]
      /\ b \in DOMAIN open[a] => open'[a][b].next = open[a][b].next
  BY <1>1 DEF Takes
<1>3. /\ Cardinality(DOMAIN open[a]) \in Nat /\ Cardinality(DOMAIN open'[a]) \in Nat
      /\ Cardinality(DOMAIN open[a]) <= Cardinality(DOMAIN open'[a])
  <2>1. Cardinality(DOMAIN open[a]) \in Nat
    BY FS_CardinalityType DEF IInv, Typed, GoodOpen
  <2> QED BY <1>1, <2>1 DEF Takes
<1>4. /\ sent[a] \in Nat /\ sent'[a] \in Nat /\ sent[a] <= sent'[a]
      /\ unnumbered[a] \subseteq unnumbered'[a]
      /\ MaxSends \in Nat /\ SeqMod \in Nat /\ MaxConnections \in Nat
  BY Constants DEF CountsGrow, IInv
<1>5. Numbered(a, b)
  BY DEF IInv, NumbersUnique
<1>6. CASE b \in DOMAIN open[a]
  <2>1. open[a][b].next \in Nat
    BY <1>6 DEF IInv, Typed, GoodOpen, Seq16
  <2>2. Counted(a, b, open[a][b].next) /\ Apart(a, b)
    BY <1>5, <1>6 DEF Numbered
  <2>3. Counted(a, b, open[a][b].next)'
    BY <1>2, <1>4, <1>6, <2>1, <2>2 DEF Counted
  <2>4. Apart(a, b)'
    BY <2>2 DEF Apart
  <2> QED BY <1>2, <1>6, <2>3, <2>4 DEF Numbered
<1>7. CASE b \notin DOMAIN open[a]
  <2>1. Unconnected(a, b)
    BY <1>5, <1>7 DEF Numbered
  <2>2. Unconnected(a, b)'
    BY <1>3, <1>4, <2>1 DEF Unconnected
  <2> QED BY <1>2, <1>7, <2>2 DEF Numbered
<1> QED BY <1>6, <1>7

\* The pair that a message was sent along, if any: its number is a new one.
LEMMA SentNumbered ==
  ASSUME IInv, NEW n \in Node, NEW d \in Node, NEW v, v = OpenAfter(n, d), Room(n),
         open' = [open EXCEPT ![n] = v], sent'[n] = sent[n] + 1, sent[n] < MaxSends,
         NEW g, g.seq = NextSeq(n, d), g.body = sent[n] + 1,
         SentTo(n, d)' = IF g.seq # 0 THEN SentTo(n, d) \cup {g} ELSE SentTo(n, d),
         unnumbered[n] \subseteq unnumbered'[n],
         d \notin DOMAIN v => g.body \in unnumbered'[n]
  PROVE  Numbered(n, d)'
<1>1. open'[n] = v
  BY DEF IInv, Typed
<1>2. /\ sent[n] \in Nat /\ MaxSends \in Nat /\ SeqMod \in Nat /\ SeqMod > 2
      /\ MaxSends <= SeqMod /\ MaxConnections \in Nat
  BY Constants DEF IInv, Typed
<1>3. /\ Takes(open[n], v, d)
      /\ d \in DOMAIN open[n] => d \in DOMAIN v /\ v[d].next = (open[n][d].next + 1) % SeqMod
      /\ d \notin DOMAIN v => Cardinality(DOMAIN v) >= MaxConnections
  BY NumberTakes
<1>4. \A f \in SentTo(n, d) : f.seq \in Nat
  BY FrameKinds, Constants DEF SentTo, Messages, IInv, Typed
<1>5. Numbered(n, d)
  BY DEF IInv, NumbersUnique
<1>6. CASE d \in DOMAIN open[n]
  <2>1. PICK s : s = open[n][d].next
    OBVIOUS
  <2>2. /\ s \in 0..SeqMod - 1 /\ g.seq = s /\ v[d].next = (s + 1) % SeqMod
        /\ Counted(n, d, s) /\ Apart(n, d)
    BY <1>3, <1>5, <1>6, <2>1 DEF NextSeq, Numbered, IInv, Typed, GoodOpen, Seq16
  <2>3. CASE s = 0
    <3>1. sent[n] + 1 >= MaxSends
      BY <1>2, <2>2, <2>3 DEF Counted
    <3>2. Counted(n, d, open[n][d].next)'
      BY <1>2, <3>1 DEF Counted
    <3>3. Apart(n, d)'
      BY <2>2, <2>3 DEF Apart
    <3> QED BY <1>1, <1>3, <1>6, <3>2, <3>3 DEF Numbered
  <2>4. CASE s # 0
    <3>1. s - 1 <= sent[n] /\ \A f \in SentTo(n, d) : f.seq < s
      BY <1>2, <2>2, <2>4 DEF Counted
    <3>2. \A f \in SentTo(n, d)' : f \in SentTo(n, d) \/ f = g
      OBVIOUS
    <3>3. \A f \in SentTo(n, d)' : f.seq < s + 1
      BY <1>4, <2>2, <3>1, <3>2
    <3>4. PICK t : t = (s + 1) % SeqMod
      OBVIOUS
    <3>5. t = s + 1 \/ (t = 0 /\ s + 1 = SeqMod)
      <4>1. CASE s + 1 < SeqMod
        BY <1>2, <2>2, <3>4, <4>1
      <4>2. CASE s + 1 = SeqMod
        BY <1>2, <2>2, <3>4, <4>2
      <4> QED BY <1>2, <2>2, <4>1, <4>2
    <3>6. Counted(n, d, t)'
      BY <1>2, <2>2, <3>1, <3>3, <3>5 DEF Counted
    <3>7. Apart(n, d)'
      <4> SUFFICES ASSUME NEW f \in SentTo(n, d)', NEW h \in SentTo(n, d)', f.seq = h.seq
                   PROVE  f = h
        BY DEF Apart
      <4>1. CASE f \in SentTo(n, d) /\ h \in SentTo(n, d)
        BY <2>2, <4>1 DEF Apart
      <4>2. CASE f = g \/ h = g
        <5>1. \A x \in SentTo(n, d) : x.seq # g.seq
          BY <1>4, <2>2, <3>1
        <5> QED BY <3>2, <4>2, <5>1
      <4> QED BY <3>2, <4>1, <4>2
    <3>8. d \in DOMAIN open'[n] /\ open'[n][d].next = t
      BY <1>1, <1>3, <1>6, <2>2, <3>4
    <3> QED BY <3>6, <3>7, <3>8 DEF Numbered
  <2> QED BY <2>3, <2>4
<1>7. CASE d \notin DOMAIN open[n]
  <2>1. g.seq = 1 /\ SentTo(n, d)' = SentTo(n, d) \cup {g} /\ Unconnected(n, d)
    BY <1>5, <1>7 DEF NextSeq, Numbered
  <2>2. CASE d \in DOMAIN v
    <3>1. v[d].next = 2 /\ Cardinality(DOMAIN open[n]) < MaxConnections
          /\ Cardinality(DOMAIN open[n]) \in Nat
      BY <1>3, <1>7, <2>2 DEF Takes, Connection
    <3>2. SentTo(n, d) = {}
      BY <1>2, <2>1, <3>1 DEF Unconnected
    <3>3. SentTo(n, d)' = {g}
      BY <2>1, <3>2
    <3>4. Counted(n, d, 2)'
      BY <1>2, <2>1, <3>3 DEF Counted
    <3>5. Apart(n, d)'
      BY <3>3 DEF Apart
    <3> QED BY <1>1, <2>2, <3>1, <3>4, <3>5 DEF Numbered
  <2>3. CASE d \notin DOMAIN v
    <3>1. Unconnected(n, d)'
      BY <1>1, <1>3, <2>1, <2>3 DEF Unconnected
    <3> QED BY <1>1, <2>3, <3>1 DEF Numbered
  <2> QED BY <2>2, <2>3
<1> QED BY <1>6, <1>7

LEMMA SendIInv ==
  ASSUME IInv, NEW n \in Node, NEW d \in Node, Send(n, d)
  PROVE  IInv'
<1> DEFINE mm == [to |-> d, seq |-> NextSeq(n, d), time |-> clock[n], retries |-> 0,
                  body |-> sent[n] + 1]
<1>1. PICK v : v = OpenAfter(n, d)
  OBVIOUS
<1>2. PICK m : m = mm
  OBVIOUS
<1>3. PICK g : g = Reliable(n, m)
  OBVIOUS
<1>4. /\ n \notin halted /\ sent[n] < MaxSends /\ sent[n] \in Nat /\ MaxSends \in Nat
      /\ sent' = [sent EXCEPT ![n] = @ + 1]
      /\ open' = [open EXCEPT ![n] = v]
      /\ IF Room(n) /\ m.seq # 0
         THEN /\ pending' = [pending EXCEPT ![n] = @ \cup {m}]
              /\ air' = air \cup {g}
              /\ unnumbered' = [unnumbered EXCEPT ![n] =
                                  IF d \in DOMAIN open'[n] THEN @ ELSE @ \cup {m.body}]
         ELSE UNCHANGED <<pending, air, unnumbered>>
      /\ UNCHANGED <<halted, clock, phase, confirmed, heard, early>>
  <2>1. sent[n] \in Nat /\ MaxSends \in Nat
    BY Constants DEF IInv, Typed
  <2> QED BY <1>1, <1>2, <1>3, <2>1 DEF Send, Running, Room, OpenAfter
<1>5. /\ Takes(open[n], v, d)
      /\ Room(n) /\ d \in DOMAIN open[n] => d \in DOMAIN v
      /\ ~Room(n) => v = open[n]
  BY <1>1, NumberTakes
<1>6. open'[n] = v /\ DOMAIN open' = Node /\ \A k \in Node \ {n} : open'[k] = open[k]
  BY <1>4 DEF IInv, Typed
<1>7. /\ sent' \in [Node -> 0..MaxSends] /\ sent'[n] = sent[n] + 1
      /\ \A k \in Node \ {n} : sent'[k] = sent[k]
  BY <1>4 DEF IInv, Typed
<1>8. /\ m.to = d /\ m.seq = NextSeq(n, d) /\ m.body = sent[n] + 1
      /\ m.body \in 1..MaxSends /\ m.body > sent[n] /\ m.body \in Nat
      /\ m.seq # 0 => m \in Entry
  <2>1. NextSeq(n, d) \in Seq16 /\ clock[n] \in 0..TimeMod - 1 /\ 0 \in 0..MaxRetries
    BY Constants DEF NextSeq, IInv, Typed, GoodOpen, Seq16
  <2>2. sent[n] + 1 \in 1..MaxSends
    BY <1>4
  <2> QED BY <1>2, <1>4, <2>1, <2>2 DEF Entry
<1>9. /\ g.type = "reliable" /\ g.from = n /\ g.to = d /\ g.seq = m.seq /\ g.body = m.body
      /\ m.seq # 0 => g \in Frame
  <2>1. g.type = "reliable" /\ g.from = n /\ g.to = d /\ g.seq = m.seq /\ g.body = m.body
    BY <1>3, <1>8 DEF Reliable
  <2>2. ASSUME m.seq # 0 PROVE g \in Frame
    BY <1>3, <1>8, <2>2 DEF Reliable, Frame, Entry
  <2> QED BY <2>1, <2>2
<1>10. /\ air' \subseteq Frame /\ air \subseteq air'
       /\ Messages' = IF Room(n) /\ g.seq # 0 THEN Messages \cup {g} ELSE Messages
       /\ \A f \in air' : f.type = "ack" => f \in air
  <2>1. CASE Room(n) /\ m.seq # 0
    BY <1>4, <1>9, <2>1 DEF Messages, IInv, Typed
  <2>2. CASE ~(Room(n) /\ m.seq # 0)
    BY <1>4, <1>9, <2>2 DEF Messages, IInv, Typed
  <2> QED BY <2>1, <2>2
<1>11. /\ unnumbered' \in [Node -> SUBSET (1..MaxSends)]
       /\ \A k \in Node : unnumbered[k] \subseteq unnumbered'[k]
       /\ Room(n) /\ m.seq # 0 /\ d \notin DOMAIN v => g.body \in unnumbered'[n]
  <2>1. unnumbered \in [Node -> SUBSET (1..MaxSends)]
    BY DEF IInv, Typed
  <2>2. CASE Room(n) /\ m.seq # 0 /\ d \notin DOMAIN v
    <3>1. unnumbered' = [unnumbered EXCEPT ![n] = @ \cup {m.body}]
      BY <1>4, <1>6, <2>2
    <3> QED BY <1>8, <1>9, <2>1, <3>1
  <2>3. CASE ~(Room(n) /\ m.seq # 0 /\ d \notin DOMAIN v)
    <3>1. unnumbered' = unnumbered
      BY <1>4, <1>6, <2>1, <2>3
    <3> QED BY <2>1, <2>3, <3>1
  <2> QED BY <2>2, <2>3
<1>12. /\ pending' \in [Node -> SUBSET Entry]
       /\ \A k \in Node : /\ IsFiniteSet(pending'[k])
                          /\ Cardinality(pending'[k]) <= MaxPending
                          /\ \A e \in pending'[k] : \/ e \in pending[k]
                                                    \/ k = n /\ e = m /\ g \in air'
  <2>1. CASE Room(n) /\ m.seq # 0
    <3>1. /\ pending' = [pending EXCEPT ![n] = @ \cup {m}] /\ m \in Entry /\ g \in air'
      BY <1>4, <1>8, <2>1
    <3>2. /\ IsFiniteSet(pending[n]) /\ Cardinality(pending[n]) \in Nat /\ MaxPending \in Nat
          /\ Cardinality(pending[n]) < MaxPending
      BY <2>1, FS_CardinalityType, Constants DEF IInv, Typed, Room
    <3>3. /\ IsFiniteSet(pending[n] \cup {m})
          /\ Cardinality(pending[n] \cup {m}) <= MaxPending
      <4>1. /\ IsFiniteSet(pending[n] \cup {m})
            /\ \/ Cardinality(pending[n] \cup {m}) = Cardinality(pending[n])
               \/ Cardinality(pending[n] \cup {m}) = Cardinality(pending[n]) + 1
        BY <3>2, FS_AddElement
      <4> QED BY <3>2, <4>1
    <3>4. pending'[n] = pending[n] \cup {m} /\ \A k \in Node \ {n} : pending'[k] = pending[k]
      BY <3>1 DEF IInv, Typed
    <3> QED BY <3>1, <3>3, <3>4 DEF IInv, Typed
  <2>2. CASE ~(Room(n) /\ m.seq # 0)
    BY <1>4, <2>2 DEF IInv, Typed
  <2> QED BY <2>1, <2>2
<1>13. Typed'
  <2>1. \A k \in Node : GoodOpen(open'[k])
    BY <1>5, <1>6 DEF Takes, IInv, Typed
  <2> QED BY <1>4, <1>6, <1>7, <1>10, <1>11, <1>12, <2>1 DEF IInv, Typed
<1>14. CountsGrow
  BY <1>4, <1>7, <1>11 DEF CountsGrow, IInv, Typed
<1>15. BodiesUnique'
  <2>1. \A f \in Messages : f.from \in Node /\ f.body \in Nat /\ f.body <= sent[f.from]
    BY FrameKinds DEF Messages, IInv, Typed, BodiesUnique
  <2>2. ASSUME NEW f \in Messages'
        PROVE  f \in Messages \/ f = g
    BY <1>10
  <2>3. \A f \in Messages : f.from = n => f.body # g.body
    BY <1>4, <1>8, <1>9, <2>1
  <2>4. ASSUME NEW f \in Messages'
        PROVE  f.body <= sent'[f.from]
    <3>1. CASE f \in Messages
      BY <2>1, <3>1, <1>14 DEF CountsGrow
    <3>2. CASE f = g
      BY <1>4, <1>7, <1>8, <1>9, <3>2
    <3> QED BY <2>2, <3>1, <3>2
  <2>5. ASSUME NEW f \in Messages', NEW h \in Messages', h.from = f.from, h.body = f.body
        PROVE  h = f
    <3>1. CASE f \in Messages /\ h \in Messages
      BY <2>5, <3>1 DEF IInv, BodiesUnique
    <3>2. CASE f = g \/ h = g
      BY <1>9, <2>2, <2>3, <2>5, <3>2
    <3> QED BY <2>2, <3>1, <3>2
  <2> QED BY <2>4, <2>5 DEF BodiesUnique
<1>16. NumbersUnique'
  <2>1. ASSUME NEW a \in Node, NEW b \in Node, a # n \/ b # d
        PROVE  Numbered(a, b)'
    <3>1. SentTo(a, b)' = SentTo(a, b)
      BY <1>9, <1>10, <2>1 DEF SentTo
    <3> QED BY <1>4, <1>5, <1>14, <2>1, <3>1, OthersNumbered
  <2>2. CASE Room(n)
    <3>1. SentTo(n, d)' = IF g.seq # 0 THEN SentTo(n, d) \cup {g} ELSE SentTo(n, d)
      BY <1>9, <1>10, <2>2 DEF SentTo
    <3>2. d \notin DOMAIN v => g.body \in unnumbered'[n]
      <4>1. d \notin DOMAIN v => m.seq = 1
        BY <1>5, <1>8, <2>2 DEF NextSeq
      <4> QED BY <1>11, <2>2, <4>1
    <3>3. g.seq = NextSeq(n, d) /\ g.body = sent[n] + 1
      BY <1>8, <1>9
    <3>4. unnumbered[n] \subseteq unnumbered'[n]
      BY <1>11
    <3>5. Numbered(n, d)'
      BY <1>1, <1>4, <1>7, <2>2, <3>1, <3>2, <3>3, <3>4, SentNumbered
    <3> QED BY <2>1, <3>5 DEF NumbersUnique
  <2>3. CASE ~Room(n)
    <3>1. \A k \in Node : open'[k] = open[k]
      BY <1>5, <1>6, <2>3 DEF IInv, Typed
    <3>2. Messages' = Messages
      BY <1>10, <2>3
    <3> QED BY <1>14, <3>1, <3>2, NoneOpens, NumbersKept
  <2> QED BY <2>2, <2>3
<1>17. Remembering'
  <2>1. WindowsStay
    <3>1. \A q \in DOMAIN v \ DOMAIN open[n] : v[q].window = <<>>
      BY <1>5 DEF Takes, Connection
    <3> QED BY <1>4, <1>5, <1>6, <3>1 DEF WindowsStay, Takes
  <2>2. Messages \subseteq Messages'
    BY <1>10
  <2>3. \A f \in Messages' \ Messages : /\ f.from \in Node /\ f.to \in Node
                                        /\ f.body \in Nat /\ f.body > sent[f.from]
    BY <1>8, <1>9, <1>10
  <2>4. UNCHANGED heard /\ halted \subseteq halted'
    BY <1>4
  <2> QED BY <1>10, <2>1, <2>2, <2>3, <2>4, WindowsKept
<1>18. AckMeansHeard'
  BY <1>4, <1>11, ConfirmedKept DEF Heard
<1>19. EntriesSent'
  <2> SUFFICES ASSUME NEW k \in Node, NEW e \in pending'[k]
               PROVE  Reliable(k, e) \in air'
    BY DEF EntriesSent, Reliable
  <2>1. CASE e \in pending[k]
    BY <1>10, <2>1 DEF IInv, EntriesSent
  <2>2. CASE k = n /\ e = m /\ g \in air'
    BY <1>3, <2>2
  <2> QED BY <1>12, <2>1, <2>2
<1>20. AgainOnlyIfOvertaken'
  BY <1>4 DEF IInv, AgainOnlyIfOvertaken
<1> QED BY <1>13, <1>15, <1>16, <1>17, <1>18, <1>19, <1>20 DEF IInv

-----------------------------------------------------------------------------
LEMMA InitIInv ==
  ASSUME ConnectionAssumption, Init
  PROVE  IInv
<1>1. DOMAIN <<>> = {} /\ Cardinality({}) = 0 /\ IsFiniteSet({})
  BY FS_EmptySet
<1>2. GoodOpen(<<>>) /\ GoodHeard(<<>>)
  BY <1>1, Constants DEF GoodOpen, GoodHeard
<1>3. Typed
  BY <1>1, <1>2, Constants DEF Init, Typed
<1>4. Messages = {} /\ \A n, d : SentTo(n, d) = {}
  BY DEF Init, Messages, SentTo
<1>5. BodiesUnique
  BY <1>4 DEF BodiesUnique
<1>6. NumbersUnique
  BY <1>1, <1>4 DEF Init, NumbersUnique, Numbered, Unconnected
<1>7. EntriesSent
  BY DEF Init, EntriesSent
<1>8. Remembering
  BY <1>1 DEF Init, Remembering, AcksTrue, WindowsTrue, HeardSent, WindowsLatest, Heard
<1>9. AckMeansHeard /\ AgainOnlyIfOvertaken
  BY DEF Init, AckMeansHeard, AgainOnlyIfOvertaken
<1> QED BY <1>3, <1>5, <1>6, <1>7, <1>8, <1>9 DEF IInv

LEMMA NextIInv ==
  ASSUME IInv, [Next]_vars
  PROVE  IInv'
<1> USE DEF Sender
<1>1. Flow \subseteq Node \X Node /\ Broadcasting \subseteq Node
  BY DEF IInv, ConnectionAssumption
<1>2. CASE \E n \in Node : \E f \in air : ReceiveBroadcast(n, f)
  BY <1>2, ReceiveBroadcastIInv
<1>3. CASE \E n \in Node : \E f \in air : ReceiveAck(n, f)
  BY <1>3, ReceiveAckIInv
<1>4. CASE \E n \in Node : \E f \in air : ReceiveReliable(n, f)
  BY <1>4, ReceiveReliableIInv
<1>5. CASE \E n \in Node : \E f \in air : ReceiveUnconnected(n, f)
  BY <1>5, ReceiveUnconnectedIInv
<1>6. CASE \E n \in Sender : TimePasses(n)
  BY <1>1, <1>6, TimePassesIInv
<1>7. CASE \E n \in Sender : Daemon(n)
  BY <1>1, <1>7, DaemonIInv
<1>8. CASE \E n \in Broadcasting : SendBroadcast(n)
  BY <1>1, <1>8, SendBroadcastIInv
<1>9. CASE \E e \in Flow : Send(e[1], e[2])
  <2>1. PICK e \in Flow : Send(e[1], e[2])
    BY <1>9
  <2>2. e[1] \in Node /\ e[2] \in Node
    BY <1>1
  <2> QED BY <2>1, <2>2, SendIInv
<1>10. CASE UNCHANGED vars
  <2>1. Messages' = Messages
    BY <1>10 DEF vars, Messages
  <2>2. BodiesUnique' /\ NumbersUnique' /\ Remembering' /\ AgainOnlyIfOvertaken'
    BY <1>10, <2>1, NoneOpens, QuietStep DEF vars
  <2>3. Typed' /\ AckMeansHeard'
    BY <1>10 DEF vars, IInv, Typed, AckMeansHeard, Heard
  <2>4. EntriesSent'
    BY <1>10, EntriesKept DEF vars
  <2> QED BY <2>2, <2>3, <2>4 DEF IInv
<1> QED
  BY <1>2, <1>3, <1>4, <1>5, <1>6, <1>7, <1>8, <1>9, <1>10 DEF Next

(***************************************************************************)
(* The windows as TypeOK states them.                                      *)
(***************************************************************************)
LEMMA IInvTypeOK == IInv => TypeOK
<1> SUFFICES ASSUME IInv PROVE TypeOK
  OBVIOUS
<1>1. ASSUME NEW w \in Windows
      PROVE  w \in Window
  <2>1. w \in Seq(Number) /\ Len(w) \in 0..MaxRecv
    BY Constants DEF IInv, Windows
  <2>2. w \in [1..Len(w) -> Number]
    BY <2>1
  <2> QED BY <2>1, <2>2 DEF Window, Number
<1>2. ASSUME NEW n \in Node
      PROVE  /\ DOMAIN open[n] \subseteq Node /\ Cardinality(DOMAIN open[n]) <= MaxConnections
             /\ \A p \in DOMAIN open[n] : /\ open[n][p].next \in Seq16
                                          /\ open[n][p].window \in Window
  <2>1. GoodOpen(open[n])
    BY DEF IInv, Typed
  <2> QED BY <1>1, <2>1 DEF GoodOpen
<1>3. \A n \in Node : /\ heard[n] \in [Heard(n) -> SUBSET Heard(n)]
                      /\ Heard(n) \subseteq Message
  BY DEF IInv, Typed, GoodHeard, Heard
<1>4. \A n \in Node : early[n] \subseteq Heard(n)
  BY DEF IInv, AgainOnlyIfOvertaken
<1> QED BY <1>2, <1>3, <1>4 DEF IInv, Typed, TypeOK

(***************************************************************************)
(* For every network, every set of senders and every size of the buffers   *)
(* and of the window, the members of the class stay within their types,    *)
(* vectors and map within their sizes, and no message has the number 0     *)
(* (reliableradio.h:67-75, 652-670).                                       *)
(***************************************************************************)
THEOREM TypeCorrect == ConnectionAssumption /\ Spec => []TypeOK
<1>1. ConnectionAssumption /\ Init => IInv
  BY InitIInv
<1>2. IInv /\ [Next]_vars => IInv'
  BY NextIInv
<1>3. IInv => TypeOK
  BY IInvTypeOK
<1> QED BY <1>1, <1>2, <1>3, PTL DEF Spec

(***************************************************************************)
(* A message that an acknowledgement takes out of pending_messages_ was    *)
(* given to the receivers of its destination (reliableradio.h:442-541,     *)
(* 584-596), although it is the answer to another message and names the    *)
(* numbers of several; the exception are messages sent while the map had   *)
(* no room for their destination.                                          *)
(***************************************************************************)
THEOREM AcknowledgedIsHeard == ConnectionAssumption /\ Spec => []AckMeansHeard
<1>1. ConnectionAssumption /\ Init => IInv
  BY InitIInv
<1>2. IInv /\ [Next]_vars => IInv'
  BY NextIInv
<1>3. IInv => AckMeansHeard
  BY DEF IInv
<1> QED BY <1>1, <1>2, <1>3, PTL DEF Spec

(***************************************************************************)
(* A message is given again only when MAX_RECV others of its sender have   *)
(* come since it was given last, however often and late its frames come    *)
(* (was_received(), reliableradio.h:629-650).                              *)
(***************************************************************************)
THEOREM AgainIfOvertaken == ConnectionAssumption /\ Spec => []AgainOnlyIfOvertaken
<1>1. ConnectionAssumption /\ Init => IInv
  BY InitIInv
<1>2. IInv /\ [Next]_vars => IInv'
  BY NextIInv
<1>3. IInv => AgainOnlyIfOvertaken
  BY DEF IInv
<1> QED BY <1>1, <1>2, <1>3, PTL DEF Spec
=============================================================================
