--------------------------- MODULE ConnectionRadio ---------------------------
(***************************************************************************)
(* The connection-based reliable radio of wiselib.testing/radio/reliable/  *)
(* reliableradio.h, a class of the same name as the one of ReliableRadio.  *)
(* A connection per peer numbers the messages to it and keeps a window of  *)
(* the numbers that came from it; each acknowledgement carries the whole   *)
(* window.  Connections are never closed, and their number is limited.     *)
(*                                                                         *)
(* A handler runs to completion, so each is a step.  `air' holds every     *)
(* frame ever sent: any may be taken at any time, any number of times or   *)
(* never, so that sending a frame again leaves it as it is.                *)
(***************************************************************************)
EXTENDS Integers, Sequences, FiniteSets

CONSTANTS Node,
          Flow,            \* pairs <<s, d>>: the application of s sends to d
          Broadcasting,    \* nodes whose application sends broadcasts
          MaxPending,      \* MAX_PENDING
          MaxConnections,  \* MAX_CONNECTIONS
          MaxRecv,         \* MAX_RECV
          MaxRetries,      \* max_retries_
          SeqMod,          \* 2^16: sequence_numbers_ is a uint16_t
          TimeMod,         \* 2^16: current_time_ is a uint16_t
          DaemonPeriod,    \* sleep_time_ / time_slice_
          MaxSends         \* bound: messages a node sends

ConnectionAssumption ==
  /\ Flow \subseteq {e \in Node \X Node : e[1] # e[2]}
  /\ Broadcasting \subseteq Node
  /\ {MaxPending, MaxConnections, MaxRecv, DaemonPeriod} \subseteq Nat \ {0}
  /\ {MaxRetries, MaxSends} \subseteq Nat
  /\ {SeqMod, TimeMod} \subseteq Nat \ 0..2
  /\ MaxSends <= SeqMod       \* bound: no number is used twice

VARIABLES halted,      \* nodes stopped by the assertion of the full map
          clock,       \* current_time_
          phase,       \* time units since the daemon ran
          open,        \* open_connections: a function on the peers it knows
          pending,     \* pending_messages_
          air,         \* every frame sent so far
          sent,        \* messages the application has handed over, numbered
          unnumbered,  \* those sent without a connection, all with number 1
          confirmed,   \* those taken out of pending_messages_ by an acknowledgement
          heard,       \* messages <<source, number>> given to the receivers of a node,
                       \* with the others of their source given since
          early        \* those given again before MaxRecv others of their source

vars == <<halted, clock, phase, open, pending, air, sent, unnumbered,
          confirmed, heard, early>>

Running(n) == n \notin halted

Connection(next, window) == [next |-> next, window |-> window]

Reliable(n, e) == [type |-> "reliable", from |-> n, to |-> e.to, seq |-> e.seq,
                   body |-> e.body]
Ack(n, p, window) == [type |-> "ack", from |-> n, to |-> p,
                      seqs |-> {window[i] : i \in DOMAIN window}]
Broadcast(n) == [type |-> "broadcast", from |-> n]

(***************************************************************************)
(* After init() and enable_radio().  A node that is enabled later, or was  *)
(* disabled, is one that takes no frame: disable_radio() stops no timer.   *)
(***************************************************************************)
Init == /\ halted = {}
        /\ clock = [n \in Node |-> 0]
        /\ phase = [n \in Node |-> 0]
        /\ open = [n \in Node |-> <<>>]
        /\ pending = [n \in Node |-> {}]
        /\ air = {}
        /\ sent = [n \in Node |-> 0]
        /\ unnumbered = [n \in Node |-> {}]
        /\ confirmed = [n \in Node |-> {}]
        /\ heard = [n \in Node |-> <<>>]
        /\ early = [n \in Node |-> {}]

(***************************************************************************)
(* push_back() of a connection: a full map stays as it is.                 *)
(***************************************************************************)
\* Slip: one connection more than the map holds.
WithOneMore(n, p, next) ==
  IF p \in DOMAIN open[n] \/ Cardinality(DOMAIN open[n]) > MaxConnections THEN open[n]
  ELSE [x \in DOMAIN open[n] \cup {p} |->
          IF x = p THEN Connection(next, <<>>) ELSE open[n][x]]

WithConnection(n, p, next) ==
  IF p \in DOMAIN open[n] \/ Cardinality(DOMAIN open[n]) >= MaxConnections THEN open[n]
  ELSE [x \in DOMAIN open[n] \cup {p} |->
          IF x = p THEN Connection(next, <<>>) ELSE open[n][x]]

(***************************************************************************)
(* next_seq(): the first number is 1 whether the connection fits or not.   *)
(***************************************************************************)
NextSeq(n, d) == IF d \in DOMAIN open[n] THEN open[n][d].next ELSE 1

NumberTaken(n, d) ==
  IF d \in DOMAIN open[n]
  THEN [open[n] EXCEPT ![d].next = (@ + 1) % SeqMod]
  ELSE WithConnection(n, d, 2)

(***************************************************************************)
(* send() to d; it returns 1 also when nothing is sent, because            *)
(* pending_messages_ is full or the number has wrapped to 0.               *)
(***************************************************************************)
Send(n, d) ==
  LET m == [to |-> d, seq |-> NextSeq(n, d), time |-> clock[n], retries |-> 0,
            body |-> sent[n] + 1]
      room == Cardinality(pending[n]) < MaxPending
  IN /\ Running(n) /\ sent[n] < MaxSends
     /\ sent' = [sent EXCEPT ![n] = @ + 1]
     /\ open' = [open EXCEPT ![n] = IF room THEN NumberTaken(n, d) ELSE @]
     /\ IF room /\ m.seq # 0
        THEN /\ pending' = [pending EXCEPT ![n] = @ \cup {m}]
             /\ air' = air \cup {Reliable(n, m)}
             /\ unnumbered' = [unnumbered EXCEPT ![n] =
                                 IF d \in DOMAIN open'[n] THEN @ ELSE @ \cup {m.body}]
        ELSE UNCHANGED <<pending, air, unnumbered>>
     /\ UNCHANGED <<halted, clock, phase, confirmed, heard, early>>

SendBroadcast(n) ==
  /\ Running(n)
  /\ air' = air \cup {Broadcast(n)}
  /\ UNCHANGED <<halted, clock, phase, open, pending, sent, unnumbered, confirmed,
                 heard, early>>

(***************************************************************************)
(* time_passes().                                                          *)
(***************************************************************************)
TimePasses(n) ==
  /\ Running(n) /\ phase[n] < DaemonPeriod
  /\ clock' = [clock EXCEPT ![n] = (@ + 1) % TimeMod]
  /\ phase' = [phase EXCEPT ![n] = @ + 1]
  /\ UNCHANGED <<halted, open, pending, air, sent, unnumbered, confirmed, heard,
                 early>>

(***************************************************************************)
(* reliable_daemon().  timestamp is an int: the difference is not taken    *)
(* modulo 2^16.                                                            *)
(***************************************************************************)
Due(n, e) == e.time < clock[n] - 2

\* Slip: off by one, an entry between both comparisons stays for ever.
GivenUpLate(e) == e.retries > MaxRetries

GivenUp(e) == e.retries >= MaxRetries

Resent(n, e) == [e EXCEPT !.time = clock[n], !.retries = @ + 1]

Daemon(n) ==
  LET due   == {e \in pending[n] : Due(n, e)}
      again == {e \in due : e.retries < MaxRetries}
      gone  == {e \in due : GivenUp(e)}
  IN /\ Running(n) /\ phase[n] = DaemonPeriod
     /\ phase' = [phase EXCEPT ![n] = 0]
     /\ pending' = [pending EXCEPT ![n] =
                     (@ \ (again \cup gone)) \cup {Resent(n, e) : e \in again}]
     /\ air' = air \cup {Reliable(n, e) : e \in again}
     /\ UNCHANGED <<halted, clock, open, sent, unnumbered, confirmed, heard, early>>

(***************************************************************************)
(* receive(): any frame opens a connection to its sender, if one fits.     *)
(***************************************************************************)
Hears(n, f) == Running(n) /\ f.from # n

ReceiveBroadcast(n, f) ==
  /\ Hears(n, f) /\ f.type = "broadcast"
  /\ open' = [open EXCEPT ![n] = WithConnection(n, f.from, 1)]
  /\ UNCHANGED <<halted, clock, phase, pending, air, sent, unnumbered, confirmed,
                 heard, early>>

(***************************************************************************)
(* handle_ack_message().                                                   *)
(***************************************************************************)
\* Slip: the destination of the entry is not compared.
AcknowledgesAnyone(f, e) == e.seq \in f.seqs

Acknowledges(f, e) == e.seq \in f.seqs /\ e.to = f.from

ReceiveAck(n, f) ==
  LET done == {e \in pending[n] : Acknowledges(f, e)}
  IN /\ Hears(n, f) /\ f.type = "ack" /\ f.to = n
     /\ open' = [open EXCEPT ![n] = WithConnection(n, f.from, 1)]
     /\ pending' = [pending EXCEPT ![n] = @ \ done]
     /\ confirmed' = [confirmed EXCEPT ![n] = @ \cup {<<e.to, e.body>> : e \in done}]
     /\ UNCHANGED <<halted, clock, phase, air, sent, unnumbered, heard, early>>

(***************************************************************************)
(* was_received(): a full window loses its oldest number.                  *)
(***************************************************************************)
\* Slip: push_back() on a full window, which does nothing.
RememberedIfRoom(window, seq) ==
  IF Len(window) < MaxRecv THEN Append(window, seq) ELSE window

Remembered(window, seq) ==
  Append(IF Len(window) < MaxRecv THEN window ELSE Tail(window), seq)

Copy(window, seq) == \E i \in DOMAIN window : window[i] = seq

(***************************************************************************)
(* handle_reliable_message().  A sender for which the map has no room      *)
(* counts as new: its message goes to the receivers, then operator[] of    *)
(* the full map fails its assertion.                                       *)
(***************************************************************************)
Heard(n) == DOMAIN heard[n]

HandUp(n, f) ==
  LET m == <<f.from, f.body>>
  IN /\ heard' = [heard EXCEPT ![n] = [x \in Heard(n) \cup {m} |->
                    IF x = m THEN {} ELSE IF x[1] = f.from THEN @[x] \cup {m} ELSE @[x]]]
     /\ early' = [early EXCEPT ![n] =
                    IF m \in Heard(n) /\ Cardinality(heard[n][m]) < MaxRecv
                    THEN @ \cup {m} ELSE @]

ReceiveReliable(n, f) ==
  LET peers  == WithConnection(n, f.from, 1)
      window == peers[f.from].window
  IN /\ Hears(n, f) /\ f.type = "reliable" /\ f.to = n
     /\ f.from \in DOMAIN peers
     /\ IF Copy(window, f.seq)
        THEN /\ open' = [open EXCEPT ![n] = peers]
             /\ air' = air \cup {Ack(n, f.from, window)}
             /\ UNCHANGED <<heard, early>>
        ELSE /\ open' = [open EXCEPT ![n] =
                           [peers EXCEPT ![f.from].window = Remembered(@, f.seq)]]
             /\ air' = air \cup {Ack(n, f.from, Remembered(window, f.seq))}
             /\ HandUp(n, f)
     /\ UNCHANGED <<halted, clock, phase, pending, sent, unnumbered, confirmed>>

ReceiveUnconnected(n, f) ==
  /\ Hears(n, f) /\ f.type = "reliable" /\ f.to = n
  /\ f.from \notin DOMAIN WithConnection(n, f.from, 1)
  /\ HandUp(n, f)
  /\ halted' = halted \cup {n}
  /\ UNCHANGED <<clock, phase, open, pending, air, sent, unnumbered, confirmed>>

(***************************************************************************)
(* The clock of a node that never sends is never read: it stands still.    *)
(***************************************************************************)
Sender == {e[1] : e \in Flow}

Next == \/ \E n \in Node :
             \E f \in air : \/ ReceiveBroadcast(n, f) \/ ReceiveAck(n, f)
                            \/ ReceiveReliable(n, f) \/ ReceiveUnconnected(n, f)
        \/ \E n \in Sender : TimePasses(n) \/ Daemon(n)
        \/ \E n \in Broadcasting : SendBroadcast(n)
        \/ \E e \in Flow : Send(e[1], e[2])

Spec == Init /\ [][Next]_vars

(***************************************************************************)
(* Both timers are armed for good by enable_radio().                       *)
(***************************************************************************)
TimersFire == \A n \in Sender : WF_vars(TimePasses(n)) /\ WF_vars(Daemon(n))

FairSpec == Spec /\ TimersFire
------------------------------------------------------------------------------
Message == Node \X (1..MaxSends)
Seq16   == 0..SeqMod - 1
Entry   == [to : Node, seq : Seq16 \ {0}, time : 0..TimeMod - 1,
            retries : 0..MaxRetries, body : 1..MaxSends]
Window  == UNION {[1..k -> Seq16 \ {0}] : k \in 0..MaxRecv}
Frame   == [type : {"reliable"}, from : Node, to : Node, seq : Seq16 \ {0},
            body : 1..MaxSends]
           \cup [type : {"ack"}, from : Node, to : Node, seqs : SUBSET Seq16]
           \cup [type : {"broadcast"}, from : Node]

(***************************************************************************)
(* The members of the class: vectors and map within their sizes, and no    *)
(* message with the number 0 that stands for none (reliableradio.h:67-75,  *)
(* 652-670).                                                               *)
(***************************************************************************)
TypeOK ==
  /\ halted \subseteq Node
  /\ clock \in [Node -> 0..TimeMod - 1] /\ phase \in [Node -> 0..DaemonPeriod]
  /\ \A n \in Node :
       /\ DOMAIN open[n] \subseteq Node /\ Cardinality(DOMAIN open[n]) <= MaxConnections
       /\ \A p \in DOMAIN open[n] : /\ open[n][p].next \in Seq16
                                    /\ open[n][p].window \in Window
       /\ pending[n] \subseteq Entry /\ Cardinality(pending[n]) <= MaxPending
       /\ heard[n] \in [Heard(n) -> SUBSET Heard(n)] /\ Heard(n) \subseteq Message
       /\ early[n] \subseteq Heard(n)
       /\ confirmed[n] \subseteq Message /\ unnumbered[n] \subseteq 1..MaxSends
  /\ sent \in [Node -> 0..MaxSends]
  /\ air \subseteq Frame

(***************************************************************************)
(* A message that an acknowledgement takes out of pending_messages_ was    *)
(* given to the receivers of its destination, however late, repeated or    *)
(* lost the frames are, and although an acknowledgement names numbers of   *)
(* several messages; the exception are messages sent while the map had no  *)
(* room for their destination, which all have number 1                     *)
(* (reliableradio.h:442-475, 484-541, 584-596).                            *)
(***************************************************************************)
AckMeansHeard ==
  \A n \in Node : \A m \in confirmed[n] :
    <<n, m[2]>> \in Heard(m[1]) \/ m[2] \in unnumbered[n]

(***************************************************************************)
(* A node is given a message again only when MAX_RECV others of the same   *)
(* sender have come since it was given last, that is, when its number has  *)
(* left the window (was_received(), reliableradio.h:629-650).              *)
(***************************************************************************)
AgainOnlyIfOvertaken == \A n \in Node : early[n] = {}

(***************************************************************************)
(* Every message leaves pending_messages_, acknowledged or given up,       *)
(* unless it was sent in the last three units before current_time_ wraps:  *)
(* the clock never exceeds those by more than two, and the entry stays     *)
(* (reliable_daemon(), reliableradio.h:314-377).                           *)
(***************************************************************************)
Waits(n, k) == \E e \in pending[n] : e.body = k /\ e.time < TimeMod - 3

PendingEnds ==
  \A n \in Sender, k \in 1..MaxSends : []<>(Running(n) => ~Waits(n, k))
==============================================================================
