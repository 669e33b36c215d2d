----------------------------- MODULE DsrRouting ------------------------------
(***************************************************************************)
(* Source routing (wiselib.stable/algorithms/routing/dsr/dsr_routing.h).   *)
(* A node without a route floods a request that collects the ids it passes *)
(* on its way; the destination returns the collected path in a reply,      *)
(* along the path; data carries the path with it.  One message at a time   *)
(* waits for its route.                                                    *)
(*                                                                         *)
(* A handler runs to completion.  A frame in `air' is one copy on the way  *)
(* to one receiver: a broadcast makes a copy for every node in range.      *)
(***************************************************************************)
EXTENDS Integers, Sequences, FiniteSets

CONSTANTS Node,
          Link,        \* pairs <<a, b>>: b is in communication range of a
          Flow,        \* pairs <<s, d>>: the application of s sends to d
          TableSize,   \* TABLE_SIZE of StaticArrayRoutingTable
          PathSize,    \* VECTOR_SIZE of the Path
          ByteMod,     \* 2^8: hops and path_idx are uint8_t
          Restarting,  \* nodes that may be initialised again
          Duplicates,  \* whether the radio may deliver a frame again
          MaxSends     \* bound: messages a node sends, hence sequence numbers

ASSUME DsrAssumption == /\ IsFiniteSet(Node)
                        /\ Link \subseteq {e \in Node \X Node : e[1] # e[2]}
                        /\ Flow \subseteq Node \X Node
                        /\ Restarting \subseteq Node
                        /\ {TableSize, MaxSends} \subseteq Nat
                        /\ PathSize \in Nat \ {0}
                        /\ ByteMod \in Nat /\ ByteMod > PathSize
                        /\ Duplicates \in BOOLEAN

VARIABLES up,        \* receive registered at the radio
          seqNr,     \* seq_nr_
          busy,      \* send_in_progress_
          table,     \* routing_table_: a function on the ids it knows
          message,   \* routing_message_: what is waiting or was sent last
          air,       \* the frames on their way
          sent,      \* messages the application has handed over, numbered
          delivered, \* messages <<source, number>> given to the receivers of a node
          again      \* those given to them more than once

vars == <<up, seqNr, busy, table, message, air, sent, delivered, again>>

None == [dst |-> "none"]
Entry(path, hops, seq) == [path |-> path, hops |-> hops, seq |-> seq]

(***************************************************************************)
(* operator[] of the path, 0-based.  Beyond its end it reads memory that   *)
(* was never written: any id.                                              *)
(***************************************************************************)
At(path, idx) == IF idx < Len(path) THEN {path[idx + 1]} ELSE Node

\* push_back() of vector_static: a full vector stays as it is.
\* Slip: it does not.
PushBackBeyond(path, n) == Append(path, n)

PushBack(path, n) == IF Len(path) < PathSize THEN Append(path, n) ELSE path

(***************************************************************************)
(* operator[] of the table: a new entry while there is room, else a dummy. *)
(***************************************************************************)
Write(n, d, e) ==
  IF d \in DOMAIN table[n] \/ Cardinality(DOMAIN table[n]) < TableSize
  THEN [x \in DOMAIN table[n] \cup {d} |-> IF x = d THEN e ELSE table[n][x]]
  ELSE table[n]

Inc(k) == (k + 1) % ByteMod

InRange(n) == {m \in Node : <<n, m>> \in Link}

\* The copies of F that reach a node in range of n are added to the air.
Put(n, old, F) == old \cup {g \in F : g.to \in InRange(n)}

Rest(f) == IF Duplicates THEN air ELSE air \ {f}

Discovery(type, to, f, hops, idx, path) ==
  [type |-> type, to |-> to, src |-> f.src, dst |-> f.dst, seq |-> f.seq,
   hops |-> hops, idx |-> idx, path |-> path]

Data(to, n, m, idx) ==
  [type |-> "data", to |-> to, src |-> n, dst |-> m.dst, body |-> m.body,
   idx |-> idx, path |-> m.path]

Init == /\ up = [n \in Node |-> FALSE]
        /\ seqNr = [n \in Node |-> 1]
        /\ busy = [n \in Node |-> FALSE]
        /\ table = [n \in Node |-> <<>>]
        /\ message = [n \in Node |-> None]
        /\ air = {}
        /\ sent = [n \in Node |-> 0]
        /\ delivered = [n \in Node |-> {}]
        /\ again = [n \in Node |-> {}]

(***************************************************************************)
(* init(), also of a node that has been running.                           *)
(***************************************************************************)
InitRouting(n) ==
  /\ up' = [up EXCEPT ![n] = TRUE]
  /\ seqNr' = [seqNr EXCEPT ![n] = 1]
  /\ busy' = [busy EXCEPT ![n] = FALSE]
  /\ table' = [table EXCEPT ![n] = <<>>]
  /\ message' = [message EXCEPT ![n] = None]
  /\ UNCHANGED <<air, sent, delivered, again>>

Enable(n) == ~up[n] /\ InitRouting(n)

(***************************************************************************)
(* send(): ERR_BUSY while a route is sought.  Any entry counts as a route, *)
(* those without a path that update_seq_nr() leaves included.              *)
(***************************************************************************)
SendOnRoute(n, d) ==
  /\ d \in DOMAIN table[n]
  /\ LET m == [dst |-> d, body |-> sent[n] + 1, path |-> table[n][d].path]
     IN /\ message' = [message EXCEPT ![n] = m]
        /\ \E to \in At(m.path, 1) : air' = Put(n, air, {Data(to, n, m, 1)})
  /\ UNCHANGED <<seqNr, busy>>

SendRequest(n, d) ==
  /\ d \notin DOMAIN table[n]
  /\ message' = [message EXCEPT ![n] = [dst |-> d, body |-> sent[n] + 1, path |-> <<>>]]
  /\ busy' = [busy EXCEPT ![n] = TRUE]
  /\ seqNr' = [seqNr EXCEPT ![n] = @ + 1]
  /\ LET r == [src |-> n, dst |-> d, seq |-> seqNr[n]]
     IN air' = Put(n, air, {Discovery("request", to, r, 0, 0, <<n>>) : to \in Node})

Send(n, d) == /\ up[n] /\ ~busy[n]
              /\ sent[n] < MaxSends
              /\ SendOnRoute(n, d) \/ SendRequest(n, d)
              /\ sent' = [sent EXCEPT ![n] = @ + 1]
              /\ UNCHANGED <<up, table, delivered, again>>

(***************************************************************************)
(* handle_route_request().  The source of a request hears it from its      *)
(* neighbours like any node does.                                          *)
(***************************************************************************)
GetSeqNr(n, d) == IF d \in DOMAIN table[n] THEN table[n][d].seq ELSE 0

UpdateSeqNr(n, d, seq) ==
  IF d \in DOMAIN table[n] THEN [table[n] EXCEPT ![d].seq = seq]
  ELSE Write(n, d, Entry(<<>>, 0, seq))

\* Slips: a request counts as new if its number is the last one known; the node
\* that forwards a request leaves itself out.
FreshOrLast(n, f) == GetSeqNr(n, f.src) <= f.seq

Fresh(n, f) == GetSeqNr(n, f.src) < f.seq

ForwardUnnamed(n, f) ==
  {Discovery("request", to, f, Inc(f.hops), Inc(f.idx), f.path) : to \in Node}

Forward(n, f) ==
  {Discovery("request", to, f, Inc(f.hops), Inc(f.idx), PushBack(f.path, n)) : to \in Node}

HandleRouteRequest(n, f) ==
  /\ f.type = "request"
  /\ \/ ~Fresh(n, f) /\ air' = Rest(f) /\ UNCHANGED table
     \/ /\ Fresh(n, f)
        /\ table' = [table EXCEPT ![n] = UpdateSeqNr(n, f.src, f.seq)]
        /\ IF f.dst = n
           THEN LET path == PushBack(f.path, n)
                IN \E to \in At(path, f.idx) :
                     air' = Put(n, Rest(f),
                                {Discovery("reply", to, f, Inc(f.hops), f.idx, path)})
           ELSE air' = Put(n, Rest(f), Forward(n, f))
  /\ UNCHANGED <<busy, message, delivered, again>>

(***************************************************************************)
(* handle_route_reply().  At the source the route goes into the table and  *)
(* into the message that is waiting, or was sent last: it is sent, whether *)
(* its destination is that of the route or not.  After init() the message  *)
(* is a buffer never written: no receiver knows its type.                  *)
(***************************************************************************)
\* Slip: the next message waits for ever.
StillBusy(n) == busy

Back(f) == (f.idx - 1) % ByteMod
NoLongerBusy(n) == [busy EXCEPT ![n] = FALSE]

HandleRouteReply(n, f) ==
  /\ f.type = "reply"
  /\ IF f.src = n
     THEN /\ table' = [table EXCEPT ![n] = Write(n, f.dst, Entry(f.path, f.hops, f.seq))]
          /\ busy' = NoLongerBusy(n)
          /\ IF message[n] = None THEN air' = Rest(f) /\ UNCHANGED message
             ELSE LET m == [message[n] EXCEPT !.path = f.path]
                  IN /\ message' = [message EXCEPT ![n] = m]
                     /\ \E to \in At(m.path, 1) :
                          air' = Put(n, Rest(f), {Data(to, n, m, 1)})
     ELSE /\ \E to \in At(f.path, Back(f)) :
               air' = Put(n, Rest(f), {Discovery("reply", to, f, f.hops, Back(f), f.path)})
          /\ UNCHANGED <<busy, table, message>>
  /\ UNCHANGED <<delivered, again>>

(***************************************************************************)
(* handle_routing_message().                                               *)
(***************************************************************************)
HandleRoutingMessage(n, f) ==
  /\ f.type = "data"
  /\ IF f.dst = n
     THEN LET m == <<f.src, f.body>>
          IN /\ delivered' = [delivered EXCEPT ![n] = @ \cup {m}]
             /\ again' = [again EXCEPT ![n] = @ \cup ({m} \cap delivered[n])]
             /\ air' = Rest(f)
     ELSE LET idx == Inc(f.idx)
          IN /\ \E to \in At(f.path, idx) :
                  air' = Put(n, Rest(f), {[f EXCEPT !.to = to, !.idx = idx]})
             /\ UNCHANGED <<delivered, again>>
  /\ UNCHANGED <<busy, table, message>>

Receive(n, f) ==
  /\ up[n] /\ f.to = n
  /\ HandleRouteRequest(n, f) \/ HandleRouteReply(n, f) \/ HandleRoutingMessage(n, f)
  /\ UNCHANGED <<up, seqNr, sent>>

Lose(f) == /\ air' = air \ {f}
           /\ UNCHANGED <<up, seqNr, busy, table, message, sent, delivered, again>>

Operate == \/ \E n \in Node : Enable(n) \/ \E f \in air : Receive(n, f)
           \/ \E e \in Flow : Send(e[1], e[2])

Next == Operate \/ \E f \in air : Lose(f)

Spec == Init /\ [][Next]_vars

(***************************************************************************)
(* Nodes are initialised again while the network runs.                     *)
(***************************************************************************)
Restart(n) == up[n] /\ InitRouting(n)

ChurnNext == Next \/ \E n \in Restarting : Restart(n)
ChurnSpec == Init /\ [][ChurnNext]_vars

(***************************************************************************)
(* A radio that loses nothing, and a receiver that takes what has come.    *)
(***************************************************************************)
FairSpec == /\ Init /\ [][Operate]_vars
            /\ \A n \in Node : WF_vars(Enable(n)) /\ WF_vars(\E f \in air : Receive(n, f))

-----------------------------------------------------------------------------
Path == Seq(Node)

Frame == [type : {"request", "reply"}, to : Node, src : Node, dst : Node, seq : Nat,
          hops : 0..ByteMod - 1, idx : 0..ByteMod - 1, path : Path]
         \cup [type : {"data"}, to : Node, src : Node, dst : Node, body : Nat,
               idx : 0..ByteMod - 1, path : Path]

(***************************************************************************)
(* The members of DsrRouting; the table and the paths within their sizes   *)
(* (dsr_routing.h:152-157, dsr_routing_types.h:50-52).                     *)
(***************************************************************************)
TypeOK ==
  /\ up \in [Node -> BOOLEAN] /\ busy \in [Node -> BOOLEAN]
  /\ seqNr \in [Node -> Nat] /\ sent \in [Node -> 0..MaxSends]
  /\ \A n \in Node :
       /\ DOMAIN table[n] \subseteq Node /\ Cardinality(DOMAIN table[n]) <= TableSize
       /\ \A d \in DOMAIN table[n] :
            /\ table[n][d] \in [path : Path, hops : 0..ByteMod - 1, seq : Nat]
            /\ Len(table[n][d].path) <= PathSize
       /\ message[n] = None \/ message[n] \in [dst : Node, body : Nat, path : Path]
       /\ again[n] \subseteq delivered[n] /\ delivered[n] \subseteq Node \X Nat
  /\ \A f \in air : f \in Frame /\ Len(f.path) <= PathSize

IsWalk(path) == \A i \in 1..Len(path) - 1 : <<path[i], path[i + 1]>> \in Link

Leads(path, n, d) == path # <<>> /\ path[1] = n /\ path[Len(path)] = d

(***************************************************************************)
(* A path in a table leads from its owner to the destination of the entry  *)
(* over links that exist, whatever is lost, repeated or restarted; one as  *)
(* long as its vector may have been cut off (handle_route_request(),       *)
(* handle_route_reply(): dsr_routing.h:333-439).                           *)
(***************************************************************************)
RoutesAreWalks ==
  \A n \in Node : \A d \in DOMAIN table[n] :
    LET path == table[n][d].path
    IN Len(path) \in 1..PathSize - 1 => IsWalk(path) /\ Leads(path, n, d)

(***************************************************************************)
(* The index that goes with a path always names the node the frame is on   *)
(* its way to: no index is used beyond the path, and data ends at its      *)
(* destination (dsr_routing.h:333-471).                                    *)
(***************************************************************************)
OnPath == \A f \in air :
            /\ f.type \in {"reply", "data"} => /\ f.idx < Len(f.path)
                                               /\ f.to = f.path[f.idx + 1]
            /\ f.type = "data" => Leads(f.path, f.src, f.dst)

(***************************************************************************)
(* A radio that does not repeat frames delivers no message twice, however  *)
(* many copies of a request go round (get_seq_nr(), update_seq_nr():       *)
(* dsr_routing.h:340-349, 473-506).                                        *)
(***************************************************************************)
DeliveredOnce == \A n \in Node : again[n] = {}

(***************************************************************************)
(* What send() accepts reaches its destination when nothing is lost, and   *)
(* the node is ready for the next message (dsr_routing.h:262-471).         *)
(***************************************************************************)
MessagesArrive ==
  \A e \in Flow, i \in 1..MaxSends :
    sent[e[1]] = i /\ message[e[1]].dst = e[2] ~> <<e[1], i>> \in delivered[e[2]]

NotBusyForever == \A n \in Node : busy[n] ~> ~busy[n]
==============================================================================
