---------------------------- MODULE LowpanStack -----------------------------
(***************************************************************************)
(* The IPv6 stack of wiselib.testing/algorithms/6lowpan/ of one node that  *)
(* is a host and a router: UDP, IPv6 and LoWPAN with the manager that      *)
(* reassembles packets, a pool of few packets shared by all of them, and   *)
(* the routing that is asked for a next hop and answers later.  Around it  *)
(* neighbours send packets with the same LoWPAN::send().                   *)
(*                                                                         *)
(* A call runs to completion, so each is a step, and so is each timer.     *)
(* `air' holds every frame sent to the node: frames may be lost, delayed,  *)
(* repeated and reordered.  The payload of a packet is counted in units,   *)
(* and a fragment stands for its place in its packet; headers are          *)
(* abstracted to what they may do: not be understood (a context that is    *)
(* not known).  ROUTE_OVER, the default, is what is modelled.              *)
(***************************************************************************)
EXTENDS Integers, Sequences, FiniteSets

CONSTANTS Self,         \* the address of the node
          Neighbour,
          Dest,         \* addresses of others
          LinkLocal,    \* those of them that are link-local
          Packets,      \* Packets[n]: what neighbour n sends, in this order
          FragLen,      \* units in a frame
          TagMod,       \* 2^16: fragmentation_tag is a uint16_t
          PoolSize,     \* IP_PACKET_POOL_SIZE
          TableSize,    \* FORWARDING_TABLE_SIZE
          SendFails,    \* whether the radio of a neighbour may refuse a frame
          MaxOwn,       \* bound: packets the node sends itself
          MaxTimeouts,  \* bound: timers of the reassembling manager
          None

Slot == 1..PoolSize

Packet == [dst : Dest \cup {Self}, size : Nat \ {0}, known : BOOLEAN]

LowpanAssumption ==
  /\ LinkLocal \subseteq Dest /\ Self \notin Dest /\ None \notin Neighbour
  /\ \A n \in Neighbour : \A k \in DOMAIN Packets[n] : Packets[n][k] \in Packet
  /\ {FragLen, PoolSize, TableSize, MaxTimeouts} \subseteq Nat \ {0} /\ TagMod \in Nat \ {0, 1}
  /\ SendFails \in BOOLEAN /\ MaxOwn \in Nat

VARIABLES tag,       \* tag[n]: fragmentation_tag of a neighbour
          next,      \* next[n]: which of its packets it sends next
          air,
          pool,      \* packet_pool: the packets, or Free
          mgr,       \* LoWPANReassemblingManager
          timeouts,  \* its timers under way, with the tag each was given
          table,     \* destinations in forwarding_table_
          working,   \* is_working; the timer of search_for_a_route() is set
          wanted,    \* requested_destination_
          polls,     \* polls[p]: timers of routing_polling() for packet p
          own,       \* how many packets the node has sent itself
          passed     \* what went on to another node or up to UDP

vars == <<tag, next, air, pool, mgr, timeouts, table, working, wanted, polls, own, passed>>

PacketOf(m) == Packets[m[1]][m[2]]

(***************************************************************************)
(* valid = false, or what is known of the packet.  `parts' stands for what *)
(* set_payload() has copied.                                               *)
(***************************************************************************)
Free == [valid |-> FALSE]
InUse(dst, parts) == [valid |-> TRUE, dst |-> dst, parts |-> parts]

\* The stack is a global object (6lowpan_test.cpp:181), so it is zero at the start.
Init == /\ tag = [n \in Neighbour |-> 1] /\ next = [n \in Neighbour |-> 1]
        /\ air = {}
        /\ pool = [p \in Slot |-> Free]
        /\ mgr = [valid |-> FALSE, tag |-> 0, from |-> None, size |-> 0, got |-> 0,
                  offsets |-> {}, slot |-> 1, prevTag |-> 0, prevFrom |-> None]
        /\ timeouts = <<>>
        /\ table = {} /\ working = FALSE /\ wanted = None
        /\ polls = [p \in Slot |-> 0]
        /\ own = 0 /\ passed = {}

-----------------------------------------------------------------------------
(***************************************************************************)
(* LoWPAN::send() of a neighbour: one frame, or fragments under the next   *)
(* tag.  When the radio refuses one of them it returns at once.            *)
(***************************************************************************)
Offsets(m) == {o \in 0..PacketOf(m).size - 1 : o % FragLen = 0}

PartLen(m, o) == IF o + FragLen <= PacketOf(m).size THEN FragLen ELSE PacketOf(m).size - o

Fragment(m, t, o) ==
  [type |-> "fragment", from |-> m[1], tag |-> t, size |-> PacketOf(m).size,
   offset |-> o, msg |-> m]

Whole(m) == [type |-> "whole", from |-> m[1], msg |-> m]

Frames(n) == LET m == <<n, next[n]>>
             IN  IF PacketOf(m).size <= FragLen THEN {Whole(m)}
                 ELSE {Fragment(m, tag[n], o) : o \in Offsets(m)}

NeighbourSends(n) ==
  /\ next[n] \in DOMAIN Packets[n]
  /\ next' = [next EXCEPT ![n] = @ + 1]
  /\ \/ /\ air' = air \cup Frames(n)
        /\ tag' = [tag EXCEPT ![n] = (@ + 1) % TagMod]
     \/ /\ SendFails
        /\ \E k \in Offsets(<<n, next[n]>>) :
             air' = air \cup {f \in Frames(n) : f.type = "fragment" /\ f.offset < k}
        /\ UNCHANGED tag
  /\ UNCHANGED <<pool, mgr, timeouts, table, working, wanted, polls, own, passed>>

-----------------------------------------------------------------------------
(***************************************************************************)
(* get_unused_packet_with_number()                                         *)
(***************************************************************************)
FreeSlots(now) == {p \in Slot : ~now[p].valid}
Unused(now) == CHOOSE p \in FreeSlots(now) : \A q \in FreeSlots(now) : p <= q

(***************************************************************************)
(* IPv6::send() of the packet in slot p of the pool `now', with what its   *)
(* three callers do after it: a packet that waits for the routing keeps    *)
(* its place and gets a timer, any other is cleaned.  find() starts a      *)
(* search unless one is under way.                                         *)
(***************************************************************************)
Available(d) == d \in LinkLocal \/ d \in table

\* Slip: the callers clean the packet whatever send() returned.
AlwaysCleaned(p, now) == [now EXCEPT ![p] = Free]

Cleaned(p, now) == IF Available(now[p].dst) THEN [now EXCEPT ![p] = Free] ELSE now

SendOn(p, now, timers, gone) ==
  /\ pool' = Cleaned(p, now)
  /\ \/ /\ Available(now[p].dst)
        /\ passed' = gone \cup {now[p]}
        /\ polls' = timers
        /\ UNCHANGED <<working, wanted>>
     \/ /\ ~Available(now[p].dst)
        /\ passed' = gone
        /\ working' = TRUE
        /\ wanted' = IF working THEN wanted ELSE now[p].dst
        /\ polls' = [timers EXCEPT ![p] = @ + 1]

(***************************************************************************)
(* UDP::send() by the application: fails without a free packet.            *)
(***************************************************************************)
Sending(d, p, now, gone) ==
  /\ own < MaxOwn /\ own' = own + 1
  /\ SendOn(p, [now EXCEPT ![p] = InUse(d, {})], polls, gone)

UdpSend(d) ==
  /\ FreeSlots(pool) # {}
  /\ Sending(d, Unused(pool), pool, passed)
  /\ UNCHANGED <<tag, next, air, mgr, timeouts, table>>

(***************************************************************************)
(* IPv6::receive() of the packet in slot p of the pool `now'.  One for the *)
(* node itself goes to UDP, which drops what fails the checksum and cleans *)
(* the packet when the callbacks return; these may send from within.       *)
(* Without a header (None) there is no route.                              *)
(***************************************************************************)
IsWhole(parts) == \E m \in {x[1] : x \in parts} : parts = {<<m, o>> : o \in Offsets(m)}

HandUp(p, now) ==
  LET left == [now EXCEPT ![p] = Free]
      gone == passed \cup {x \in {now[p]} : IsWhole(x.parts)}
  IN \/ /\ passed' = gone /\ pool' = left
        /\ UNCHANGED <<working, wanted, polls, own>>
     \/ /\ IsWhole(now[p].parts) /\ FreeSlots(now) # {}
        /\ \E d \in Dest : Sending(d, Unused(now), left, gone)

Received(p, now) ==
  \/ now[p].dst = Self /\ HandUp(p, now)
  \/ /\ now[p].dst \in LinkLocal \cup {None}
     /\ pool' = [now EXCEPT ![p] = Free]
     /\ UNCHANGED <<working, wanted, polls, own, passed>>
  \/ /\ now[p].dst \in Dest \ LinkLocal
     /\ SendOn(p, now, polls, passed)
     /\ UNCHANGED own

-----------------------------------------------------------------------------
(***************************************************************************)
(* start_new_reassembling(): `Refused' is its guard against fragments that *)
(* remain of the packet before, as it is written; what it goes by is saved *)
(* one packet late.                                                        *)
(***************************************************************************)
Refused(sender, t) == t # 0 /\ mgr.prevTag = t /\ mgr.prevFrom # sender

Started(sender, t, size, p) ==
  [valid |-> TRUE, tag |-> t, from |-> sender, size |-> size, got |-> 0, offsets |-> {},
   slot |-> p, prevTag |-> mgr.tag, prevFrom |-> mgr.from]

\* Slip: no timer for a packet that is not fragmented.
SetTimerIfTagged(t) == timeouts' = IF t = 0 THEN timeouts ELSE Append(timeouts, t)

SetTimer(t) == timeouts' = Append(timeouts, t)

CanStart(sender, t) ==
  /\ ~mgr.valid /\ ~Refused(sender, t)
  /\ FreeSlots(pool) # {}
  /\ Len(timeouts) < MaxTimeouts

(***************************************************************************)
(* The rest of LoWPAN::receive() for a fragment that was not there yet, m  *)
(* being the state of the manager.  A header that cannot be uncompressed   *)
(* ends it early.                                                          *)
(***************************************************************************)
Take(f, m, now) ==
  LET noted == [m EXCEPT !.offsets = @ \cup {f.offset}]
      read  == [noted EXCEPT !.got = @ + PartLen(f.msg, f.offset)]
      put   == [now EXCEPT ![m.slot] =
                  InUse(IF f.offset = 0 THEN PacketOf(f.msg).dst ELSE @.dst,
                        @.parts \cup {<<f.msg, f.offset>>})]
      legible == f.offset # 0 \/ PacketOf(f.msg).known
  IN \/ /\ ~legible
        /\ mgr' = noted /\ pool' = now
        /\ UNCHANGED <<working, wanted, polls, own, passed>>
     \/ /\ legible /\ read.got # read.size
        /\ mgr' = read /\ pool' = put
        /\ UNCHANGED <<working, wanted, polls, own, passed>>
     \/ /\ legible /\ read.got = read.size
        /\ mgr' = [read EXCEPT !.valid = FALSE]
        /\ Received(m.slot, put)

\* Slip: fragments of all senders that use this tag are collected.
OfAnySender(f) == mgr.valid /\ mgr.tag = f.tag

Expected(f) == mgr.valid /\ mgr.tag = f.tag /\ mgr.from = f.from

(***************************************************************************)
(* receive() of a fragment of the packet being reassembled, of one of a    *)
(* new packet, and of a packet in one frame (tag 0).  Anything else is     *)
(* dropped.                                                                *)
(***************************************************************************)
CollectFragment(f) ==
  /\ f.type = "fragment" /\ Expected(f)
  /\ f.offset \notin mgr.offsets
  /\ Take(f, mgr, pool)
  /\ UNCHANGED timeouts

FirstFragment(f) ==
  /\ f.type = "fragment" /\ CanStart(f.from, f.tag)
  /\ SetTimer(f.tag)
  /\ LET p == Unused(pool)
     IN Take(f, Started(f.from, f.tag, f.size, p), [pool EXCEPT ![p] = InUse(None, {})])

WholePacket(f) ==
  /\ f.type = "whole" /\ CanStart(f.from, 0)
  /\ SetTimer(0)
  /\ LET p == Unused(pool)
         m == Started(f.from, 0, PacketOf(f.msg).size, p)
     IN \/ /\ ~PacketOf(f.msg).known
           /\ mgr' = m /\ pool' = [pool EXCEPT ![p] = InUse(None, {})]
           /\ UNCHANGED <<working, wanted, polls, own, passed>>
        \/ /\ PacketOf(f.msg).known
           /\ mgr' = [m EXCEPT !.valid = FALSE]
           /\ Received(p, [pool EXCEPT ![p] = InUse(PacketOf(f.msg).dst, {<<f.msg, 0>>})])

Receive(f) == /\ CollectFragment(f) \/ FirstFragment(f) \/ WholePacket(f)
              /\ UNCHANGED <<tag, next, air, table>>

-----------------------------------------------------------------------------
(***************************************************************************)
(* timeout().  All these timers run for the same time, so that they fire   *)
(* in the order in which they were set.                                    *)
(***************************************************************************)
Cancels(t) == mgr.valid /\ mgr.got < mgr.size /\ mgr.tag = t

Timeout ==
  /\ timeouts # <<>> /\ timeouts' = Tail(timeouts)
  /\ IF Cancels(Head(timeouts))
     THEN /\ mgr' = [mgr EXCEPT !.valid = FALSE]
          /\ pool' = [pool EXCEPT ![mgr.slot] = Free]
     ELSE UNCHANGED <<mgr, pool>>
  /\ UNCHANGED <<tag, next, air, table, working, wanted, polls, own, passed>>

(***************************************************************************)
(* search_for_a_route(): the entry goes into a table that forgets what it  *)
(* has no room for.                                                        *)
(***************************************************************************)
SearchForARoute ==
  /\ working /\ working' = FALSE
  /\ table' = IF Cardinality(table) < TableSize THEN table \cup {wanted} ELSE table
  /\ UNCHANGED <<tag, next, air, pool, mgr, timeouts, wanted, polls, own, passed>>

(***************************************************************************)
(* routing_polling(): sends what is in this place of the pool by now.      *)
(***************************************************************************)
RoutingPolling(p) ==
  /\ polls[p] > 0
  /\ LET left == [polls EXCEPT ![p] = @ - 1]
     IN \/ pool[p].valid /\ SendOn(p, pool, left, passed)
        \/ /\ ~pool[p].valid /\ polls' = left
           /\ UNCHANGED <<pool, working, wanted, passed>>
  /\ UNCHANGED <<tag, next, air, mgr, timeouts, table, own>>

Next == \/ \E n \in Neighbour : NeighbourSends(n)
        \/ \E d \in Dest : UdpSend(d)
        \/ \E f \in air : Receive(f)
        \/ Timeout \/ SearchForARoute
        \/ \E p \in Slot : RoutingPolling(p)

(***************************************************************************)
(* Timers fire.                                                            *)
(***************************************************************************)
Fairness == /\ WF_vars(Timeout) /\ WF_vars(SearchForARoute)
            /\ \A p \in Slot : WF_vars(RoutingPolling(p))

Spec == Init /\ [][Next]_vars /\ Fairness

-----------------------------------------------------------------------------
(***************************************************************************)
(* The members of the classes (ipv6_packet_pool_manager.h:140,             *)
(* reassembling_manager.h:172-238, simple_queryable_routing.h:298-313).    *)
(***************************************************************************)
TypeOK ==
  /\ tag \in [Neighbour -> 0..TagMod - 1] /\ own \in 0..MaxOwn
  /\ \A p \in Slot : \/ pool[p] = Free
                     \/ pool[p].valid /\ pool[p].dst \in Dest \cup {Self, None}
  /\ mgr.valid \in BOOLEAN /\ mgr.slot \in Slot /\ mgr.tag \in 0..TagMod - 1
  /\ {mgr.from, mgr.prevFrom} \subseteq Neighbour \cup {None}
  /\ Len(timeouts) <= MaxTimeouts
  /\ table \subseteq Dest \ LinkLocal /\ Cardinality(table) <= TableSize
  /\ polls \in [Slot -> Nat] /\ working \in BOOLEAN
  /\ working => wanted \in Dest \ LinkLocal

(***************************************************************************)
(* Every packet in use belongs to exactly one: the reassembling manager or *)
(* one timer of routing_polling(); and nothing else is in use.  A timer    *)
(* that outlived its packet would send what another has put there, and     *)
(* clean it (UDP::send(), IPv6::receive(), routing_polling(), timeout():   *)
(* udp.h:513-518, ipv6.h:1103, 1141-1161, reassembling_manager.h:155-164). *)
(***************************************************************************)
OneOwner ==
  \A p \in Slot :
    LET reassembling == mgr.valid /\ mgr.slot = p
    IN /\ polls[p] <= 1
       /\ ~(reassembling /\ polls[p] = 1)
       /\ pool[p].valid <=> reassembling \/ polls[p] = 1

(***************************************************************************)
(* What goes on to another node or up to UDP is all of one packet, however *)
(* fragments are lost, repeated, reordered and mixed with others and       *)
(* packets given up; provided no sender uses a tag twice                   *)
(* (receive(), is_it_new_offset(): lowpan.h:1192-1217, 1343-1379).         *)
(***************************************************************************)
Intact == \A x \in passed : x.parts # {} => IsWhole(x.parts)

(***************************************************************************)
(* Every place of the pool is free again and again, unless what is in it   *)
(* waits for a route that no longer fits (timeout(), routing_polling(),    *)
(* search_for_a_route(): reassembling_manager.h:155-170, ipv6.h:1141-1161, *)
(* simple_queryable_routing.h:455-478).                                    *)
(***************************************************************************)
WaitsForEver(p) == /\ pool[p].valid /\ Cardinality(table) = TableSize
                   /\ ~Available(pool[p].dst)

PoolFrees == \A p \in Slot : []<>(~pool[p].valid \/ WaitsForEver(p))

(***************************************************************************)
(* When the timer that was set for a packet expires and the packet is      *)
(* still being reassembled, it is cancelled (timeout():                    *)
(* reassembling_manager.h:151-164).                                        *)
(***************************************************************************)
CancelledWhenOld ==
  [][Timeout /\ mgr.valid /\ mgr.tag = Head(timeouts) => ~mgr'.valid]_vars
=============================================================================
