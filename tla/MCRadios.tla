------------------------------ MODULE MCRadios -------------------------------
(***************************************************************************)
(* Five layers between a radio and its users for TLC, each on nodes of its *)
(* own: `part' is the one that runs, chosen at the start.  These are the   *)
(* connection-based reliable radio (C) in any use, the IPv6 stack of node  *)
(* c (L), the CoAP service in three uses (K), the packing radio (P), and   *)
(* the other reliable radio, with the names of ReliableRadio, in timely    *)
(* use.                                                                    *)
(***************************************************************************)
EXTENDS ReliableRadio

CONSTANTS a, b, c, x, y, z, None, All,
          \* of the connection-based radio, the stack, the service, the packing radio
          connFlow, connBroadcasting, connPending, connRecv, connConnections, connSeqMod,
          connTimeMod, connPeriod, connSends,
          stackSelf, stackNeighbour, stackDest, stackLinkLocal, stackPackets, stackFragLen,
          stackTags, stackPool, stackTable, stackOwn, stackTimeouts,
          coapSetups, coapCalls, coapRetransmit, coapFaults, coapReceived,
          packSends, packBuffer, packTimers

VARIABLES part,
          halted, clock, phase, open, pending, cAir, sent, unnumbered, confirmed,
          cHeard, early,
          tag, next, frames, pool, mgr, timeouts, table, working, wanted, polls, own, passed,
          setup, kSent, received, ids, resend, due, kOpen, kAir, faults, executed, answers,
          timed, receiver, packer, pAir, asked, handed

cVars == <<halted, clock, phase, open, pending, cAir, sent, unnumbered, confirmed,
           cHeard, early>>
lVars == <<tag, next, frames, pool, mgr, timeouts, table, working, wanted, polls, own, passed>>
kVars == <<setup, kSent, received, ids, resend, due, kOpen, kAir, faults, executed, answers>>
pVars == <<timed, receiver, packer, pAir, asked, handed>>

TwoSenders == {<<a, c>>, <<b, c>>}

FromA == {<<a, b>>, <<a, c>>}

C == INSTANCE ConnectionRadio WITH Flow <- connFlow, Broadcasting <- connBroadcasting,
       MaxPending <- connPending, MaxConnections <- connConnections, MaxRecv <- connRecv,
       SeqMod <- connSeqMod, TimeMod <- connTimeMod, DaemonPeriod <- connPeriod,
       MaxSends <- connSends,
       air <- cAir, heard <- cHeard      \* MaxRetries is the same for both

(***************************************************************************)
(* To node c, next to a and b: packets for it (c) and for nodes further    *)
(* away, x, y and the link-local z.                                        *)
(***************************************************************************)
PacketTo(dst, size, known) == [dst |-> dst, size |-> size, known |-> known]

ToC == [n \in {a, b} |->
  IF n = a THEN <<PacketTo(x, 3, TRUE), PacketTo(c, 4, TRUE), PacketTo(z, 1, TRUE)>>
  ELSE <<PacketTo(x, 3, FALSE), PacketTo(c, 1, FALSE)>>]

L == INSTANCE LowpanStack WITH Self <- stackSelf, Neighbour <- stackNeighbour,
       Dest <- stackDest, LinkLocal <- stackLinkLocal, Packets <- stackPackets,
       FragLen <- stackFragLen, TagMod <- stackTags, PoolSize <- stackPool,
       TableSize <- stackTable, SendFails <- FALSE, MaxOwn <- stackOwn,
       MaxTimeouts <- stackTimeouts, air <- frames

(***************************************************************************)
(* The CoAP service with lists long enough, timers that are not early and  *)
(* different message ids; with room for one message sent, any timing and   *)
(* equal ids; and with room for two received as well.  The resources of c  *)
(* reply when they like in the first two.                                  *)
(***************************************************************************)
Ask(p, type) == <<[to |-> p, type |-> type]>>

EachOther == [n \in Node |-> CASE n = a -> Ask(c, "CON") [] n = c -> Ask(a, "NON")
                              [] OTHER -> <<>>]

BothAskC == [n \in Node |-> IF n = c THEN <<>> ELSE Ask(c, "CON")]

DifferentIds == [n \in Node |-> IF n = c THEN 5 ELSE 1]

EqualIds == [n \in Node |-> 1]

Service(requests, firstId, most, mostReceived, timely, deferring) ==
  [requests |-> requests, firstId |-> firstId, sentSize |-> most,
   receivedSize |-> mostReceived, timely |-> timely, deferring |-> deferring]

ThreeServices == {Service(EachOther, DifferentIds, 10, 10, TRUE, {c}),
                  Service(EachOther, EqualIds, 1, 10, FALSE, {c}),
                  Service(BothAskC, EqualIds, 1, 2, FALSE, {})}

K == INSTANCE CoapService WITH Setups <- coapSetups, MaxCalls <- coapCalls,
       MaxRetransmit <- coapRetransmit, MaxFaults <- coapFaults, MaxReceived <- coapReceived,
       sent <- kSent, open <- kOpen, air <- kAir

(***************************************************************************)
(* Messages to one, to the other and to all, one of them empty and two     *)
(* that only just fit together.                                            *)
(***************************************************************************)
Sized(p, size) == [to |-> p, size |-> size]

Packed == [n \in Node |-> CASE n = a -> <<Sized(b, 2), Sized(b, 1), Sized(b, 0), Sized(c, 4), Sized(b, 1)>>
                            [] n = c -> <<Sized(All, 1), Sized(b, 0)>>
                            [] OTHER -> <<>>]

P == INSTANCE PackingRadio WITH Sends <- packSends, BufferSize <- packBuffer,
       Timers <- packTimers, air <- pAir

ASSUME RadiosAssumption ==
  /\ P!PackingAssumption /\ C!ConnectionAssumption /\ L!LowpanAssumption
  /\ K!CoapAssumption

PartInit == /\ part \in {"connections", "stack", "buffers", "packing", "service"}
            /\ C!Init /\ L!Init /\ Init /\ P!Init /\ K!Init
            /\ part # "service" => setup = CHOOSE s \in coapSetups : TRUE
            /\ part # "buffers" => status = [n \in Node |-> "active"]
            /\ part # "packing" => timed = {} /\ receiver = [n \in Node |-> All]

PartNext == \/ part = "connections" /\ C!Next /\ UNCHANGED <<part, lVars, kVars, pVars, vars>>
            \/ part = "stack" /\ L!Next /\ UNCHANGED <<part, cVars, kVars, pVars, vars>>
            \/ part = "buffers" /\ TimelyNext /\ UNCHANGED <<part, cVars, lVars, kVars, pVars>>
            \/ part = "packing" /\ P!Next /\ UNCHANGED <<part, cVars, lVars, kVars, vars>>
            \/ part = "service" /\ K!Next /\ UNCHANGED <<part, cVars, lVars, pVars, vars>>

(***************************************************************************)
(* The timers fire, and in the service the application replies and frames  *)
(* that are not lost arrive: see ConnectionRadio, LowpanStack, CoapService.*)
(***************************************************************************)
TimersFire ==
  /\ WF_cVars(part = "connections" /\ C!TimePasses(a))
  /\ WF_cVars(part = "connections" /\ C!Daemon(a))
  /\ WF_lVars(part = "stack" /\ L!Timeout)
  /\ WF_lVars(part = "stack" /\ L!SearchForARoute)
  /\ \A p \in L!Slot : WF_lVars(part = "stack" /\ L!RoutingPolling(p))
  /\ WF_kVars(part = "service" /\ setup.timely /\ K!GoesOn)
  /\ \A n \in {a, c} : WF_pVars(part = "packing" /\ P!OnTime(n))

PartSpec == PartInit /\ [][PartNext]_<<part, cVars, lVars, kVars, pVars, vars>> /\ TimersFire

(***************************************************************************)
(* Type correctness of the connection-based radio, the stack, the service, *)
(* the packing radio.                                                      *)
(***************************************************************************)
TypesOK == C!TypeOK /\ L!TypeOK /\ K!TypeOK /\ P!TypeOK

(***************************************************************************)
(* Acknowledged messages were handed up, a message is handed up again only *)
(* when its number has left the window: see ConnectionRadio                *)
(* (reliableradio.h:442-541, 584-596, 629-650).                            *)
(***************************************************************************)
AckMeansHeard == C!AckMeansHeard

AgainOnlyIfOvertaken == C!AgainOnlyIfOvertaken

(***************************************************************************)
(* A packet of the pool has one owner and what goes on is all of one       *)
(* packet: see LowpanStack (udp.h:513-518, ipv6.h:1103-1161,               *)
(* lowpan.h:1192-1217, reassembling_manager.h:82-170).  What the packing   *)
(* radio takes is sent once, in order, to its receiver, and comes out of   *)
(* the frame as it went in: see PackingRadio (packing_radio.h:113-169).    *)
(***************************************************************************)
PacketsIntact == L!OneOwner /\ L!Intact /\ P!PackedOnce /\ P!AllUnpacked

(***************************************************************************)
(* Of each request one answer, its own, and only where the list of what    *)
(* was received is too short is a request handled again: the service does  *)
(* what RemoteCalls says (coap_service_static.h:810-889, 1127-1200).       *)
(***************************************************************************)
Calls == INSTANCE RemoteCalls WITH
  Call <- K!Call, forgetful <- (setup.receivedSize < coapReceived)

CallSpec == Calls!Spec

(***************************************************************************)
(* Every message is acknowledged or given up, the pool of the stack does   *)
(* not fill up for good, every request is answered, and with a timer no    *)
(* message waits in the buffer of the packing radio for ever: see          *)
(* PackingRadio (packing_radio.h:143-146),                                 *)
(* ConnectionRadio (reliableradio.h:314-377), LowpanStack                  *)
(* (reassembling_manager.h:155-170, ipv6.h:1141-1161), CoapService         *)
(* (coap_service_static.h:820-874, 1163-1195, 1250-1296).                  *)
(***************************************************************************)
AllSettled == /\ part = "connections" => C!PendingEnds
              /\ part = "stack" => L!PoolFrees
              /\ part = "service" => K!Answered
              /\ part = "packing" => P!AllSent
==============================================================================
