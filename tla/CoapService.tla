---------------------------- MODULE CoapService -----------------------------
(***************************************************************************)
(* The CoAP service of wiselib.testing/radio/coap/coap_service_static.h:   *)
(* requests and responses over a radio that may lose, repeat and reorder   *)
(* frames.  A node keeps the last messages it sent and the last it         *)
(* received in two lists of fixed size; timers and the messages themselves *)
(* hold pointers into them.                                                *)
(*                                                                         *)
(* Here the lists hold all messages, the newest last, and Kept() are those *)
(* the code still has.  A message takes the place of the one it pushes     *)
(* out, so a pointer to the i-th message sees the newest whose number is   *)
(* equal to i modulo the size of the list: At().                           *)
(*                                                                         *)
(* Payload, path and options but the token are left out, and so are frames *)
(* that cannot be parsed, requests without callback, and a radio that      *)
(* refuses a frame.                                                        *)
(***************************************************************************)
EXTENDS Integers, Sequences, FiniteSetsExt

CONSTANTS Node,
          Setups,          \* how the service is built and used, see Setup
          MaxCalls,        \* the most calls of a node
          MaxRetransmit,   \* COAP_MAX_RETRANSMIT
          MaxFaults,       \* bound: frames lost and frames repeated
          MaxReceived      \* bound: messages a node puts into its list

Call == Node \X (1..MaxCalls)

(***************************************************************************)
(* Of a setup: what the application of each node asks, in order; msg_id_   *)
(* after init(), which is random; sent_list_size_, received_list_size_;    *)
(* whether what a message brings about, but for later replies, has ended   *)
(* when it is sent again, 2 seconds later at least; and the nodes whose    *)
(* resources may reply after the callback.                                 *)
(***************************************************************************)
Setup == [requests : [Node -> Seq([to : Node, type : {"CON", "NON"}])],
          firstId : [Node -> Nat], sentSize : Nat \ {0}, receivedSize : Nat \ {0},
          timely : BOOLEAN, deferring : SUBSET Node]

CoapAssumption ==
  /\ {MaxCalls, MaxRetransmit, MaxFaults, MaxReceived} \subseteq Nat
  /\ Setups \subseteq Setup
  /\ \A s \in Setups : \A n \in Node :
       /\ Len(s.requests[n]) <= MaxCalls
       /\ \A k \in DOMAIN s.requests[n] : s.requests[n][k].to # n

VARIABLES setup,            \* fixed at the start
          sent, received,   \* sent_ and received_, see above
          ids,              \* msg_id_
          resend,           \* messages sent that a retransmit_timeout() is set for
          due,              \* messages received that an ack_timeout() is set for
          open,             \* messages received the application is still to reply to
          air,              \* frames on their way
          faults,           \* frames lost and repeated so far
          executed,         \* how often a call was handed to the resource asked
          answers           \* what the callback of a call was given, in order

vars == <<setup, sent, received, ids, resend, due, open, air, faults, executed, answers>>

(***************************************************************************)
(* A call names its token: init() draws a random one of 32 bits and token()*)
(* counts up, so that those of two nodes differ.  Numbers have 16 bits.    *)
(***************************************************************************)
Message(type, id, token, code, body) ==
  [type |-> type, id |-> id, token |-> token, code |-> code, body |-> body]

EmptyMessage(type, id) == Message(type, id, <<>>, "empty", <<>>)

Frame(n, p, m) == [from |-> n, to |-> p, msg |-> m]

Newest(S) == IF S = {} THEN 0 ELSE Max(S)

Kept(list, size) == {i \in DOMAIN list : i > Len(list) - size}

At(list, size, i) == Newest({j \in DOMAIN list : j % size = i % size})

ById(list, size, p, id) ==
  Newest({i \in Kept(list, size) : list[i].peer = p /\ list[i].msg.id = id})

ByToken(list, size, p, token) ==
  Newest({i \in Kept(list, size) : list[i].peer = p /\ list[i].msg.token = token})

Sending(list, p, m) ==
  Append(list, [peer |-> p, msg |-> m, retries |-> 0, acked |-> FALSE, answered |-> FALSE])

Receiving(n, f) ==
  Append(received[n], [peer |-> f.from, msg |-> f.msg, ack |-> 0, response |-> 0])

Requests(n) == setup.requests[n]

Init == /\ setup \in Setups
        /\ sent = [n \in Node |-> <<>>]
        /\ received = [n \in Node |-> <<>>]
        /\ ids = setup.firstId
        /\ resend = [n \in Node |-> {}]
        /\ due = [n \in Node |-> {}]
        /\ open = [n \in Node |-> {}]
        /\ air = {}
        /\ faults = 0
        /\ executed = [c \in Call |-> 0]
        /\ answers = [c \in Call |-> <<>>]

(***************************************************************************)
(* send_coap_as_is(); `rest' are the other frames on their way.            *)
(***************************************************************************)
SendAsIs(n, p, m, rest) ==
  /\ sent' = [sent EXCEPT ![n] = Sending(@, p, m)]
  /\ air' = rest \cup {Frame(n, p, m)}
  /\ resend' = [resend EXCEPT ![n] = IF m.type = "CON" THEN @ \cup {Len(sent[n]) + 1} ELSE @]

SendNothing(rest) == air' = rest /\ UNCHANGED <<sent, resend>>

Asked == {c \in Call : \E i \in DOMAIN sent[c[1]] : LET m == sent[c[1]][i].msg
                                                    IN m.code = "request" /\ m.token = c}

\* request(), which get(), put(), post() and del() call
Request(n, k) ==
  LET r == Requests(n)[k]
  IN /\ k \in DOMAIN Requests(n)
     /\ \A j \in DOMAIN Requests(n) : <<n, j>> \in Asked <=> j < k
     /\ SendAsIs(n, r.to, Message(r.type, ids[n], <<n, k>>, "request", <<n, k>>), air)
     /\ ids' = [ids EXCEPT ![n] = @ + 1]
     /\ UNCHANGED <<setup, received, due, open, faults, executed, answers>>

(***************************************************************************)
(* reply() to the i-th message of the list `got', with what the            *)
(* application has computed for the call `body'.                           *)
(***************************************************************************)
Piggybacked(q) == q.msg.type = "CON" /\ q.ack = 0

Reply(n, got, i, body, rest) ==
  LET j == At(got, setup.receivedSize, i)
      q == got[j]
      next == Len(sent[n]) + 1
  IN IF q.msg.type \notin {"CON", "NON"}
     THEN received' = [received EXCEPT ![n] = got] /\ SendNothing(rest) /\ UNCHANGED ids
     ELSE IF Piggybacked(q)
     THEN /\ SendAsIs(n, q.peer,
                      Message("ACK", q.msg.id, q.msg.token, "response", body), rest)
          /\ received' = [received EXCEPT ![n] =
                            [got EXCEPT ![j].ack = next, ![j].response = next]]
          /\ UNCHANGED ids
     ELSE /\ SendAsIs(n, q.peer,
                      Message(q.msg.type, ids[n], q.msg.token, "response", body), rest)
          /\ received' = [received EXCEPT ![n] = [got EXCEPT ![j].response = next]]
          /\ ids' = [ids EXCEPT ![n] = @ + 1]

\* The application replies to a reference it was given in a callback.
ReplyLater(n, i) ==
  /\ i \in open[n]
  /\ open' = [open EXCEPT ![n] = @ \ {i}]
  /\ Reply(n, received[n], i, received[n][i].msg.body, air)
  /\ UNCHANGED <<setup, due, faults, executed, answers>>

(***************************************************************************)
(* receive(): a frame f that is no copy, for the list has none of its      *)
(* source and number; a copy of one that is there; `rest' as above.        *)
(***************************************************************************)
Original(n, f) == ById(received[n], setup.receivedSize, f.from, f.msg.id)

New(n, f) == Original(n, f) = 0 /\ Len(received[n]) < MaxReceived

\* handle_request(): the resource replies in the callback, or later.
ReceiveRequest(n, f, rest) ==
  LET got == Receiving(n, f)
      i == Len(got)
  IN /\ New(n, f) /\ f.msg.code = "request"
     /\ due' = [due EXCEPT ![n] = IF f.msg.type = "CON" THEN @ \cup {i} ELSE @]
     /\ executed' = [executed EXCEPT ![f.msg.body] = @ + 1]
     /\ \/ Reply(n, got, i, f.msg.body, rest) /\ UNCHANGED open
        \/ /\ n \in setup.deferring
           /\ open' = [open EXCEPT ![n] = @ \cup {i}]
           /\ received' = [received EXCEPT ![n] = got]
           /\ SendNothing(rest) /\ UNCHANGED ids
     /\ UNCHANGED answers

(***************************************************************************)
(* handle_response(): the r-th message sent is the request found; its      *)
(* place may be taken by the acknowledgement, which is sent first.  Only   *)
(* requests have a callback of the application.                            *)
(***************************************************************************)
Given(m, body) ==
  IF m.code = "request" THEN [answers EXCEPT ![m.token] = Append(@, body)] ELSE answers

\* Slip: the message with the number is taken for the request.
MatchingById(n, f, r) ==
  IF r # 0 THEN r ELSE ByToken(sent[n], setup.sentSize, f.from, f.msg.token)

Matching(n, f, r) ==
  IF r # 0 /\ sent[n][r].msg.token = f.msg.token THEN r
  ELSE ByToken(sent[n], setup.sentSize, f.from, f.msg.token)

ReceiveResponse(n, f, rest) ==
  LET got == Receiving(n, f)
      i == Len(got)
      r == Matching(n, f, 0)
      id == f.msg.id
      acked == Sending(sent[n], f.from, EmptyMessage("ACK", id))
      list == IF f.msg.type = "CON" THEN acked ELSE sent[n]
      place == At(list, setup.sentSize, r)
  IN /\ New(n, f) /\ f.msg.code = "response" /\ f.msg.type \in {"CON", "NON"}
     /\ IF r = 0
        THEN /\ answers' = answers
             /\ IF f.msg.type = "CON"
                THEN /\ SendAsIs(n, f.from, EmptyMessage("RST", id), rest)
                     /\ received' = [received EXCEPT ![n] =
                                       [got EXCEPT ![i].response = Len(sent[n]) + 1]]
                ELSE SendNothing(rest) /\ received' = [received EXCEPT ![n] = got]
        ELSE /\ answers' = Given(list[place].msg, f.msg.body)
             /\ sent' = [sent EXCEPT ![n] = [list EXCEPT ![place].answered = TRUE]]
             /\ air' = IF f.msg.type = "CON"
                       THEN rest \cup {Frame(n, f.from, EmptyMessage("ACK", id))} ELSE rest
             /\ received' = [received EXCEPT ![n] =
                               IF f.msg.type = "CON" THEN [got EXCEPT ![i].ack = Len(acked)]
                               ELSE got]
             /\ UNCHANGED resend
     /\ UNCHANGED <<ids, due, open, executed>>

ReceiveAck(n, f, rest) ==
  LET r == ById(sent[n], setup.sentSize, f.from, f.msg.id)
      q == Matching(n, f, r)
      answered == r # 0 /\ f.msg.code = "response" /\ q # 0
      marked == IF r = 0 THEN sent[n] ELSE [sent[n] EXCEPT ![r].acked = TRUE]
  IN /\ New(n, f) /\ f.msg.type = "ACK"
     /\ received' = [received EXCEPT ![n] = Receiving(n, f)]
     /\ sent' = [sent EXCEPT ![n] =
                   IF answered THEN [marked EXCEPT ![q].answered = TRUE] ELSE marked]
     /\ answers' = IF answered THEN Given(sent[n][q].msg, f.msg.body) ELSE answers
     /\ air' = rest
     /\ UNCHANGED <<ids, resend, due, open, executed>>

ReceiveReset(n, f, rest) ==
  LET r == ById(sent[n], setup.sentSize, f.from, f.msg.id)
  IN /\ New(n, f) /\ f.msg.type = "RST"
     /\ received' = [received EXCEPT ![n] = Receiving(n, f)]
     /\ answers' = IF r = 0 THEN answers ELSE Given(sent[n][r].msg, f.msg.body)
     /\ SendNothing(rest)
     /\ UNCHANGED <<ids, due, open, executed>>

(***************************************************************************)
(* ack(): what was sent as the acknowledgement of the j-th message, or a   *)
(* new one.                                                                *)
(***************************************************************************)
\* Slip: it is forgotten that the acknowledgement carried the response.
AckAnew(n, j, rest) ==
  /\ SendAsIs(n, received[n][j].peer, EmptyMessage("ACK", received[n][j].msg.id), rest)
  /\ received' = [received EXCEPT ![n][j].ack = Len(sent[n]) + 1]

Ack(n, j, rest) ==
  LET q == received[n][j]
      old == sent[n][At(sent[n], setup.sentSize, q.ack)]
  IN IF q.ack # 0
     THEN SendNothing(rest \cup {Frame(n, q.peer, old.msg)}) /\ UNCHANGED received
     ELSE /\ SendAsIs(n, q.peer, EmptyMessage("ACK", q.msg.id), rest)
          /\ received' = [received EXCEPT ![n][j].ack = Len(sent[n]) + 1]

\* The response sent to the j-th message goes out again unless ack() did that.
ResponseAgain(n, j, list) ==
  LET q == received[n][j]
      m == list[At(list, setup.sentSize, q.response)].msg
  IN IF q.response # 0 /\ m.type # "ACK" THEN {Frame(n, q.peer, m)} ELSE {}

ReceiveCopy(n, f, rest) ==
  LET d == Original(n, f)
      list == IF f.msg.type = "CON" /\ received[n][d].ack = 0
              THEN Sending(sent[n], received[n][d].peer,
                           EmptyMessage("ACK", received[n][d].msg.id))
              ELSE sent[n]
      all == rest \cup ResponseAgain(n, d, list)
  IN /\ d # 0
     /\ IF f.msg.type = "CON" THEN Ack(n, d, all) ELSE SendNothing(all) /\ UNCHANGED received
     /\ UNCHANGED <<ids, due, open, executed, answers>>

(***************************************************************************)
(* The timers.  A message is sent MaxRetransmit times again; that many     *)
(* timers may run for a place as messages have taken it.                   *)
(***************************************************************************)
AckTimeout(n, i) ==
  LET j == At(received[n], setup.receivedSize, i)
  IN /\ i \in due[n]
     /\ due' = [due EXCEPT ![n] = @ \ {i}]
     /\ IF received[n][j].ack = 0 THEN Ack(n, j, air)
        ELSE SendNothing(air) /\ UNCHANGED received
     /\ UNCHANGED <<setup, ids, open, faults, executed, answers>>

Settled(m) == m.acked \/ m.answered

InTime(n, m) ==
  /\ \A f \in air : {f.from, f.to} = {n, m.peer} => f.msg.id # m.msg.id
  /\ \A i \in due[m.peer] : LET q == received[m.peer][i]
                            IN <<q.peer, q.msg.id>> # <<n, m.msg.id>>

RetransmitTimeout(n, i) ==
  LET j == At(sent[n], setup.sentSize, i)
      m == sent[n][j]
  IN /\ i \in resend[n]
     /\ setup.timely => InTime(n, m)
     /\ IF Settled(m) THEN resend' = [resend EXCEPT ![n] = @ \ {i}] /\ UNCHANGED <<sent, air>>
        ELSE /\ air' = air \cup {Frame(n, m.peer, m.msg)}
             /\ sent' = [sent EXCEPT ![n][j].retries = @ + 1]
             /\ resend' = IF m.retries + 1 < MaxRetransmit THEN resend
                          ELSE [resend EXCEPT ![n] = @ \ {i}]
     /\ UNCHANGED <<setup, received, ids, due, open, faults, executed, answers>>

(***************************************************************************)
(* The radio below: a frame is taken, may stay on its way for another      *)
(* time, or is lost.                                                       *)
(***************************************************************************)
Take(n, f, rest) ==
  \/ ReceiveRequest(n, f, rest)
  \/ ReceiveResponse(n, f, rest)
  \/ ReceiveAck(n, f, rest)
  \/ ReceiveReset(n, f, rest)
  \/ ReceiveCopy(n, f, rest)

Deliver(f) == Take(f.to, f, air \ {f}) /\ UNCHANGED <<setup, faults>>

DeliverAndRepeat(f) == /\ faults < MaxFaults /\ faults' = faults + 1
                       /\ Take(f.to, f, air) /\ UNCHANGED setup

Lose(f) == /\ faults < MaxFaults /\ faults' = faults + 1
           /\ air' = air \ {f}
           /\ UNCHANGED <<setup, sent, received, ids, resend, due, open, executed, answers>>

\* Frames that are not lost arrive, timers fire and applications reply.
GoesOn == \/ \E f \in air : Deliver(f)
          \/ \E n \in Node : \/ \E i \in open[n] : ReplyLater(n, i)
                             \/ \E i \in due[n] : AckTimeout(n, i)
                             \/ \E i \in resend[n] : RetransmitTimeout(n, i)

Next == \/ \E n \in Node : \E k \in DOMAIN Requests(n) : Request(n, k)
        \/ GoesOn
        \/ \E f \in air : DeliverAndRepeat(f) \/ Lose(f)

Spec == Init /\ [][Next]_vars

(***************************************************************************)
(* A confirmable request is answered if no more frames are lost than it is *)
(* sent again, whether its resource replies in time for its answer to be   *)
(* part of the acknowledgement or later (coap_service_static.h:820-874,    *)
(* 1163-1195, 1250-1296).                                                  *)
(***************************************************************************)
Confirmable(c) == c \in Asked /\ Requests(c[1])[c[2]].type = "CON"

Answered == \A c \in Call : setup.timely /\ Confirmable(c) ~> answers[c] # <<>>

\* What a message was taken for fits what it is, and the pointers lie in the lists.
TypeOK ==
  \A n \in Node :
    /\ Len(received[n]) <= MaxReceived
    /\ resend[n] \subseteq {i \in DOMAIN sent[n] : sent[n][i].msg.type = "CON"}
    /\ due[n] \cup open[n] \subseteq
         {i \in DOMAIN received[n] : received[n][i].msg.code = "request"}
    /\ \A i \in DOMAIN received[n] :
         {received[n][i].ack, received[n][i].response} \subseteq 0..Len(sent[n])
==============================================================================
