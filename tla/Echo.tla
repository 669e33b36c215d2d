-------------------------------- MODULE Echo ---------------------------------
(***************************************************************************)
(* The neighbor discovery Echo (wiselib.testing/algorithms/                *)
(* neighbor_discovery/echo.h).  Every period a node sends a beacon with    *)
(* the list of the nodes it hears regularly, the stable ones; a stable     *)
(* node whose list names the receiver is a bidirectional neighbor.         *)
(* Algorithms are told of changes by events.                               *)
(*                                                                         *)
(* A handler runs to completion.  Time goes by in rounds, the period of    *)
(* the beacons: each chain of say_hello() timers fires once in a round, in *)
(* any order, so that what was heard k rounds ago is between k-1 and k+1   *)
(* periods old.  A beacon that was not heard before the next is lost.      *)
(*                                                                         *)
(* As in the build: no LQI and no stability thresholds.  Left out are the  *)
(* statistics of a stable neighbor and the payloads of algorithms.         *)
(***************************************************************************)
EXTENDS Naturals, FiniteSets

CONSTANTS Node,
          Setups,     \* networks and how they are used, see `setup'
          MaxNodes,   \* ECHO_MAX_NODES
          Timeout,    \* timeout_period / beacon_period
          MaxChains   \* bound: calls of enable() of a node

EchoAssumption ==
  /\ Setups \subseteq [link : SUBSET {e \in Node \X Node : e[1] # e[2]},
                       lossy : BOOLEAN, switching : SUBSET Node]
  /\ {MaxNodes, MaxChains} \subseteq Nat \ {0}
  /\ Timeout \in Nat \ {0, 1}

VARIABLES setup,      \* link: pairs <<a, b>>, b is in communication range of a; lossy:
                      \* whether the radio loses beacons; switching: nodes whose application
                      \* calls disable(), and enable() again; fixed at the start
          searching,  \* nodes with status SEARCHING
          neighborhood,  \* a function on the nodes heard; entries are never removed
          list,       \* the nodes that the last beacon of a node names
          pending,    \* nodes the last beacon is still on its way to
          chains,     \* say_hello() timers that are running
          owed,       \* those that are still to fire in this round
          told,       \* what the events said: pairs <<neighbor, kind>> that hold
          forgotten   \* pairs told that enable() cleared without an event

vars == <<setup, searching, neighborhood, list, pending, chains, owed, told,
          forgotten>>

InRange(n) == {m \in Node : <<n, m>> \in setup.link}

(***************************************************************************)
(* `level' stands for active, stable and bidi, each of which implies the   *)
(* one before; `row' is beacons_in_row as long as the node is not stable,  *)
(* `age' the rounds since last_echo.                                       *)
(***************************************************************************)
Entry(level, row) == [level |-> level, row |-> row, age |-> 0]

Known(n)  == DOMAIN neighborhood[n]
Level(n, m) == IF m \in Known(n) THEN neighborhood[n][m].level ELSE "unknown"
Active(n) == {m \in Known(n) : Level(n, m) # "inactive"}
Stable(n) == {m \in Known(n) : Level(n, m) \in {"stable", "bidi"}}   \* is_neighbor()
Bidi(n)   == {m \in Known(n) : Level(n, m) = "bidi"}                 \* is_neighbor_bidi()

Init == /\ setup \in Setups
        /\ searching = {}
        /\ neighborhood = [n \in Node |-> <<>>]
        /\ list = [n \in Node |-> {}]
        /\ pending = [n \in Node |-> {}]
        /\ chains = [n \in Node |-> 0]
        /\ owed = [n \in Node |-> 0]
        /\ told = [n \in Node |-> {}]
        /\ forgotten = [n \in Node |-> {}]

(***************************************************************************)
(* The radio that loses nothing: a beacon comes before the next is sent.   *)
(***************************************************************************)
Clear == setup.lossy \/ \A n \in Node : pending[n] \cap searching = {}

Beacon(n, names) == /\ list' = [list EXCEPT ![n] = names]
                    /\ pending' = [pending EXCEPT ![n] = InRange(n)]

(***************************************************************************)
(* enable(): the neighborhood is cleared, the first beacon sent, and one   *)
(* more chain of timers begins.                                            *)
(***************************************************************************)
Enable(n) ==
  /\ n \notin searching /\ chains[n] < MaxChains /\ Clear
  /\ searching' = searching \cup {n}
  /\ neighborhood' = [neighborhood EXCEPT ![n] = <<>>]
  /\ forgotten' = [forgotten EXCEPT ![n] = told[n]]
  /\ chains' = [chains EXCEPT ![n] = @ + 1]
  /\ Beacon(n, {})
  /\ UNCHANGED <<setup, owed, told>>

Disable(n) ==
  /\ n \in searching
  /\ searching' = searching \ {n}
  /\ UNCHANGED <<setup, neighborhood, list, pending, chains, owed, told, forgotten>>

(***************************************************************************)
(* cleanup_nearby(): nodes that have not been heard for timeout_period are *)
(* dropped; those that missed a beacon start to count again.  At the edge  *)
(* either may be; the beacon of this round is missed only if it was sent.  *)
(***************************************************************************)
Age(n, m) == neighborhood[n][m].age

TimesOut(n, dropped) ==
  /\ {m \in Active(n) : Age(n, m) > Timeout} \subseteq dropped
  /\ dropped \subseteq {m \in Active(n) : Age(n, m) >= Timeout}

\* Slip: no tolerance for a beacon that is about to come.
MissedEarly(n, missed) == missed = {m \in Active(n) : Age(n, m) > 0}

Missed(n, missed) ==
  /\ {m \in Active(n) : Age(n, m) > 2} \subseteq missed
  /\ missed \subseteq {m \in Active(n) : \/ Age(n, m) > 1
                                         \/ Age(n, m) = 1 /\ owed[m] < chains[m]}

\* Slip: a node that is dropped stays in the list of those heard both ways.
DroppedButBidi(n, m) ==
  IF Level(n, m) = "bidi" THEN neighborhood[n][m] ELSE Entry("inactive", 0)

DroppedEntry(n, m) == Entry("inactive", 0)

Cleaned(n, dropped, missed) ==
  [m \in Known(n) |-> IF m \in dropped THEN DroppedEntry(n, m)
                      ELSE IF m \in missed THEN [neighborhood[n][m] EXCEPT !.row = 0]
                      ELSE neighborhood[n][m]]

(***************************************************************************)
(* say_hello(): a disabled node still cleans up, but sends no beacon.      *)
(***************************************************************************)
SayHello(n) ==
  /\ owed[n] > 0 /\ Clear
  /\ owed' = [owed EXCEPT ![n] = @ - 1]
  /\ \E dropped \in SUBSET Active(n), missed \in SUBSET Active(n) :
       /\ TimesOut(n, dropped) /\ Missed(n, missed)
       /\ neighborhood' = [neighborhood EXCEPT ![n] = Cleaned(n, dropped, missed)]
       /\ told' = [told EXCEPT ![n] = {t \in @ : t[1] \notin dropped \cap Stable(n)}]
       /\ forgotten' = [forgotten EXCEPT ![n] = {t \in @ : t[1] \notin dropped \cap Stable(n)}]
       /\ IF n \in searching THEN Beacon(n, Stable(n) \ dropped)
                             ELSE UNCHANGED <<list, pending>>
  /\ UNCHANGED <<setup, searching, chains>>

(***************************************************************************)
(* received_beacon(): the second beacon in a row makes a node stable.  A   *)
(* new one, and one that was dropped, needs room in the vector.            *)
(***************************************************************************)
Room(n) == Cardinality(Known(n)) < MaxNodes

Accepted(n, m) == m \in Active(n) \/ Room(n)

Heard(n, m) ==
  IF m \notin Active(n) THEN Entry("active", 1)
  ELSE IF Level(n, m) = "active" /\ neighborhood[n][m].row = 0 THEN Entry("active", 1)
  ELSE IF Level(n, m) = "active" THEN Entry("stable", 0)
  ELSE Entry(Level(n, m), 0)

\* Slip: any list will do.
NamesAnyone(n, m) == list[m] # {}

NamesMe(n, m) == n \in list[m]

(***************************************************************************)
(* receive() of the beacon of m, with the events it brings about.          *)
(***************************************************************************)
Receive(n, m) ==
  LET heard  == Heard(n, m)
      stable == heard.level # "active"
      names  == NamesMe(n, m)
      entry  == IF stable THEN [heard EXCEPT !.level = IF names THEN "bidi" ELSE "stable"]
                          ELSE heard
      new    == {<<m, "nb">> : x \in {m} \ Stable(n)}
                \cup {<<m, "bidi">> : x \in {y \in {m} \ Bidi(n) : names}}
      lost   == {<<m, "bidi">> : x \in {y \in {m} \cap Bidi(n) : ~names}}
  IN /\ n \in pending[m] /\ n \in searching
     /\ pending' = [pending EXCEPT ![m] = @ \ {n}]
     /\ neighborhood' = [neighborhood EXCEPT ![n] =
          IF Accepted(n, m)
          THEN [x \in Known(n) \cup {m} |-> IF x = m THEN entry ELSE @[x]] ELSE @]
     /\ told' = [told EXCEPT ![n] = IF stable THEN (@ \cup new) \ lost ELSE @]
     /\ forgotten' = [forgotten EXCEPT ![n] = IF stable THEN @ \ (new \cup lost) ELSE @]
     /\ UNCHANGED <<setup, searching, list, chains, owed>>

(***************************************************************************)
(* A period has gone by.                                                   *)
(***************************************************************************)
NextRound ==
  /\ \A n \in Node : owed[n] = 0
  /\ owed' = chains
  /\ neighborhood' = [n \in Node |-> [m \in Known(n) |->
                        IF m \in Active(n) THEN [neighborhood[n][m] EXCEPT !.age = @ + 1]
                                           ELSE neighborhood[n][m]]]
  /\ UNCHANGED <<setup, searching, list, pending, chains, told, forgotten>>

GoesOn == NextRound \/ \E n \in Node : SayHello(n) \/ \E m \in Node : Receive(n, m)

Next == \/ \E n \in Node : Enable(n)
        \/ \E n \in setup.switching : Disable(n)
        \/ GoesOn

Spec == Init /\ [][Next]_vars

(***************************************************************************)
(* Timers fire and time goes by.                                           *)
(***************************************************************************)
Fairness == WF_vars(GoesOn)

FairSpec == Spec /\ Fairness
------------------------------------------------------------------------------
Kinds == {"nb", "bidi"}

(***************************************************************************)
(* The members of the class: the vector within its size, nothing older     *)
(* than timeout_period and a round (echo.h:127-177, 1120-1193).            *)
(***************************************************************************)
TypeOK ==
  /\ setup \in Setups /\ searching \subseteq Node
  /\ \A n \in Node :
       /\ Known(n) \subseteq Node \ {n} /\ Cardinality(Known(n)) <= MaxNodes
       /\ \A m \in Known(n) : LET e == neighborhood[n][m]
                               IN /\ e.level \in {"inactive", "active", "stable", "bidi"}
                                  /\ e.row \in {0, 1} /\ e.age \in 0..Timeout + 1
       /\ list[n] \subseteq Node \ {n} /\ pending[n] \subseteq InRange(n)
       /\ chains[n] \in 0..MaxChains /\ owed[n] \in 0..chains[n]
       /\ told[n] \cup forgotten[n] \subseteq Node \X Kinds

(***************************************************************************)
(* An algorithm that only listens to the events knows what is_neighbor()   *)
(* and is_neighbor_bidi() would say; but for what enable() has cleared     *)
(* (notify_listeners(): echo.h:818-829, 977-982, 1157-1160, 1266-1280).    *)
(***************************************************************************)
EventsTell ==
  \A n \in Node :
    told[n] = {<<m, "nb">> : m \in Stable(n)} \cup {<<m, "bidi">> : m \in Bidi(n)}
              \cup forgotten[n]

(***************************************************************************)
(* Neighbors are heard, and bidirectional neighbors hear each other,       *)
(* however beacons are lost and whatever neighbors did before              *)
(* (receive(), add_list_to_beacon(): echo.h:733-829, 1300-1317).           *)
(***************************************************************************)
BidiBothWays ==
  \A n \in Node : /\ Stable(n) \subseteq {m \in Node : n \in InRange(m)}
                   /\ Bidi(n) \subseteq InRange(n)

(***************************************************************************)
(* Once nobody switches any more: "All the existing neighbors will timeout"*)
(* (disable(): echo.h:280-282), a node that is silent is dropped, and so is*)
(* every node by one that is disabled; if the radio loses nothing and the  *)
(* vectors have room, two nodes in range of each other find each other.    *)
(***************************************************************************)
NoRoom(n, m) == ~Room(n) /\ m \notin Active(n)

SilentDropped ==
  \A n, m \in Node : n \notin searching \/ m \notin searching => m \notin Active(n)

NeighborsFound ==
  \A n, m \in searching :
    m \in InRange(n) /\ n \in InRange(m) /\ ~setup.lossy
      => m \in Bidi(n) \/ NoRoom(n, m) \/ NoRoom(m, n)

SilentAreDropped == <>[]SilentDropped

NeighborsAreFound == <>[]NeighborsFound
==============================================================================
