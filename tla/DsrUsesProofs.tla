---------------------------- MODULE DsrUsesProofs -----------------------------
(***************************************************************************)
(* What DsrRoutingProofs proves of source routing, for the three uses that *)
(* MCDsrUses puts side by side: each use has the constants of its own      *)
(* instance, and keeps the invariant that is proved for it.                *)
(***************************************************************************)
EXTENDS MCDsrUses, DsrRoutingProofs

FP == INSTANCE DsrRoutingProofs WITH TableSize <- 2

UP == INSTANCE DsrRoutingProofs WITH Link <- Line3, Flow <- {<<a, c>>}, TableSize <- 2,
        PathSize <- 4, ByteMod <- 5, Restarting <- {b}, Duplicates <- TRUE, MaxSends <- 1

(***************************************************************************)
(* FP and UP, which bring the proofs, are F and U of MCDsrUses again.      *)
(***************************************************************************)
LEMMA FullAssumption == FP!DsrAssumption
<1>1. IsFiniteSet(Node) => FP!IsFiniteSet(Node)
  BY DEF IsFiniteSet, FP!IsFiniteSet
<1> QED BY <1>1, DsrAssumption DEF FP!DsrAssumption

LEMMA ChurnAssumption == UP!DsrAssumption
<1>1. IsFiniteSet(Node) => UP!IsFiniteSet(Node)
  BY DEF IsFiniteSet, UP!IsFiniteSet
<1>2. Line3 \subseteq {e \in Node \X Node : e[1] # e[2]}
  BY UseAssumption DEF Line3, Symmetric
<1> QED BY <1>1, <1>2, DsrAssumption, UseAssumption DEF UP!DsrAssumption

LEMMA FullSame ==
  /\ Init => FP!Init
  /\ F!Operate => FP!ChurnNext
  /\ FP!TypeOK => F!TypeOK
  /\ FP!RoutesAreWalks => F!RoutesAreWalks
<1>1. Init = FP!Init
  BY DEF Init, FP!Init, None, FP!None
<1>2. F!Operate = FP!Operate
  BY DEF F!Operate, F!Enable, F!InitRouting, F!None, F!Receive, F!HandleRouteRequest,
         F!HandleRouteReply, F!HandleRoutingMessage, F!Send, F!SendOnRoute,
         F!SendRequest, F!Fresh, F!GetSeqNr, F!UpdateSeqNr, F!Write, F!Entry,
         F!PushBack, F!At, F!Put, F!InRange, F!Rest, F!Discovery, F!Data, F!Inc, F!Back,
         F!NoLongerBusy, F!Forward, F!Cardinality, FP!Operate, FP!Enable,
         FP!InitRouting, FP!None, FP!Receive, FP!HandleRouteRequest,
         FP!HandleRouteReply, FP!HandleRoutingMessage, FP!Send, FP!SendOnRoute,
         FP!SendRequest, FP!Fresh, FP!GetSeqNr, FP!UpdateSeqNr, FP!Write, FP!Entry,
         FP!PushBack, FP!At, FP!Put, FP!InRange, FP!Rest, FP!Discovery, FP!Data, FP!Inc,
         FP!Back, FP!NoLongerBusy, FP!Forward, FP!Cardinality
<1>3. FP!TypeOK = F!TypeOK
  BY DEF F!TypeOK, F!None, F!Path, F!Frame, F!Cardinality, FP!TypeOK, FP!None, FP!Path,
         FP!Frame, FP!Cardinality
<1>4. FP!RoutesAreWalks = F!RoutesAreWalks
  BY DEF F!RoutesAreWalks, F!IsWalk, F!Leads, FP!RoutesAreWalks, FP!IsWalk, FP!Leads
<1> QED BY <1>1, <1>2, <1>3, <1>4 DEF FP!ChurnNext, FP!Next

LEMMA ChurnSame ==
  /\ Init => UP!Init
  /\ U!ChurnNext => UP!ChurnNext
  /\ UP!TypeOK => U!TypeOK
  /\ UP!RoutesAreWalks => U!RoutesAreWalks
<1>1. Init = UP!Init
  BY DEF Init, UP!Init, None, UP!None
<1>2. U!ChurnNext = UP!ChurnNext
  BY DEF U!Operate, U!Enable, U!InitRouting, U!None, U!Receive, U!HandleRouteRequest,
         U!HandleRouteReply, U!HandleRoutingMessage, U!Send, U!SendOnRoute,
         U!SendRequest, U!Fresh, U!GetSeqNr, U!UpdateSeqNr, U!Write, U!Entry,
         U!PushBack, U!At, U!Put, U!InRange, U!Rest, U!Discovery, U!Data, U!Inc, U!Back,
         U!NoLongerBusy, U!Forward, U!Cardinality, U!Next, U!Lose, U!Restart,
         U!ChurnNext, UP!Operate, UP!Enable, UP!InitRouting, UP!None, UP!Receive,
         UP!HandleRouteRequest, UP!HandleRouteReply, UP!HandleRoutingMessage, UP!Send,
         UP!SendOnRoute, UP!SendRequest, UP!Fresh, UP!GetSeqNr, UP!UpdateSeqNr,
         UP!Write, UP!Entry, UP!PushBack, UP!At, UP!Put, UP!InRange, UP!Rest,
         UP!Discovery, UP!Data, UP!Inc, UP!Back, UP!NoLongerBusy, UP!Forward,
         UP!Cardinality, UP!Next, UP!Lose, UP!Restart, UP!ChurnNext
<1>3. UP!TypeOK = U!TypeOK
  BY DEF U!TypeOK, U!None, U!Path, U!Frame, U!Cardinality, UP!TypeOK, UP!None, UP!Path,
         UP!Frame, UP!Cardinality
<1>4. UP!RoutesAreWalks = U!RoutesAreWalks
  BY DEF U!RoutesAreWalks, U!IsWalk, U!Leads, UP!RoutesAreWalks, UP!IsWalk, UP!Leads
<1> QED BY <1>1, <1>2, <1>3, <1>4

(***************************************************************************)
(* Each use keeps the invariant of its instance.                           *)
(***************************************************************************)
UseInv == /\ use \in {"orderly", "full", "churn"}
          /\ use = "orderly" => IInv
          /\ use = "full" => FP!IInv
          /\ use = "churn" => UP!IInv

LEMMA InitUseInv == UseInit => UseInv
<1> SUFFICES ASSUME UseInit PROVE UseInv
  OBVIOUS
<1>1. Init /\ FP!Init /\ UP!Init
  BY FullSame, ChurnSame DEF UseInit
<1>2. IInv
  BY <1>1, InitIInv
<1>3. FP!IInv
  BY <1>1, FullAssumption, FP!InitIInv
<1>4. UP!IInv
  BY <1>1, ChurnAssumption, UP!InitIInv
<1> QED BY <1>2, <1>3, <1>4 DEF UseInv, UseInit

LEMMA NextUseInv == UseInv /\ [UseNext]_<<vars, use>> => UseInv'
<1> SUFFICES ASSUME UseInv, [UseNext]_<<vars, use>> PROVE UseInv'
  OBVIOUS
<1>1. UNCHANGED use
  BY DEF UseNext
<1>2. CASE use = "orderly"
  <2>1. [ChurnNext]_vars
    BY <1>2 DEF UseNext, ChurnNext, Next
  <2>2. IInv
    BY <1>2 DEF UseInv
  <2>3. IInv'
    BY <2>1, <2>2, NextIInv
  <2> QED BY <1>1, <1>2, <2>3 DEF UseInv
<1>3. CASE use = "full"
  <2>1. [FP!ChurnNext]_FP!vars
    BY <1>3, FullSame DEF UseNext, vars, FP!vars
  <2>2. FP!IInv
    BY <1>3 DEF UseInv
  <2>3. FP!IInv'
    BY <2>1, <2>2, FullAssumption, FP!NextIInv
  <2> QED BY <1>1, <1>3, <2>3 DEF UseInv
<1>4. CASE use = "churn"
  <2>1. [UP!ChurnNext]_UP!vars
    BY <1>4, ChurnSame DEF UseNext, vars, UP!vars
  <2>2. UP!IInv
    BY <1>4 DEF UseInv
  <2>3. UP!IInv'
    BY <2>1, <2>2, ChurnAssumption, UP!NextIInv
  <2> QED BY <1>1, <1>4, <2>3 DEF UseInv
<1> QED BY <1>2, <1>3, <1>4 DEF UseInv

LEMMA AlwaysUseInv == UseSpec => []UseInv
<1> QED BY InitUseInv, NextUseInv, PTL DEF UseSpec

(***************************************************************************)
(* In every use the members of DsrRouting keep their types, and the table  *)
(* and the paths stay within their sizes (dsr_routing.h:152-157,           *)
(* dsr_routing_types.h:50-52).                                             *)
(***************************************************************************)
THEOREM UsesTypeCorrect == UseSpec => []TypesOK
<1>1. UseInv => TypesOK
  <2> SUFFICES ASSUME UseInv PROVE TypesOK
    OBVIOUS
  <2>1. CASE use = "orderly"
    BY <2>1, InvTypes DEF UseInv, TypesOK
  <2>2. CASE use = "full"
    BY <2>2, FullSame, FullAssumption, FP!InvTypes DEF UseInv, TypesOK
  <2>3. CASE use = "churn"
    BY <2>3, ChurnSame, ChurnAssumption, UP!InvTypes DEF UseInv, TypesOK
  <2> QED BY <2>1, <2>2, <2>3 DEF UseInv
<1> QED BY <1>1, AlwaysUseInv, PTL

(***************************************************************************)
(* In every use a path in a table leads from its owner to the destination  *)
(* of the entry over links that exist, whatever is lost, repeated or       *)
(* restarted; one as long as its vector may have been cut off              *)
(* (handle_route_request(), handle_route_reply(): dsr_routing.h:333-439).  *)
(***************************************************************************)
THEOREM UsesPathsAreWalks == UseSpec => []RoutesAreWalksEver
<1>1. UseInv => RoutesAreWalksEver
  <2> SUFFICES ASSUME UseInv PROVE RoutesAreWalksEver
    OBVIOUS
  <2>1. CASE use = "orderly"
    BY <2>1, InvWalks DEF UseInv, RoutesAreWalksEver
  <2>2. CASE use = "full"
    BY <2>2, FullSame, FullAssumption, FP!InvWalks DEF UseInv, RoutesAreWalksEver
  <2>3. CASE use = "churn"
    BY <2>3, ChurnSame, ChurnAssumption, UP!InvWalks DEF UseInv, RoutesAreWalksEver
  <2> QED BY <2>1, <2>2, <2>3 DEF UseInv
<1> QED BY <1>1, AlwaysUseInv, PTL

(***************************************************************************)
(* Where the tables and the paths have room and no destination sends, the  *)
(* orderly use keeps every frame on its path and delivers every message    *)
(* once (dsr_routing.h:333-471, 340-349, 473-506).                         *)
(***************************************************************************)
THEOREM OrderlyUse == ASSUME Orderly PROVE UseSpec => []OrderlyDelivery
<1> DEFINE Inv == use = "orderly" => OInv
<1>1. UseInit => Inv
  BY InitOInv DEF UseInit
<1>2. Inv /\ [UseNext]_<<vars, use>> => Inv'
  <2> SUFFICES ASSUME Inv, [UseNext]_<<vars, use>>, use' = "orderly" PROVE OInv'
    OBVIOUS
  <2>1. use = "orderly"
    BY DEF UseNext
  <2>2. [Next]_vars
    BY <2>1 DEF UseNext, Next
  <2>3. OInv
    BY <2>1
  <2> QED BY <2>2, <2>3, NextOInv
<1>3. Inv => OrderlyDelivery
  BY OInvHolds DEF OrderlyDelivery
<1> HIDE DEF Inv
<1> QED BY <1>1, <1>2, <1>3, PTL DEF UseSpec
=============================================================================
