-------------------------- MODULE MCTrafficManager --------------------------
(***************************************************************************)
(* Small meshes and workloads. A workload says what may be offered under   *)
(* each packet name, and how many packets are there before the first clk.  *)
(* The packets of the real system have 18 and 2 flits and its VCs hold 8;  *)
(* here they have 2, 3 or 5 flits and VCs hold 2, so that the long ones do *)
(* not fit in one VC.                                                      *)
(***************************************************************************)
EXTENDS HeadHistory

CONSTANT Workloads

VARIABLE workload

ThreePackets == 1 .. 3
FivePackets  == 1 .. 5

MCOffer(s, t, d, z) == [src |-> s, type |-> t, dst |-> d, size |-> z]

(* 2 x 2. A request and a write-back of node 0, shared data from node 1    *)
(* and an answer of the directory at node 3: two, and three, meet in most  *)
(* routers.                                                                *)
MixedTraffic ==
  {MCOffer(0, 0, 3, 3), MCOffer(0, 1, 2, 2), MCOffer(1, 2, 3, 2), MCOffer(3, 2, 0, 3)}

(* 2 x 2. Packets that follow each other, cross, overwrite each other at   *)
(* injection and stay at their own node.                                   *)
ContendedTraffic ==
  {MCOffer(0, 0, 3, 3), MCOffer(0, 0, 2, 3), MCOffer(0, 2, 1, 3),
   MCOffer(1, 2, 3, 3), MCOffer(0, 2, 0, 2), MCOffer(0, 0, 0, 2)}

SmallTraffic == MixedTraffic \cup ContendedTraffic

(* 3 x 3. At the output of node 1 to node 2 a packet that ends at node 2   *)
(* meets packets that go on to node 5. The VC reserved for the former is   *)
(* not marked, so that both may reserve the same one; the loser gives it   *)
(* back after the winner was granted it (router.cpp:342), and a third      *)
(* packet is granted it too. The first two packets set the round-robin     *)
(* pointer and the time of arrival for this to happen.                     *)
PointerMover == MCOffer(1, 0, 5, 2)
Delaying     == MCOffer(0, 2, 3, 2)
Ending       == MCOffer(0, 2, 2, 2)
GoingOn      == {MCOffer(1, 2, 5, 5), MCOffer(0, 0, 5, 3)}

MeetingTraffic == {PointerMover, Delaying, Ending} \cup GoingOn

Mixed     == [offers |-> <<MixedTraffic, MixedTraffic, MixedTraffic>>, early |-> 0]
Pair      == [offers |-> <<MixedTraffic, MixedTraffic>>, early |-> 0]
Contended == [offers |-> <<ContendedTraffic, ContendedTraffic>>, early |-> 0]
Meeting   == [offers |-> <<{PointerMover}, {Delaying}, {Ending}, GoingOn, GoingOn>>,
              early  |-> 3]

(* Here a head of node 1 loses the VC to the packet that ends, and the     *)
(* next packet of node 1 comes in behind it.                               *)
Following == [offers |-> <<{Ending}, {PointerMover}, {PointerMover}>>, early |-> 1]

MixedAndContended   == {Mixed, Contended}
OnlyPair            == {Pair}
MeetingAndFollowing == {Meeting, Following}

WorkloadInit == Init /\ disturbed = {} /\ workload \in Workloads

WorkloadNext ==
  /\ \/ \E p \in DOMAIN workload.offers \ Offered :
          \E o \in workload.offers[p] : Offer(p, o)
     \/ 1 .. workload.early \subseteq Offered /\ Clk
  /\ Watch
  /\ UNCHANGED workload

WorkloadVars == <<vars, disturbed, workload>>

WorkloadSpec == WorkloadInit /\ [][WorkloadNext]_WorkloadVars

FairWorkloadSpec == WorkloadSpec /\ ClockTicks
=============================================================================
