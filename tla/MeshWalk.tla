------------------------------ MODULE MeshWalk ------------------------------
(***************************************************************************)
(* The way of one flit through the mesh: injected at a node, sent at every *)
(* router to the output the routing function names, and received by the    *)
(* router and port that buildMesh connected to that output.                *)
(***************************************************************************)
EXTENDS Mesh

CONSTANT Dests         \* dst_id of the packets; may lie outside the mesh

ASSUME DestsAssumption == Dests \subseteq Nat

VARIABLES cur,         \* the router that holds the flit
          port,        \* the input port it came in by
          dst          \* dst_id

vars == <<cur, port, dst>>

Init ==
  /\ cur \in Nodes
  /\ port = Local
  /\ dst \in Dests

Hop ==
  LET out == xy_yx_mesh(cur, dst)
  IN  /\ out # Local
      /\ cur' = Sink(cur, out)[1]
      /\ port' = Sink(cur, out)[2]
      /\ UNCHANGED dst

(* A flit at its destination stays in the ejection buffer. *)
Eject ==
  /\ xy_yx_mesh(cur, dst) = Local
  /\ UNCHANGED vars

Next == Hop \/ Eject

Spec == Init /\ [][Next]_vars /\ WF_vars(Hop)

-----------------------------------------------------------------------------
Abs(x) == IF x < 0 THEN -x ELSE x
Distance(a, b) == Abs((a % K) - (b % K)) + Abs((a \div K) - (b \div K))

(* The table in FindIdleVC, SetIdleVC and FindFreeSpace agrees with the    *)
(* wiring of buildMesh at every router: the buffer whose state and         *)
(* occupancy they consult is the buffer the flit is going to enter.        *)
InPortMatchesWiring ==
  \A out \in Links :
    /\ Sink(cur, out)[2] = InPort(out)
    /\ \A s \in Nodes \X Links :
         InputChannel(s[1], s[2]) = OutputChannel(cur, out) => s = Sink(cur, out)

(* Every hop of a packet for a node of the mesh gets it one step closer,   *)
(* so paths are minimal and the wrap-around links are never used.          *)
HopsAreMinimal ==
  [][(dst \in Nodes => Distance(cur', dst) = Distance(cur, dst) - 1)]_vars

(* Once a flit travels in dimension 1 it never turns back to dimension 0:  *)
(* the turn restriction that keeps XY routing free of cyclic waits.        *)
NoTurnBackToX == port \in {2, 3} => xy_yx_mesh(cur, dst) \in {2, 3, Local}

(* A flit is ejected at its own destination only, and never when dst_id    *)
(* (an address shifted right by 26) lies outside the mesh.                 *)
EjectsAtDestination == xy_yx_mesh(cur, dst) = Local => cur = dst

(* A packet for a node of the mesh gets there. *)
Arrives == dst \in Nodes ~> cur = dst
=============================================================================
