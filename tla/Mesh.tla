-------------------------------- MODULE Mesh --------------------------------
(***************************************************************************)
(* The topology that NetworkNoC::buildMesh wires (Network.cpp) and the     *)
(* routing function VirtualChannel::xy_yx_mesh, for a K x K mesh.          *)
(*                                                                         *)
(* Ports of a router, as inputs: 0 from the right and 1 from the left      *)
(* neighbour in dimension 0, 2 and 3 likewise in dimension 1, 4 from the   *)
(* injection channel; as outputs 0 right, 1 left, 2, 3, and 4 ejection.    *)
(***************************************************************************)
EXTENDS Integers

CONSTANT K             \* _k, DEFAULT_MESH_DIM_X

ASSUME KAssumption == K \in Nat \ {0, 1}

NDims == 2             \* _n
Nodes == 0 .. K^NDims - 1
Ports == 0 .. 2 * NDims
Local == 2 * NDims     \* injection and ejection

Links == Ports \ {Local}

LeftChannel(node, dim)  == 2 * NDims * node + 2 * dim + 1
RightChannel(node, dim) == 2 * NDims * node + 2 * dim

(* The neighbours wrap around: the network is wired as a torus. *)
LeftNode(node, dim) ==
  IF (node \div K^dim) % K = 0 THEN node + (K - 1) * K^dim ELSE node - K^dim

RightNode(node, dim) ==
  IF (node \div K^dim) % K = K - 1 THEN node - (K - 1) * K^dim ELSE node + K^dim

(* buildMesh adds, for each dimension, the channel from the right and the  *)
(* channel from the left neighbour as inputs.                              *)
InputChannel(node, port) ==
  LET dim == port \div 2
  IN  IF port % 2 = 0
      THEN LeftChannel(RightNode(node, dim), dim)
      ELSE RightChannel(LeftNode(node, dim), dim)

OutputChannel(node, port) ==
  LET dim == port \div 2
  IN  IF port % 2 = 0 THEN RightChannel(node, dim) ELSE LeftChannel(node, dim)

(* GetSink and GetSinkPort of an output channel: AddInputChannel makes the *)
(* router that reads a channel its sink.                                   *)
Sink(node, port) ==
  CHOOSE s \in Nodes \X Links : InputChannel(s[1], s[2]) = OutputChannel(node, port)

(* The input port at the other end of an output, as FindIdleVC, SetIdleVC  *)
(* and FindFreeSpace spell it out.                                         *)
InPort_SameSide(out_port) == out_port

InPort(out_port) ==
  CASE out_port = 0 -> 1
    [] out_port = 1 -> 0
    [] out_port = 2 -> 3
    [] OTHER        -> 2

xy_yx_mesh_YFirst(id, dst) ==
  CASE dst \div K < id \div K -> 3
    [] dst \div K > id \div K -> 2
    [] dst % K < id % K       -> 1
    [] dst % K > id % K       -> 0
    [] OTHER                  -> Local

xy_yx_mesh_Swapped(id, dst) ==
  IF dst % K # id % K
  THEN IF dst % K < id % K THEN 0 ELSE 1
  ELSE IF dst \div K < id \div K THEN 3
  ELSE IF dst \div K > id \div K THEN 2
  ELSE Local

xy_yx_mesh_XOnly(id, dst) ==
  IF dst % K < id % K THEN 1
  ELSE IF dst % K > id % K THEN 0
  ELSE Local

xy_yx_mesh(id, dst) ==
  IF dst % K < id % K THEN 1
  ELSE IF dst % K > id % K THEN 0
  ELSE IF dst \div K < id \div K THEN 3
  ELSE IF dst \div K > id \div K THEN 2
  ELSE Local
=============================================================================
