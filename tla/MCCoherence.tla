---------------------------- MODULE MCCoherence ----------------------------
(***************************************************************************)
(* Coherence with real addresses and with workloads: a workload is the set *)
(* of <<node, address>> pairs whose requests arrive, in any order and any  *)
(* number of times. One run covers all of its workloads.                   *)
(***************************************************************************)
EXTENDS Coherence

CONSTANT Workloads

VARIABLE workload

Decode == INSTANCE Address

TagTable == [addr \in Addrs |-> Decode!AddrTag(addr)]
L1Table == [addr \in Addrs |-> Decode!AddrL1Index(addr)]
L2Table == [addr \in Addrs |-> Decode!AddrL2Index(addr)]
MemoryTable == [addr \in Addrs |-> Decode!AddrMemoryNode(addr)]

DecodeTag(addr) == TagTable[addr]
DecodeL1Index(addr) == L1Table[addr]
DecodeL2Index(addr) == L2Table[addr]
DecodeMemoryNode(addr) == MemoryTable[addr]

(* Two lines of one set, in different megabytes; the first has tag 0. *)
Low == 64
High == 2^22 + 64
LowAndHigh == {Low, High}

(* One line wanted by three nodes, by two nodes of which one is node 0     *)
(* (whose state is stored over the address of a directory line), and two   *)
(* lines of one node that compete for a first level of one way.            *)
ThreeNodes == {1, 2, 3} \X {High}
WithNodeZero == {0, 1} \X {High}
TwoLines == {1} \X LowAndHigh

MixedWorkloads == {ThreeNodes, WithNodeZero, TwoLines}
OnlyThreeNodes == {ThreeNodes}

WorkloadInit == Init /\ workload \in Workloads

WorkloadNext ==
  /\ \/ \E r \in workload : Request(r[1], r[2])
     \/ Ignore
  /\ UNCHANGED workload

WorkloadVars == <<vars, workload>>

WorkloadSpec == WorkloadInit /\ [][WorkloadNext]_WorkloadVars

(* Directory lines beyond the initial ones keep their address in element 0 *)
(* as long as no request comes from node 0, whatever the order of reads,   *)
(* writes and evictions that insert and update them.                       *)
AddressIsKept ==
  (\A r \in workload : r[1] # 0) => FirstElementIsAddress
=============================================================================
