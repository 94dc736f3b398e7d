------------------------------ MODULE Address ------------------------------
(***************************************************************************)
(* The decoding of a memory address, repeated at the head of               *)
(* TrafficManager::process and of the ENoCDir and ENoCCache handlers. The  *)
(* line counts 16484 and 32968 are no powers of two, so LINES-1 is no      *)
(* contiguous mask: it drops address bits that the tag does not hold.      *)
(***************************************************************************)
EXTENDS Integers, Bitwise

AddrTag(addr) == addr \div 2^20

AddrL1Index(addr) == (addr \div 64) & (16484 - 1)

AddrL2Index(addr) == (addr \div 64) & (32968 - 1)

(* The mesh node of the memory controller that owns the address. *)
AddrMemoryNode(addr) == addr \div 2^26
=============================================================================
