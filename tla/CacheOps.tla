------------------------------ MODULE CacheOps ------------------------------
(***************************************************************************)
(* One set (one index) of ENoCCache, src/mem/enoc/ENoC_cache.cpp, as       *)
(* operators on a function from ways to cache lines. The sets of a cache   *)
(* are independent arrays. Of a cacheline the fields the code branches on  *)
(* are kept: MESIbits, LRUbits and tag.                                    *)
(***************************************************************************)
EXTENDS Integers, FiniteSetsExt

CONSTANT WAYS

ASSUME WaysAssumption == WAYS \in Nat \ {0}

Ways == 0 .. WAYS - 1

M == 0
E == 1
S == 2
I == 3
MESI == {M, E, S, I}
Valid == {M, E, S}

(* The initial contents. Tag 0 stands for "no tag" and is a legal tag too. *)
setLRUbitsToWay_AllZero ==
  [way \in Ways |-> [MESIbits |-> I, LRUbits |-> 0, tag |-> 0]]

setLRUbitsToWay ==
  [way \in Ways |-> [MESIbits |-> I, LRUbits |-> way, tag |-> 0]]

(* The scans return the first way that qualifies, WAYS when none does. *)
FirstWay(found) == IF found # {} THEN Min(found) ELSE WAYS

checkTag_SkipsFirst(set, tag) == FirstWay({way \in Ways \ {0} : set[way].tag = tag})

checkTag(set, tag) == FirstWay({way \in Ways : set[way].tag = tag})

checkLRU(set) == FirstWay({way \in Ways : set[way].LRUbits = 0})

(* The loop of updateLRU over testbits: for each value below WAYS the      *)
(* first way that holds it is decremented. A decremented way is not met    *)
(* again, since testbits only grows.                                       *)
AgeOthers(set) ==
  [way \in Ways |->
     [set[way] EXCEPT !.LRUbits =
        IF /\ @ \in Ways
           /\ \A other \in 0 .. way - 1 : set[other].LRUbits # @
        THEN @ - 1
        ELSE @]]

updateLRU_NoReturn(set, ourway) == [AgeOthers(set) EXCEPT ![ourway].LRUbits = WAYS]

updateLRU_TopIsLast(set, ourway) ==
  IF set[ourway].LRUbits = WAYS - 1
  THEN set
  ELSE [AgeOthers(set) EXCEPT ![ourway].LRUbits = WAYS - 1]

updateLRU(set, ourway) ==
  IF set[ourway].LRUbits = WAYS
  THEN set
  ELSE [AgeOthers(set) EXCEPT ![ourway].LRUbits = WAYS]

SetMESI(set, way, bits) == [set EXCEPT ![way].MESIbits = bits]

(* What the callers do after a miss: take the way checkLRU names, make it  *)
(* most recently used and give it the tag. When checkLRU names no way the  *)
(* code goes on with index WAYS, one line past the array: the stores land  *)
(* outside the set, and updateLRU ages the set unless the stray word it    *)
(* reads as LRUbits happens to be WAYS. Hence the set of outcomes.         *)
Fills(set, tag, bits) ==
  LET way == checkLRU(set)
  IN  IF way \in Ways
      THEN {[updateLRU(set, way) EXCEPT ![way].tag = tag, ![way].MESIbits = bits]}
      ELSE {set, AgeOthers(set)}
=============================================================================
