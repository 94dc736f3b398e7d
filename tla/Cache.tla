-------------------------------- MODULE Cache --------------------------------
(***************************************************************************)
(* One set of an ENoCCache under the calls its owners make. Every caller   *)
(* (TrafficManager::process, ENoCDir::receivePacket and invalidatePacket,  *)
(* ENoCCache::sendSharedData) looks a tag up first and then does one of    *)
(* the four things below; the actions name the lines.                      *)
(***************************************************************************)
EXTENDS CacheOps

CONSTANT Tags           \* the tags (address >> 20) that are requested

ASSUME TagsAssumption == Tags \subseteq Nat

VARIABLE set

vars == <<set>>

Init == set = setLRUbitsToWay

(* A read that hits a valid line: only the LRU bits move. *)
ReadHit(tag) ==
  LET way == checkTag(set, tag)
  IN  /\ way < WAYS
      /\ set[way].MESIbits \in Valid
      /\ set' = updateLRU(set, way)

(* A line that is found is made most recently used and gets a new state:   *)
(* writes, L1 refills from L2, and answers of the directory.               *)
Touch(tag, bits) ==
  LET way == checkTag(set, tag)
  IN  /\ way < WAYS
      /\ set' = SetMESI(updateLRU(set, way), way, bits)

(* Invalidation, eviction and downgrade change the state only. *)
Mark(tag, bits) ==
  LET way == checkTag(set, tag)
  IN  /\ way < WAYS
      /\ set' = SetMESI(set, way, bits)

Fill(tag, bits) ==
  /\ checkTag(set, tag) = WAYS
  /\ set' \in Fills(set, tag, bits)

Next ==
  \E tag \in Tags :
    \/ ReadHit(tag)
    \/ \E bits \in Valid : Touch(tag, bits)
    \/ \E bits \in {S, I} : Mark(tag, bits)
    \/ \E bits \in Valid : Fill(tag, bits)

Spec == Init /\ [][Next]_vars

-----------------------------------------------------------------------------
(* LRUbits stays in 0 .. WAYS: a line is aged to -1 only while updateLRU   *)
(* is about to make it the most recently used one.                         *)
TypeOK ==
  set \in [Ways -> [MESIbits : MESI,
                    LRUbits  : 0 .. WAYS,
                    tag      : Tags \cup {0}]]

(* What the LRU bits amount to under every sequence of calls: the number n *)
(* of ways in use. Ways 0 .. n-1 are at WAYS for ever, way n is the next   *)
(* victim, and the ages of the others count down to their turn. So the     *)
(* ways are handed out once each, in ascending order.                      *)
LRUCountsFills ==
  \E n \in 0 .. WAYS :
    \A way \in Ways : set[way].LRUbits = IF way < n THEN WAYS ELSE way - n

(* checkTag, which stops at the first match, finds the only copy that      *)
(* counts: a nonzero tag is held by one way at most, and of the ways with  *)
(* tag 0 (the unused ones, and a line of the first megabyte) only the      *)
(* first can be valid. So no invalidation misses a second copy, and a read *)
(* of the first megabyte meets no unused way in front of its line.         *)
TagsDistinct ==
  \A v, w \in Ways :
    v < w /\ set[v].tag = set[w].tag => set[w].tag = 0 /\ set[w].MESIbits = I

(* What updateLRU really implements: a line that was ever used keeps the   *)
(* age WAYS and is never a victim again. A stored tag is never replaced.   *)
NoEviction ==
  [][\A way \in Ways : set[way].tag # 0 => set'[way].tag = set[way].tag]_vars

(* The comment above checkLRU: "given an index, this function returns the  *)
(* least recently used way" - so it must name a way of the set.            *)
VictimExists == checkLRU(set) \in Ways
=============================================================================
