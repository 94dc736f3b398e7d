----------------------------- MODULE CacheArray -----------------------------
(***************************************************************************)
(* The caches of one level of all nodes: a function from <<node, index>>   *)
(* to a set of CacheOps. These are the idioms in which process(),          *)
(* receivePacket(), invalidatePacket() and sendSharedData() use them.      *)
(***************************************************************************)
EXTENDS CacheOps

Holds(cache, at, tag) == checkTag(cache[at], tag) < WAYS

State(cache, at, tag) == cache[at][checkTag(cache[at], tag)].MESIbits

HoldsValid(cache, at, tag) ==
  Holds(cache, at, tag) /\ State(cache, at, tag) \in Valid

(* A line that is found gets a new state, and nothing else. *)
Mark(cache, at, tag, bits) ==
  IF Holds(cache, at, tag)
  THEN [cache EXCEPT ![at] = SetMESI(@, checkTag(@, tag), bits)]
  ELSE cache

(* A line that is found is made most recently used. *)
Use(cache, at, tag) ==
  [cache EXCEPT ![at] = updateLRU(@, checkTag(@, tag))]

Touch(cache, at, tag, bits) ==
  IF Holds(cache, at, tag)
  THEN Mark(Use(cache, at, tag), at, tag, bits)
  ELSE cache

(* The possible results of giving the tag a line in any case. *)
TouchOrFill(cache, at, tag, bits) ==
  IF Holds(cache, at, tag)
  THEN {Touch(cache, at, tag, bits)}
  ELSE {[cache EXCEPT ![at] = set] : set \in Fills(cache[at], tag, bits)}
=============================================================================
