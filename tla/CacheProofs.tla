----------------------------- MODULE CacheProofs -----------------------------
(***************************************************************************)
(* Proofs about one cache set, for every associativity and every set of    *)
(* tags.                                                                   *)
(***************************************************************************)
EXTENDS Cache, MinLemmas, TLAPS

SetType == [Ways -> [MESIbits : MESI, LRUbits : 0 .. WAYS, tag : Tags \cup {0}]]

(* The LRU bits of s say that the first n ways are in use.                 *)
Counted(s, n) ==
  \A way \in Ways : s[way].LRUbits = IF way < n THEN WAYS ELSE way - n

(* A way with a tag has been used.                                         *)
TaggedIsUsed == \A way \in Ways : set[way].tag # 0 => set[way].LRUbits = WAYS

IInv ==
  /\ TypeOK
  /\ LRUCountsFills
  /\ TagsDistinct
  /\ TaggedIsUsed

-----------------------------------------------------------------------------
(* checkTag returns the first way that holds the tag, or WAYS.             *)
LEMMA CheckTagFirst ==
  ASSUME NEW s \in SetType, NEW t \in Tags
  PROVE  /\ checkTag(s, t) \in 0 .. WAYS
         /\ checkTag(s, t) < WAYS =>
              /\ checkTag(s, t) \in Ways
              /\ s[checkTag(s, t)].tag = t
              /\ \A w \in Ways : s[w].tag = t => checkTag(s, t) =< w
         /\ checkTag(s, t) = WAYS => \A w \in Ways : s[w].tag # t
<1> DEFINE found == {way \in Ways : s[way].tag = t}
<1>1. found \in SUBSET Nat /\ found \subseteq Ways
  BY WaysAssumption DEF Ways
<1>2. checkTag(s, t) = IF found # {} THEN Min(found) ELSE WAYS
  BY DEF checkTag, FirstWay
<1>3. CASE found = {}
  BY <1>2, <1>3, WaysAssumption
<1>4. CASE found # {}
  <2>1. Min(found) \in found /\ \A y \in found : Min(found) =< y
    BY <1>1, <1>4, MinIsLeast
  <2> QED
    BY <1>2, <1>4, <2>1, WaysAssumption DEF Ways
<1> QED
  BY <1>3, <1>4

(* checkLRU returns the number of ways in use: the next unused way, or     *)
(* WAYS when there is none.                                                *)
LEMMA CheckLRUCounted ==
  ASSUME NEW s, NEW n \in 0 .. WAYS, Counted(s, n)
  PROVE  checkLRU(s) = n
<1> DEFINE found == {way \in Ways : s[way].LRUbits = 0}
<1>1. checkLRU(s) = IF found # {} THEN Min(found) ELSE WAYS
  BY DEF checkLRU, FirstWay
<1>2. CASE n = WAYS
  <2>1. found = {}
    BY <1>2, WaysAssumption DEF Counted, Ways
  <2> QED
    BY <1>1, <1>2, <2>1
<1>3. CASE n < WAYS
  <2>1. found = {n}
    BY <1>3, WaysAssumption DEF Counted, Ways
  <2>2. found \in SUBSET Nat
    BY <2>1
  <2>3. Min(found) \in found
    BY <2>1, <2>2, MinIsMember
  <2> QED
    BY <1>1, <2>1, <2>3
<1> QED
  BY <1>2, <1>3, WaysAssumption

(* updateLRU of the next unused way advances the count and keeps the rest. *)
LEMMA UpdateCounted ==
  ASSUME NEW s \in SetType, NEW n \in Ways, Counted(s, n)
  PROVE  /\ updateLRU(s, n) \in SetType
         /\ Counted(updateLRU(s, n), n + 1)
         /\ \A w \in Ways : /\ updateLRU(s, n)[w].tag = s[w].tag
                            /\ updateLRU(s, n)[w].MESIbits = s[w].MESIbits
<1> DEFINE age(w) ==
             IF /\ s[w].LRUbits \in Ways
                /\ \A other \in 0 .. w - 1 : s[other].LRUbits # s[w].LRUbits
             THEN s[w].LRUbits - 1
             ELSE s[w].LRUbits
<1>1. /\ n \in Nat
      /\ n < WAYS
      /\ WAYS \in Nat
      /\ s[n].LRUbits = 0
  BY WaysAssumption DEF Counted, Ways
<1>2. \A w \in Ways : w # n => age(w) = IF w < n THEN WAYS ELSE w - (n + 1)
  <2>1. SUFFICES ASSUME NEW w \in Ways, w # n
                 PROVE  age(w) = IF w < n THEN WAYS ELSE w - (n + 1)
    OBVIOUS
  <2>2. CASE w < n
    BY <1>1, <2>2 DEF Counted, Ways
  <2>3. CASE w > n
    <3>1. s[w].LRUbits = w - n /\ w - n \in Ways
      BY <1>1, <2>3 DEF Counted, Ways
    <3>2. \A other \in 0 .. w - 1 : s[other].LRUbits # w - n
      BY <1>1, <2>3 DEF Counted, Ways
    <3> QED
      BY <1>1, <2>3, <3>1, <3>2
  <2> QED
    BY <1>1, <2>1, <2>2, <2>3 DEF Ways
<1>3. \A w \in Ways : s[w] \in [MESIbits : MESI, LRUbits : 0 .. WAYS, tag : Tags \cup {0}]
  BY DEF SetType
<1>4. AgeOthers(s) = [w \in Ways |-> [s[w] EXCEPT !.LRUbits = age(w)]]
  BY DEF AgeOthers
<1> HIDE DEF age
<1>5. updateLRU(s, n) = [AgeOthers(s) EXCEPT ![n].LRUbits = WAYS]
  BY <1>1 DEF updateLRU
<1>6. \A w \in Ways :
        /\ w # n => updateLRU(s, n)[w] = [s[w] EXCEPT !.LRUbits = age(w)]
        /\ w = n => updateLRU(s, n)[w] = [[s[w] EXCEPT !.LRUbits = age(w)]
                                             EXCEPT !.LRUbits = WAYS]
        /\ updateLRU(s, n) = [v \in Ways |-> updateLRU(s, n)[v]]
  BY <1>4, <1>5
<1>7. \A w \in Ways : w # n => age(w) \in 0 .. WAYS
  BY <1>1, <1>2 DEF Ways
<1>8. ASSUME NEW w \in Ways
      PROVE  /\ updateLRU(s, n)[w] \in
                  [MESIbits : MESI, LRUbits : 0 .. WAYS, tag : Tags \cup {0}]
             /\ updateLRU(s, n)[w].MESIbits = s[w].MESIbits
             /\ w # n => updateLRU(s, n)[w].LRUbits = age(w)
             /\ w = n => updateLRU(s, n)[w].LRUbits = WAYS
             /\ updateLRU(s, n)[w].tag = s[w].tag
  <2>1. s[w] \in [MESIbits : MESI, LRUbits : 0 .. WAYS, tag : Tags \cup {0}]
    BY <1>3
  <2>2. CASE w # n
    <3>1. updateLRU(s, n)[w] = [s[w] EXCEPT !.LRUbits = age(w)]
      BY <1>6, <2>2
    <3>2. age(w) \in 0 .. WAYS
      BY <1>7, <2>2
    <3> QED
      BY <2>1, <2>2, <3>1, <3>2
  <2>3. CASE w = n
    <3>1. updateLRU(s, n)[w] = [[s[w] EXCEPT !.LRUbits = age(w)] EXCEPT !.LRUbits = WAYS]
      BY <1>6, <2>3
    <3>2. WAYS \in 0 .. WAYS
      BY <1>1
    <3> QED
      BY <2>1, <2>3, <3>1, <3>2
  <2> QED
    BY <2>2, <2>3
<1>9. updateLRU(s, n) \in SetType
  <2>1. updateLRU(s, n) = [v \in Ways |-> updateLRU(s, n)[v]]
    BY <1>6
  <2> QED
    BY <1>8, <2>1 DEF SetType
<1>10. Counted(updateLRU(s, n), n + 1)
  <2>1. \A w \in Ways : updateLRU(s, n)[w].LRUbits = IF w < n + 1 THEN WAYS ELSE w - (n + 1)
    BY <1>1, <1>2, <1>8 DEF Ways
  <2> QED
    BY <2>1 DEF Counted
<1> QED
  BY <1>8, <1>9, <1>10

(* When every way is in use, ageing changes nothing.                       *)
LEMMA AgeFull ==
  ASSUME NEW s \in SetType, Counted(s, WAYS)
  PROVE  AgeOthers(s) = s
<1>1. \A w \in Ways : s[w].LRUbits = WAYS /\ WAYS \notin Ways
  BY WaysAssumption DEF Counted, Ways
<1>2. \A w \in Ways : s[w] \in [MESIbits : MESI, LRUbits : 0 .. WAYS, tag : Tags \cup {0}]
  BY DEF SetType
<1>3. \A w \in Ways : [s[w] EXCEPT !.LRUbits = s[w].LRUbits] = s[w]
  BY <1>2
<1>4. AgeOthers(s) = [w \in Ways |-> [s[w] EXCEPT !.LRUbits = s[w].LRUbits]]
  BY <1>1 DEF AgeOthers
<1>5. s = [w \in Ways |-> s[w]]
  BY DEF SetType
<1> QED
  BY <1>3, <1>4, <1>5

(* Storing MESI bits disturbs neither ages nor tags, nor any other way.    *)
LEMMA SetMESIKeeps ==
  ASSUME NEW s \in SetType, NEW v \in Ways, NEW b \in MESI
  PROVE  /\ SetMESI(s, v, b) \in SetType
         /\ \A w \in Ways : /\ SetMESI(s, v, b)[w].LRUbits = s[w].LRUbits
                            /\ SetMESI(s, v, b)[w].tag = s[w].tag
                            /\ w # v => SetMESI(s, v, b)[w].MESIbits = s[w].MESIbits
BY DEF SetMESI, SetType

(* Making a line that checkTag found most recently used: either it already *)
(* was in use, or it is an unused way that matched tag 0, and then it is   *)
(* the next way in order.                                                  *)
LEMMA TouchKeeps ==
  ASSUME IInv, NEW t \in Tags, checkTag(set, t) < WAYS
  PROVE  LET u == updateLRU(set, checkTag(set, t))
         IN  /\ u \in SetType
             /\ \E n \in 0 .. WAYS : Counted(u, n)
             /\ \A w \in Ways : u[w].tag = set[w].tag /\ u[w].MESIbits = set[w].MESIbits
             /\ \A w \in Ways : set[w].LRUbits = WAYS => u[w].LRUbits = WAYS
<1> DEFINE way == checkTag(set, t)
<1>1. set \in SetType
  BY DEF IInv, TypeOK, SetType
<1>2. PICK n \in 0 .. WAYS : Counted(set, n)
  BY DEF IInv, LRUCountsFills, Counted
<1>3. /\ way \in Ways
      /\ set[way].tag = t
      /\ \A w \in Ways : set[w].tag = t => way =< w
  BY <1>1, CheckTagFirst
<1> HIDE DEF way
<1>4. CASE set[way].LRUbits = WAYS
  <2>1. updateLRU(set, way) = set
    BY <1>4 DEF updateLRU
  <2> QED
    BY <1>1, <1>2, <2>1 DEF way
<1>5. CASE set[way].LRUbits # WAYS
  <2>1. t = 0
    BY <1>3, <1>5 DEF IInv, TaggedIsUsed
  <2>2. n =< way /\ n \in Ways
    BY <1>2, <1>3, <1>5, WaysAssumption DEF Counted, Ways
  <2>3. set[n].LRUbits = 0
    BY <1>2, <2>2, WaysAssumption DEF Counted, Ways
  <2>4. set[n].tag = 0
    BY <2>2, <2>3, WaysAssumption DEF IInv, TaggedIsUsed
  <2>5. way = n
    BY <1>3, <2>1, <2>2, <2>4 DEF Ways
  <2>6. /\ updateLRU(set, n) \in SetType
        /\ Counted(updateLRU(set, n), n + 1)
        /\ \A w \in Ways : /\ updateLRU(set, n)[w].tag = set[w].tag
                           /\ updateLRU(set, n)[w].MESIbits = set[w].MESIbits
    BY <1>1, <1>2, <2>2, UpdateCounted
  <2>7. n + 1 \in 0 .. WAYS
    BY <2>2, WaysAssumption DEF Ways
  <2>8. \A w \in Ways : set[w].LRUbits = WAYS => updateLRU(set, n)[w].LRUbits = WAYS
    BY <1>2, <2>2, <2>6, WaysAssumption DEF Counted, Ways
  <2> QED
    BY <2>5, <2>6, <2>7, <2>8 DEF way
<1> QED
  BY <1>4, <1>5

(* The way is the first one with its tag.                                  *)
First(s, w) == \A v \in Ways : s[v].tag = s[w].tag => w =< v

(* A step that keeps the tags, keeps used ways used, counts fills and      *)
(* changes the state of no way behind another one with the same tag keeps  *)
(* the invariant.                                                          *)
LEMMA KeepsIInv ==
  ASSUME IInv,
         set' \in SetType,
         \E n \in 0 .. WAYS : Counted(set', n),
         \A w \in Ways : set'[w].tag = set[w].tag,
         \A w \in Ways : set'[w].MESIbits = set[w].MESIbits \/ First(set, w),
         \A w \in Ways : set[w].LRUbits = WAYS => set'[w].LRUbits = WAYS
  PROVE  IInv'
<1>1. TypeOK'
  BY DEF TypeOK, SetType
<1>2. LRUCountsFills'
  BY DEF LRUCountsFills, Counted
<1>3. TagsDistinct'
  BY WaysAssumption DEF IInv, TagsDistinct, First, Ways
<1>4. TaggedIsUsed'
  BY DEF IInv, TaggedIsUsed
<1> QED
  BY <1>1, <1>2, <1>3, <1>4 DEF IInv

-----------------------------------------------------------------------------
(* The freshly reset set satisfies the invariant with no way in use.       *)
LEMMA InitIInv == Init => IInv
<1> SUFFICES ASSUME Init
             PROVE  IInv
  OBVIOUS
<1>1. set = [way \in Ways |-> [MESIbits |-> I, LRUbits |-> way, tag |-> 0]]
  BY DEF Init, setLRUbitsToWay
<1>2. TypeOK
  BY <1>1, WaysAssumption DEF TypeOK, Ways, MESI
<1>3. LRUCountsFills
  <2>1. \A way \in Ways : set[way].LRUbits = IF way < 0 THEN WAYS ELSE way - 0
    BY <1>1, WaysAssumption DEF Ways
  <2>2. 0 \in 0 .. WAYS
    BY WaysAssumption
  <2> QED
    BY <2>1, <2>2 DEF LRUCountsFills
<1>4. TagsDistinct /\ TaggedIsUsed
  BY <1>1, WaysAssumption DEF Ways, TagsDistinct, TaggedIsUsed
<1> QED
  BY <1>2, <1>3, <1>4 DEF IInv

(* Touch and ReadHit only move LRU and MESI bits of a line that was found. *)
LEMMA TouchIInv ==
  ASSUME IInv, NEW t \in Tags,
         ReadHit(t) \/ (\E b \in Valid : Touch(t, b))
  PROVE  IInv' /\ \A w \in Ways : set'[w].tag = set[w].tag
<1> DEFINE way == checkTag(set, t)
           u   == updateLRU(set, way)
<1>1. way < WAYS
  BY DEF ReadHit, Touch
<1>2. /\ u \in SetType
      /\ \E n \in 0 .. WAYS : Counted(u, n)
      /\ \A w \in Ways : u[w].tag = set[w].tag /\ u[w].MESIbits = set[w].MESIbits
      /\ \A w \in Ways : set[w].LRUbits = WAYS => u[w].LRUbits = WAYS
  BY <1>1, TouchKeeps
<1>3. way \in Ways /\ First(set, way)
  BY <1>1, CheckTagFirst DEF IInv, TypeOK, SetType, First
<1>4. set' = u \/ \E b \in MESI : set' = SetMESI(u, way, b)
  BY DEF ReadHit, Touch, Valid, MESI
<1> HIDE DEF way, u
<1>5. CASE set' = u
  BY <1>2, <1>5, KeepsIInv
<1>6. ASSUME NEW b \in MESI, set' = SetMESI(u, way, b)
      PROVE  IInv' /\ \A w \in Ways : set'[w].tag = set[w].tag
  <2>1. /\ set' \in SetType
        /\ \A w \in Ways : set'[w].LRUbits = u[w].LRUbits /\ set'[w].tag = u[w].tag
        /\ \A w \in Ways : w # way => set'[w].MESIbits = u[w].MESIbits
    BY <1>2, <1>3, <1>6, SetMESIKeeps
  <2>2. \E n \in 0 .. WAYS : Counted(set', n)
    BY <1>2, <2>1 DEF Counted
  <2> QED
    BY <1>2, <1>3, <2>1, <2>2, KeepsIInv
<1> QED
  BY <1>4, <1>5, <1>6

(* Invalidation and downgrade move MESI bits only.                         *)
LEMMA MarkIInv ==
  ASSUME IInv, NEW t \in Tags, NEW b \in {S, I}, Mark(t, b)
  PROVE  IInv' /\ \A w \in Ways : set'[w].tag = set[w].tag
<1> DEFINE way == checkTag(set, t)
<1>1. set \in SetType
  BY DEF IInv, TypeOK, SetType
<1>2. way \in Ways /\ First(set, way)
  BY <1>1, CheckTagFirst DEF Mark, First
<1>3. set' = SetMESI(set, way, b) /\ b \in MESI
  BY DEF Mark, MESI
<1> HIDE DEF way
<1>4. /\ set' \in SetType
      /\ \A w \in Ways : set'[w].LRUbits = set[w].LRUbits /\ set'[w].tag = set[w].tag
      /\ \A w \in Ways : w # way => set'[w].MESIbits = set[w].MESIbits
  BY <1>1, <1>2, <1>3, SetMESIKeeps
<1>5. \E n \in 0 .. WAYS : Counted(set', n)
  BY <1>4 DEF IInv, LRUCountsFills, Counted
<1> QED
  BY <1>2, <1>4, <1>5, KeepsIInv

(* A fill takes the next unused way, or leaves the set alone when there is *)
(* none.                                                                   *)
LEMMA FillIInv ==
  ASSUME IInv, NEW t \in Tags, NEW b \in Valid, Fill(t, b)
  PROVE  IInv' /\ \A w \in Ways : set[w].tag # 0 => set'[w].tag = set[w].tag
<1>1. set \in SetType
  BY DEF IInv, TypeOK, SetType
<1>2. PICK n \in 0 .. WAYS : Counted(set, n)
  BY DEF IInv, LRUCountsFills, Counted
<1>3. checkLRU(set) = n
  BY <1>2, CheckLRUCounted
<1>4. \A w \in Ways : set[w].tag # t
  BY <1>1, CheckTagFirst DEF Fill
<1>5. set' \in Fills(set, t, b)
  BY DEF Fill
<1>6. CASE n = WAYS
  <2>1. set' = set \/ set' = AgeOthers(set)
    BY <1>3, <1>5, <1>6, WaysAssumption DEF Fills, Ways
  <2>2. set' = set
    BY <1>1, <1>2, <1>6, <2>1, AgeFull
  <2> QED
    BY <1>1, <1>2, <2>2, KeepsIInv
<1>7. CASE n < WAYS
  <2> DEFINE u == updateLRU(set, n)
  <2>1. n \in Ways
    BY <1>7, WaysAssumption DEF Ways
  <2>2. set' = [u EXCEPT ![n].tag = t, ![n].MESIbits = b]
    BY <1>3, <1>5, <2>1 DEF Fills
  <2>3. /\ u \in SetType
        /\ Counted(u, n + 1)
        /\ \A w \in Ways : u[w].tag = set[w].tag /\ u[w].MESIbits = set[w].MESIbits
    BY <1>1, <1>2, <2>1, UpdateCounted
  <2>4. b \in MESI
    BY DEF Valid, MESI
  <2> HIDE DEF u
  <2>5. /\ set' \in SetType
        /\ \A w \in Ways : set'[w].LRUbits = u[w].LRUbits
        /\ \A w \in Ways : w # n => set'[w].tag = u[w].tag /\ set'[w].MESIbits = u[w].MESIbits
        /\ set'[n].tag = t
    BY <2>1, <2>2, <2>3, <2>4 DEF SetType
  <2>6. n + 1 \in 0 .. WAYS /\ Counted(set', n + 1)
    BY <2>1, <2>3, <2>5, WaysAssumption DEF Counted, Ways
  <2>7. TypeOK' /\ LRUCountsFills'
    BY <2>5, <2>6 DEF TypeOK, SetType, LRUCountsFills, Counted
  <2>8. TagsDistinct'
    BY <1>4, <2>3, <2>5 DEF IInv, TagsDistinct
  <2>9. TaggedIsUsed'
    <3>1. SUFFICES ASSUME NEW w \in Ways, set'[w].tag # 0
                   PROVE  set'[w].LRUbits = WAYS
      BY DEF TaggedIsUsed
    <3>2. CASE w = n
      BY <2>1, <2>6, <3>2 DEF Counted, Ways
    <3>3. CASE w # n
      <4>1. set[w].LRUbits = WAYS
        BY <2>3, <2>5, <3>1, <3>3 DEF IInv, TaggedIsUsed
      <4>2. w < n
        BY <1>2, <2>1, <4>1, WaysAssumption DEF Counted, Ways
      <4> QED
        BY <2>1, <2>6, <4>2 DEF Counted, Ways
    <3> QED
      BY <3>2, <3>3
  <2>10. set[n].tag = 0
    BY <1>2, <2>1, WaysAssumption DEF IInv, TaggedIsUsed, Counted, Ways
  <2> QED
    BY <2>3, <2>5, <2>7, <2>8, <2>9, <2>10 DEF IInv
<1> QED
  BY <1>6, <1>7, WaysAssumption

(* Every step keeps the invariant and every stored tag.                    *)
LEMMA NextIInv ==
  IInv /\ [Next]_vars =>
    /\ IInv'
    /\ \A way \in Ways : set[way].tag # 0 => set'[way].tag = set[way].tag
<1> SUFFICES ASSUME IInv, [Next]_vars
             PROVE  /\ IInv'
                    /\ \A way \in Ways : set[way].tag # 0 => set'[way].tag = set[way].tag
  OBVIOUS
<1>1. CASE UNCHANGED vars
  BY <1>1 DEF vars, IInv, TypeOK, LRUCountsFills, TagsDistinct, TaggedIsUsed
<1>2. ASSUME NEW t \in Tags, ReadHit(t) \/ (\E b \in Valid : Touch(t, b))
      PROVE  IInv' /\ \A w \in Ways : set'[w].tag = set[w].tag
  BY <1>2, TouchIInv
<1>3. ASSUME NEW t \in Tags, NEW b \in {S, I}, Mark(t, b)
      PROVE  IInv' /\ \A w \in Ways : set'[w].tag = set[w].tag
  BY <1>3, MarkIInv
<1>4. ASSUME NEW t \in Tags, NEW b \in Valid, Fill(t, b)
      PROVE  IInv' /\ \A w \in Ways : set[w].tag # 0 => set'[w].tag = set[w].tag
  BY <1>4, FillIInv
<1> QED
  BY <1>1, <1>2, <1>3, <1>4 DEF Next

(* The invariant holds in every reachable state of a cache set.            *)
THEOREM CacheInvariant == Spec => []IInv
<1>1. Init => IInv
  BY InitIInv
<1>2. IInv /\ [Next]_vars => IInv'
  BY NextIInv
<1> QED
  BY <1>1, <1>2, PTL DEF Spec

(* Type correctness of the set, in particular LRUbits \in 0 .. WAYS, for   *)
(* every associativity.                                                    *)
THEOREM CacheTypeCorrect == Spec => []TypeOK
<1>1. IInv => TypeOK
  BY DEF IInv
<1> QED
  BY <1>1, CacheInvariant, PTL

(* updateLRU and checkLRU hand the ways out once each in ascending order,  *)
(* for every associativity and every sequence of calls.                    *)
THEOREM CacheCountsFills == Spec => []LRUCountsFills
<1>1. IInv => LRUCountsFills
  BY DEF IInv
<1> QED
  BY <1>1, CacheInvariant, PTL

(* checkTag always finds the only way that holds a tag, and for tag 0 the  *)
(* only one that can be valid.                                             *)
THEOREM CacheTagsDistinct == Spec => []TagsDistinct
<1>1. IInv => TagsDistinct
  BY DEF IInv
<1> QED
  BY <1>1, CacheInvariant, PTL

(* No sequence of calls replaces a stored tag.                             *)
THEOREM CacheNoEviction == Spec => NoEviction
<1>1. IInv /\ [Next]_vars =>
        [\A way \in Ways : set[way].tag # 0 => set'[way].tag = set[way].tag]_vars
  BY NextIInv
<1> QED
  BY <1>1, CacheInvariant, PTL DEF Spec, NoEviction
=============================================================================
