----------------------------- MODULE ISlipProofs -----------------------------
(***************************************************************************)
(* Proofs about the allocator, for every number of inputs, outputs and     *)
(* iterations.                                                             *)
(***************************************************************************)
EXTENDS ISlip, MinLemmas, TLAPS

(* The wrap-around scan of the grant and accept phases finds a member of a *)
(* non-empty candidate set.                                                *)
LEMMA FirstFromIsMember ==
  ASSUME NEW S \in SUBSET Nat, NEW p \in Nat, S # {}
  PROVE  FirstFrom(S, p) \in S
<1> DEFINE later == {x \in S : x >= p}
<1>1. CASE later # {}
  <2>1. Min(later) \in later
    BY <1>1, MinIsMember
  <2> QED
    BY <1>1, <2>1 DEF FirstFrom
<1>2. CASE later = {}
  BY <1>2, MinIsMember DEF FirstFrom
<1> QED
  BY <1>1, <1>2

(* A moved pointer is again a port number.                                 *)
LEMMA NextPointerInRange ==
  ASSUME NEW n \in Nat \ {0}, NEW port \in 0 .. n - 1
  PROVE  NextPointer(port, n) \in 0 .. n - 1
BY DEF NextPointer

-----------------------------------------------------------------------------
(* What the grant phase does: a grant goes to a free requester of a free   *)
(* output, and a free output with a free requester does grant.             *)
LEMMA GrantsProperty ==
  ASSUME NEW a \in AllocatorType, NEW o \in Outputs
  PROVE  /\ Grants(a)[o] \in Inputs \cup {NoPort}
         /\ Grants(a)[o] # NoPort =>
              /\ Grants(a)[o] \in a.out_req[o]
              /\ a.inmatch[Grants(a)[o]] = NoPort
              /\ a.outmatch[o] = NoPort
         /\ a.outmatch[o] = NoPort =>
              \A i \in a.out_req[o] : a.inmatch[i] = NoPort => Grants(a)[o] # NoPort
<1> DEFINE free == {i \in a.out_req[o] : a.inmatch[i] = NoPort}
<1>1. /\ free \in SUBSET Inputs
      /\ free \in SUBSET Nat
      /\ a.gptrs[o] \in Nat
      /\ NoPort \notin Inputs
  BY SizeAssumption DEF AllocatorType, Inputs, NoPort
<1>2. Grants(a)[o] = IF a.outmatch[o] = NoPort /\ free # {}
                     THEN FirstFrom(free, a.gptrs[o]) ELSE NoPort
  BY DEF Grants
<1>3. free # {} => FirstFrom(free, a.gptrs[o]) \in free
  BY <1>1, FirstFromIsMember
<1> QED
  BY <1>1, <1>2, <1>3

(* What the accept phase does: an input accepts only an output that it     *)
(* requested and that granted it, and it accepts whenever it has an offer. *)
LEMMA AcceptsProperty ==
  ASSUME NEW a \in AllocatorType, NEW i \in Inputs
  PROVE  /\ Accepts(a)[i] \in Outputs \cup {NoPort}
         /\ Accepts(a)[i] # NoPort =>
              /\ Accepts(a)[i] \in a.in_req[i]
              /\ Grants(a)[Accepts(a)[i]] = i
         /\ \A o \in a.in_req[i] : Grants(a)[o] = i => Accepts(a)[i] # NoPort
<1> DEFINE offers == {o \in a.in_req[i] : Grants(a)[o] = i}
<1>1. /\ offers \in SUBSET Outputs
      /\ offers \in SUBSET Nat
      /\ a.aptrs[i] \in Nat
      /\ NoPort \notin Outputs
  BY SizeAssumption DEF AllocatorType, Outputs, NoPort
<1>2. Accepts(a)[i] = IF offers # {} THEN FirstFrom(offers, a.aptrs[i]) ELSE NoPort
  BY DEF Accepts
<1>3. offers # {} => FirstFrom(offers, a.aptrs[i]) \in offers
  BY <1>1, FirstFromIsMember
<1> QED
  BY <1>1, <1>2, <1>3

(* One iteration of Allocate, field by field.                              *)
LEMMA IterateFields ==
  ASSUME NEW a \in AllocatorType, NEW k \in Nat
  PROVE  LET b == Iterate(a, k) IN
         /\ b \in AllocatorType
         /\ b.in_req = a.in_req /\ b.out_req = a.out_req
         /\ b.in_occ = a.in_occ /\ b.out_occ = a.out_occ
         /\ b.dirty = a.dirty
         /\ \A i \in Inputs :
              b.inmatch[i] = IF Accepts(a)[i] # NoPort THEN Accepts(a)[i]
                             ELSE a.inmatch[i]
         /\ \A o \in Outputs :
              b.outmatch[o] =
                IF Grants(a)[o] # NoPort /\ Accepts(a)[Grants(a)[o]] = o
                THEN Grants(a)[o] ELSE a.outmatch[o]
<1> DEFINE g == Grants(a)
           c == Accepts(a)
           b == Iterate(a, k)
<1>1. /\ \A o \in Outputs : g[o] \in Inputs \cup {NoPort}
      /\ \A i \in Inputs : c[i] \in Outputs \cup {NoPort}
  BY GrantsProperty, AcceptsProperty
<1>2. /\ \A o \in Outputs : g[o] # NoPort => NextPointer(g[o], NumInputs) \in Inputs
      /\ \A i \in Inputs : c[i] # NoPort => NextPointer(c[i], NumOutputs) \in Outputs
  BY <1>1, NextPointerInRange, SizeAssumption DEF Inputs, Outputs
<1> HIDE DEF g, c
<1>3. b = [a EXCEPT
        !.inmatch  = [i \in Inputs |-> IF c[i] # NoPort THEN c[i] ELSE a.inmatch[i]],
        !.outmatch = [o \in Outputs |-> IF g[o] # NoPort /\ c[g[o]] = o
                                        THEN g[o] ELSE a.outmatch[o]],
        !.gptrs    = [o \in Outputs |->
                        IF (g[o] # NoPort /\ c[g[o]] = o) /\ k = 0
                        THEN NextPointer(g[o], NumInputs) ELSE a.gptrs[o]],
        !.aptrs    = [i \in Inputs |->
                        IF c[i] # NoPort /\ k = 0
                        THEN NextPointer(c[i], NumOutputs) ELSE a.aptrs[i]]]
  BY DEF Iterate, g, c, AllocatorType
<1> HIDE DEF b
<1>4. b \in AllocatorType
  BY <1>1, <1>2, <1>3 DEF AllocatorType
<1>5. /\ b.in_req = a.in_req /\ b.out_req = a.out_req
      /\ b.in_occ = a.in_occ /\ b.out_occ = a.out_occ
      /\ b.dirty = a.dirty
      /\ b.inmatch = [i \in Inputs |-> IF c[i] # NoPort THEN c[i] ELSE a.inmatch[i]]
      /\ b.outmatch = [o \in Outputs |-> IF g[o] # NoPort /\ c[g[o]] = o
                                         THEN g[o] ELSE a.outmatch[o]]
  BY <1>3 DEF AllocatorType
<1> QED
  BY <1>4, <1>5 DEF b, g, c

-----------------------------------------------------------------------------
(* The inductive invariant. MatchingIsOneToOne needs MatchesAreRequested   *)
(* and the transposed request maps to know that an accepted grant comes    *)
(* from a port that really asked; NoStaleMatch makes the vectors inverse   *)
(* when a cycle starts although RemoveRequest broke them in the last one.  *)
IInv ==
  /\ TypeOK
  /\ RequestViewsAgree
  /\ MatchesAreRequested
  /\ MatchingIsOneToOne
  /\ NoStaleMatch
  /\ RequestedOutputsAreServed

LEMMA InitIInv == Init => IInv
<1> SUFFICES ASSUME Init PROVE IInv
  OBVIOUS
<1>1. alloc \in AllocatorType
  BY SizeAssumption DEF Init, NewAllocator, AllocatorType, Inputs, Outputs, NoPort
<1>2. TypeOK
  BY <1>1, IterAssumption DEF Init, TypeOK, Stages
<1> QED
  BY <1>2 DEF Init, NewAllocator, IInv, RequestViewsAgree, MatchesAreRequested,
              MatchingIsOneToOne, NoStaleMatch, RequestedOutputsAreServed

LEMMA ClearIInv == IInv /\ ClearStep => IInv'
<1> SUFFICES ASSUME IInv, ClearStep PROVE IInv'
  OBVIOUS
<1>1. /\ alloc' \in AllocatorType
      /\ alloc'.in_req = [i \in Inputs |-> {}]
      /\ alloc'.out_req = [o \in Outputs |-> {}]
      /\ alloc'.in_occ = {} /\ alloc'.out_occ = {}
  BY DEF ClearStep, Clear, ClearMatches, IInv, TypeOK, AllocatorType
<1>2. \A i \in Inputs : alloc'.inmatch[i] = NoPort
  BY DEF ClearStep, Clear, ClearMatches, IInv, NoStaleMatch, TypeOK, AllocatorType
<1>3. \A o \in Outputs : alloc'.outmatch[o] = NoPort
  BY DEF ClearStep, Clear, ClearMatches, IInv, NoStaleMatch, TypeOK, AllocatorType
<1>4. TypeOK'
  BY <1>1, IterAssumption DEF ClearStep, TypeOK, Stages
<1>5. NoPort \notin Inputs /\ NoPort \notin Outputs
  BY DEF NoPort, Inputs, Outputs
<1> QED
  BY <1>1, <1>2, <1>3, <1>4, <1>5
  DEF ClearStep, IInv, RequestViewsAgree, MatchesAreRequested,
      MatchingIsOneToOne, NoStaleMatch, RequestedOutputsAreServed

LEMMA AddRequestIInv ==
  ASSUME NEW in \in Inputs, NEW out \in Outputs
  PROVE  IInv /\ AddRequestStep(in, out) => IInv'
<1> SUFFICES ASSUME IInv, AddRequestStep(in, out) PROVE IInv'
  OBVIOUS
<1>0. /\ alloc.in_req \in [Inputs -> SUBSET Outputs]
      /\ alloc.out_req \in [Outputs -> SUBSET Inputs]
      /\ alloc.in_occ \in SUBSET Inputs /\ alloc.out_occ \in SUBSET Outputs
      /\ alloc.inmatch \in [Inputs -> Outputs \cup {NoPort}]
      /\ alloc.outmatch \in [Outputs -> Inputs \cup {NoPort}]
  BY DEF IInv, TypeOK, AllocatorType
<1>1. /\ alloc' \in AllocatorType
      /\ alloc'.inmatch = alloc.inmatch /\ alloc'.outmatch = alloc.outmatch
      /\ alloc'.dirty = TRUE
      /\ alloc'.in_req = [alloc.in_req EXCEPT ![in] = @ \cup {out}]
      /\ alloc'.out_req = [alloc.out_req EXCEPT ![out] = @ \cup {in}]
      /\ alloc'.in_occ = IF alloc.in_req[in] = {} THEN alloc.in_occ \cup {in}
                         ELSE alloc.in_occ
      /\ alloc'.out_occ = IF alloc.out_req[out] = {} THEN alloc.out_occ \cup {out}
                          ELSE alloc.out_occ
  <2>1. alloc \in AllocatorType /\ alloc' = AddRequest(alloc, in, out)
    BY DEF AddRequestStep, IInv, TypeOK
  <2>2. alloc'.inmatch = alloc.inmatch /\ alloc'.outmatch = alloc.outmatch
    BY <2>1 DEF AddRequest, AllocatorType
  <2>3. alloc'.dirty = TRUE
    BY <2>1 DEF AddRequest, AllocatorType
  <2>4. alloc'.in_req = [alloc.in_req EXCEPT ![in] = @ \cup {out}]
    BY <2>1 DEF AddRequest, AllocatorType
  <2>5. alloc'.out_req = [alloc.out_req EXCEPT ![out] = @ \cup {in}]
    BY <2>1 DEF AddRequest, AllocatorType
  <2>6. alloc'.in_occ = IF alloc.in_req[in] = {} THEN alloc.in_occ \cup {in}
                         ELSE alloc.in_occ
    BY <2>1 DEF AddRequest, AllocatorType
  <2>7. alloc'.out_occ = IF alloc.out_req[out] = {} THEN alloc.out_occ \cup {out}
                          ELSE alloc.out_occ
    BY <2>1 DEF AddRequest, AllocatorType
  <2>8. alloc' \in AllocatorType
    <3> DEFINE x == [alloc.in_req EXCEPT ![in] = @ \cup {out}]
               y == [alloc.out_req EXCEPT ![out] = @ \cup {in}]
               u == IF alloc.in_req[in] = {} THEN alloc.in_occ \cup {in}
                    ELSE alloc.in_occ
               v == IF alloc.out_req[out] = {} THEN alloc.out_occ \cup {out}
                    ELSE alloc.out_occ
    <3>1. x \in [Inputs -> SUBSET Outputs] /\ y \in [Outputs -> SUBSET Inputs]
      BY <1>0
    <3>2. u \in SUBSET Inputs /\ v \in SUBSET Outputs
      BY <1>0
    <3>3. alloc' = [alloc EXCEPT !.dirty = TRUE, !.in_occ = u, !.out_occ = v,
                                !.in_req = x, !.out_req = y]
      BY <2>1 DEF AddRequest
    <3> HIDE DEF x, y, u, v
    <3> QED
      BY <2>1, <3>1, <3>2, <3>3, Zenon DEF AllocatorType
  <2> QED
    BY <2>2, <2>3, <2>4, <2>5, <2>6, <2>7, <2>8
<1>2. TypeOK'
  BY <1>1 DEF AddRequestStep, IInv, TypeOK
<1>3. RequestViewsAgree'
  <2>1. RequestViewsAgree
    BY DEF IInv
  <2>2. \A i \in Inputs, o \in Outputs :
          o \in alloc'.in_req[i] <=> i \in alloc'.out_req[o]
    BY <1>0, <1>1, <2>1 DEF RequestViewsAgree
  <2>3. alloc'.in_occ = {i \in Inputs : alloc'.in_req[i] # {}}
    BY <1>0, <1>1, <2>1 DEF RequestViewsAgree
  <2>4. alloc'.out_occ = {o \in Outputs : alloc'.out_req[o] # {}}
    BY <1>0, <1>1, <2>1 DEF RequestViewsAgree
  <2> QED
    BY <2>2, <2>3, <2>4 DEF RequestViewsAgree
<1>4. MatchesAreRequested' /\ NoStaleMatch'
  BY <1>0, <1>1 DEF AddRequestStep, IInv, NoStaleMatch, MatchesAreRequested
<1>5. MatchingIsOneToOne' /\ RequestedOutputsAreServed'
  BY <1>1 DEF AddRequestStep, IInv, MatchingIsOneToOne, RequestedOutputsAreServed
<1> QED
  BY <1>2, <1>3, <1>4, <1>5 DEF IInv

LEMMA RemoveRequestIInv ==
  ASSUME NEW in \in Inputs, NEW out \in Outputs
  PROVE  IInv /\ RemoveRequestStep(in, out) => IInv'
<1> SUFFICES ASSUME IInv, RemoveRequestStep(in, out) PROVE IInv'
  OBVIOUS
<1>0. /\ alloc.in_req \in [Inputs -> SUBSET Outputs]
      /\ alloc.out_req \in [Outputs -> SUBSET Inputs]
      /\ alloc.in_occ \in SUBSET Inputs /\ alloc.out_occ \in SUBSET Outputs
      /\ alloc.inmatch \in [Inputs -> Outputs \cup {NoPort}]
      /\ alloc.outmatch \in [Outputs -> Inputs \cup {NoPort}]
  BY DEF IInv, TypeOK, AllocatorType
<1>1. /\ alloc' \in AllocatorType
      /\ alloc'.inmatch = [alloc.inmatch EXCEPT ![in] = NoPort]
      /\ alloc'.outmatch = [alloc.outmatch EXCEPT ![out] = NoPort]
      /\ alloc'.dirty = alloc.dirty
      /\ alloc'.in_req = [alloc.in_req EXCEPT ![in] = @ \ {out}]
      /\ alloc'.out_req = [alloc.out_req EXCEPT ![out] = @ \ {in}]
      /\ alloc'.in_occ = IF alloc.in_req[in] \ {out} = {} THEN alloc.in_occ \ {in}
                         ELSE alloc.in_occ
      /\ alloc'.out_occ = IF alloc.out_req[out] \ {in} = {} THEN alloc.out_occ \ {out}
                          ELSE alloc.out_occ
  <2>1. alloc \in AllocatorType /\ alloc' = RemoveRequest(alloc, in, out)
    BY DEF RemoveRequestStep, IInv, TypeOK
  <2>2. alloc'.inmatch = [alloc.inmatch EXCEPT ![in] = NoPort]
    BY <2>1 DEF RemoveRequest, AllocatorType
  <2>3. alloc'.outmatch = [alloc.outmatch EXCEPT ![out] = NoPort]
    BY <2>1 DEF RemoveRequest, AllocatorType
  <2>4. alloc'.dirty = alloc.dirty
    BY <2>1 DEF RemoveRequest, AllocatorType
  <2>5. alloc'.in_req = [alloc.in_req EXCEPT ![in] = @ \ {out}]
    BY <2>1 DEF RemoveRequest, AllocatorType
  <2>6. alloc'.out_req = [alloc.out_req EXCEPT ![out] = @ \ {in}]
    BY <2>1 DEF RemoveRequest, AllocatorType
  <2>7. alloc'.in_occ = IF alloc.in_req[in] \ {out} = {} THEN alloc.in_occ \ {in}
                         ELSE alloc.in_occ
    BY <2>1 DEF RemoveRequest, AllocatorType
  <2>8. alloc'.out_occ = IF alloc.out_req[out] \ {in} = {} THEN alloc.out_occ \ {out}
                          ELSE alloc.out_occ
    BY <2>1 DEF RemoveRequest, AllocatorType
  <2>9. alloc' \in AllocatorType
    <3> DEFINE x == [alloc.in_req EXCEPT ![in] = @ \ {out}]
               y == [alloc.out_req EXCEPT ![out] = @ \ {in}]
               u == IF alloc.in_req[in] \ {out} = {} THEN alloc.in_occ \ {in}
                    ELSE alloc.in_occ
               v == IF alloc.out_req[out] \ {in} = {} THEN alloc.out_occ \ {out}
                    ELSE alloc.out_occ
               p == [alloc.inmatch EXCEPT ![in] = NoPort]
               q == [alloc.outmatch EXCEPT ![out] = NoPort]
    <3>1. x \in [Inputs -> SUBSET Outputs] /\ y \in [Outputs -> SUBSET Inputs]
      BY <1>0
    <3>2. u \in SUBSET Inputs /\ v \in SUBSET Outputs
      BY <1>0
    <3>3. /\ p \in [Inputs -> Outputs \cup {NoPort}]
          /\ q \in [Outputs -> Inputs \cup {NoPort}]
      BY <1>0
    <3>4. alloc' = [alloc EXCEPT !.in_req = x, !.in_occ = u, !.out_req = y,
                                !.out_occ = v, !.inmatch = p, !.outmatch = q]
      BY <2>1 DEF RemoveRequest
    <3> HIDE DEF x, y, u, v, p, q
    <3> QED
      BY <2>1, <3>1, <3>2, <3>3, <3>4, Zenon DEF AllocatorType
  <2> QED
    BY <2>2, <2>3, <2>4, <2>5, <2>6, <2>7, <2>8, <2>9
<1>2. TypeOK'
  BY <1>1 DEF RemoveRequestStep, IInv, TypeOK, Stages
<1>3. RequestViewsAgree'
  <2>1. RequestViewsAgree
    BY DEF IInv
  <2>2. \A i \in Inputs, o \in Outputs :
          o \in alloc'.in_req[i] <=> i \in alloc'.out_req[o]
    BY <1>0, <1>1, <2>1 DEF RequestViewsAgree
  <2>3. alloc'.in_occ = {i \in Inputs : alloc'.in_req[i] # {}}
    BY <1>0, <1>1, <2>1 DEF RequestViewsAgree
  <2>4. alloc'.out_occ = {o \in Outputs : alloc'.out_req[o] # {}}
    BY <1>0, <1>1, <2>1 DEF RequestViewsAgree
  <2> QED
    BY <2>2, <2>3, <2>4 DEF RequestViewsAgree
<1>4. MatchesAreRequested'
  BY <1>0, <1>1 DEF IInv, MatchesAreRequested
<1>5. NoStaleMatch'
  BY <1>0, <1>1 DEF RemoveRequestStep, IInv, NoStaleMatch
<1>6. MatchingIsOneToOne' /\ RequestedOutputsAreServed'
  BY <1>0, <1>1 DEF RemoveRequestStep, IInv, MatchingIsOneToOne,
                    RequestedOutputsAreServed
<1> QED
  BY <1>2, <1>3, <1>4, <1>5, <1>6 DEF IInv

(* The heart of the argument: grants and acceptances pair free ports.      *)
LEMMA AllocateIInv == IInv /\ AllocateStep => IInv'
<1> SUFFICES ASSUME IInv, AllocateStep PROVE IInv'
  OBVIOUS
<1> DEFINE g == Grants(alloc)
           c == Accepts(alloc)
<1>0. alloc \in AllocatorType /\ iter \in Nat /\ alloc' = Iterate(alloc, iter)
  BY IterAssumption DEF AllocateStep, IInv, TypeOK
<1>1. /\ alloc' \in AllocatorType
      /\ alloc'.in_req = alloc.in_req /\ alloc'.out_req = alloc.out_req
      /\ alloc'.in_occ = alloc.in_occ /\ alloc'.out_occ = alloc.out_occ
      /\ alloc'.dirty = alloc.dirty
      /\ \A i \in Inputs : alloc'.inmatch[i] = IF c[i] # NoPort THEN c[i]
                                               ELSE alloc.inmatch[i]
      /\ \A o \in Outputs : alloc'.outmatch[o] =
           IF g[o] # NoPort /\ c[g[o]] = o THEN g[o] ELSE alloc.outmatch[o]
  BY <1>0, IterateFields
<1>2. \A o \in Outputs :
        /\ g[o] \in Inputs \cup {NoPort}
        /\ g[o] # NoPort => /\ g[o] \in alloc.out_req[o]
                            /\ alloc.inmatch[g[o]] = NoPort
                            /\ alloc.outmatch[o] = NoPort
        /\ alloc.outmatch[o] = NoPort =>
             \A i \in alloc.out_req[o] : alloc.inmatch[i] = NoPort => g[o] # NoPort
  BY <1>0, GrantsProperty
<1>3. \A i \in Inputs :
        /\ c[i] \in Outputs \cup {NoPort}
        /\ c[i] # NoPort => c[i] \in alloc.in_req[i] /\ g[c[i]] = i
        /\ \A o \in alloc.in_req[i] : g[o] = i => c[i] # NoPort
  BY <1>0, AcceptsProperty
<1> HIDE DEF g, c
<1>4. /\ alloc.in_req \in [Inputs -> SUBSET Outputs]
      /\ alloc.out_req \in [Outputs -> SUBSET Inputs]
      /\ alloc.inmatch \in [Inputs -> Outputs \cup {NoPort}]
      /\ alloc.outmatch \in [Outputs -> Inputs \cup {NoPort}]
      /\ NoPort \notin Inputs /\ NoPort \notin Outputs
  BY <1>0 DEF AllocatorType, Inputs, Outputs, NoPort
<1>5. /\ RequestViewsAgree /\ MatchesAreRequested /\ MatchingIsOneToOne
      /\ NoStaleMatch /\ RequestedOutputsAreServed
      /\ stage # "released"
  BY DEF IInv, AllocateStep
<1>6. TypeOK'
  BY <1>1, IterAssumption DEF AllocateStep, IInv, TypeOK, Stages
<1>7. RequestViewsAgree'
  BY <1>1, <1>5 DEF RequestViewsAgree
<1>8. MatchesAreRequested'
  BY <1>1, <1>2, <1>3, <1>4, <1>5 DEF MatchesAreRequested
<1>9. \A i \in Inputs, o \in Outputs :
        alloc'.inmatch[i] = o <=> alloc'.outmatch[o] = i
  <2> SUFFICES ASSUME NEW i \in Inputs, NEW o \in Outputs
               PROVE  alloc'.inmatch[i] = o <=> alloc'.outmatch[o] = i
    OBVIOUS
  <2>1. alloc.inmatch[i] = o <=> alloc.outmatch[o] = i
    BY <1>5 DEF MatchingIsOneToOne
  <2>2. ASSUME alloc'.inmatch[i] = o PROVE alloc'.outmatch[o] = i
    BY <1>1, <1>2, <1>3, <1>4, <2>1, <2>2
  <2>3. ASSUME alloc'.outmatch[o] = i PROVE alloc'.inmatch[i] = o
    BY <1>1, <1>2, <1>3, <1>4, <2>1, <2>3
  <2> QED
    BY <2>2, <2>3
<1>10. MatchingIsOneToOne'
  <2>1. \A i \in Inputs : alloc'.inmatch[i] \in Outputs \cup {NoPort}
    BY <1>1 DEF AllocatorType
  <2> QED
    BY <1>9, <2>1 DEF MatchingIsOneToOne
<1>11. NoStaleMatch'
  <2>1. stage' # "requests"
    BY DEF AllocateStep
  <2>2. ASSUME ~alloc.dirty
        PROVE  /\ \A i \in Inputs : alloc.in_req[i] = {} /\ c[i] = NoPort
               /\ \A o \in Outputs : g[o] = NoPort
    BY <1>2, <1>3, <1>4, <1>5, <2>2 DEF NoStaleMatch, RequestViewsAgree
  <2> QED
    BY <1>1, <1>5, <2>1, <2>2 DEF NoStaleMatch
<1>12. RequestedOutputsAreServed'
  <2> SUFFICES ASSUME NEW o \in Outputs, alloc.out_req[o] # {}
               PROVE  \E i \in alloc.out_req[o] : alloc'.inmatch[i] # NoPort
    BY <1>1 DEF RequestedOutputsAreServed
  <2>1. \A i \in Inputs : alloc.inmatch[i] # NoPort => alloc'.inmatch[i] # NoPort
    BY <1>1
  <2>2. CASE alloc.outmatch[o] # NoPort
    BY <1>4, <1>5, <2>1, <2>2 DEF MatchesAreRequested, MatchingIsOneToOne
  <2>3. CASE g[o] # NoPort
    <3>1. g[o] \in Inputs /\ g[o] \in alloc.out_req[o] /\ o \in alloc.in_req[g[o]]
      BY <1>2, <1>5, <2>3 DEF RequestViewsAgree
    <3>2. c[g[o]] # NoPort
      BY <1>3, <3>1
    <3> QED
      BY <1>1, <3>1, <3>2
  <2>4. CASE alloc.outmatch[o] = NoPort /\ g[o] = NoPort
    <3>1. \A i \in alloc.out_req[o] : alloc.inmatch[i] # NoPort
      BY <1>2, <2>4
    <3> QED
      BY <1>4, <2>1, <3>1
  <2> QED
    BY <2>2, <2>3, <2>4
<1> QED
  BY <1>6, <1>7, <1>8, <1>10, <1>11, <1>12 DEF IInv

LEMMA NextIInv == IInv /\ [Next]_vars => IInv'
<1> SUFFICES ASSUME IInv, [Next]_vars PROVE IInv'
  OBVIOUS
<1>1. CASE ClearStep
  BY <1>1, ClearIInv
<1>2. CASE AllocateStep
  BY <1>2, AllocateIInv
<1>3. ASSUME NEW in \in Inputs, NEW out \in Outputs, AddRequestStep(in, out)
      PROVE  IInv'
  BY <1>3, AddRequestIInv
<1>4. ASSUME NEW in \in Inputs, NEW out \in Outputs, RemoveRequestStep(in, out)
      PROVE  IInv'
  BY <1>4, RemoveRequestIInv
<1>5. CASE UNCHANGED vars
  BY <1>5 DEF vars, IInv, TypeOK, RequestViewsAgree, MatchesAreRequested,
              MatchingIsOneToOne, NoStaleMatch, RequestedOutputsAreServed
<1> QED
  BY <1>1, <1>2, <1>3, <1>4, <1>5 DEF Next

-----------------------------------------------------------------------------
(* The invariant of the allocator, for every size and iteration count.     *)
THEOREM AllocatorInvariant == Spec => []IInv
BY InitIInv, NextIInv, PTL DEF Spec

(* Every field of the allocator keeps its range; the round-robin pointers  *)
(* of allocator.cpp:412-413 are always valid port numbers.                 *)
THEOREM AllocatorTypeCorrect == Spec => []TypeOK
<1>1. IInv => TypeOK
  BY DEF IInv
<1> QED
  BY <1>1, AllocatorInvariant, PTL

(* The result of Allocate is a matching in every cycle: no output is given *)
(* to two inputs and OutputAssigned and InputAssigned agree.               *)
THEOREM AllocatorMatches == Spec => [](MatchingIsOneToOne /\ MatchesAreRequested)
<1>1. IInv => MatchingIsOneToOne /\ MatchesAreRequested
  BY DEF IInv
<1> QED
  BY <1>1, AllocatorInvariant, PTL

(* The _dirty shortcut of Clear never leaves a match of an earlier cycle.  *)
THEOREM AllocatorNoStaleMatch == Spec => []NoStaleMatch
<1>1. IInv => NoStaleMatch
  BY DEF IInv
<1> QED
  BY <1>1, AllocatorInvariant, PTL

(* Allocate is work conserving for every size and iteration count.         *)
THEOREM AllocatorServes == Spec => []RequestedOutputsAreServed
<1>1. IInv => RequestedOutputsAreServed
  BY DEF IInv
<1> QED
  BY <1>1, AllocatorInvariant, PTL
=============================================================================
