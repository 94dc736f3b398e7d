------------------------------ MODULE ISlipOps ------------------------------
(***************************************************************************)
(* The sparse iSLIP allocator of src/mem/enoc/allocator.cpp as operators   *)
(* on a record, so that a router can own several allocators.               *)
(*                                                                         *)
(* The request maps _in_req[in] : out -> sRequest are sets: the label and  *)
(* the two priorities stored beside a port are constant zeros at both call *)
(* sites (router.cpp:298 and 379) and Allocate never reads them.           *)
(***************************************************************************)
EXTENDS Integers, FiniteSetsExt

CONSTANTS NumInputs,   \* _inputs
          NumOutputs   \* _outputs

ASSUME SizeAssumption == NumInputs \in Nat \ {0} /\ NumOutputs \in Nat \ {0}

Inputs  == 0 .. NumInputs - 1
Outputs == 0 .. NumOutputs - 1
NoPort  == -1

(* The state of a freshly constructed iSLIP_Sparse. *)
NewAllocator ==
  [in_req   |-> [i \in Inputs |-> {}],
   out_req  |-> [o \in Outputs |-> {}],
   in_occ   |-> {},
   out_occ  |-> {},
   inmatch  |-> [i \in Inputs |-> NoPort],
   outmatch |-> [o \in Outputs |-> NoPort],
   dirty    |-> FALSE,
   gptrs    |-> [o \in Outputs |-> 0],
   aptrs    |-> [i \in Inputs |-> 0]]

(* Clear drops the requests, and the matches only if an AddRequest came    *)
(* since the last Clear; the round-robin pointers survive.                 *)
ClearMatches(a) ==
  IF a.dirty
  THEN [a EXCEPT !.inmatch  = [i \in Inputs |-> NoPort],
                 !.outmatch = [o \in Outputs |-> NoPort],
                 !.dirty    = FALSE]
  ELSE a

Clear(a) ==
  ClearMatches([a EXCEPT !.in_req  = [i \in Inputs |-> {}],
                         !.out_req = [o \in Outputs |-> {}],
                         !.in_occ  = {},
                         !.out_occ = {}])

AddRequest_NotDirty(a, in, out) ==
  [a EXCEPT !.in_occ       = @ \cup {in},
            !.out_occ      = @ \cup {out},
            !.in_req[in]   = @ \cup {out},
            !.out_req[out] = @ \cup {in}]

AddRequest(a, in, out) ==
  [a EXCEPT !.dirty        = TRUE,
            !.in_occ       = IF a.in_req[in] = {} THEN @ \cup {in} ELSE @,
            !.out_occ      = IF a.out_req[out] = {} THEN @ \cup {out} ELSE @,
            !.in_req[in]   = @ \cup {out},
            !.out_req[out] = @ \cup {in}]

(* RemoveRequest forgets both ends of the match of the pair it is given,   *)
(* whether or not the two were matched with each other.                    *)
RemoveRequest_KeepsMatch(a, in, out) ==
  [a EXCEPT !.in_req[in]    = @ \ {out},
            !.in_occ        = IF a.in_req[in] \ {out} = {} THEN @ \ {in} ELSE @,
            !.out_req[out]  = @ \ {in},
            !.out_occ       = IF a.out_req[out] \ {in} = {} THEN @ \ {out} ELSE @]

RemoveRequest_KeepsOccupied(a, in, out) ==
  [a EXCEPT !.in_req[in]    = @ \ {out},
            !.out_req[out]  = @ \ {in},
            !.inmatch[in]   = NoPort,
            !.outmatch[out] = NoPort]

RemoveRequest(a, in, out) ==
  [a EXCEPT !.in_req[in]    = @ \ {out},
            !.in_occ        = IF a.in_req[in] \ {out} = {} THEN @ \ {in} ELSE @,
            !.out_req[out]  = @ \ {in},
            !.out_occ       = IF a.out_req[out] \ {in} = {} THEN @ \ {out} ELSE @,
            !.inmatch[in]   = NoPort,
            !.outmatch[out] = NoPort]

(* The wrap-around scan of both phases: the first member of S at or after  *)
(* the pointer p, the smallest member when there is none.                  *)
FirstFrom_NoWrap(S, p) ==
  LET later == {x \in S : x >= p}
  IN  IF later # {} THEN Min(later) ELSE NoPort

FirstFrom(S, p) ==
  LET later == {x \in S : x >= p}
  IN  IF later # {} THEN Min(later) ELSE Min(S)

(* Grant phase: a free output grants its first free requester.             *)
Grants_AnyInput(a) ==
  [out \in Outputs |->
     IF a.outmatch[out] = NoPort /\ a.out_req[out] # {}
     THEN FirstFrom(a.out_req[out], a.gptrs[out])
     ELSE NoPort]

Grants(a) ==
  [out \in Outputs |->
     LET free == {in \in a.out_req[out] : a.inmatch[in] = NoPort}
     IN  IF a.outmatch[out] = NoPort /\ free # {}
         THEN FirstFrom(free, a.gptrs[out])
         ELSE NoPort]

(* Accept phase: an input takes the first of the outputs that granted it.  *)
Accepts(a) ==
  LET grants == Grants(a)
  IN  [in \in Inputs |->
         LET offers == {out \in a.in_req[in] : grants[out] = in}
         IN  IF offers # {} THEN FirstFrom(offers, a.aptrs[in]) ELSE NoPort]

(* Where a round-robin pointer goes after its port was matched.            *)
NextPointer_NoWrap(port, n) == port + 1

NextPointer_Stays(port, n) == port

NextPointer(port, n) == (port + 1) % n

(* One iteration of Allocate. The inputs accept disjoint sets of offers,   *)
(* so the loop over the inputs is a simultaneous update. The pointers move *)
(* in the first iteration only.                                            *)
Iterate(a, iter) ==
  LET grants   == Grants(a)
      accepts  == Accepts(a)
      taken(o) == grants[o] # NoPort /\ accepts[grants[o]] = o
  IN [a EXCEPT
        !.inmatch  = [i \in Inputs |->
                        IF accepts[i] # NoPort THEN accepts[i] ELSE @[i]],
        !.outmatch = [o \in Outputs |-> IF taken(o) THEN grants[o] ELSE @[o]],
        !.gptrs    = [o \in Outputs |->
                        IF taken(o) /\ iter = 0
                        THEN NextPointer(grants[o], NumInputs) ELSE @[o]],
        !.aptrs    = [i \in Inputs |->
                        IF accepts[i] # NoPort /\ iter = 0
                        THEN NextPointer(accepts[i], NumOutputs) ELSE @[i]]]
=============================================================================
