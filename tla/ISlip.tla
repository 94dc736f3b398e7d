-------------------------------- MODULE ISlip --------------------------------
(***************************************************************************)
(* The allocator as its owner drives it. ENoCRouter::clk (router.cpp       *)
(* 101-112) calls, once per cycle, Clear, then AddRequest for every waiting *)
(* virtual channel, then Allocate; a tail flit that leaves later in the    *)
(* cycle calls RemoveRequest (router.cpp:419). stage is that call order.   *)
(***************************************************************************)
EXTENDS ISlipOps

CONSTANT ISlipIter     \* _iSLIP_iter; the router passes 1 (router.cpp:35)

ASSUME IterAssumption == ISlipIter \in Nat \ {0}

VARIABLES alloc,   \* the allocator
          stage,   \* where the caller is in its cycle
          iter     \* loop counter of Allocate

vars == <<alloc, stage, iter>>

Stages == {"requests", "iterating", "allocated", "released"}

Init ==
  /\ alloc = NewAllocator
  /\ stage = "released"
  /\ iter = 0

ClearStep ==
  /\ stage \in {"allocated", "released"}
  /\ alloc' = Clear(alloc)
  /\ stage' = "requests"
  /\ iter' = 0

AddRequestStep(in, out) ==
  /\ stage = "requests"
  /\ alloc' = AddRequest(alloc, in, out)
  /\ UNCHANGED <<stage, iter>>

(* One pass of the loop in Allocate; nothing runs between two passes. *)
AllocateStep ==
  /\ stage \in {"requests", "iterating"}
  /\ alloc' = Iterate(alloc, iter)
  /\ iter' = iter + 1
  /\ stage' = IF iter' = ISlipIter THEN "allocated" ELSE "iterating"

RemoveRequestStep(in, out) ==
  /\ stage \in {"allocated", "released"}
  /\ alloc' = RemoveRequest(alloc, in, out)
  /\ stage' = "released"
  /\ UNCHANGED iter

Next ==
  \/ ClearStep
  \/ AllocateStep
  \/ \E in \in Inputs, out \in Outputs :
       AddRequestStep(in, out) \/ RemoveRequestStep(in, out)

Spec == Init /\ [][Next]_vars

(* ENoCRouter::clk is a straight line of calls and runs in every cycle, so *)
(* the next Clear and the next pass of Allocate always come.               *)
FairSpec == Spec /\ WF_vars(ClearStep) /\ WF_vars(AllocateStep)

-----------------------------------------------------------------------------
AllocatorType ==
  [in_req   : [Inputs -> SUBSET Outputs],
   out_req  : [Outputs -> SUBSET Inputs],
   in_occ   : SUBSET Inputs,
   out_occ  : SUBSET Outputs,
   inmatch  : [Inputs -> Outputs \cup {NoPort}],
   outmatch : [Outputs -> Inputs \cup {NoPort}],
   dirty    : BOOLEAN,
   gptrs    : [Outputs -> Inputs],
   aptrs    : [Inputs -> Outputs]]

(* Every field keeps its C++ range; in particular the round-robin pointers *)
(* stay valid indices.                                                     *)
TypeOK ==
  /\ alloc \in AllocatorType
  /\ stage \in Stages
  /\ iter \in 0 .. ISlipIter
  /\ stage = "requests" => iter = 0
  /\ stage = "iterating" => iter \in 1 .. ISlipIter - 1

(* The two request maps are transposes of each other and the occupancy     *)
(* sets name exactly the non-empty rows, whatever order AddRequest and     *)
(* RemoveRequest come in (RemoveRequest may name a pair that was never     *)
(* requested in this cycle).                                               *)
RequestViewsAgree ==
  /\ \A in \in Inputs, out \in Outputs :
       out \in alloc.in_req[in] <=> in \in alloc.out_req[out]
  /\ alloc.in_occ = {in \in Inputs : alloc.in_req[in] # {}}
  /\ alloc.out_occ = {out \in Outputs : alloc.out_req[out] # {}}

(* Allocate only ever matches ports that requested each other, and a match *)
(* never outlives its request, also across RemoveRequest.                  *)
MatchesAreRequested ==
  /\ \A in \in Inputs :
       alloc.inmatch[in] # NoPort => alloc.inmatch[in] \in alloc.in_req[in]
  /\ \A out \in Outputs :
       alloc.outmatch[out] # NoPort => alloc.outmatch[out] \in alloc.out_req[out]

(* No output is assigned to two inputs in any stage, and until a           *)
(* RemoveRequest the two match vectors are inverse to each other, so that  *)
(* OutputAssigned and InputAssigned tell the same story.                   *)
MatchingIsOneToOne ==
  /\ \A i, j \in Inputs :
       alloc.inmatch[i] # NoPort /\ alloc.inmatch[i] = alloc.inmatch[j] => i = j
  /\ stage # "released" =>
       \A in \in Inputs, out \in Outputs :
         alloc.inmatch[in] = out <=> alloc.outmatch[out] = in

(* Clear skips the match vectors unless _dirty is set. That is sound: a    *)
(* clean allocator holds no request and no match, so no match of an        *)
(* earlier cycle is visible while a new cycle collects its requests.       *)
NoStaleMatch ==
  stage = "requests" \/ ~alloc.dirty =>
    /\ \A in \in Inputs : alloc.inmatch[in] = NoPort
    /\ \A out \in Outputs : alloc.outmatch[out] = NoPort
    /\ ~alloc.dirty => \A in \in Inputs : alloc.in_req[in] = {}

(* Allocate is work conserving after every iteration: an output that was   *)
(* requested has at least one requester that holds a match (perhaps of     *)
(* another output).                                                        *)
RequestedOutputsAreServed ==
  stage \in {"iterating", "allocated"} =>
    \A out \in Outputs :
      alloc.out_req[out] # {} =>
        \E in \in alloc.out_req[out] : alloc.inmatch[in] # NoPort

(* No starvation: a pair that from some cycle on is requested in every     *)
(* cycle is matched again and again, whatever the other inputs request and *)
(* remove, because a grant pointer moves only past an input that accepted  *)
(* the grant (allocator.cpp:410-414).                                      *)
NoStarvation ==
  \A in \in Inputs, out \in Outputs :
    <>[](stage \in {"iterating", "allocated"} => out \in alloc.in_req[in])
      => []<>(alloc.inmatch[in] = out)
=============================================================================
