---------------------------- MODULE ChannelProofs ----------------------------
(***************************************************************************)
(* Proofs about a channel with the latency the mesh is built with, for     *)
(* every set of flits and every behaviour of the clock.                    *)
(***************************************************************************)
EXTENDS Channel, SequenceTheorems, TLAPS

(* Inside a cycle at most one flit waits, and its time is this cycle's.    *)
OnTime == wait # <<>> => wait \in Seq(Int \X Flits) /\ Len(wait) = 1 /\ wait[1][1] = clock

IInv == TypeOK /\ OnTime

(* A new channel is empty.                                                 *)
LEMMA InitIInv == Init => IInv
BY DEF Init, IInv, TypeOK, OnTime

(* Every step of the channel keeps the invariant; with latency 1 the time  *)
(* stamped by ReadInputs is the clock of the same cycle.                   *)
LEMMA NextIInv ==
  ASSUME Delay = 1, IInv, [Next]_vars
  PROVE  IInv'
<1> USE DEF IInv, TypeOK, OnTime
<1>1. CASE UNCHANGED vars
  BY <1>1 DEF vars
<1>2. ASSUME NEW f \in Flits, Send(f)
      PROVE  IInv'
  BY <1>2 DEF Send
<1>3. ASSUME NEW c \in Clocks, ReadInputs(c)
      PROVE  IInv'
  <2>1. wait = <<>>
    BY <1>3, EmptySeq DEF ReadInputs
  <2>2. c \in Int /\ c + Delay - 1 = c
    BY ClocksAssumption
  <2>3. CASE input = NoFlit
    BY <1>3, <2>1, <2>3 DEF ReadInputs
  <2>4. CASE input # NoFlit
    <3>1. wait' = << <<c, input>> >>
      BY <1>3, <2>1, <2>2, <2>4 DEF ReadInputs
    <3>2. input \in Flits
      BY <2>4
    <3>3. /\ wait' \in Seq(Int \X Flits)
          /\ Len(wait') = 1
          /\ wait'[1][1] = c
      BY <2>2, <3>1, <3>2
    <3> QED
      BY <1>3, <3>3 DEF ReadInputs
  <2> QED
    BY <2>3, <2>4
<1>4. CASE WriteOutputs
  <2>1. CASE ~Due
    <3>1. wait = <<>>
      BY <1>4, <2>1, ClocksAssumption DEF WriteOutputs, Due
    <3>2. wait' = <<>> /\ output' = NoFlit
      BY <1>4, <2>1, <3>1 DEF WriteOutputs
    <3> QED
      BY <1>4, <3>2, EmptySeq DEF WriteOutputs
  <2>2. CASE Due
    <3>1. wait # <<>> /\ Len(wait) = 1 /\ wait' = Tail(wait) /\ output' = Head(wait)[2]
      BY <1>4, <2>2 DEF WriteOutputs, Due
    <3>2. wait' = <<>> /\ Head(wait) \in Int \X Flits
      BY <3>1
    <3> QED
      BY <1>4, <3>1, <3>2 DEF WriteOutputs
  <2> QED
    BY <2>1, <2>2
<1> QED
  BY <1>1, <1>2, <1>3, <1>4 DEF Next

(* The wait queue never holds more than the flit of the current cycle.     *)
THEOREM ChannelTypeCorrect ==
  ASSUME Delay = 1
  PROVE  Spec => []TypeOK
<1>1. IInv /\ [Next]_vars => IInv'
  BY NextIInv
<1>2. IInv => TypeOK
  BY DEF IInv
<1> QED
  BY <1>1, <1>2, InitIInv, PTL DEF Spec

(* The assertion in WriteOutputs cannot fail, whatever values curTick      *)
(* takes.                                                                  *)
THEOREM ChannelNeverOverdue ==
  ASSUME Delay = 1
  PROVE  Spec => []NeverOverdue
<1>1. IInv /\ [Next]_vars => IInv'
  BY NextIInv
<1>2. IInv => NeverOverdue
  BY ClocksAssumption DEF IInv, TypeOK, OnTime, NeverOverdue
<1> QED
  BY <1>1, <1>2, InitIInv, PTL DEF Spec

-----------------------------------------------------------------------------
(* Every step of the channel is a step of the link or leaves it alone.     *)
LEMMA StepRefines ==
  ASSUME Delay = 1, IInv, [Next]_vars
  PROVE  [L!LinkNext]_(L!linkVars)
<1> DEFINE latch == IF wait = <<>> THEN NoFlit ELSE Head(wait)[2]
<1> USE DEF IInv, TypeOK, OnTime
<1>1. CASE UNCHANGED vars
  BY <1>1 DEF vars, L!linkVars
<1>2. ASSUME NEW f \in Flits, Send(f)
      PROVE  L!LinkNext
  BY <1>2 DEF Send, L!LinkNext, L!LinkSend
<1>3. ASSUME NEW c \in Clocks, ReadInputs(c)
      PROVE  L!LinkNext
  <2>1. wait = <<>>
    BY <1>3, EmptySeq DEF ReadInputs
  <2>2. c \in Int /\ c + Delay - 1 = c
    BY ClocksAssumption
  <2>3. latch' = input
    <3>1. CASE input = NoFlit
      BY <1>3, <2>1, <3>1 DEF ReadInputs
    <3>2. CASE input # NoFlit
      <4>1. wait' = << <<c, input>> >>
        BY <1>3, <2>1, <2>2, <3>2 DEF ReadInputs
      <4> QED
        BY <4>1
    <3> QED
      BY <3>1, <3>2
  <2> QED
    BY <1>3, <2>3 DEF ReadInputs, L!LinkNext, L!LinkRead
<1>4. CASE WriteOutputs
  <2>1. output' = latch /\ wait' = <<>>
    <3>1. CASE ~Due
      BY <1>4, <3>1, ClocksAssumption DEF WriteOutputs, Due
    <3>2. CASE Due
      BY <1>4, <3>2 DEF WriteOutputs, Due
    <3> QED
      BY <3>1, <3>2
  <2>2. latch' = NoFlit
    BY <2>1
  <2> QED
    BY <1>4, <2>1, <2>2 DEF WriteOutputs, L!LinkNext, L!LinkWrite
<1> QED
  BY <1>1, <1>2, <1>3, <1>4 DEF Next

(* The channel implements the one-register link the network model is       *)
(* built on.                                                               *)
THEOREM ChannelIsALink ==
  ASSUME Delay = 1
  PROVE  Spec => IsALink
<1>1. Init => L!LinkInit
  BY DEF Init, L!LinkInit
<1>2. IInv /\ [Next]_vars => IInv'
  BY NextIInv
<1>3. IInv /\ [Next]_vars => [L!LinkNext]_(L!linkVars)
  BY StepRefines
<1> QED
  BY <1>1, <1>2, <1>3, InitIInv, PTL DEF Spec, IsALink, L!LinkSpec
=============================================================================
