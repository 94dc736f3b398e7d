-------------------------------- MODULE Link --------------------------------
(***************************************************************************)
(* What a channel of the network promises to the router at its end: one    *)
(* register stage. The flit written last before a cycle starts is latched  *)
(* when the cycle reads its inputs and is visible to the receiver from the *)
(* end of that cycle to the end of the next one.                           *)
(***************************************************************************)
CONSTANTS Flits, NoFlit

VARIABLES input, latch, output, stage

linkVars == <<input, latch, output, stage>>

LinkInit ==
  /\ input = NoFlit
  /\ latch = NoFlit
  /\ output = NoFlit
  /\ stage = "send"

LinkSend(f) ==
  /\ stage = "send"
  /\ input' = f
  /\ UNCHANGED <<latch, output, stage>>

LinkRead ==
  /\ stage = "send"
  /\ latch' = input
  /\ input' = NoFlit
  /\ stage' = "read"
  /\ UNCHANGED output

LinkWrite ==
  /\ stage = "read"
  /\ output' = latch
  /\ latch' = NoFlit
  /\ stage' = "send"
  /\ UNCHANGED input

LinkNext == LinkRead \/ LinkWrite \/ \E f \in Flits : LinkSend(f)

LinkSpec == LinkInit /\ [][LinkNext]_linkVars
=============================================================================
