------------------------------- MODULE Channel -------------------------------
(***************************************************************************)
(* Channel<Flit>, src/mem/enoc/channel.h. NetworkNoC::clk (Network.cpp     *)
(* 74-91) calls ReadInputs and later WriteOutputs of every channel with    *)
(* the same global_clk; the senders (ENoCRouter::_SendFlits, which runs    *)
(* after the channels in WriteOutputs, and TrafficManager::SendFlit, which *)
(* runs after the network) call Send in between two cycles. global_clk is  *)
(* (int) curTick(), so consecutive cycles may see any two values.          *)
(***************************************************************************)
EXTENDS Integers, Sequences

CONSTANTS Flits,
          NoFlit,     \* the null pointer
          Delay,      \* _delay; buildMesh sets it to 1 on every channel
          Clocks      \* the values of global_clk

ASSUME NoFlitAssumption == NoFlit \notin Flits
ASSUME DelayAssumption  == Delay \in Nat \ {0}
ASSUME ClocksAssumption == Clocks \subseteq Int

VARIABLES input,      \* _input
          wait,       \* _wait_queue
          output,     \* _output
          stage,      \* "send" between two cycles, "read" inside one
          clock       \* global_clk of the cycle

vars == <<input, wait, output, stage, clock>>

Init ==
  /\ input = NoFlit
  /\ wait = <<>>
  /\ output = NoFlit
  /\ stage = "send"
  /\ clock \in Clocks

(* A second Send before the next cycle replaces the first flit. *)
Send(f) ==
  /\ stage = "send"
  /\ input' = f
  /\ UNCHANGED <<wait, output, stage, clock>>

ReadInputs_KeepsInput(c) ==
  /\ stage = "send"
  /\ clock' = c
  /\ wait' = IF input = NoFlit THEN wait ELSE Append(wait, <<c + Delay - 1, input>>)
  /\ stage' = "read"
  /\ UNCHANGED <<input, output>>

ReadInputs_LateByOne(c) ==
  /\ stage = "send"
  /\ clock' = c
  /\ wait' = IF input = NoFlit THEN wait ELSE Append(wait, <<c + Delay, input>>)
  /\ input' = NoFlit
  /\ stage' = "read"
  /\ UNCHANGED output

ReadInputs(c) ==
  /\ stage = "send"
  /\ clock' = c
  /\ wait' = IF input = NoFlit THEN wait ELSE Append(wait, <<c + Delay - 1, input>>)
  /\ input' = NoFlit
  /\ stage' = "read"
  /\ UNCHANGED output

Due == wait # <<>> /\ clock >= Head(wait)[1]

(* The head of the queue leaves in the cycle that equals its time. The     *)
(* assertion of WriteOutputs is a conjunct: there is no step for a head    *)
(* that is overdue.                                                        *)
WriteOutputs_NoPop ==
  /\ stage = "read"
  /\ \/ ~Due /\ output' = NoFlit
     \/ Due /\ clock = Head(wait)[1] /\ output' = Head(wait)[2]
  /\ stage' = "send"
  /\ UNCHANGED <<input, wait, clock>>

WriteOutputs ==
  /\ stage = "read"
  /\ \/ /\ ~Due
        /\ output' = NoFlit
        /\ UNCHANGED wait
     \/ /\ Due
        /\ clock = Head(wait)[1]
        /\ output' = Head(wait)[2]
        /\ wait' = Tail(wait)
  /\ stage' = "send"
  /\ UNCHANGED <<input, clock>>

Next ==
  \/ \E f \in Flits : Send(f)
  \/ \E c \in Clocks : ReadInputs(c)
  \/ WriteOutputs

Spec == Init /\ [][Next]_vars

-----------------------------------------------------------------------------
(* The registers hold a flit or null, and never more than one flit waits:  *)
(* the queue is empty between two cycles.                                  *)
TypeOK ==
  /\ input \in Flits \cup {NoFlit}
  /\ output \in Flits \cup {NoFlit}
  /\ stage \in {"send", "read"}
  /\ clock \in Clocks
  /\ wait \in Seq(Int \X Flits)
  /\ Len(wait) =< IF stage = "send" THEN 0 ELSE 1

(* The assertion global_clk == time of WriteOutputs (channel.h:119) holds  *)
(* whatever the clock does from cycle to cycle: a flit is never overdue.   *)
NeverOverdue == stage = "read" /\ wait # <<>> => clock =< Head(wait)[1]

(* With the latency the mesh is built with, the channel is one register    *)
(* stage: nothing is lost, doubled, reordered or delayed by a clock that   *)
(* jumps or stands still.                                                  *)
L == INSTANCE Link
       WITH latch <- IF wait = <<>> THEN NoFlit ELSE Head(wait)[2]

IsALink == L!LinkSpec
=============================================================================
