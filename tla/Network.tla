------------------------------- MODULE Network -------------------------------
(***************************************************************************)
(* The routers, buffers and channels of one ENoC network, driven cycle by  *)
(* cycle as NetworkNoC::clk does: ReadInputs of all modules, clk of the    *)
(* routers in the order of their numbers, WriteOutputs of all modules.     *)
(*                                                                         *)
(* A flit is [pkt, k, kind, dst, vc, seq]: packet and position identify it *)
(* in the model, kind is flit_type and seq is sequence_no. Its output_port *)
(* is what Route sets when it enters a router. A channel is the register   *)
(* stage of module Link; link[r][p] is the one router r reads at input p.  *)
(***************************************************************************)
EXTENDS Mesh, SequencesExt

CONSTANTS VCs,         \* _vcs, DEFAULT_NUM_VCS
          VcSize,      \* DEFAULT_VCS_SIZE
          Packets,     \* names of packets
          NoFlit       \* the null pointer

ASSUME VCsAssumption == VCs \in Nat \ {0} /\ VcSize \in Nat \ {0}

VARIABLES phase,       \* what runs next: read, clk, switch, write, inject
          at,          \* the router or the injection slot whose turn it is
          link,        \* the channels
          inq,         \* _in_queue_flits
          vc,          \* _buf
          vcq,         \* _vc_alloc_vcs: [in, vc, out], out the reserved VC
          swq,         \* _sw_alloc_vcs: <<in, vc>>
          outq,        \* _output_buffer
          vca, swa,    \* the two allocators
          received     \* flits counted by stats.receivedFlit: <<k, node>>

VCids  == 0 .. VCs - 1
NoVC   == -1
States == {"idle", "routing", "vc_alloc", "active"}

VCAlloc == INSTANCE ISlipOps
             WITH NumInputs <- VCs * (Local + 1), NumOutputs <- VCs * (Local + 1)
SWAlloc == INSTANCE ISlipOps
             WITH NumInputs <- Local + 1, NumOutputs <- Local + 1

NetInit ==
  /\ phase = "read" /\ at = 0
  /\ link = [r \in Nodes |-> [p \in Ports |->
               [input |-> NoFlit, latch |-> NoFlit, output |-> NoFlit]]]
  /\ inq = [r \in Nodes |-> [p \in Ports |-> NoFlit]]
  /\ vc = [r \in Nodes |-> [p \in Ports |-> [v \in VCids |->
             [buf |-> <<>>, state |-> "idle", out_port |-> -1, out_vc |-> NoVC]]]]
  /\ vcq = [r \in Nodes |-> <<>>]
  /\ swq = [r \in Nodes |-> <<>>]
  /\ outq = [r \in Nodes |-> [p \in Ports |-> <<>>]]
  /\ vca = [r \in Nodes |-> VCAlloc!NewAllocator]
  /\ swa = [r \in Nodes |-> SWAlloc!NewAllocator]
  /\ received = [p \in Packets |-> <<>>]

(* The router and input port behind an output, as the code finds them, and *)
(* the router and output in front of an input.                             *)
Downstream == [s \in Nodes \X Links |-> <<Sink(s[1], s[2])[1], InPort(s[2])>>]

Upstream ==
  [s \in Nodes \X Links |-> CHOOSE u \in Nodes \X Links : Sink(u[1], u[2]) = s]

Down(r, out) == Downstream[<<r, out>>]

OutputPort(r, f) == xy_yx_mesh(r, f.dst)

-----------------------------------------------------------------------------
(* NetworkNoC::ReadInputs: the channels latch, the routers receive. *)
ReadInputs ==
  /\ phase = "read"
  /\ link' = [r \in Nodes |-> [p \in Ports |->
                [link[r][p] EXCEPT !.latch = link[r][p].input, !.input = NoFlit]]]
  /\ inq' = [r \in Nodes |-> [p \in Ports |-> link[r][p].output]]
  /\ phase' = "clk"
  /\ at' = 0
  /\ UNCHANGED <<vc, vcq, swq, outq, vca, swa, received>>

-----------------------------------------------------------------------------
(* _InputQueuing, what ENoCRouter::clk does first. A flit for this router    *)
(* goes to the ejection buffer and leaves its VC alone. Any other is       *)
(* buffered whatever the occupancy, and a head always makes its VC wait    *)
(* for allocation.                                                         *)
Passing(r) == SelectSeq(<<0, 1, 2, 3, 4>>, LAMBDA p :
                inq[r][p] # NoFlit /\ OutputPort(r, inq[r][p]) # Local)

Ejecting(r) == SelectSeq(<<0, 1, 2, 3, 4>>, LAMBDA p :
                 inq[r][p] # NoFlit /\ OutputPort(r, inq[r][p]) = Local)

AddFlit_Full(c, f) ==
  IF Len(c.buf) >= VcSize THEN c
  ELSE [c EXCEPT !.buf   = Append(@, f),
                 !.state = IF f.kind = "head" THEN "vc_alloc" ELSE @]

AddFlit_Front(c, f) ==
  [c EXCEPT !.buf   = <<f>> \o @,
            !.state = IF f.kind = "head" THEN "vc_alloc" ELSE @]

AddFlit(c, f) ==
  [c EXCEPT !.buf   = Append(@, f),
            !.state = IF f.kind = "head" THEN "vc_alloc" ELSE @]

InputQueuing(r) ==
  LET passing == Passing(r)
      heads   == SelectSeq(passing, LAMBDA p : inq[r][p].kind = "head")
  IN  [vc  |-> FoldLeft(LAMBDA bufs, p :
                  [bufs EXCEPT ![r][p][inq[r][p].vc] = AddFlit(@, inq[r][p])],
                  vc, passing),
       vcq |-> vcq[r] \o [i \in DOMAIN heads |->
                  [in |-> heads[i], vc |-> inq[r][heads[i]].vc, out |-> NoVC]],
       swq |-> swq[r] \o [i \in DOMAIN passing |->
                  <<passing[i], inq[r][passing[i]].vc>>],
       ejected |-> [i \in DOMAIN Ejecting(r) |-> inq[r][Ejecting(r)[i]]]]

-----------------------------------------------------------------------------
(* FindIdleVC: the first idle VC downstream; the caller below makes it     *)
(* "routing", unless the downstream router is the destination.             *)
FindIdleVC(bufs, down) ==
  LET idle == {v \in VCids : bufs[down[1]][down[2]][v].state = "idle"}
  IN  IF idle = {} THEN NoVC ELSE Min(idle)

(* An entry that was not served goes back to the queue without a VC. *)
Requeue_KeepsReservation(e) == e

Requeue(e) == [e EXCEPT !.out = NoVC]

Blocked_Forgets(acc, e) == acc

Blocked(acc, e) == [acc EXCEPT !.q = Append(@, Requeue(e))]

(* First loop of _VCAllocEvaluate: every queued VC reserves a downstream   *)
(* VC for its front flit and requests it.                                  *)
RequestVC(r, acc, e) ==
  LET f    == Head(acc.vc[r][e.in][e.vc].buf)
      out  == OutputPort(r, f)
      down == Down(r, out)
      ovc  == FindIdleVC(acc.vc, down)
  IN  IF ovc = NoVC THEN Blocked(acc, e)
      ELSE [vc |-> IF down[1] = f.dst THEN acc.vc
                   ELSE [acc.vc EXCEPT ![down[1]][down[2]][ovc].state = "routing"],
            q  |-> Append(acc.q, [e EXCEPT !.out = ovc]),
            a  |-> VCAlloc!AddRequest(acc.a, e.in * VCs + e.vc, out * VCs + ovc)]

(* Second loop: a matched VC becomes active, an unmatched one gives its    *)
(* reservation back and waits again. An entry whose VC is not (any more)   *)
(* waiting is dropped, with its reservation.                               *)
Activate_Swapped(c, match) ==
  [c EXCEPT !.state = "active", !.out_port = match % VCs, !.out_vc = match \div VCs]

Activate(c, match) ==
  [c EXCEPT !.state = "active", !.out_port = match \div VCs, !.out_vc = match % VCs]

GrantVC(r, a, acc, e) ==
  LET this  == acc.vc[r][e.in][e.vc]
      match == a.inmatch[e.in * VCs + e.vc]
      down  == Down(r, OutputPort(r, Head(this.buf)))
  IN  IF this.state # "vc_alloc" THEN acc
      ELSE IF match >= 0
      THEN [acc EXCEPT !.vc[r][e.in][e.vc] = Activate(@, match)]
      ELSE IF e.out = NoVC THEN Blocked(acc, e)
      ELSE [Blocked(acc, e) EXCEPT !.vc[down[1]][down[2]][e.out].state = "idle"]

VCAllocEvaluate(r) ==
  LET q        == InputQueuing(r)
      requests == FoldLeft(LAMBDA acc, e : RequestVC(r, acc, e),
                           [vc |-> q.vc, q |-> <<>>, a |-> VCAlloc!Clear(vca[r])],
                           q.vcq)
      a        == VCAlloc!Iterate(requests.a, 0)
      grants   == FoldLeft(LAMBDA acc, e : GrantVC(r, a, acc, e),
                           [vc |-> requests.vc, q |-> <<>>],
                           requests.q)
  IN
  /\ phase = "clk" /\ at = r
  /\ vc' = grants.vc
  /\ vcq' = [vcq EXCEPT ![r] = grants.q]
  /\ swq' = [swq EXCEPT ![r] = q.swq]
  /\ outq' = [outq EXCEPT ![r][Local] = @ \o q.ejected]
  /\ vca' = [vca EXCEPT ![r] = a]
  /\ inq' = [inq EXCEPT ![r] = [p \in Ports |-> NoFlit]]
  /\ received' = FoldLeft(LAMBDA acc, f : [acc EXCEPT ![f.pkt] = Append(@, <<f.k, r>>)],
                          received, q.ejected)
  /\ phase' = "switch"
  /\ UNCHANGED <<at, link, swa>>

-----------------------------------------------------------------------------
(* First loop of _SWAllocEvaluate: an active VC requests its output. *)
RequestSwitch(c, a, in) ==
  IF c.state = "active" THEN SWAlloc!AddRequest(a, in, c.out_port) ELSE a

FindFreeSpace(bufs, down, v) == Len(bufs[down[1]][down[2]][v].buf) < VcSize

(* RemoveFlit; a tail frees the VC. *)
Depart_NoRemove(c) ==
  [c EXCEPT !.state = IF Head(c.buf).kind = "tail" THEN "idle" ELSE @]

Depart_StaysActive(c) == [c EXCEPT !.buf = Tail(@)]

Depart(c) ==
  [c EXCEPT !.buf   = Tail(@),
            !.state = IF Head(c.buf).kind = "tail" THEN "idle" ELSE @]

(* An entry that was not served goes back to the queue. *)
Wait_Twice(acc, e) == [acc EXCEPT !.swq = @ \o <<e, e>>]

Wait(acc, e) == [acc EXCEPT !.swq = Append(@, e)]

(* Second loop: the front flit of an active VC leaves if its input was     *)
(* matched (to whatever output) and there is space downstream, otherwise   *)
(* the entry waits. An entry whose VC is not active is dropped.            *)
Traverse(r, a, acc, e) ==
  LET this == acc.vc[r][e[1]][e[2]]
      f    == Head(this.buf)
      out  == OutputPort(r, f)
  IN  IF this.state # "active" THEN acc
      ELSE IF a.inmatch[e[1]] >= 0 /\ FindFreeSpace(acc.vc, Down(r, out), this.out_vc)
      THEN [acc EXCEPT
              !.vc[r][e[1]][e[2]] = Depart(@),
              !.outq[out] = Append(@, [f EXCEPT !.vc = this.out_vc]),
              !.vca = IF f.kind = "tail"
                      THEN VCAlloc!RemoveRequest(@, e[1] * VCs + e[2],
                                                 out * VCs + this.out_vc)
                      ELSE @]
      ELSE Wait(acc, e)

SWAllocEvaluate(r) ==
  LET a == SWAlloc!Iterate(
             FoldLeft(LAMBDA acc, e : RequestSwitch(vc[r][e[1]][e[2]], acc, e[1]),
                      SWAlloc!Clear(swa[r]), swq[r]), 0)
      sent == FoldLeft(LAMBDA acc, e : Traverse(r, a, acc, e),
                       [vc |-> vc, swq |-> <<>>, outq |-> outq[r], vca |-> vca[r]],
                       swq[r])
  IN
  /\ phase = "switch" /\ at = r
  /\ vc' = sent.vc
  /\ swq' = [swq EXCEPT ![r] = sent.swq]
  /\ outq' = [outq EXCEPT ![r] = sent.outq]
  /\ vca' = [vca EXCEPT ![r] = sent.vca]
  /\ swa' = [swa EXCEPT ![r] = a]
  /\ IF r + 1 \in Nodes
     THEN phase' = "clk" /\ at' = r + 1
     ELSE phase' = "write" /\ at' = 0
  /\ UNCHANGED <<link, inq, vcq, received>>

-----------------------------------------------------------------------------
(* NetworkNoC::WriteOutputs: the channels move their latch to the output,  *)
(* then every router sends the head of each output buffer. Nobody reads    *)
(* the ejection channels.                                                  *)
WriteOutputs ==
  /\ phase = "write"
  /\ link' = [r \in Nodes |-> [p \in Ports |->
       LET sender == Upstream[<<r, p>>]
           sends  == IF p = Local THEN <<>> ELSE outq[sender[1]][sender[2]]
       IN  [input  |-> IF sends = <<>> THEN link[r][p].input ELSE Head(sends),
            latch  |-> NoFlit,
            output |-> link[r][p].latch]]]
  /\ outq' = [r \in Nodes |-> [p \in Ports |->
                IF outq[r][p] = <<>> THEN <<>> ELSE Tail(outq[r][p])]]
  /\ phase' = "inject"
  /\ at' = 0
  /\ UNCHANGED <<inq, vc, vcq, swq, vca, swa, received>>
=============================================================================
