--------------------------- MODULE TrafficManager ---------------------------
(***************************************************************************)
(* TrafficManager::clk on top of the network: after every network cycle,   *)
(* for each node and packet type in turn, a packet that is due moves from  *)
(* packet_table to packet_queue, and one flit of the packet at the front   *)
(* of the queue is injected if the local buffer has room for it.           *)
(*                                                                         *)
(* Offer stands for load_traffic. A table is first-in first-out and only   *)
(* its head is compared with the clock, so a packet is offered when it and *)
(* all the packets before it are due.                                      *)
(***************************************************************************)
EXTENDS Network

CONSTANTS Offers,      \* records [src, type, dst, size]: the traffic
          NoOffer      \* not in Offers

ASSUME OffersAssumption ==
  \A o \in Offers : o.src \in Nodes /\ o.type \in 0 .. 2 /\ o.size > 1

VARIABLES offer,       \* what was offered under each packet name
          table,       \* packet_table
          queue,       \* packet_queue: [pkt, left], left is flit_left
          inUse,       \* in_use_vc
          seq          \* the static counter of nextFlit

netVars == <<link, inq, vc, vcq, swq, outq, vca, swa, received>>
tmVars  == <<offer, table, queue, inUse, seq>>
vars    == <<phase, at, netVars, tmVars>>

Types   == 0 .. 2
Offered == {p \in Packets : offer[p] # NoOffer}

Init ==
  /\ NetInit
  /\ offer = [p \in Packets |-> NoOffer]
  /\ table = [n \in Nodes |-> [t \in Types |-> <<>>]]
  /\ queue = [n \in Nodes |-> [t \in Types |-> <<>>]]
  /\ inUse = [n \in Nodes |-> [t \in Types |-> 0]]
  /\ seq = 0

(* load_traffic, called any number of times before the next clk. *)
Offer(p, o) ==
  /\ phase = "read"
  /\ p = Min(Packets \ Offered)
  /\ offer' = [offer EXCEPT ![p] = o]
  /\ table' = [table EXCEPT ![o.src][o.type] = Append(@, p)]
  /\ UNCHANGED <<phase, at, netVars, queue, inUse, seq>>

-----------------------------------------------------------------------------
(* ReadPacket: the queue of a slot after it took the due packet, if any. *)
ReadPacket(n, t) ==
  IF table[n][t] = <<>> THEN queue[n][t]
  ELSE LET p == Head(table[n][t])
       IN  Append(queue[n][t], [pkt |-> p, left |-> offer[p].size])

(* FindIdleVC: types 0 and 1 own VC 0 and VC 1 whatever their state; type  *)
(* 2 takes the first idle one of the others.                               *)
InjectionVC(n, t) ==
  LET idle == {v \in 2 .. VCs - 1 : vc[n][Local][v].state = "idle"}
  IN  CASE t = 0 -> 0
        [] t = 1 -> 1
        [] t = 2 -> IF idle = {} THEN NoVC ELSE Min(idle)

InjectFreeSpace(n, v) == v # NoVC /\ Len(vc[n][Local][v].buf) < VcSize

(* nextFlit: seq restarts with every head, of whichever packet. *)
NextSeq(q) == IF q.left = offer[q.pkt].size THEN 0 ELSE seq + 1

NextFlit(q, v) ==
  [pkt  |-> q.pkt,
   k    |-> offer[q.pkt].size - q.left,
   kind |-> IF q.left = offer[q.pkt].size THEN "head"
            ELSE IF q.left = 1 THEN "tail" ELSE "body",
   dst  |-> offer[q.pkt].dst,
   vc   |-> v,
   seq  |-> NextSeq(q)]

(* SendFlit for the packet q at the front of a queue: the VC it uses, NoVC *)
(* when it has to wait. The flit goes to the injection channel, over one   *)
(* that another type may have put there in this cycle.                     *)
SendVC(n, t, q) ==
  IF q.left = offer[q.pkt].size THEN InjectionVC(n, t)
  ELSE IF InjectFreeSpace(n, inUse[n][t]) THEN inUse[n][t]
  ELSE NoVC

SendFlit(n, t, packets) ==
  LET q    == Head(packets)
      v    == SendVC(n, t, q)
      head == q.left = offer[q.pkt].size
  IN  IF v = NoVC
      THEN /\ queue' = [queue EXCEPT ![n][t] = packets]
           /\ UNCHANGED <<netVars, inUse, seq>>
      ELSE /\ link' = [link EXCEPT ![n][Local].input = NextFlit(q, v)]
           /\ seq' = NextSeq(q)
           /\ queue' = [queue EXCEPT ![n][t] =
                          IF q.left = 1 THEN Tail(packets)
                          ELSE [packets EXCEPT ![1].left = @ - 1]]
           /\ inUse' = [inUse EXCEPT ![n][t] =
                          IF head THEN v ELSE IF q.left = 1 THEN NoVC ELSE @]
           /\ vc' = IF head THEN [vc EXCEPT ![n][Local][v].state = "routing"] ELSE vc
           /\ UNCHANGED <<inq, vcq, swq, outq, vca, swa, received>>

(* The injection slots in loop order; those without a packet do nothing.   *)
Slot(n, t) == 3 * n + t
Busy(n, t) == table[n][t] # <<>> \/ queue[n][t] # <<>>

Inject(n, t) ==
  /\ phase = "inject"
  /\ Busy(n, t) /\ Slot(n, t) >= at
  /\ \A m \in Nodes, u \in Types : Slot(m, u) \in at .. Slot(n, t) - 1 => ~Busy(m, u)
  /\ SendFlit(n, t, ReadPacket(n, t))
  /\ table' = [table EXCEPT ![n][t] = IF @ = <<>> THEN @ ELSE Tail(@)]
  /\ at' = Slot(n, t) + 1
  /\ UNCHANGED <<phase, offer>>

InjectDone ==
  /\ phase = "inject"
  /\ \A n \in Nodes, t \in Types : Busy(n, t) => Slot(n, t) < at
  /\ phase' = "read" /\ at' = 0
  /\ UNCHANGED <<netVars, tmVars>>

(* One clk of the simulated system, which every request that reaches the   *)
(* crossbar causes (coherent_xbar.cc).                                     *)
Clk ==
  \/ ReadInputs /\ UNCHANGED tmVars
  \/ \E r \in Nodes : VCAllocEvaluate(r) /\ UNCHANGED tmVars
  \/ \E r \in Nodes : SWAllocEvaluate(r) /\ UNCHANGED tmVars
  \/ WriteOutputs /\ UNCHANGED tmVars
  \/ \E n \in Nodes, t \in Types : Inject(n, t)
  \/ InjectDone

Next ==
  \/ \E p \in Packets \ Offered, o \in Offers : Offer(p, o)
  \/ Clk

Spec == Init /\ [][Next]_vars

(* Requests keep reaching the crossbar: the clock ticks for ever. Some     *)
(* step of Clk is possible in every state, so this is weak fairness of Clk *)
(* in a form that does not make TLC evaluate ENABLED on the allocators.    *)
ClockTicks == []<>(phase = "read") /\ []<>(phase = "write")

FairSpec == Spec /\ ClockTicks

-----------------------------------------------------------------------------
(* The flits inside the network, each with the place that holds it. While  *)
(* the routers work, a channel's output has been copied to inq.            *)
Held(r, p) ==
  LET l == link[r][p]
  IN  {<<"input", p, 0, 0, l.input>>, <<"latch", p, 0, 0, l.latch>>,
       IF phase \in {"read", "inject"} THEN <<"output", p, 0, 0, l.output>>
                                      ELSE <<"inq", p, 0, 0, inq[r][p]>>}
      \cup {<<"outq", p, 0, i, outq[r][p][i]>> :
              i \in IF p = Local THEN {} ELSE DOMAIN outq[r][p]}
      \cup UNION {{<<"buf", p, v, i, vc[r][p][v].buf[i]>> :
                     i \in DOMAIN vc[r][p][v].buf} : v \in VCids}

InFlight ==
  UNION {{<<r, h>> : h \in {x \in Held(r, p) : x[5] # NoFlit}} :
          r \in Nodes, p \in Ports}

(* The flits <<packet, k>> in the network or received, and those injected. *)
Present ==
  {<<c[2][5].pkt, c[2][5].k>> : c \in InFlight}
    \cup UNION {{<<p, received[p][i][1]>> : i \in DOMAIN received[p]} : p \in Offered}

FlitsLeft(p) ==
  LET o      == offer[p]
      queued == {i \in DOMAIN queue[o.src][o.type] : queue[o.src][o.type][i].pkt = p}
  IN  IF Contains(table[o.src][o.type], p) THEN o.size
      ELSE IF queued = {} THEN 0 ELSE queue[o.src][o.type][Min(queued)].left

Sent ==
  UNION {{<<p, k>> : k \in 0 .. offer[p].size - FlitsLeft(p) - 1} : p \in Offered}

-----------------------------------------------------------------------------
(* Type invariant: states, ports and VC numbers stay in range, a buffered  *)
(* flit carries the number of the VC that holds it (AddFlit and            *)
(* f->vc = GetOutputVC agree), and between two clks no queued entry owns a *)
(* downstream VC.                                                          *)
TypeOK ==
  /\ phase \in {"read", "clk", "switch", "write", "inject"}
  /\ at \in 0 .. 3 * K * K
  /\ \A r \in Nodes, p \in Ports, v \in VCids :
       /\ vc[r][p][v].state \in States
       /\ vc[r][p][v].out_port \in Links \cup {-1}
       /\ vc[r][p][v].out_vc \in VCids \cup {NoVC}
       /\ \A i \in DOMAIN vc[r][p][v].buf : vc[r][p][v].buf[i].vc = v
  /\ \A n \in Nodes, t \in Types : inUse[n][t] \in VCids \cup {NoVC}
  /\ \A r \in Nodes : \A i \in DOMAIN vcq[r] : vcq[r][i].out = NoVC

(* _VCAllocEvaluate and _SWAllocEvaluate dereference FrontFlit for every   *)
(* queued entry without a test for NULL. It never is NULL: a VC queued for *)
(* allocation holds a flit, and the switch queue never holds more entries  *)
(* of a VC than the VC holds flits, whatever other routers and the traffic *)
(* manager did to the state of that VC in the meantime.                    *)
NoNullFront ==
  \A r \in Nodes :
    /\ \A i \in DOMAIN vcq[r] : vc[r][vcq[r][i].in][vcq[r][i].vc].buf # <<>>
    /\ \A p \in Ports, v \in VCids :
         Len(SelectSeq(swq[r], LAMBDA e : e = <<p, v>>)) <= Len(vc[r][p][v].buf)

(* The head that router r is about to buffer in a VC of input p. *)
HeadEnters(r, p, v) ==
  /\ phase = "clk" /\ at = r
  /\ inq[r][p] # NoFlit
  /\ inq[r][p].kind = "head" /\ inq[r][p].vc = v
  /\ OutputPort(r, inq[r][p]) # Local

(* assert(match_output == f->output_port), router.cpp:333: a VC is granted *)
(* the output port its front flit asked for, also when the VC was active   *)
(* already and a head that enters it has it granted anew in the middle of  *)
(* the packet at its front.                                                *)
AssertMatchOutput ==
  [][\A r \in Nodes, p \in Ports, v \in VCids :
       /\ vc[r][p][v].state # "active" \/ HeadEnters(r, p, v)
       /\ vc'[r][p][v].state = "active"
       => vc'[r][p][v].out_port = OutputPort(r, Head(vc'[r][p][v].buf))]_vars

(* No flit is in two places: neither the queues of the routers nor the     *)
(* registers of the channels copy one.                                     *)
NoDuplicates ==
  Cardinality(Present)
    = Cardinality(InFlight)
      + FoldFunctionOnSet(+, 0, [p \in Packets |-> Len(received[p])], Packets)

(* The network loses no flit, not even where AddFlit finds the buffer      *)
(* full. Only the traffic manager does, when two packet types of one node  *)
(* write the injection channel in the same cycle (WriteFlit).              *)
NoLossInside ==
  [][\/ Present \subseteq Present'
     \/ \E n \in Nodes :
          /\ link[n][Local].input # NoFlit
          /\ link'[n][Local].input \notin {NoFlit, link[n][Local].input}]_vars

(* The flits of a packet reach receivedFlit at the packet's destination    *)
(* and in the order they were injected in, although a VC may be granted    *)
(* anew in the middle of a packet.                                         *)
ArrivesInOrder ==
  \A p \in Offered : \A i, j \in DOMAIN received[p] :
     /\ received[p][i][2] = offer[p].dst
     /\ i < j => received[p][i][1] < received[p][j][1]

-----------------------------------------------------------------------------
(* The disabled assertion of _InputQueuing (router.cpp:165): a head enters *)
(* an empty buffer.                                                        *)
HeadFindsEmptyBuffer ==
  \A r \in Nodes, p \in Ports :
    phase = "clk" /\ at = r /\ inq[r][p] # NoFlit
      => (inq[r][p].kind = "head" /\ OutputPort(r, inq[r][p]) # Local
            => vc[r][p][inq[r][p].vc].buf = <<>>)

(* flit.h:20: sequence_no is "The sequence number of the flit inside the   *)
(* packet".                                                                *)
SequenceNumber ==
  \A n \in Nodes : link[n][Local].input # NoFlit
                     => link[n][Local].input.seq = link[n][Local].input.k

(* What the code needs for delivery: no packet is addressed to its own     *)
(* node (nobody frees the injection VC of such a packet, or its head       *)
(* disturbs the packet before it), every head gets its VC in the cycle it  *)
(* arrives in, it finds its buffer empty, and no flit was overwritten at   *)
(* injection.                                                              *)
Smooth ==
  /\ \A p \in Offered : offer[p].src # offer[p].dst
  /\ phase = "switch" => vcq[at] = <<>>
  /\ HeadFindsEmptyBuffer
  /\ Present = Sent

Delivered(p) == p \in Offered /\ Len(received[p]) = offer[p].size

(* Traffic that always meets these four conditions is delivered, every     *)
(* flit of it: the allocators, the flow control and the injection never    *)
(* leave such a packet behind. Without any one of them it fails.           *)
SmoothTrafficIsDelivered ==
  []Smooth => []<>(\A p \in Offered : Delivered(p))
=============================================================================
