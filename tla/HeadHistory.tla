----------------------------- MODULE HeadHistory -----------------------------
(***************************************************************************)
(* TrafficManager with a history of the heads that did not have their VC   *)
(* for themselves: those that entered behind flits of an earlier packet,   *)
(* and those at the front of an injection VC whose state the traffic       *)
(* manager rewrote because it sent the next packet into the same VC        *)
(* (trafficmanager.cpp:830). The history only watches; it restricts no     *)
(* step.                                                                   *)
(***************************************************************************)
EXTENDS TrafficManager

VARIABLE disturbed     \* pairs <<slot, packet>>

Slots == Nodes \X Ports \X VCids

VCAt(s) == vc[s[1]][s[2]][s[3]]

HeadInFront(s) == VCAt(s).buf # <<>> /\ Head(VCAt(s).buf).kind = "head"

EntersBehind ==
  {<<s, inq[s[1]][s[2]].pkt>> :
     s \in {x \in Slots : HeadEnters(x[1], x[2], x[3]) /\ VCAt(x).buf # <<>>}}

Rewritten ==
  {<<s, Head(VCAt(s).buf).pkt>> :
     s \in {x \in Slots : /\ x[2] = Local /\ phase = "inject" /\ HeadInFront(x)
                          /\ VCAt(x).state # "routing"
                          /\ VCAt(x)'.state = "routing"}}

(* A head that has left its buffer is of no further interest. *)
Buffered(d) ==
  \E i \in DOMAIN VCAt(d[1]).buf :
    VCAt(d[1]).buf[i].pkt = d[2] /\ VCAt(d[1]).buf[i].kind = "head"

Watch == disturbed' = {d \in disturbed \cup EntersBehind \cup Rewritten : Buffered(d)'}

-----------------------------------------------------------------------------
(* A head is forgotten in no other way than these two. Any other head at   *)
(* the front of a buffer has its VC granted, or the VC waits and an entry  *)
(* of _vc_alloc_vcs will retry for it: however often the allocation fails, *)
(* entries of other packets are dropped (router.cpp:322), and whatever the *)
(* neighbours reserve and give back, by number, among its router's VCs.    *)
NoHeadForgotten ==
  \A s \in Slots :
    HeadInFront(s) /\ <<s, Head(VCAt(s).buf).pkt>> \notin disturbed =>
      \/ VCAt(s).state = "active"
      \/ /\ VCAt(s).state = "vc_alloc"
         /\ \E i \in DOMAIN vcq[s[1]] :
              vcq[s[1]][i].in = s[2] /\ vcq[s[1]][i].vc = s[3]
=============================================================================
