----------------------------- MODULE Coherence -----------------------------
(***************************************************************************)
(* TrafficManager::process with the directory it calls                     *)
(* (src/mem/enoc/trafficmanager.cpp, ENoC_Dir.cpp, ENoC_cache.cpp): the    *)
(* two cache levels of every node, the directory and the packets a request *)
(* puts into packet_table. One request of gem5 is one call and one step:   *)
(* coherent_xbar.cc calls process() synchronously.                         *)
(***************************************************************************)
EXTENDS Integers, Sequences

CONSTANTS
  N,                    \* NUMBER_OF_NODES
  Cpus,                 \* the values of masterId % 6
  DIRECTORY_ADDRESS_0,  \* the directory of nodes 0 .. 15, hence of all Cpus
  Addrs,                \* the addresses requested
  Tag(_), L1Index(_), L2Index(_), MemoryNode(_),
  L1WAYS, L2WAYS,
  MaxLines              \* bound on the length of the directory

ASSUME NodesAssumption ==
  /\ N \in Nat \ {0}
  /\ Cpus \subseteq 0 .. N - 1

(* The directory keeps an address in an int, among its states: addresses   *)
(* 0 .. 3 would be taken for states, larger ones would be truncated.       *)
ASSUME AddrsAssumption ==
  \A addr \in Addrs : addr \in 4 .. 2147483647 /\ Tag(addr) \in Nat

VARIABLES
  L1D, L1I, L2,         \* <<node, index>> -> set of cache lines
  lines,                \* the directory: element 0 of a line is the address,
                        \* element i+1 the state of node i
  sent                  \* the packets the last call put into packet_table

vars == <<L1D, L1I, L2, lines, sent>>

L1Ops == INSTANCE CacheArray WITH WAYS <- L1WAYS
L2Ops == INSTANCE CacheArray WITH WAYS <- L2WAYS

M == 0
E == 1
S == 2
I == 3

Nodes == 0 .. N - 1
L1(node, addr) == <<node, L1Index(addr)>>
L2At(node, addr) == <<node, L2Index(addr)>>

(* resize() zero-fills: an unused line has address 0 and every node at M. *)
Init ==
  /\ L1D = [at \in Nodes \X {L1Index(a) : a \in Addrs} |-> L1Ops!setLRUbitsToWay]
  /\ L1I = L1D
  /\ L2 = [at \in Nodes \X {L2Index(a) : a \in Addrs} |-> L2Ops!setLRUbitsToWay]
  /\ lines = [k \in 1 .. N |-> [i \in 0 .. N |-> 0]]
  /\ sent = {}

-----------------------------------------------------------------------------
(* The first line of the address, 0 when there is none. *)
FindLine_SkipsLast(addr) ==
  LET found == {k \in 1 .. Len(lines) - 1 : lines[k][0] = addr}
  IN  IF found = {} THEN 0 ELSE CHOOSE k \in found : \A l \in found : k <= l

FindLine(addr) ==
  LET found == {k \in DOMAIN lines : lines[k][0] = addr}
  IN  IF found = {} THEN 0 ELSE CHOOSE k \in found : \A l \in found : k <= l

(* newline[0] = addr, then newline[node] = E: for node 0 the state lands on *)
(* the address. The other elements are 0, which is M.                       *)
NewLine_OneLess(node, addr) ==
  [i \in 0 .. N |-> CASE i = node - 1 -> E [] i = 0 /\ i # node - 1 -> addr [] OTHER -> M]

NewLine(node, addr) ==
  [i \in 0 .. N |-> CASE i = node -> E [] i = 0 /\ i # node -> addr [] OTHER -> M]

Room(addr) == FindLine(addr) # 0 \/ Len(lines) < MaxLines

Packet(src, dst, class, kind, delay) ==
  [src |-> src, dst |-> dst, type |-> class, packet_type |-> kind, time |-> delay]

ToDirectory(node, kind) == Packet(node, DIRECTORY_ADDRESS_0, 0, kind, 0)

-----------------------------------------------------------------------------
(* receivePacket: the first node whose element is not I is taken for the   *)
(* holder (0 when the line is missing or no element qualifies).            *)
Holder(addr) ==
  LET k   == FindLine(addr)
      his == {i \in 1 .. N : k # 0 /\ lines[k][i] # I}
  IN  IF his = {} THEN 0 ELSE CHOOSE i \in his : \A j \in his : i <= j

Shared_KeepsOwner(node, addr) ==
  LET k == FindLine(addr)
      h == Holder(addr)
  IN  IF k = 0 THEN Append(lines, NewLine(node, addr))
      ELSE IF h = 0 THEN lines
      ELSE [lines EXCEPT ![k][node] = S]

(* The downgrade of the holder and the entry of the requester. *)
Shared(node, addr) ==
  LET k == FindLine(addr)
      h == Holder(addr)
  IN  IF k = 0 THEN Append(lines, NewLine(node, addr))
      ELSE IF h = 0 THEN lines
      ELSE [lines EXCEPT ![k][node] = S, ![k][h] = S]

Downgrade_Nothing(cache, addr) == cache

(* The holder's first-level copies become S even when its L2 has no line.  *)
Downgrade(cache, addr) ==
  LET h == Holder(addr)
  IN  IF h = 0 THEN cache ELSE L1Ops!Mark(cache, L1(h - 1, addr), Tag(addr), S)

HolderAnswers(addr) ==
  LET h == Holder(addr)
  IN  h # 0 /\ L2Ops!Holds(L2, L2At(h - 1, addr), Tag(addr))

(* sendSharedData of the holder's L2. It finds the line again that the     *)
(* caller found, so its own miss branch is never taken.                    *)
sendSharedData(src, addr) == L2Ops!Touch(L2, L2At(src, addr), Tag(addr), S)

(* The answer of the holder: packet 5 to it and packet 8 from it. The      *)
(* requester's caches stay as they are.                                    *)
FromHolder(node, addr) ==
  LET h == Holder(addr) - 1
  IN  /\ HolderAnswers(addr)
      /\ L2' = sendSharedData(h, addr)
      /\ L1D' = Downgrade(L1D, addr)
      /\ L1I' = Downgrade(L1I, addr)
      /\ sent' = {ToDirectory(node, 0), Packet(h, node, 2, 8, 10),
                  Packet(DIRECTORY_ADDRESS_0, h, 2, 5, 5)}

(* The line from memory enters the first level only where its tag is held. *)
FirstLevel(cache, mine, node, addr) ==
  IF mine
  THEN L1Ops!Touch(Downgrade(cache, addr), L1(node, addr), Tag(addr), E)
  ELSE Downgrade(cache, addr)

FromMemory(fetch, node, addr) ==
  /\ ~HolderAnswers(addr)
  /\ L1I' = FirstLevel(L1I, fetch, node, addr)
  /\ L1D' = FirstLevel(L1D, ~fetch, node, addr)
  /\ L2' \in L2Ops!TouchOrFill(L2, L2At(node, addr), Tag(addr), E)
  /\ sent' = {ToDirectory(node, 0),
              Packet(DIRECTORY_ADDRESS_0, MemoryNode(addr), 1, 6, 5),
              Packet(MemoryNode(addr), node, 2, 7, 10)}

receivePacket(fetch, node, addr) ==
  /\ Room(addr)
  /\ lines' = Shared(node, addr)
  /\ FromHolder(node, addr) \/ FromMemory(fetch, node, addr)

(* invalidatePacket: every node whose element is not I loses its copies,   *)
(* the requester included, and gets packet 4.                              *)
Recorded(addr) ==
  LET k == FindLine(addr)
  IN  {i \in Nodes : k # 0 /\ lines[k][i + 1] # I}

InvalidateL1(cache, addr) ==
  LET recorded == Recorded(addr)
  IN  [at \in DOMAIN cache |->
         IF at[1] \in recorded /\ at[2] = L1Index(addr)
         THEN L1Ops!Mark(cache, at, Tag(addr), I)[at]
         ELSE cache[at]]

InvalidateL2(cache, addr) ==
  LET recorded == Recorded(addr)
  IN  [at \in DOMAIN cache |->
         IF at[1] \in recorded /\ at[2] = L2Index(addr)
         THEN L2Ops!Mark(cache, at, Tag(addr), I)[at]
         ELSE cache[at]]

Invalidations(addr) == {Packet(DIRECTORY_ADDRESS_0, i, 2, 4, 5) : i \in Recorded(addr)}

Exclusive(node, addr) ==
  LET k == FindLine(addr)
  IN  IF k = 0 THEN Append(lines, NewLine(node, addr))
      ELSE [lines EXCEPT ![k] =
              [i \in 0 .. N |-> CASE i = node -> E
                                  [] i = 0 /\ i # node -> lines[k][0]
                                  [] OTHER -> I]]

Evicted(node, addr) ==
  LET k == FindLine(addr)
  IN  IF k = 0 THEN Append(lines, NewLine(node, addr))
      ELSE [lines EXCEPT ![k][node] = I]

-----------------------------------------------------------------------------
(* Cases 0 and 1 of process(), an instruction fetch and a read. The first  *)
(* level is L1I or L1D; a miss there goes to the directory without a look  *)
(* at the node's own L2, an invalid line asks the L2 first.                *)
Hit(l1, node, addr) == L1Ops!HoldsValid(l1, L1(node, addr), Tag(addr))

Refillable(l1, node, addr) ==
  /\ L1Ops!Holds(l1, L1(node, addr), Tag(addr))
  /\ ~Hit(l1, node, addr)
  /\ L2Ops!HoldsValid(L2, L2At(node, addr), Tag(addr))

Refill(l1, node, addr) ==
  L1Ops!Touch(l1, L1(node, addr), Tag(addr),
              L2Ops!State(L2, L2At(node, addr), Tag(addr)))

ReadHit(fetch, node, addr) ==
  LET at == L1(node, addr)
  IN  /\ IF fetch
         THEN /\ Hit(L1I, node, addr)
              /\ L1I' = L1Ops!Use(L1I, at, Tag(addr))
              /\ UNCHANGED L1D
         ELSE /\ Hit(L1D, node, addr)
              /\ L1D' = L1Ops!Use(L1D, at, Tag(addr))
              /\ UNCHANGED L1I
      /\ sent' = {}
      /\ UNCHANGED <<L2, lines>>

ReadRefill(fetch, node, addr) ==
  /\ IF fetch
     THEN /\ Refillable(L1I, node, addr)
          /\ L1I' = Refill(L1I, node, addr)
          /\ UNCHANGED L1D
     ELSE /\ Refillable(L1D, node, addr)
          /\ L1D' = Refill(L1D, node, addr)
          /\ UNCHANGED L1I
  /\ L2' = L2Ops!Use(L2, L2At(node, addr), Tag(addr))
  /\ sent' = {}
  /\ UNCHANGED lines

ReadMiss(fetch, node, addr) ==
  LET l1 == IF fetch THEN L1I ELSE L1D
  IN  /\ ~Hit(l1, node, addr)
      /\ ~Refillable(l1, node, addr)
      /\ receivePacket(fetch, node, addr)

(* Cases 2 to 4: writes and upgrades leave M, invalidating requests E. *)
Write(bits, node, addr) ==
  /\ Room(addr)
  /\ lines' = Exclusive(node, addr)
  /\ L1D' \in L1Ops!TouchOrFill(InvalidateL1(L1D, addr), L1(node, addr), Tag(addr), bits)
  /\ L1I' = InvalidateL1(L1I, addr)
  /\ L2' \in L2Ops!TouchOrFill(InvalidateL2(L2, addr), L2At(node, addr), Tag(addr), bits)
  /\ sent' = Invalidations(addr) \cup {ToDirectory(node, 1)}

(* Case 5. The data of packet 3 is read from the first-level way even when *)
(* there is none; it is not part of the model.                             *)
Evict_KeepsL1D(node, addr) ==
  /\ Room(addr)
  /\ lines' = Evicted(node, addr)
  /\ L2' = L2Ops!Mark(L2, L2At(node, addr), Tag(addr), I)
  /\ sent' = {ToDirectory(node, 2), Packet(node, MemoryNode(addr), 1, 3, 2)}
  /\ UNCHANGED <<L1I, L1D>>

Evict(node, addr) ==
  /\ Room(addr)
  /\ lines' = Evicted(node, addr)
  /\ L1D' = L1Ops!Mark(L1D, L1(node, addr), Tag(addr), I)
  /\ L2' = L2Ops!Mark(L2, L2At(node, addr), Tag(addr), I)
  /\ sent' = {ToDirectory(node, 2), Packet(node, MemoryNode(addr), 1, 3, 2)}
  /\ UNCHANGED L1I

(* Cases 6 to 8 do nothing. *)
Ignore == sent' = {} /\ UNCHANGED <<L1D, L1I, L2, lines>>

Request(node, addr) ==
  \/ \E fetch \in BOOLEAN :
       \/ ReadHit(fetch, node, addr)
       \/ ReadRefill(fetch, node, addr)
       \/ ReadMiss(fetch, node, addr)
  \/ \E bits \in {M, E} : Write(bits, node, addr)
  \/ Evict(node, addr)

Next ==
  \/ \E node \in Cpus, addr \in Addrs : Request(node, addr)
  \/ Ignore

Spec == Init /\ [][Next]_vars

-----------------------------------------------------------------------------
(* No other address is taken for addr in L1 or in L2. The masks of the two *)
(* levels drop different bits (see Address), so each level confuses        *)
(* addresses that the other one tells apart.                               *)
Unconfused(addr) ==
  \A a \in Addrs :
    Tag(a) = Tag(addr) /\ (L1Index(a) = L1Index(addr) \/ L2Index(a) = L2Index(addr))
      => a = addr

(* Every cache set keeps the shape CacheOps gives it, and an element of a  *)
(* directory line is a MESI state, or an address in the first position.    *)
TypeOK ==
  /\ \A at \in DOMAIN L1D : \A w \in L1Ops!Ways :
       /\ L1D[at][w].MESIbits \in {M, E, S, I}
       /\ L1I[at][w].MESIbits \in {M, E, S, I}
       /\ L1D[at][w].LRUbits \in 0 .. L1WAYS
       /\ L1I[at][w].LRUbits \in 0 .. L1WAYS
  /\ \A at \in DOMAIN L2 : \A w \in L2Ops!Ways :
       /\ L2[at][w].MESIbits \in {M, E, S, I}
       /\ L2[at][w].LRUbits \in 0 .. L2WAYS
  /\ \A k \in DOMAIN lines :
       /\ lines[k][0] \in Addrs \cup {M, E, S, I}
       /\ \A i \in 1 .. N : lines[k][i] \in {M, E, S, I}

(* An address has at most one directory line, although lines of node 0     *)
(* lose their address and the address is then inserted once more. The      *)
(* searches stop at the first match, so a second line would be dead state. *)
LinesUnique ==
  \A k, l \in DOMAIN lines :
    lines[k][0] = lines[l][0] /\ lines[k][0] \in Addrs => k = l

(* The data hierarchy is inclusive as long as the L2 set still has a free  *)
(* way: a valid line of L1D is valid in the L2 of its node, although the   *)
(* levels are filled by different requests and the directory makes a       *)
(* holder's invalid L1D line S without a look at L2 (ENoC_Dir.cpp:208).    *)
(* L1I is not included: an eviction clears L1D and L2 but leaves L1I.      *)
Inclusion ==
  \A node \in Nodes, addr \in Addrs :
    /\ Unconfused(addr)
    /\ L2Ops!checkLRU(L2[L2At(node, addr)]) \in L2Ops!Ways
    /\ Hit(L1D, node, addr)
    => L2Ops!HoldsValid(L2, L2At(node, addr), Tag(addr))

(* A line that L1D holds as M or E, one its node takes for its own, is not *)
(* S in the L2 of the node: the two levels never disagree on whether the   *)
(* line was given away. The state of L2 is set by the directory for        *)
(* another node's miss and that of L1D by writes, refills and the node's   *)
(* own misses; a level that missed one of these would serve a shared line  *)
(* as its own. The converse does not hold: an instruction fetch can bring  *)
(* back as E in L2 what L1D has as S.                                      *)
OwnedIsNotShared ==
  \A node \in Nodes, addr \in Addrs :
    /\ Unconfused(addr)
    /\ L1Ops!Holds(L1D, L1(node, addr), Tag(addr))
    /\ L1Ops!State(L1D, L1(node, addr), Tag(addr)) \in {M, E}
    /\ L2Ops!Holds(L2, L2At(node, addr), Tag(addr))
    => L2Ops!State(L2, L2At(node, addr), Tag(addr)) # S

(* The directory's own record keeps to one owner: once a write has found   *)
(* the line (before, its elements are the M of resize()), a node that is   *)
(* recorded as exclusive is the only one recorded at all, through every    *)
(* order of reads, writes and evictions of all nodes. The record is        *)
(* consistent, and for the wrong nodes: see OthersAreInvalidated.          *)
OwnerIsAlone ==
  \A k \in DOMAIN lines : \A i \in 1 .. N :
    lines[k][i] = E /\ (\A j \in 1 .. N : lines[k][j] # M)
      => \A j \in 1 .. N \ {i} : lines[k][j] = I

(* The constructor's comment: "in addition, first element holds the        *)
(* address of the memory location". True of every line after the initial   *)
(* ones as long as no request comes from node 0.                           *)
FirstElementIsAddress ==
  \A k \in DOMAIN lines : k > N => lines[k][0] \in Addrs

(* The comment before the call of invalidatePacket: "ask directory to      *)
(* invalidate others". After a write no other node has a readable copy.    *)
OthersAreInvalidated ==
  [][\A bits \in {M, E}, node \in Cpus, addr \in Addrs :
       ToDirectory(node, 1) \in sent' /\ Write(bits, node, addr) =>
         \A i \in Nodes \ {node} :
           ~L2Ops!HoldsValid(L2', L2At(i, addr), Tag(addr))]_vars

(* The comment in receivePacket, which every read miss calls: "this        *)
(* function will call a Cache function to update source cache". So after a *)
(* miss some cache of the requester has a valid line.                      *)
SourceCacheIsUpdated ==
  [][\A fetch \in BOOLEAN, node \in Cpus, addr \in Addrs :
       ToDirectory(node, 0) \in sent' /\ ReadMiss(fetch, node, addr) =>
         \/ L2Ops!HoldsValid(L2', L2At(node, addr), Tag(addr))
         \/ IF fetch THEN Hit(L1I', node, addr) ELSE Hit(L1D', node, addr)]_vars
=============================================================================
