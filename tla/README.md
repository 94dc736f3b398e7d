# TLA+ models of the ENoC network in gem5

This repository is gem5 with an added network-on-chip simulator, ENoC
(`src/mem/enoc`, about 6,100 lines). ENoC is what distinguishes this code base
from upstream gem5, it has no tests of its own, and almost everything in it
depends on the order in which routers, channels, the traffic manager and the
directory act. This project models it.

## The system

`CoherentXBar::recvAtomic` (`src/mem/coherent_xbar.cc`) calls, for every packet
that passes the crossbar, `TrafficManager::process(pkt)` and then
`TrafficManager::clk((int)curTick())`. There is one thread. The concurrency is
that of the simulated hardware: 64 routers that run one after the other within a
cycle and write each other's state, and requests of several CPUs that arrive in
any order.

| Part | Source | Modules |
|---|---|---|
| iSLIP allocator (two per router) | `allocator.cpp` | `ISlipOps`, `ISlip`, `ISlipProofs` |
| cache set (tags, LRU, MESI) | `ENoC_cache.cpp` | `CacheOps`, `Cache`, `CacheArray`, `CacheProofs` |
| channel | `channel.h` | `Link` (abstract), `Channel`, `MCChannel`, `ChannelProofs` |
| topology and routing | `Network.cpp`, `VirtualChannel.cpp` | `Mesh`, `MeshWalk`, `MCMeshWalk` |
| routers, buffers, virtual channels (VCs) | `router.cpp`, `Buffer.cpp`, `VirtualChannel.cpp` | `Network`, `HeadHistory` |
| packet injection | `trafficmanager.cpp` (570-849) | `TrafficManager`, `MCTrafficManager` |
| requests, caches and directory | `trafficmanager.cpp` (82-567), `ENoC_Dir.cpp` | `Address`, `CacheArray`, `Coherence`, `MCCoherence` |

`MinLemmas` holds lemmas on minima of sets of numbers for the proofs.

A request takes this way: `process` looks at the caches of the requesting node,
calls the directory if necessary (which reads and writes the caches of all
nodes directly), and puts packets into `packet_table`. `clk` runs one network
cycle and then injects at most one flit per node and packet type. The packets
carry no state back: caches and directory never wait for them. `Coherence` and
`TrafficManager` can therefore be checked separately; what connects them is the
variable `sent` of the first and the action `Offer` of the second.

### Not modelled

- Statistics (`statsNoC.cpp`, `globalstats.cpp`) and energy (`energy.cpp`,
  `element.cpp`): floating-point sums and text output that influence no control.
  The list of received flits is kept as the variable `received`.
- `config.cpp`: reads a text file; the values that shape the network are
  compile-time constants of `NoCMain.h`.
- Bit flips and bus-invert coding in `router.cpp`: statistics on payload bits.
- `routefunc.cpp`, `main.cpp`, `dor_next_mesh`, `ReadFlit`, `FindAvailableVC`:
  not called.
- Upstream gem5: `src/arch`, `src/base`, `src/cpu`, `src/dev`,
  `src/gpu-compute`, `src/kern`, the rest of `src/mem` (caches, DRAM, Ruby,
  snoop filter), `src/python`, `src/sim`. The fork changes it only in
  `coherent_xbar.cc` (above) and `simulate.cc` (prints statistics at exit).

## Modules and the code

**ISlipOps / ISlip.** The allocator is a record with the fields of
`iSLIP_Sparse` and its base classes: `in_req` and `out_req` (the request maps,
without labels and priorities, which nobody reads), the occupancy sets, the two
match vectors, `dirty` and the round-robin pointers. `ISlip` drives it through
the cycle of `ENoCRouter::clk`: Clear, AddRequest, Allocate, RemoveRequest. Each
pass of the loop in `Allocate` is a step, so that properties hold after every
iteration. `Network` instantiates `ISlipOps` for the VC and the switch allocator.

**CacheOps / Cache / CacheArray.** A set is a function from ways to lines. Every
caller looks a tag up and then does one of four things, which are the actions of
`Cache`. When `checkLRU` finds no way, it returns `WAYS` and the callers use it
as an index. The stores then land outside the set, and whether `updateLRU` ages
the set depends on the word it reads there; `Fills` is the set of both outcomes.
What the stray stores do to neighbouring memory is not modelled.

**Channel / Link.** `Channel` has the register `_input`, the wait queue with
times, and `_output`, and a clock that may take any value in each cycle: the code
passes `(int)curTick()`, which repeats, jumps and wraps. `Link` is what the
routers rely on: a two-stage register without any time. `Network` uses links.

**Mesh / MeshWalk.** `Mesh` translates the channel numbering of `buildMesh`, from
which the sink of every output follows, the port table that `FindIdleVC`,
`SetIdleVC` and `FindFreeSpace` spell out, and `xy_yx_mesh`. `MeshWalk` moves one
flit.

**Network / TrafficManager.** One `clk` is a fixed sequence of steps, which
`phase` and `at` enforce: `ReadInputs` of everything; for each router
`_InputQueuing` with `_VCAllocEvaluate` (action `VCAllocEvaluate`) and then
`_SWAllocEvaluate`; `WriteOutputs` of everything; the injection slots. Within a
step the code's loops are folds, because a router changes the VC states of its
neighbours entry by entry. `Offer` adds a packet to `packet_table` between two
clks. A table is first-in first-out and only its head is compared with the clock,
so time is abstracted: an offer is a packet whose turn has come. Flits carry
packet, position and kind; payloads are left out. `HeadHistory` adds a variable
that remembers which heads did not have their VC for themselves; it watches and
restricts nothing, and only `NoHeadForgotten` uses it.

**Coherence.** One action per case of `process` (`ReadHit`, `ReadRefill`,
`ReadMiss` for cases 0 and 1, `Write` for 2 to 4, `Evict`, `Ignore`), each with
the whole handler of the directory. `Address` decodes addresses with the bit
operations of the code; `Coherence` takes the decoding as constants so that it
does not depend on them. The directory keeps addresses in an `int` next to MESI
states; the model assumes addresses above 3 (`AddrsAssumption`), which no state
can be taken for, and below 2^31, which the `int` holds unchanged.

## Runs

| Run | Bounds | Checks |
|---|---|---|
| `islip` | 3 inputs, 2 outputs, 2 iterations | type, transposed request views, matches are requested and one-to-one, no stale match, work conservation, no starvation |
| `cache_safety` | 3 ways, 5 tags | type, what the LRU bits mean, the first way with a tag is the only valid one, no eviction |
| `channel` | 3 flits, clocks -7, 0, 1, 2, 9 | type, the assertion of `WriteOutputs`, refinement of `Link` |
| `mesh_walk` | the real 8 x 8 mesh, all sources, all destinations and 8 numbers beyond | wiring, minimal and deadlock-avoiding routes, delivery |
| `network` | 2 x 2 mesh, 3 VCs of 2 flits; 3 packets of a mix of 4, or 2 of a contended mix of 6 (repetition allowed) | null fronts, forgotten heads, duplicates, losses, order, the assertion of `_VCAllocEvaluate`, delivery of smooth traffic |
| `network_meeting` | 3 x 3 mesh, 3 VCs of 2 flits, 5 packets chosen to meet at one output | null fronts, forgotten heads, losses, order, the assertion of `_VCAllocEvaluate` |
| `coherence_safety` | 4 nodes, 1 way in L1 and 3 in L2, three workloads: CPUs 1 to 3 on one line, CPUs 0 and 1 on one line, one CPU on two lines of a set (one with tag 0) | type, unique directory lines, lines keep their address without node 0, inclusion, agreement of the levels on owned lines, one owner in the directory |

Why the bounds are enough to be interesting. The allocator's input and output
counts differ, so wrapping with the wrong one shows. The cache has more tags than
ways, so sets fill up. The network is the smallest in which packets turn, meet
and compete for VCs; VCs hold fewer flits than the long packets have, so
back-pressure occurs. The types of packets, which choose the injection VC, all
occur. Packet sizes are scaled from 18 and 2 flits to 3 and 2 (5 in
`network_meeting`). With three ways in L2 two lines are valid side by side while
`Inclusion` still speaks about their set. The directory may
grow by two lines (`MaxLines`): one for each of two addresses, or a line that node
0 destroyed and its successor.
None of the runs switches deadlock checking off.

`network_meeting` is there for one case that a 2 x 2 mesh is too small for. When
the next router is the destination, `FindIdleVC` does not mark the VC it returns,
so that a packet that ends there and one that goes on reserve the same VC; the
loser gives it back by number (`router.cpp` 342) after the winner was granted it,
and a third packet is granted it too. The traffic of the run (its first two
packets set a round-robin pointer and a time of arrival) makes this happen: flits
of two packets then share a buffer, and VCs that are active are granted anew when
a head enters behind another packet.

`NoHeadForgotten` is about every head at the front of a buffer, except those in
`disturbed`. Both kinds of disturbed head are really forgotten, and the property
fails in the runs without either exception. A head that entered behind an older
packet loses its queue entry when that packet is granted anew, and stays in a VC
that is `idle` once the older packet has left. A head at the front of an injection
VC is lost when the traffic manager sends the next packet into the same VC and
marks it `routing` (`trafficmanager.cpp` 830). The property says that there is no
third way.

`Smooth`, the condition of `SmoothTrafficIsDelivered`, has four conjuncts. Each is
necessary: TLC finds an undelivered packet when any one of them is dropped. The
reasons are in the hazards: an overwritten injection register, packets to the own
node that leak their VC, switch entries dropped while a head waits for a VC, and
heads that enter an occupied buffer. The code promises nothing for such traffic,
and no property covers it: these hazards are listed with a note.

### Runs that show a disagreement

| Run | What the repository says | What the code does |
|---|---|---|
| `cache_victim` | "this function returns the least recently used way" | `checkLRU` returns `WAYS` once all ways have been used |
| `network_seq` | "The sequence number of the flit inside the packet" | one static counter for all packets |
| `coherence_address` | "first element holds the address of the memory location" | node 0 stores its state there |
| `coherence_others` | "ask directory to invalidate others" | a holder is recorded at its neighbour's element and keeps its copy (three requests of CPUs 1 to 3) |
| `coherence_source` | "this function will call a Cache function to update source cache" | a read that another cache answers writes no cache of the requester |

The models contain further behaviour that a reader may not expect: a head can be
queued behind flits of another packet (`router.cpp` 165 has the assertion against
it, disabled; `HeadFindsEmptyBuffer` is a condition of `Smooth`), and the directory
accepts a holder whose line is invalid and makes it valid again (`ENoC_Dir.cpp`
218).

## Fairness

- `islip`: weak fairness of `ClearStep` and `AllocateStep`. The calls of one cycle
  are a straight line of code, so neither is ever left out. `NoStarvation` assumes
  for one request only that it is made in every cycle, as the routers do, which
  queue an unserved entry again (`router.cpp` 344 and 428).
- `mesh_walk`: weak fairness of `Hop`; one flit has no competitor.
- `network`: the clock ticks for ever, which holds as long as requests keep
  reaching the crossbar, since only they call `clk`. It is stated as the
  recurrence of two phases. Some step of `Clk` is possible in every state, so this
  is weak fairness of `Clk`.

## Proofs

The theorems hold for every value of the constants under the named assumptions
of the modules (positive sizes; tags are natural numbers; the null flit is no
flit; clock values are integers).

**ISlipProofs.** `IInv` is the conjunction of the type invariant and the five
safety properties, and is inductive as it stands. The properties support each
other: one-to-one matching needs that grants go only to free inputs and outputs
(`GrantsProperty`, `AcceptsProperty`), work conservation needs that the request
views agree, and Clear keeps all of them because of `NoStaleMatch`. There is one
lemma per action. The theorems are `AllocatorTypeCorrect`, `AllocatorMatches`,
`AllocatorNoStaleMatch` and `AllocatorServes`.

**CacheProofs.** `IInv` adds to type, `LRUCountsFills` and `TagsDistinct` the
clause `TaggedIsUsed`: a way with a tag has age `WAYS`. Without it a fill could
take a way that holds a tag. `TagsDistinct` is kept because the state of a way
changes only when `checkTag` found it, so that it is the first with its tag. `UpdateCounted` is the heart: on a set whose first n
ways are in use, `updateLRU` of way n gives a set whose first n+1 ways are.
`CacheNoEviction` is an action property that follows from the same step lemmas.

**ChannelProofs.** For latency 1, which `buildMesh` sets, `IInv` says that the
wait queue holds at most one flit, stamped with the clock of the current cycle.
Hence the assertion cannot fail (`ChannelNeverOverdue`), and every step is a step
of `Link` or a stutter (`ChannelIsALink`).

Only model-checked: everything about `Mesh`, `Network`, `TrafficManager` and
`Coherence`; all liveness (`NoStarvation`, `Arrives`, `SmoothTrafficIsDelivered`),
because the prover handles neither fairness nor ENABLED; and whatever a fold over
a queue computes, because that needs induction over data.

## Plan

1. Compose `Coherence` with `TrafficManager`: the packets of `sent` as offers, so
   that the traffic that requests cause is checked against the conditions of
   `Smooth`. Addresses that alias in one cache level only.
2. The statistics that count flits and packets (`statsNoC.cpp`), as counters
   related to `received`.
3. The crossbar around the hook: layers and retries of `xbar.cc`, the snoop
   filter, packet queues, and the event queue (`eventq.cc`).
4. Proofs: `LinesUnique` and, for CPUs other than 0, `FirstElementIsAddress` of
   `Coherence`; `InPortMatchesWiring`, `HopsAreMinimal` and `NoTurnBackToX` for
   every K; `NoNullFront` of `Network` through lemmas on single entries.
