# Ralink frame engine: TLA+ models, checks and proofs

The Linux driver in `src/drivers/net/ethernet/ralink/` drives the Ethernet frame
engine (FE) of Ralink/MediaTek MIPS SoCs and its packet processing engine (PPE),
which forwards established flows without the CPU. This directory holds TLA+
modules of the parts of the driver whose correctness depends on orderings that
tests hardly reach, the TLC runs that check them and TLAPS proofs of every safety
invariant and action property those runs check. `PROJECT.json` maps every definition to its source lines and
lists runs, seeded faults ("mutants", the definitions commented `Fault:`),
hazards, findings and theorems. Line numbers below refer to `ralink_fe.c` unless
another file is named.

## 1. Inventory

All supported SoCs have one little-endian CPU. NAPI polls and `ndo_start_xmit`
run with bottom halves disabled and so never interleave with each other; the hard
interrupt handler, process context (TC, open/stop, probe/remove) and the hardware
(PDMA engine, PPE) interleave with them. `TxRing`, `RxRing` and `IrqNapi` rely on
this. `Dim` does not, as work items can be preempted. Nor does `VlanCache`: two queues
cannot transmit at the same time on these SoCs, and what its run says of them is what
`vlan_lock` promises; table overflow and reopening do not need a second CPU.

| Component | State | Operations | What makes it correct |
|---|---|---|---|
| Flow offload (`ra_ppe_offload.c`, `ra_ppe_v1_offload.c`, `ra_ppe_v2_offload.c`, `ra_ppe*.c`) | cookie table, tuple table, entries (`hash`, `hash_valid`, `dead`, `lastused`), the FOE table shared with hardware, engine on/off | FLOW_CLS replace/destroy, RX reports (rate reached, keepalive), start, stop, init, deinit | the engine forwards only for flows Linux has authorised and can still revoke |
| Rule translation (`ra_ppe_offload.c` parser, `*_resolve_output`, `*_build_*`, `*_foe.h`) | one rule on its way to a descriptor | parse match, parse actions, prepare, promote | the engine does exactly what the rule says, or the rule is refused |
| TX ring (499-549, 610-713, 793-1037, 1520-1581) | four indices, descriptors, skbs, DMA mappings, stopped queue, BQL | xmit (linear, scatter-gather, error paths), clean, init, reset | no descriptor reused while in use, no mapping leaked or released twice, no stuck queue |
| RX ring (480-497, 578-608, 1245-1518) | three indices, DONE bits, pages and their owner | refill, consume (deliver, report, drops), doorbell, release | the engine writes into pages of the ring alone, frames in order, no page lost, no stall |
| Interrupts and NAPI (222-240, 1377-1660) | enable register, shadow, status, NAPI state, TX rotation | handler, polls, enable, disable | no lost event, no poll after release, no starvation |
| Probe, open, stop, remove (1053-1159, 1787-1944, 2047-2435) | which resources are held, DMA, NAPI, interrupts, PPE on or off | probe with six error labels, open with two, stop, remove, release of managed resources | nothing used that is not there, failures leave what was before |
| MDIO bus (38-142) | one access register, `mdio_lock` | read, write, two waits with timeouts | an answer belongs to its call |
| Flow block binding (`ra_ppe_offload.c` 729-776) | callbacks and their reference count | bind, unbind | rules reach the PPE while a port is bound |
| Interrupt moderation (271-429) | profile index and state per direction, delay register and shadow | two work items, setup, cancel | the register holds both profiles, moderation goes on |
| VLAN tag cache (715-791) | `vlan_idx`, next slot, two ids per register | lookup, allocate, push | a packet leaves with its own id |
| phylink/MAC, queue selection, ethtool, SoC tables and register setup | none that interleaves | | not modelled |

Interactions: the handler schedules the polls; the RX poll hands PPE reports to
`ops->offload->check()`, which takes `ppe->lock` and an RCU read-side section; TC
operations hold `flow_lock` and take `ppe->lock` for single critical sections;
`ndo_open`/`ndo_stop` start and stop a PPEv1, while a PPEv2 runs from probe to
removal; the hardware reads and writes the FOE table, descriptors and status
registers with no lock at all. The hard behaviours are listed, each at its line,
under `hazards`.

## 2. Modules

| Module | Models | Proofs / runs |
|---|---|---|
| `FlowAuth` | what the offload promises: authorise, bind, unbind, revoke, forget | refined by `FlowOffload` |
| `FlowOffload` | tables, promotion, restart and removal, both generations (`Gen`) | `FlowOffloadProofs`; flow_v1, flow_v2 |
| `FlowRule` | flower rule to FOE descriptor, both generations | `FlowRuleProofs`; rule, rule_push |
| `TxQueue` | what a TX queue promises: packets sent and freed once, in order | refined by `TxRing` |
| `TxRing` | one TX queue | `TxRingProofs`; tx_safe, tx_live, tx_teardown |
| `RxRing` | one RX queue and its page pool | `RxRingProofs`; rx |
| `IrqNapi` | handler, masks, polls, NAPI life cycle | `IrqNapiProofs`; irq |
| `Lifecycle` | probe, open, stop, remove; composes `Mdio` and `FlowBlock` (EXTENDS) | `LifecycleProofs`; lifecycle |
| `Mdio` | MDIO reads and writes | `LifecycleProofs`; lifecycle |
| `FlowBlock` | binding of flow blocks | `LifecycleProofs`; lifecycle |
| `Dim` | interrupt moderation work items | `DimProofs`; dim |
| `VlanCache` | VLAN ids inserted on transmission | `VlanCacheProofs`; vlan |

`MCFlowOffload`, `MCTxRing` and `MCVlanCache` add the symmetry sets, `MCLifecycle`
the kinds of board.

### FlowOffload

Entries are memory objects (`mem` is free, live or handed to `kfree_rcu`), so
reuse of freed memory is visible. `hash[e] = NoSlot` stands for `hash_valid =
false`. A FOE slot is its state, the tuple it matches and the entry whose template
it carries (a ghost: the hardware sees the rewrite data). Every statement another
actor can observe is a step: `flow_destroy` marks dead, `flow_remove` clears the
slot, `flow_unlink` and `flow_free` leave the two tables; a promotion is
`offload_check_authorise`, `foe_commit_copy` (descriptor written as INVALID),
`foe_commit_publish` (state word) and `offload_check_associate`, all under
`ppe->lock`; `offload_reset` and `flow_flush` walk the cookie table entry by entry.
Two cookies may have the same tuple, since `rhashtable_insert_fast` does not look
for one, and a lookup may find either. `fresh` stands for `lastused = jiffies`, and
`Tick` empties it.

The engine (external) may learn any tuple into a slot that is not bound, age or
finish a slot at any time, and queue reports that are stale when they are read.
One assumption about it: it does not learn a new tuple into the very slot whose
rate report is being answered (`HwLearn`); the driver reads the slot's tuple twice
and has no way to defend against that. Ageing of that slot at any moment is allowed.

`FlowAuth` sees a flow's status (none, active, revoking) and which flow each slot
of a running engine forwards for. The mapping is at the end of `FlowOffload`.

### FlowRule

A match is the set of its dissector keys, the fields not matched exactly, the
fields outside the 5-tuple it constrains, and TCP flags. Actions are folded twice
over `struct ra_flow_data`, as in `ra_flow_parse_actions`. Headers are 16-bit words
and conversions (`ntohl`, the two MAC layouts, the IPv6 words) really swap bytes, so
`RewriteExact` compares the headers the engine writes with what the pedit actions,
executed one after the other, would write. Output devices are classified by what
`resolve_output` asks about them. IPv6 addresses have two 32-bit words here instead
of four: the code treats all alike. Ethertype fields, TTL, checksum and ageing bits
are left out. Ingress interface matching is ignored by the parser and absent here.
A rule starts from the MAC rewrites that matter (complete, source only, none), for
a PPE of either generation (`gen`).

### TxRing

`mapped` is what the DMA API knows: descriptor, segment, and kind (single or
page). `desc[i].sdl` is the set of segments with a length in `info2`, `map[i]` the
segments flagged as pages. `start_xmit` and `tx_clean_q` are single steps (bottom
halves are disabled and there is one CPU); the engine advances between any two.
`burst` is the rest of an `xmit_more` burst; BQL is counted in packets and its
limit is fixed, which keeps its essence: after the packet that exceeds it, the stack
starts no burst. Bytes bound a burst's packets and descriptors in no useful way, so
`MaxBurst` is unrelated to the ring's size: a burst may fill an idle ring before its
doorbell. Ring masks are written `% N`, which equals `& (N - 1)` for
powers of two; the model also works for other sizes. `faults` records misuse of
memory so that a run can say which kinds happen at all: "stale frags" is a packet
whose fragments were taken (878-887) before `ralink_fe_tx_prepare_vlan` or
`skb_put_padto` replaced or moved its data.

`TxQueue` sees the packets held, shown and sent and the order of their acceptance. The
mapping is at the end of `TxRing`: the order is that of the descriptors from
`clean_idx` on.

### RxRing

`info1` (what the engine writes to) and `buf` (what the driver thinks) are separate,
so that a re-arm of one without the other is visible. The consumption of one frame is
a step, with one action per way out of `ralink_fe_rx_consume_one`.

### IrqNapi

One status bit per direction with the delay-interrupt logic (`delayed`) between
a completion and the bit. The polls take one packet (RX) or one quantum (TX) per
step, so that completions and the handler come in between; `poll_complete` and
`poll_unmask` are separate. `stop` is split at each `napi_disable`, which first
announces itself and then waits.

The line is level triggered. If it is asserted by a bit enabled in the register but
not in the shadow, the handler returns IRQ_NONE without clearing anything
(`irq_none`), is called again, and the kernel ends up disabling the line
(`line = "dead"`). `LineLostByLateUnmaskOnly` shows the only way there: a poll that
completes after `ndo_stop` masked all interrupts unmasks its direction again
(`late`), the engine goes on completing, and the next `ndo_open` zeroes the
shadow but not the register. `NoLostEvent` and `FullQueueServed` hold apart from that.

### Lifecycle, Mdio and FlowBlock

`held` is the set of resources that are there; `pc` walks through `ralink_fe_probe`,
the error labels (`ErrLabel`, `Unwind`), `ralink_fe_open` and its labels,
`ralink_fe_stop`, `ralink_fe_remove` and the managed resources the driver core
releases last. Meanwhile polls, DIM work, DMA (which may be "stuck" when
`ralink_fe_dma_disable` times out, and drain later), the PPE, MDIO callers, flow
blocks and the coming and going of the switch driver interleave. `InUse` says what
each of them needs; `UsedIsHeld` is `InUse \subseteq held`. Rings, interrupts and
polls are reduced to being on or off, as the other modules have their detail. Each
board is what a device tree gives: managed reset and clock, MDIO bus, a port with a
PHY, PPE generation, and whether `ra_ppe_v1_start` accepts the table.

Two things stand out. The error path of `ndo_open` frees the DSA metadata while NAPI is
enabled and leaves `ppe->ralink_dsa` set: the first is safe because interrupts are
still masked, the second because a failed open repeats the check (`IdleIsClean`
allows it for boards whose start fails). And the MDIO bus, being managed, outlives
`ralink_fe_hw_cleanup`: a call in that window reaches an engine without clock and
returns garbage, which `MdioAnswersOwn` allows. The same holds for the interrupt handler.

`Mdio` numbers the calls of a user so that a late answer is told from the right one.
`FlowBlock` counts callbacks as `ra_ppe_setup_tc_block` does; allocation failures
leave everything as it was.

### Dim

A work item is six steps (read profile, lock and read the shadow, store, write the
register, unlock, resume measuring). `net_dim` is external: it moves the profile index
by one and queues the item; in DIM_APPLY_NEW_PROFILE it does nothing. `cancelled` records that
`ndo_stop` dropped an item that had not begun, after which `net_dim` never adapts
this direction again, in any later session: nothing resets `dim->state`.

### VlanCache

Each queue goes through `ralink_fe_tx_prepare_vlan` in steps: the lookup without
lock, the allocation under `vlan_lock` with the register read, the register
write and the publication apart. A packet in a ring has the id it should
carry; `Wire` is what the engine would send now, which `OwnTag` compares at every
moment. An engine that did not stop in time has lost its rings; nothing is
claimed for what it still sends.

## 3. Runs

| Run | Shows |
|---|---|
| flow_v1 | the inductive invariant, `NoOrphanBind`, `OneBindPerFlow`, `PromotionStaysAuthorised`, `LinkedIsLive`, `ActivityIsGenuine` and the refinement, with restarts and removal |
| flow_v2 | the refinement with IPv6 and the PPEv2 way to clear a slot; `DeadIsFreed` |
| tx_safe | `IndexInv` (room check and index order), `MappedExactly`, `PacketsWhole`, `OnlyKnownFaults`, `BqlDriftsAtResetOnly` and the refinement of `TxQueue` |
| tx_live | `AcceptedCompletes`, `StoppedWakes`, both up to `Stranded`, a state the code has no way out of (section 4) |
| tx_teardown | *violated*: `NoStaleUnmap` (finding 1) |
| irq | `MaskedWhilePolled`, `NoLostEvent`, `NoPollAfterRelease`, `LineLostByLateUnmaskOnly`, `FullQueueServed`, `StopEnds` |
| rx | `FramesInOrder`, `WritesStayInRing`, `NoPageLost`, `FramesTaken`, `RingNeverStalls` |
| rule | `AuthorisesExactly`, `RewriteExact`, `KeyRoundTrip`, `UserTagsUntouched`, both generations |
| rule_push | *violated*: `VlanPushCarried` (finding 2) |
| lifecycle | `UsedIsHeld`, `IdleIsClean`, `MdioAnswersOwn`, `CallbackWhileBound` |
| dim | `RegisterHoldsProfiles`, `Adapts` |
| vlan | `OwnTag`, `OneSlotPerId` |

The type invariants (`TypeOK` of each module) hold in the same instances; those of
`FlowOffload` and the indices of `TxRing` are part of the invariants the runs check.

### Bounds

These are the bounds of the runs. Section 5 removes them for every invariant and action
property, so that they limit the liveness properties alone, together with what the
modules themselves fix (listed at the end of section 5).

* Flow offload: three entries (a destroyed one waiting for its grace period, and two
  linked ones with the same or different tuples), two cookies, two slots (a flow
  learned in both, a slot passing between flows), two parsable tuples and one the
  driver cannot parse. flow_v2, which also checks liveness and so has no symmetry, has
  two entries, an IPv4 and an IPv6 tuple.
* TX: a ring of 5 with a reserve of 2 holds packets of one or two descriptors (3
  fragments: a full last descriptor and a half one both occur), so wrapping, refusal
  and partial cleaning happen. In tx_live the ring of 4 has a reserve of 1 and wakes at 2:
  a stopped queue is woken by the first completion or by a later one, and a burst of a
  packet of two descriptors and a refused one strands the queue. As in the default build (9 and 16
  descriptors) the largest packet needs no more than the wake threshold; cleaning is by single packets.
  `BqlCap` bounds how far the BQL count may have drifted (hazard at line 610) when
  the interface is stopped once more.
* RX: four descriptors, five pages (the fifth in the pool or with the stack, so
  replacement succeeds and fails), budget 2, so a poll ends both by budget and by lack
  of frames. No symmetry, as the run checks liveness too.
* Interrupts: two queues per direction, one waiting packet each, which the engine
  renews at any time, budget 2 and quantum 1, so that polls end by budget and by lack
  of work and the TX rotation is cut short in the middle.
* Rules: up to three actions from all supported and several unsupported ones after the
  MAC rewrite, all matches with at most one key too many or missing, one inexact
  field, one foreign constraint.
* Life cycle: four boards (PHY on the own bus; FOE table refused; PPEv2 behind its
  switch; no PPE and no reset), two MDIO callers, one block with two ports. Probes,
  opens and rebindings repeat without bound.
* Moderation: the real profile tables, no bound.
* VLAN: two queues with up to two packets each, four slots in two registers, five ids, so
  that the table overflows and registers are shared by two queues' ids.

### Fairness

* `FlowOffload`: an operation that began goes on, as both are straight-line
  code; taking `ppe->lock` is strongly fair, since promotions hold it for bounded
  time and may follow each other; grace periods end.
* `TxRing`: the engine sends what the doorbell shows it; a burst that began goes on;
  the poll runs after completions (strongly fair, since bursts may alternate
  with it; that the interrupt comes is shown by `IrqNapi`), and need not run without
  one, since there is no `ndo_tx_timeout`. Nothing makes the stack send:
  `AcceptedCompletes` names the case in which a packet waits for it (`Hidden`), and
  demands that neither the stopped queue nor the byte queue limit holds the stack
  back then. No fairness helps a queue that is `Stranded`: nothing is enabled that
  would start it, which `StrandedForGoodAlways` proves.
* `RxRing`: polls run and finish; nothing is assumed of traffic or allocations.
* `IrqNapi`: the delay timer expires, asserted interrupts are taken, a running poll
  proceeds, the softirq list is round robin, and process context gets the CPU
  between polls (`ksoftirqd` is an ordinary thread).
* `Dim`: the workqueue runs queued items, and an item waiting for `dim_lock`, which is
  held for a few instructions, gets it (strongly fair).

Deadlock is checked in all runs.

## 4. Findings

1. `ralink_fe_tx_clean_q` leaves the lengths of completed descriptors in `info2`,
   and `ralink_fe_tx_ring_reset` (623) unmaps by those lengths: descriptors completed
   since the last open are unmapped a second time at `ndo_stop`, fragments as
   single mappings. The comment at 699-702 states that lengths denote mapped segments.
2. On DSA ports outside a VLAN-filtering bridge, `resolve_output` drops a requested
   VLAN push (`ra_ppe_v1_offload.c` 248-266, `ra_ppe_v2_offload.c` 303-317), while
   `ra_ppe_offload.h` 68-73 says each generation translates the logical operations.
   `PushLostInternallyOnlyAlways` (`FlowRuleProofs`) bounds it: a push is lost only on
   ports the driver tags itself.

Also seen while modelling, and recorded as hazards: the second free of an skb
after `__vlan_hwaccel_push_inside` failed and the fragments read before the packet
may move (`OnlyKnownFaults`, proved for every ring, shows that these and finding 1 are the only
misuses), the
BQL count that is never reset (`BqlDriftsAtResetOnly`), the interrupt line that a late
unmask can lose (`LineLostByLateUnmaskOnly`) and moderation that ends for good when
a queued item is cancelled (`Adapts`). Two more need a longer story:

* A burst of small packets (more than 112 with the driver's sizes, about 7 KB, which the
  byte queue limit admits) fills an idle ring before its doorbell. The next packet is
  refused, which stops the queue without a doorbell (812-817, 899-905). The engine has
  been shown nothing, so no completion comes, and only a completion wakes the queue
  (1569-1577): it stays stopped until `ndo_stop`. `StoppedWakes` and
  `AcceptedCompletes` show that this state (`Stranded`) is the only way for a queue to
  stay stopped, and `StrandedForGoodAlways` that it is one.
* Two cookies with one tuple (`ra_ppe_offload.c` 556). The first one's remembered slot is
  aged and learned again, and bound for the second; a keepalive of that slot then refreshes
  the first whenever the lookup finds it, as its hash still matches. `ActivityIsGenuine`
  shows that this happens between flows of one tuple only.

No comment, assertion or test of the repository speaks about these, so the properties
name them as exceptions and give their extent; they would not notice the defect itself.
The notes of the hazards in `PROJECT.json` say which those are.

## 5. Proofs

Each component's proofs are in a module of their own, which has the inductive invariant,
lemmas about the component's operators, one lemma per action that it preserves the
invariant, and the theorems. Nothing is assumed but the named assumptions of the
modules, which TLC evaluates in the runs.

| Module | Inductive invariant | Properties proved |
|---|---|---|
| `FlowOffloadProofs` | `IInv` | `NoOrphanBind`, `OneBindPerFlow`, `PromotionStaysAuthorised`, `LinkedIsLive`, `ActivityIsGenuine`, `RefinesFlowAuth` |
| `FlowRuleProofs` | `RuleIInv` | `AuthorisesExactly`, `RewriteExact`, `KeyRoundTrip`, `UserTagsUntouched`, `PushLostInternallyOnly` |
| `TxRingProofs` | `IndexInv`, `TxIInv` | `IndexInv`, `MappedExactly`, `PacketsWhole`, `OnlyKnownFaults`, `ThrottledIsVisible`, `BqlDriftsAtResetOnly`, `StrandedForGood`, `RefinesTxQueue` |
| `RxRingProofs` | `RxIInv` | `FramesInOrder`, `WritesStayInRing`, `NoPageLost` |
| `IrqNapiProofs` | `IrqIInv` | `MaskedWhilePolled`, `NoLostEvent`, `NoPollAfterRelease`, `LineLostByLateUnmaskOnly` |
| `LifecycleProofs` | `LifeIInv` | `UsedIsHeld`, `IdleIsClean`, `MdioAnswersOwn`, `CallbackWhileBound` |
| `DimProofs` | `DimIInv` | `RegisterHoldsProfiles` |
| `VlanCacheProofs` | `TableIInv` | `OwnTag`, `OneSlotPerId` |

**FlowOffloadProofs.** For every set of entries, cookies, tuples and slots and both
generations, under the assumptions of `FlowOffload` (the null values are no members,
parsable and other tuples differ). `NoOrphanBind` is not inductive. `flow_free` preserves
it only if the entry being freed remembers no slot, which is so because `flow_remove`
came before (`TcInv`) and no promotion bound it since: promotions refuse dead entries,
and dead is set while `ppe->lock` is free (`RxInv`). `v1_start_enable` needs an all-zero
table and `offload_reset_one` an engine that is off (`CtlInv`). Memory that is reused
carries no state (`MemInv`). The refinement (`Spec => RefinesFlowAuth`) uses `IInv` at
each step: a publication is an abstract `Bind` because the flow is linked, not dead and
bound nowhere else; a free is a `Forget` because no slot forwards for it.
`ActivityIsGenuine` needs `NoOrphanBind`: the slot of an accepted keepalive is owned by
a flow that remembers it, and the tuple of both is the slot's, so that flow is the one
refreshed or a duplicate of it.

**FlowRuleProofs.** For every match of the module, action lists of any length and both
generations (`RuleAssumption` only names them). An invariant says what a rule's stage
knows of the earlier ones: the parsed actions are the fold of the rule's actions
(`ParsedInv`), the template that of what they left (`PreparedInv`), the descriptor the
template up to the tag spread (`BoundInv`). What remains is an argument about folds.
A fold over a sequence is unrolled into the run of its intermediate values
(`FoldRuns`), and a relation that every step keeps and that holds at the start holds
along runs of the same actions; were it false anywhere there would be a first place
(`WFMin` over the order of the naturals), and that place contradicts the step. `RewriteExact`
relates three runs in this way: the values the driver gathers, the words it
would write, and the headers that pedit makes of the packet. MAC addresses are compared
by 16-bit words, as the code splits them differently in its two layouts.

**TxRingProofs.** For any ring size, reserve, wake threshold, burst, quantum and packet
size that the assumptions of `TxRing` admit (the reserve and the wake threshold leave
room, the largest packet fits). `IndexInv` adds to
`Occupancy` and `IndexOrder` the range of the indices; the lemmas before it are about
distances and windows modulo the ring size. `TxIInv` strengthens `MappedExactly`, which
alone does not say that cleaning ends at the end of a packet: the used part and the part
shown to the engine end with a packet's last descriptor (`LastsInv`), no skb is
there twice nor outside the used part (`SkbsInv`), and BQL counts at least the skbs there
(`BqlCovers`), so that a throttled queue has a completion to come.
`RefinesTxQueue` uses `TxIInv` at each step: a new packet's last descriptor lies behind all
others (`AcceptRefines`), the engine's next descriptor is one it was shown
(`SendRefines`), and what the poll passes is a prefix of what was sent, whose packets are
not elsewhere in the ring (`CompleteRefines`); the error paths of `start_xmit` write
unused descriptors only and change nothing that the queue promises.

**RxRingProofs.** For any ring of more than one descriptor, budget and set of pages.
`WritesStayInRing` and `NoPageLost` need that descriptor and driver agree on each page
from the refill on (`FilledInv`) and that no page is in the ring twice (`OncePerPage`);
`FramesInOrder` needs that the engine never runs past the doorbell, seen from the
descriptor the poll looks at next (`BehindDoorbell`).

**IrqNapiProofs.** For any number of TX queues, one or two RX queues, any quantum and a
budget of at least one packet per RX queue (`BudgetAssumption`; NAPI's budget is 64).
`ralink_fe_rx_poll_2q` takes one frame from each queue in turn until the budget is
used up or a round finds both empty; with a smaller budget it would never look at the
second queue. `NoLostEvent` rests on what a poll
may conclude when it completes: what its round has looked at and found empty is empty,
or a new event is pending (`LookInv`), for which the loops must have budget left
exactly as long as they go on (`LoopInv`). `NoPollAfterRelease` and
`LineLostByLateUnmaskOnly` need where NAPI is off and being disabled (`NapiInv`) and that
register and shadow differ only after a late unmask (`EnableInv`).

**LifecycleProofs.** For every set of boards and callers, every set of blocks and finite
set of ports (`PortsAssumption`, as the callback is counted), with `Mdio` and `FlowBlock`
as parts of the composition. `HeldInv` says what is held at each step of probe,
open, stop, remove and their error labels. The other parts confine what runs to the steps
at which its resources are held: polls to the steps at which NAPI is on (`NapiInv`), DMA
to those up to its disabling or its late drain (`DmaInv`), the PPE and its callbacks
(`PpeInv`), the DSA flag that survives a refused open (`DsaInv`), MDIO callers
(`BusInv`). `MdioAnswersOwn` needs that the register holds at most one command, that
of the lock's holder, and that it is performed once (`CallInv`), and `CallbackWhileBound`
that the count is the number of bound ports (`RefcntInv`).

**DimProofs.** Without assumptions, over any number of opens and stops. `ShadowInv` says
where the register lags behind the shadow, `HalvesInv` where the shadow behind the chosen
profile; both need that `dim_lock` has one holder (`LockInv`) and that a profile stays
chosen until its item returns (`ItemInv`).

**VlanCacheProofs.** For every even number of slots, finite set of ids (`vlan_idx` has
4096) and set of queues. `OwnTag` needs that the queue filling a slot has the
newest slot, that no id names it yet, and that what it read of the register is still true
when it writes (`FillInv`, from `LockInv`). `OneSlotPerId` follows by counting: the slots
handed out are as many as the ids cached and the one being filled (`CountInv`).

**Only model-checked.** The liveness properties `DeadIsFreed`, `AcceptedCompletes`,
`StoppedWakes`, `FullQueueServed`, `StopEnds`, `FramesTaken`, `RingNeverStalls` and
`Adapts`: fairness and ENABLED are out of the prover's reach. The two violated properties
have counterexamples instead of proofs. Conversely `ThrottledIsVisible`,
`StrandedForGood` and `PushLostInternallyOnly` are proved and in no run (the first
is part of `TxIInv` and what `AcceptedCompletes` rests on under the byte queue limit).

**What the proofs do not remove.** The modules fix some sizes themselves: two directions
and the real profile tables, two 32-bit words per IPv6 address, the dissector
keys, the matches and the action values of `FlowRule`, one TX queue and one RX queue in the ring
modules. BQL counts packets up to `BqlCap` there, and `IrqNapi` caps the packets waiting
per queue (`MaxWork`); both caps are any number. The assumptions about the hardware
(section 2) remain assumptions.

## 6. Plan

Every component with state that interleaves is modelled, and every safety invariant and
action property is proved. What may follow:

1. Abstract specifications of the RX ring (a stream of frames) and of the MDIO bus (a
   register file accessed one call at a time), with the modules shown to implement them, as
   `TxRing` is for `TxQueue`. The inductive invariants already hold what the
   refinement proofs would need.
2. A refinement of the polls assumed in `TxRing` and `RxRing` by those of `IrqNapi`. A
   composition that replaces the fairness assumed of the polls is beyond TLC at bounds at
   which each part is still interesting (the parts have 10^5 to 10^6 states each).

### Not modelled

* phylink and MAC configuration (144-220, 468-478, 1161-1173): register writes from
  arguments, serialised by phylink and RTNL, with no state of their own.
* Queue selection (1043-1051) and the port lookup of DSA metadata: pure functions.
* ethtool and statistics (1175-1215, 1662-1785): counters that nothing depends on.
* SoC tables and register setup (1946-2045, 2081-2092, 2437-2733, `ra_ppe_v1.c`,
  `ra_ppe_v2.c`): constants written once.
* A rule that rewrites only part of a MAC address (`ra_ppe_offload.c` 615): the flow
  table core does not emit one; the hazard list has it with this note.
