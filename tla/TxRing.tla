------------------------------- MODULE TxRing -------------------------------
(***************************************************************************)
(* One TX queue of the frame engine (ralink_fe.c): the descriptor ring     *)
(* that start_xmit fills, the PDMA engine empties and the TX poll cleans,  *)
(* its DMA mappings, its flow control towards the stack (the stopped queue *)
(* and the byte queue limit, counted in packets) and its life over         *)
(* ndo_open and ndo_stop.                                                  *)
(*                                                                         *)
(* start_xmit and the poll run with bottom halves disabled on the only     *)
(* CPU of these SoCs and do not interleave; the PDMA engine does, with     *)
(* every step of both.                                                     *)
(***************************************************************************)
EXTENDS Integers, FiniteSets

CONSTANTS N,          \* RALINK_FE_TX_RING_SIZE
          Reserve,    \* RALINK_FE_TX_STOP_RESERVE
          Wake,       \* RALINK_FE_TX_WAKE_THRESH
          Quantum,    \* RALINK_FE_TX_POLL_QUANTUM
          MaxFrags,   \* fragments of a non-linear packet
          MaxBurst,   \* packets the stack hands over in one xmit_more burst: it
                      \* bounds a burst by bytes only, so any number of packets
          BqlLimit,   \* packets the byte queue limit lets through
          BqlCap,     \* bound: the interface is stopped up to this count
          Skbs, NoSkb

\* A scatter-gather packet uses one descriptor per two segments.
Needed(n) == (n + 2) \div 2

ASSUME RingAssumption ==
  /\ N \in Nat /\ Reserve \in Nat /\ Wake \in Nat
  /\ 0 < Reserve /\ 0 < Wake /\ Reserve + Wake < N
ASSUME PollAssumption == Quantum \in Nat \ {0}
ASSUME PacketAssumption ==
  /\ MaxFrags \in Nat /\ Needed(MaxFrags) <= N - Reserve
  /\ MaxBurst \in Nat \ {0}
  /\ BqlLimit \in Nat /\ BqlCap \in Nat
  /\ NoSkb \notin Skbs

VARIABLES
  cpu_idx,     \* ring->cpu_idx, the next descriptor to fill
  clean_idx,   \* ring->clean_idx, the next descriptor to clean
  tx_cpu_idx,  \* the doorbell register
  tx_dma_idx,  \* the engine's position register
  skb,         \* ring->skb
  desc,        \* info2: the segments with a length, and the LS bits
  map,         \* ring->map: the segments to unmap as pages
  mapped,      \* the DMA API's live mappings <<descriptor, segment, kind>>
  drv_xoff,    \* netif_tx_queue_stopped
  bql,         \* packets the byte queue limit counts as in flight
  burst,       \* packets the stack still has in the running burst
  link,        \* "down", "up" or "stopping"
  faults       \* kinds of misuse of memory that have happened

vars == <<cpu_idx, clean_idx, tx_cpu_idx, tx_dma_idx, skb, desc, map, mapped,
          drv_xoff, bql, burst, link, faults>>

ring == <<cpu_idx, clean_idx, tx_cpu_idx, tx_dma_idx, skb, desc, map, mapped>>

Idx == 0 .. N - 1
Free == [sdl |-> {}, ls |-> FALSE]
Mapping == Idx \X {0, 1} \X {"single", "page"}

TypeOK ==
  /\ cpu_idx \in Idx /\ clean_idx \in Idx
  /\ tx_cpu_idx \in Idx /\ tx_dma_idx \in Idx
  /\ skb \in [Idx -> Skbs \cup {NoSkb}]
  /\ desc \in [Idx -> [sdl : SUBSET {0, 1}, ls : BOOLEAN]]
  /\ map \in [Idx -> SUBSET {0, 1}]
  /\ mapped \in SUBSET Mapping
  /\ drv_xoff \in BOOLEAN
  /\ bql \in Nat
  /\ burst \in 0 .. MaxBurst - 1
  /\ link \in {"down", "up", "stopping"}
  /\ faults \in SUBSET {"clean unmap", "unwind unmap", "reset unmap", "double free",
                       "stale frags"}

Init ==
  /\ cpu_idx = 0 /\ clean_idx = 0 /\ tx_cpu_idx = 0 /\ tx_dma_idx = 0
  /\ skb = [i \in Idx |-> NoSkb]
  /\ desc = [i \in Idx |-> Free]
  /\ map = [i \in Idx |-> {}]
  /\ mapped = {}
  /\ drv_xoff = TRUE
  /\ bql = 0
  /\ burst = 0
  /\ link = "down"
  /\ faults = {}

-----------------------------------------------------------------------------
(* Ring arithmetic and DMA mappings.                                       *)

Dist(a, b) == (b - a) % N
Window(a, b) == {i \in Idx : Dist(a, i) < Dist(a, b)}

Nth(a, k) == (a + k) % N

Avail(clean, cpu) == (clean - cpu - Reserve) % N

\* The mappings ralink_fe_tx_unmap_desc releases for a descriptor: every
\* segment with a length, as a page if its map flag is set.
Unmaps(i, d, m) == {<<i, j, IF j \in m THEN "page" ELSE "single">> : j \in d.sdl}

Fault(kind, names, live) == IF names \subseteq live THEN {} ELSE {kind}

-----------------------------------------------------------------------------
(* ndo_start_xmit.                                                         *)

StackXoff == bql > BqlLimit

\* The stack calls start_xmit: the first packet of a burst when nothing stops
\* the queue, the others without looking at the byte queue limit again. b
\* packets follow; netdev_xmit_more is b > 0.
StackSends(b) ==
  /\ link = "up" /\ ~ drv_xoff
  /\ IF burst = 0 THEN ~ StackXoff /\ b \in 0 .. MaxBurst - 1
                  ELSE b = burst - 1

Fresh(s) == \A i \in Idx : skb[i] # s

\* Not enough room: stop the queue and hand the packet back. The rest of the
\* burst is requeued; the doorbell is not written, not even for the packets of
\* the burst that are in the ring.
xmit_busy(n, b) ==
  /\ StackSends(b)
  /\ Avail(clean_idx, cpu_idx) < Needed(n)
  /\ drv_xoff' = TRUE
  /\ burst' = 0
  /\ UNCHANGED <<ring, bql, link, faults>>

\* Fault: one descriptor too few is asked for.
HasRoomOffByOne(n) == Avail(clean_idx, cpu_idx) >= Needed(n) - 1

HasRoom(n) == Avail(clean_idx, cpu_idx) >= Needed(n)

\* Fault: the doorbell waits for the end of the burst although the limit is hit.
SentQuietly(b, new_cpu) ==
  /\ cpu_idx' = new_cpu
  /\ bql' = bql + 1
  /\ burst' = b
  /\ tx_cpu_idx' = IF b = 0 THEN new_cpu ELSE tx_cpu_idx

\* The packet is in the ring: account for it, and ring the doorbell at the end
\* of the burst or when the byte queue limit stops the stack.
Sent(b, new_cpu) ==
  /\ cpu_idx' = new_cpu
  /\ bql' = bql + 1
  /\ burst' = b
  /\ tx_cpu_idx' = IF b = 0 \/ drv_xoff \/ bql' > BqlLimit THEN new_cpu ELSE tx_cpu_idx

xmit_linear(s, b) ==
  /\ StackSends(b) /\ Fresh(s) /\ HasRoom(0)
  /\ mapped' = mapped \cup {<<cpu_idx, 0, "single">>}
  /\ map' = [map EXCEPT ![cpu_idx] = {}]
  /\ skb' = [skb EXCEPT ![cpu_idx] = s]
  /\ desc' = [desc EXCEPT ![cpu_idx] = [sdl |-> {0}, ls |-> TRUE]]
  /\ Sent(b, Nth(cpu_idx, 1))
  /\ UNCHANGED <<clean_idx, tx_dma_idx, drv_xoff, link, faults>>

\* Segment k of a packet (0 is the head, in slot 0 of the first descriptor)
\* goes to slot k % 2 of descriptor k \div 2.
SegsOf(o, last) == {k \in 0 .. last : k \div 2 = o}

\* Fault: the head is flagged as a page too.
SgMapHead(o, last) == {k % 2 : k \in SegsOf(o, last)}

SgMap(o, last) == {k % 2 : k \in SegsOf(o, last) \ {0}}

SgDesc(o, last) ==
  [sdl |-> {k % 2 : k \in SegsOf(o, last)}, ls |-> last \div 2 = o]
SgKind(k) == IF k = 0 THEN "single" ELSE "page"
SgMapped(last) == {<<Nth(cpu_idx, k \div 2), k % 2, SgKind(k)>> : k \in 0 .. last}

\* Fault: the skb hangs off the first descriptor.
SgSkbFirst(s, i, n) == IF i = cpu_idx THEN s ELSE NoSkb

\* Completion frees the skb from the last descriptor only.
SgSkb(s, i, n) == IF i = Nth(cpu_idx, Needed(n) - 1) THEN s ELSE NoSkb

\* The descriptors of a packet with n fragments.
SgIdx(n) == Window(cpu_idx, Nth(cpu_idx, Needed(n)))

\* shinfo and nr_frags are read on entry. Software VLAN insertion and padding
\* may then give the skb another head, or linearise it: the fragments that are
\* mapped afterwards are read from memory the skb no longer has.
FragFaults == {faults, faults \cup {"stale frags"}}

xmit_sg(s, n, b) ==
  /\ StackSends(b) /\ Fresh(s) /\ HasRoom(n)
  /\ mapped' = mapped \cup SgMapped(n)
  /\ map' = [i \in Idx |-> IF i \in SgIdx(n) THEN SgMap(Dist(cpu_idx, i), n) ELSE map[i]]
  /\ skb' = [i \in Idx |-> IF i \in SgIdx(n) THEN SgSkb(s, i, n) ELSE skb[i]]
  /\ desc' = [i \in Idx |-> IF i \in SgIdx(n) THEN SgDesc(Dist(cpu_idx, i), n) ELSE desc[i]]
  /\ Sent(b, Nth(cpu_idx, Needed(n)))
  /\ faults' \in FragFaults
  /\ UNCHANGED <<clean_idx, tx_dma_idx, drv_xoff, link>>

\* The packet is dropped before anything was mapped: padding fails (which
\* frees the skb), or the mapping of a linear packet does.
xmit_drop(b) ==
  /\ StackSends(b) /\ HasRoom(0)
  /\ burst' = b
  /\ UNCHANGED <<ring, drv_xoff, bql, link, faults>>

\* Software VLAN insertion fails: __vlan_hwaccel_push_inside has freed the skb
\* and err_drop frees it again.
xmit_drop_push_failed(b) ==
  /\ StackSends(b) /\ HasRoom(0)
  /\ faults' = faults \cup {"double free"}
  /\ burst' = b
  /\ UNCHANGED <<ring, drv_xoff, bql, link>>

\* Mapping the head of a scatter-gather packet fails.
xmit_sg_head_fails(n, b) ==
  /\ StackSends(b) /\ HasRoom(n)
  /\ map' = [i \in Idx |-> IF i \in SgIdx(n) THEN {} ELSE map[i]]
  /\ skb' = [i \in Idx |-> IF i \in SgIdx(n) THEN NoSkb ELSE skb[i]]
  /\ burst' = b
  /\ UNCHANGED <<cpu_idx, clean_idx, tx_cpu_idx, tx_dma_idx, desc, mapped,
                 drv_xoff, bql, link, faults>>

\* Fault: the unwind stops at the descriptor that failed.
UnwindShort(n, f) == {i \in SgIdx(n) : Dist(cpu_idx, i) < f \div 2}

\* The descriptors ralink_fe_tx_unwind_sg goes over.
Unwind(n, f) == SgIdx(n)

\* Mapping fragment f (1 .. n) fails: the segments mapped so far are unmapped
\* from lengths reconstructed per descriptor, and the descriptors freed.
xmit_unwind_sg(n, f, b) ==
  /\ StackSends(b) /\ HasRoom(n)
  /\ LET live == mapped \cup SgMapped(f - 1)
         names == UNION {Unmaps(i, SgDesc(Dist(cpu_idx, i), f - 1),
                                   SgMap(Dist(cpu_idx, i), f - 1)) : i \in Unwind(n, f)}
     IN  /\ mapped' = live \ names
         /\ \E fs \in FragFaults : faults' = fs \cup Fault("unwind unmap", names, live)
  /\ map' = [i \in Idx |-> IF i \in SgIdx(n) THEN {} ELSE map[i]]
  /\ skb' = [i \in Idx |-> IF i \in SgIdx(n) THEN NoSkb ELSE skb[i]]
  /\ desc' = [i \in Idx |-> IF i \in SgIdx(n) THEN Free ELSE desc[i]]
  /\ burst' = b
  /\ UNCHANGED <<cpu_idx, clean_idx, tx_cpu_idx, tx_dma_idx, drv_xoff, bql, link>>

-----------------------------------------------------------------------------
(* The PDMA engine (external) and the TX poll.                             *)

\* The engine has sent the descriptor at its position and moves on.
HwSend ==
  /\ link # "down"
  /\ tx_dma_idx # tx_cpu_idx
  /\ tx_dma_idx' = Nth(tx_dma_idx, 1)
  /\ UNCHANGED <<cpu_idx, clean_idx, tx_cpu_idx, skb, desc, map, mapped,
                 drv_xoff, bql, burst, link, faults>>

\* Fault: the poll reads the doorbell instead of the engine's position.
dtx_doorbell == tx_cpu_idx

\* The engine's position as the poll reads it.
dtx == tx_dma_idx

\* The packets completed by cleaning the first m descriptors.
Completed(m) ==
  {i \in Window(clean_idx, Nth(clean_idx, m)) : desc[i].ls /\ skb[i] # NoSkb}

\* Fault: the wake threshold is the whole ring.
WakesNever(avail) == avail >= N

Wakes(avail) == avail >= Wake

\* Fault: a batch is reported as one packet.
tx_completed_queue_once(pkts) == bql' = IF pkts = 0 THEN bql ELSE bql - 1

tx_completed_queue(pkts) == bql' = bql - pkts

\* ralink_fe_tx_clean_q: the loop stops at the engine's position, read once,
\* or with the packet that exhausts the budget. Lengths stay in info2.
tx_clean_q(budget) ==
  /\ link # "down" /\ burst = 0
  /\ \E m \in 0 .. Dist(clean_idx, dtx) :
       LET pkts == Cardinality(Completed(m))
           gone == Window(clean_idx, Nth(clean_idx, m))
           names == UNION {Unmaps(i, desc[i], map[i]) : i \in gone}
           clean == Nth(clean_idx, m)
       IN  /\ m = Dist(clean_idx, dtx) \/ pkts = budget
           /\ \A l \in 0 .. m - 1 : Cardinality(Completed(l)) < budget
           /\ mapped' = mapped \ names
           /\ faults' = faults \cup Fault("clean unmap", names, mapped)
           /\ map' = [i \in Idx |-> IF i \in gone THEN {} ELSE map[i]]
           /\ skb' = [i \in Idx |-> IF i \in Completed(m) THEN NoSkb ELSE skb[i]]
           /\ clean_idx' = clean
           /\ tx_completed_queue(pkts)
           /\ drv_xoff' = (drv_xoff /\ ~ Wakes(Avail(clean, cpu_idx)))
  /\ UNCHANGED <<cpu_idx, tx_cpu_idx, tx_dma_idx, desc, burst, link>>

-----------------------------------------------------------------------------
(* ndo_open and ndo_stop.                                                  *)

\* ralink_fe_program_rings and netif_tx_start_all_queues. Starting a queue
\* does not reset its byte queue limit.
open ==
  /\ link = "down"
  /\ cpu_idx' = 0 /\ clean_idx' = 0 /\ tx_cpu_idx' = 0 /\ tx_dma_idx' = 0
  /\ skb' = [i \in Idx |-> NoSkb]
  /\ desc' = [i \in Idx |-> Free]
  /\ map' = [i \in Idx |-> {}]
  /\ drv_xoff' = FALSE
  /\ link' = "up"
  /\ UNCHANGED <<mapped, bql, burst, faults>>

\* The stack has deactivated the queue; netif_tx_disable. The poll and the
\* engine still run.
stop ==
  /\ link = "up" /\ burst = 0
  /\ bql <= BqlCap
  /\ drv_xoff' = TRUE
  /\ link' = "stopping"
  /\ UNCHANGED <<ring, bql, burst, faults>>

\* After napi_disable and dma_disable: ralink_fe_tx_ring_reset goes over every
\* descriptor, whether in use or completed.
tx_ring_reset ==
  /\ link = "stopping"
  /\ LET names == UNION {Unmaps(i, desc[i], map[i]) : i \in Idx}
     IN  /\ mapped' = mapped \ names
         /\ faults' = faults \cup Fault("reset unmap", names, mapped)
  /\ skb' = [i \in Idx |-> NoSkb]
  /\ map' = [i \in Idx |-> {}]
  /\ desc' = [i \in Idx |-> Free]
  /\ cpu_idx' = 0 /\ clean_idx' = 0 /\ tx_cpu_idx' = 0
  /\ link' = "down"
  /\ UNCHANGED <<tx_dma_idx, drv_xoff, bql, burst>>

-----------------------------------------------------------------------------
start_xmit ==
  \E b \in 0 .. MaxBurst - 1 :
    \/ \E s \in Skbs :
         xmit_linear(s, b) \/ (\E n \in 1 .. MaxFrags : xmit_sg(s, n, b))
    \/ xmit_drop(b) \/ xmit_drop_push_failed(b)
    \/ \E n \in 0 .. MaxFrags : xmit_busy(n, b)
    \/ \E n \in 1 .. MaxFrags :
         xmit_sg_head_fails(n, b) \/ (\E f \in 1 .. n : xmit_unwind_sg(n, f, b))

tx_poll == \E budget \in 1 .. Quantum : tx_clean_q(budget)

Next == start_xmit \/ HwSend \/ tx_poll \/ open \/ stop \/ tx_ring_reset

Spec == Init /\ [][Next]_vars

\* Fairness: a burst that has begun goes on, the engine sends what the
\* doorbell shows it, and ndo_stop runs to its end. A completion raises the
\* interrupt that schedules the poll (module IrqNapi), which runs when bottom
\* halves are enabled after a burst: strong fairness, as bursts may follow
\* each other for ever. Without a completion nothing makes the poll look at
\* this queue, and there is no ndo_tx_timeout.
Fairness ==
  /\ WF_vars(burst > 0 /\ start_xmit)
  /\ WF_vars(HwSend) /\ WF_vars(tx_ring_reset)
  /\ SF_vars(clean_idx # tx_dma_idx /\ tx_poll)

FairSpec == Spec /\ Fairness

-----------------------------------------------------------------------------
(* Properties.                                                             *)

\* The ring is never completely full, so cpu_idx = clean_idx always means
\* empty and the unsigned subtraction in the room check never wraps, although
\* the check, the fill and the cleaning see the indices at different times.
Occupancy == Dist(clean_idx, cpu_idx) <= N - Reserve

\* Cleaned, sent, shown to the engine, filled: the four indices keep this
\* order around the ring, so the poll never cleans what the engine has not
\* sent and the engine never reads what was not filled.
IndexOrder ==
  link # "down" =>
    /\ Dist(clean_idx, tx_dma_idx) <= Dist(clean_idx, tx_cpu_idx)
    /\ Dist(clean_idx, tx_cpu_idx) <= Dist(clean_idx, cpu_idx)

\* The inductive form of the two: no run of bursts, refusals and cleanings lets
\* the masked room check of ndo_start_xmit fill the ring into its reserve, and
\* cleaned, sent, shown and filled positions keep their order.
IndexInv ==
  /\ cpu_idx \in Idx /\ clean_idx \in Idx /\ tx_cpu_idx \in Idx /\ tx_dma_idx \in Idx
  /\ Occupancy
  /\ IndexOrder

\* The live DMA mappings are exactly those of the descriptors in use, each with
\* the kind (single or page) its map flags will unmap it with: none leaks when
\* a fragment fails to map, a packet completes or the ring is reset, and what
\* the doorbell shows the engine is mapped. (That the engine has stopped before
\* the reset is assumed here; Lifecycle has the dma_disable that times out.)
MappedExactly ==
  mapped = IF link = "down" THEN {}
           ELSE UNION {Unmaps(i, desc[i], map[i]) : i \in Window(clean_idx, cpu_idx)}

\* Every descriptor in use is followed, before cpu_idx, by the last descriptor
\* of its packet, which holds the skb; no skb is in the ring twice or outside
\* the part in use; the doorbell never shows the engine half a packet.
PacketsWhole ==
  LET used == Window(clean_idx, cpu_idx)
      Last(i) == desc[i].ls /\ skb[i] # NoSkb
  IN  /\ \A i \in used : \E j \in used : Dist(clean_idx, i) <= Dist(clean_idx, j) /\ Last(j)
      /\ \A i \in Idx : skb[i] # NoSkb => i \in used /\ desc[i].ls
      /\ \A i, j \in Idx : skb[i] # NoSkb /\ skb[i] = skb[j] => i = j
      /\ tx_cpu_idx # clean_idx /\ link # "down" => Last(Nth(tx_cpu_idx, N - 1))

\* Transmission and completion release only what is mapped, with the kind it
\* was mapped with. The exceptions are the second unmap of completed
\* descriptors by the ring reset, the second free of an skb whose software
\* VLAN insertion failed, and fragments read from a replaced skb head.
OnlyKnownFaults == faults \subseteq {"reset unmap", "double free", "stale frags"}

\* While the byte queue limit holds the stack back, the doorbell hides no
\* packet from the engine, so the completions that lift the limit will come.
ThrottledIsVisible == bql > BqlLimit => tx_cpu_idx = cpu_idx

InRing == {skb[i] : i \in Idx} \ {NoSkb}
BqlDrift == bql - Cardinality(InRing)

\* What the byte queue limit counts and what is in the ring drift apart in
\* ralink_fe_tx_ring_reset only: it frees packets that are never reported as
\* completed, also not by the next open.
BqlDriftsAtResetOnly ==
  [][IF link = "stopping" /\ link' = "down" THEN BqlDrift' >= BqlDrift
                                             ELSE BqlDrift' = BqlDrift]_vars

\* ralink_fe_tx_unmap_desc releases only live mappings, also from the ring
\* reset.
NoStaleUnmap == faults \cap {"reset unmap", "unwind unmap", "clean unmap"} = {}

\* A burst ended without the doorbell: its last packets were refused or
\* dropped. The packets from the doorbell on wait for the next transmission,
\* which neither the stopped queue nor the byte queue limit holds back.
Hidden(s) ==
  /\ link = "up" /\ burst = 0 /\ ~ drv_xoff /\ ~ StackXoff
  /\ \E i \in Window(tx_cpu_idx, cpu_idx) : skb[i] = s

\* What the refusal of a burst's packet can end in: everything in the ring is
\* behind the doorbell and leaves less room than wakes the queue. The engine
\* has nothing to send, so no completion will ever start the queue again.
Stranded ==
  /\ link = "up" /\ burst = 0 /\ drv_xoff
  /\ clean_idx = tx_cpu_idx /\ tx_cpu_idx # cpu_idx
  /\ Avail(clean_idx, cpu_idx) < Wake

\* Neither the engine, the poll, whatever schedules it, nor the stack gets a
\* stranded queue going again: it stays stranded until ndo_stop.
StrandedForGood == [][Stranded => Stranded' \/ link' = "stopping"]_vars

\* Every accepted packet is completed or, when the interface goes down, freed.
\* The exceptions are a packet hidden by the end of its burst, if the stack,
\* which is free to send, sends nothing more, and a stranded queue.
AcceptedCompletes ==
  \A s \in Skbs : (s \in InRing) ~> (s \notin InRing \/ Hidden(s) \/ Stranded)

\* A queue stopped for lack of room is woken, also when part of a burst is
\* hidden from the engine and when the last poll cleaned less than its budget.
\* The one way to stop for good is a burst that fills the ring, up to less than
\* the wake threshold, before its doorbell: the extent of a defect of the code.
StoppedWakes == (link = "up" /\ drv_xoff) ~> (~ drv_xoff \/ link # "up" \/ Stranded)

-----------------------------------------------------------------------------
(* What the ring implements.                                               *)

PacketsIn(w) == {skb[i] : i \in w} \ {NoSkb}

\* Pairs of packets in the ring, the first one nearer to the cleaning position.
Ahead ==
  {pair \in InRing \X InRing :
     \E i, j \in Idx : /\ skb[i] = pair[1] /\ skb[j] = pair[2]
                       /\ Dist(clean_idx, i) < Dist(clean_idx, j)}

Queue == INSTANCE TxQueue WITH
  Packets <- Skbs, held <- InRing, before <- Ahead,
  shown <- PacketsIn(Window(clean_idx, tx_cpu_idx)),
  sent <- PacketsIn(Window(clean_idx, tx_dma_idx))

\* Every step of the ring is a step of TxQueue or changes nothing there: the
\* poll frees only what the engine has sent, each packet once and in the order
\* of transmission, the doorbell shows packets in that order, and only ndo_stop
\* takes what was not sent.
RefinesTxQueue == Queue!QSpec
=============================================================================
