------------------------------- MODULE RxRing -------------------------------
(***************************************************************************)
(* One RX queue of the frame engine (ralink_fe.c): the ring the PDMA       *)
(* engine fills and the RX poll drains, the page pool behind it, every way *)
(* a received frame can go (delivered, consumed by the packet processing   *)
(* engine's reports, dropped for lack of a page or of an skb), and the     *)
(* refill and release of the ring by ndo_open and ndo_stop.                *)
(***************************************************************************)
EXTENDS Naturals

CONSTANTS N,        \* RALINK_FE_RX_RING_SIZE
          Budget,   \* the NAPI weight
          Pages, NoPage

ASSUME RingAssumption == N \in Nat /\ N > 1
ASSUME PollAssumption == Budget \in Nat \ {0}
ASSUME PageAssumption == NoPage \notin Pages

VARIABLES
  cpu_idx,     \* ring->cpu_idx, the last descriptor the CPU has re-armed
  rx_cpu_idx,  \* the doorbell register
  rx_dma_idx,  \* the engine's position
  done,        \* RX2_DMA_DONE per descriptor
  info1,       \* the page each descriptor points the engine to
  buf,         \* ring->buf: the page the driver thinks is there
  owner,       \* per page: "pool", "ring" or "stack"
  poll,        \* packets taken by the running poll, or Idle
  link         \* "down", "refill" with the next descriptor to fill, or "up"

vars == <<cpu_idx, rx_cpu_idx, rx_dma_idx, done, info1, buf, owner, poll, link>>

Idx == 0 .. N - 1
Idle == Budget + 1

TypeOK ==
  /\ cpu_idx \in Idx /\ rx_cpu_idx \in Idx /\ rx_dma_idx \in Idx
  /\ done \in [Idx -> BOOLEAN]
  /\ info1 \in [Idx -> Pages \cup {NoPage}]
  /\ buf \in [Idx -> Pages \cup {NoPage}]
  /\ owner \in [Pages -> {"pool", "ring", "stack"}]
  /\ poll \in 0 .. Idle
  /\ link \in [st : {"down", "refill", "up"}, i : 0 .. N]

Down == [st |-> "down", i |-> 0]
Up == [st |-> "up", i |-> 0]

Init ==
  /\ cpu_idx = 0 /\ rx_cpu_idx = 0 /\ rx_dma_idx = 0
  /\ done = [i \in Idx |-> FALSE]
  /\ info1 = [i \in Idx |-> NoPage]
  /\ buf = [i \in Idx |-> NoPage]
  /\ owner = [p \in Pages |-> "pool"]
  /\ poll = Idle
  /\ link = Down

Nth(a, k) == (a + k) % N
Dist(a, b) == (b + N - a) % N

-----------------------------------------------------------------------------
(* ndo_open: ralink_fe_rx_ring_refill and ralink_fe_program_rings.         *)

indices == <<cpu_idx, rx_cpu_idx, rx_dma_idx>>

open ==
  /\ link = Down
  /\ link' = [st |-> "refill", i |-> 0]
  /\ UNCHANGED <<indices, done, info1, buf, owner, poll>>

RefillGoesOn == link.i < N

\* One iteration of the refill loop.
refill(p) ==
  /\ link.st = "refill" /\ RefillGoesOn
  /\ owner[p] = "pool"
  /\ owner' = [owner EXCEPT ![p] = "ring"]
  /\ buf' = [buf EXCEPT ![link.i] = p]
  /\ info1' = [info1 EXCEPT ![link.i] = p]
  /\ done' = [done EXCEPT ![link.i] = FALSE]
  /\ link' = [link EXCEPT !.i = @ + 1]
  /\ UNCHANGED <<indices, poll>>

\* The ring is full: reset the engine's position, write the doorbell, go.
program_rings ==
  /\ link = [st |-> "refill", i |-> N]
  /\ cpu_idx' = N - 1 /\ rx_cpu_idx' = N - 1 /\ rx_dma_idx' = 0
  /\ link' = Up
  /\ UNCHANGED <<done, info1, buf, owner, poll>>

\* Fault: only the pages of received frames are put back.
ReleasedDone == {p \in Pages : \E i \in Idx : buf[i] = p /\ done[i]}

\* The pages ralink_fe_rx_release_ring puts back.
Released == {p \in Pages : \E i \in Idx : buf[i] = p}

rx_release_ring ==
  /\ owner' = [p \in Pages |-> IF p \in Released THEN "pool" ELSE owner[p]]
  /\ buf' = [i \in Idx |-> NoPage]
  /\ cpu_idx' = 0
  /\ link' = Down

\* A later step of ndo_open fails (no page, no metadata, no PPE): release.
open_fails ==
  /\ link.st = "refill"
  /\ rx_release_ring
  /\ UNCHANGED <<rx_cpu_idx, rx_dma_idx, done, info1, poll>>

\* ndo_stop, after napi_disable and ralink_fe_dma_disable.
stop ==
  /\ link = Up /\ poll = Idle
  /\ rx_release_ring
  /\ UNCHANGED <<rx_cpu_idx, rx_dma_idx, done, info1, poll>>

-----------------------------------------------------------------------------
(* The engine and the stack (external).                                    *)

\* The engine stores a frame while its position is not the doorbell's.
HwReceive ==
  /\ link = Up /\ rx_dma_idx # rx_cpu_idx
  /\ done' = [done EXCEPT ![rx_dma_idx] = TRUE]
  /\ rx_dma_idx' = Nth(rx_dma_idx, 1)
  /\ UNCHANGED <<cpu_idx, rx_cpu_idx, info1, buf, owner, poll, link>>

\* The stack frees an skb: its page is recycled.
StackFrees(p) ==
  /\ owner[p] = "stack"
  /\ owner' = [owner EXCEPT ![p] = "pool"]
  /\ UNCHANGED <<indices, done, info1, buf, poll, link>>

-----------------------------------------------------------------------------
(* The RX poll.                                                            *)

poll_begin ==
  /\ link = Up /\ poll = Idle
  /\ poll' = 0
  /\ UNCHANGED <<indices, done, info1, buf, owner, link>>

\* The descriptor after the last one re-armed.
NextIdx == Nth(cpu_idx, 1)

\* Fault: the descriptor is handed over at once.
rearm_rings(p) ==
  /\ buf' = [buf EXCEPT ![NextIdx] = p]
  /\ info1' = [info1 EXCEPT ![NextIdx] = p]
  /\ done' = [done EXCEPT ![NextIdx] = FALSE]
  /\ cpu_idx' = NextIdx
  /\ rx_cpu_idx' = Nth(NextIdx, 1)
  /\ poll' = poll + 1

\* Fault: the descriptor keeps pointing to the page that was delivered.
rearm_stale(p) ==
  /\ buf' = [buf EXCEPT ![NextIdx] = p]
  /\ done' = [done EXCEPT ![NextIdx] = FALSE]
  /\ cpu_idx' = NextIdx
  /\ poll' = poll + 1
  /\ UNCHANGED <<info1, rx_cpu_idx>>

\* Fault: the DONE bit is left set.
rearm_keeps_done(p) ==
  /\ buf' = [buf EXCEPT ![NextIdx] = p]
  /\ info1' = [info1 EXCEPT ![NextIdx] = p]
  /\ cpu_idx' = NextIdx
  /\ poll' = poll + 1
  /\ UNCHANGED <<done, rx_cpu_idx>>

\* rx_rearm: the descriptor gets page p and its DONE bit is cleared.
rearm(p) ==
  /\ buf' = [buf EXCEPT ![NextIdx] = p]
  /\ info1' = [info1 EXCEPT ![NextIdx] = p]
  /\ done' = [done EXCEPT ![NextIdx] = FALSE]
  /\ cpu_idx' = NextIdx
  /\ poll' = poll + 1
  /\ UNCHANGED rx_cpu_idx

\* ralink_fe_rx_consume_one finds a frame.
Frame == poll < Budget /\ done[NextIdx]

\* No page for the ring: the frame is dropped, its page re-armed. The
\* allocation may fail with pages left in the pool.
rx_drop_no_page ==
  /\ Frame
  /\ rearm(buf[NextIdx])
  /\ UNCHANGED <<rx_dma_idx, owner, link>>

\* A new page goes into the ring, the frame's page back to the pool.
recycle(p) ==
  /\ Frame /\ owner[p] = "pool"
  /\ owner' = [owner EXCEPT ![p] = "ring", ![buf[NextIdx]] = "pool"]
  /\ rearm(p)
  /\ UNCHANGED <<rx_dma_idx, link>>

\* No skb: the page is put back directly.
rx_drop_no_skb(p) == recycle(p)

\* A report of the packet processing engine (unbind rate reached and promoted,
\* or keepalive): the skb is freed and its page recycled.
rx_ppe_report(p) == recycle(p)

\* napi_gro_receive: the frame's page now belongs to the stack.
rx_deliver(p) ==
  /\ Frame /\ owner[p] = "pool"
  /\ owner' = [owner EXCEPT ![p] = "ring", ![buf[NextIdx]] = "stack"]
  /\ rearm(p)
  /\ UNCHANGED <<rx_dma_idx, link>>

\* Fault: the doorbell is written only when the budget is used up.
DoorbellFull == IF poll = Budget THEN cpu_idx ELSE rx_cpu_idx

\* The doorbell after a poll that took something.
Doorbell == IF poll > 0 THEN cpu_idx ELSE rx_cpu_idx

poll_end ==
  /\ poll # Idle
  /\ poll = Budget \/ ~ done[NextIdx]
  /\ rx_cpu_idx' = Doorbell
  /\ poll' = Idle
  /\ UNCHANGED <<cpu_idx, rx_dma_idx, done, info1, buf, owner, link>>

-----------------------------------------------------------------------------
Consume ==
  rx_drop_no_page \/ (\E p \in Pages : rx_drop_no_skb(p) \/ rx_ppe_report(p) \/ rx_deliver(p))

Next ==
  \/ open \/ program_rings \/ open_fails \/ stop
  \/ \E p \in Pages : refill(p) \/ StackFrees(p)
  \/ HwReceive \/ poll_begin \/ Consume \/ poll_end

Spec == Init /\ [][Next]_vars

\* Fairness: a frame leads to a poll that runs to its end (module IrqNapi).
\* Nothing is assumed of traffic.
Fairness ==
  /\ WF_vars(poll_begin) /\ WF_vars(Consume) /\ WF_vars(poll_end)

FairSpec == Spec /\ Fairness

-----------------------------------------------------------------------------
(* Properties.                                                             *)

\* The received frames are exactly the descriptors between the CPU's and the
\* engine's position: the poll finds them all, in order and once, and the
\* engine never overwrites a frame that was not taken.
FramesInOrder ==
  link = Up =>
    \A i \in Idx : done[i] <=> Dist(Nth(cpu_idx, 1), i) < Dist(Nth(cpu_idx, 1), rx_dma_idx)

\* The engine writes only into pages of this ring: never into one the stack or
\* the pool has, never into one that is in the ring twice, whatever failed
\* while the descriptor was re-armed.
WritesStayInRing ==
  link = Up =>
    \A i \in Idx :
      /\ info1[i] = buf[i] /\ buf[i] # NoPage
      /\ owner[buf[i]] = "ring"
      /\ \A j \in Idx : buf[i] = buf[j] => i = j

\* No page is lost: a page the ring is charged for is in the ring, in open and
\* its error path, in operation and after stop.
NoPageLost ==
  \A p \in Pages : owner[p] = "ring" <=> \E i \in Idx : buf[i] = p

\* Every frame is taken out of the ring, also when every allocation fails.
FramesTaken ==
  \A i \in Idx : (link = Up /\ done[i]) ~> (link # Up \/ ~ done[i])

\* When the engine has run out of descriptors it gets some back.
RingNeverStalls ==
  (link = Up /\ rx_dma_idx = rx_cpu_idx) ~> (link # Up \/ rx_dma_idx # rx_cpu_idx)
=============================================================================
