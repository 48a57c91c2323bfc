---------------------------- MODULE TxRingProofs ----------------------------
(***************************************************************************)
(* The TX ring, for every ring size, reserve, wake threshold, fragment     *)
(* count, burst length and byte queue limit: its index arithmetic, its DMA *)
(* mappings, its packets, what the byte queue limit counts of them, and    *)
(* what it implements (TxQueue).                                           *)
(***************************************************************************)
EXTENDS TxRing, FiniteSetTheorems, TLAPS

\* The remainder within one ring length of zero.
LEMMA ModCases ==
  ASSUME NEW x \in Int
  PROVE  /\ 0 <= x /\ x < N => x % N = x
         /\ -N <= x /\ x < 0 => x % N = x + N
BY RingAssumption

\* Distances are bounded by the ring.
LEMMA DistType ==
  ASSUME NEW a \in Idx, NEW b \in Idx
  PROVE  Dist(a, b) \in 0 .. N - 1
BY RingAssumption DEF Dist, Idx

\* Dist is the forward distance, whichever index is the larger one.
LEMMA DistCases ==
  ASSUME NEW a \in Idx, NEW b \in Idx
  PROVE  /\ a <= b => Dist(a, b) = b - a
         /\ b < a => Dist(a, b) = b - a + N
BY RingAssumption DEF Dist, Idx

\* Masking an index that was advanced by less than the ring.
LEMMA NthCases ==
  ASSUME NEW a \in Idx, NEW k \in 0 .. N
  PROVE  /\ a + k < N => Nth(a, k) = a + k
         /\ a + k >= N => Nth(a, k) = a + k - N
         /\ Nth(a, k) \in Idx
BY RingAssumption DEF Nth, Idx

\* Advancing the start of a window shortens it.
LEMMA DistAdvance ==
  ASSUME NEW a \in Idx, NEW b \in Idx, NEW m \in 0 .. Dist(a, b)
  PROVE  /\ Nth(a, m) \in Idx
         /\ Dist(Nth(a, m), b) = Dist(a, b) - m
<1>1. Dist(a, b) \in 0 .. N - 1 /\ m \in 0 .. N
  BY DistType, RingAssumption
<1>2. Nth(a, m) \in Idx
  BY <1>1, NthCases
<1>3. Dist(Nth(a, m), b) = Dist(a, b) - m
  <2>1. /\ a + m < N => Nth(a, m) = a + m
        /\ a + m >= N => Nth(a, m) = a + m - N
    BY <1>1, NthCases
  <2>2. /\ a <= b => Dist(a, b) = b - a
        /\ b < a => Dist(a, b) = b - a + N
    BY DistCases
  <2>3. /\ Nth(a, m) <= b => Dist(Nth(a, m), b) = b - Nth(a, m)
        /\ b < Nth(a, m) => Dist(Nth(a, m), b) = b - Nth(a, m) + N
    BY <1>2, DistCases
  <2> QED
    BY <1>1, <1>2, <2>1, <2>2, <2>3, RingAssumption DEF Idx
<1> QED
  BY <1>2, <1>3

\* Advancing the end of a window that stays shorter than the ring lengthens it.
LEMMA DistAppend ==
  ASSUME NEW a \in Idx, NEW b \in Idx, NEW k \in 0 .. N, Dist(a, b) + k < N
  PROVE  /\ Nth(b, k) \in Idx
         /\ Dist(a, Nth(b, k)) = Dist(a, b) + k
<1>1. Nth(b, k) \in Idx
  BY NthCases
<1>2. Dist(a, Nth(b, k)) = Dist(a, b) + k
  <2>1. /\ b + k < N => Nth(b, k) = b + k
        /\ b + k >= N => Nth(b, k) = b + k - N
    BY NthCases
  <2>2. /\ a <= b => Dist(a, b) = b - a
        /\ b < a => Dist(a, b) = b - a + N
    BY DistCases
  <2>3. /\ a <= Nth(b, k) => Dist(a, Nth(b, k)) = Nth(b, k) - a
        /\ Nth(b, k) < a => Dist(a, Nth(b, k)) = Nth(b, k) - a + N
    BY <1>1, DistCases
  <2> QED
    BY <1>1, <2>1, <2>2, <2>3, RingAssumption DEF Idx
<1> QED
  BY <1>1, <1>2

\* The room the driver computes is the real one: nothing wraps.
LEMMA AvailIsRoom ==
  ASSUME NEW clean \in Idx, NEW cpu \in Idx, Dist(clean, cpu) <= N - Reserve
  PROVE  Avail(clean, cpu) = N - Reserve - Dist(clean, cpu)
<1> DEFINE x == clean - cpu - Reserve
<1>1. x \in Int /\ Avail(clean, cpu) = x % N
  BY RingAssumption DEF Avail, Idx
<1>2. /\ clean <= cpu => Dist(clean, cpu) = cpu - clean
      /\ cpu < clean => Dist(clean, cpu) = cpu - clean + N
  BY DistCases
<1>3. CASE clean <= cpu
  <2>1. -N <= x /\ x < 0
    BY <1>2, <1>3, RingAssumption DEF Idx
  <2>2. x % N = x + N
    BY <1>1, <2>1, ModCases
  <2> QED
    BY <1>1, <1>2, <1>3, <2>2, RingAssumption DEF Idx
<1>4. CASE cpu < clean
  <2>1. 0 <= x /\ x < N
    BY <1>2, <1>4, RingAssumption DEF Idx
  <2>2. x % N = x
    BY <1>1, <2>1, ModCases
  <2> QED
    BY <1>1, <1>2, <1>4, <2>2, RingAssumption DEF Idx
<1> QED
  BY <1>3, <1>4 DEF Idx

\* A packet uses at least one descriptor.
LEMMA NeededPositive ==
  ASSUME NEW n \in Nat
  PROVE  Needed(n) \in Nat \ {0}
BY DEF Needed

\* Accepting a packet that the room check let through keeps the order.
LEMMA SentKeeps ==
  ASSUME IndexInv, NEW n \in Nat, NEW b \in Nat, HasRoom(n), link # "down",
         Sent(b, Nth(cpu_idx, Needed(n))),
         UNCHANGED <<clean_idx, tx_dma_idx, link>>
  PROVE  IndexInv'
<1> DEFINE new == Nth(cpu_idx, Needed(n))
           used == Dist(clean_idx, cpu_idx)
<1>1. used \in 0 .. N - Reserve
  BY DistType, RingAssumption DEF IndexInv, Occupancy
<1>2. Needed(n) \in 1 .. N /\ used + Needed(n) <= N - Reserve
  BY <1>1, NeededPositive, AvailIsRoom, RingAssumption DEF IndexInv, HasRoom
<1>3. new \in Idx /\ Dist(clean_idx, new) = used + Needed(n)
  <2>1. used + Needed(n) < N
    BY <1>1, <1>2, RingAssumption
  <2> QED
    BY <2>1, <1>1, <1>2, DistAppend DEF IndexInv
<1>4. cpu_idx' = new /\ tx_cpu_idx' \in {new, tx_cpu_idx}
  BY DEF Sent
<1>5. /\ cpu_idx' \in Idx /\ clean_idx' \in Idx /\ tx_cpu_idx' \in Idx /\ tx_dma_idx' \in Idx
      /\ clean_idx' = clean_idx /\ tx_dma_idx' = tx_dma_idx
  BY <1>3, <1>4 DEF IndexInv
<1>6. Occupancy'
  BY <1>2, <1>3, <1>4, <1>5 DEF Occupancy, Dist
<1>7. IndexOrder'
  <2>1. Dist(clean_idx, tx_dma_idx) <= Dist(clean_idx, tx_cpu_idx)
        /\ Dist(clean_idx, tx_cpu_idx) <= used
    BY DEF IndexInv, IndexOrder
  <2>2. Dist(clean_idx, tx_dma_idx) \in Nat /\ Dist(clean_idx, tx_cpu_idx) \in Nat
    BY DistType DEF IndexInv
  <2>3. CASE tx_cpu_idx' = new
    BY <2>1, <2>2, <2>3, <1>1, <1>2, <1>3, <1>4, <1>5, RingAssumption DEF IndexOrder, Dist
  <2>4. CASE tx_cpu_idx' = tx_cpu_idx
    BY <2>1, <2>2, <2>4, <1>1, <1>2, <1>3, <1>4, <1>5, RingAssumption DEF IndexOrder, Dist
  <2> QED
    BY <2>3, <2>4, <1>4
<1> QED
  BY <1>5, <1>6, <1>7 DEF IndexInv

\* Steps that move no index, and do not take the link up.
LEMMA IndicesUnchanged ==
  ASSUME IndexInv, link # "down" \/ link' = "down",
         UNCHANGED <<cpu_idx, clean_idx, tx_cpu_idx, tx_dma_idx>>
  PROVE  IndexInv'
BY DEF IndexInv, Occupancy, IndexOrder, Dist, Idx

\* The engine's step: it advances within what the doorbell shows.
LEMMA HwSendKeeps ==
  ASSUME IndexInv, HwSend
  PROVE  IndexInv'
<1>1. /\ cpu_idx \in Idx /\ clean_idx \in Idx /\ tx_cpu_idx \in Idx /\ tx_dma_idx \in Idx
      /\ link # "down" /\ tx_dma_idx # tx_cpu_idx
      /\ tx_dma_idx' = Nth(tx_dma_idx, 1)
      /\ UNCHANGED <<cpu_idx, clean_idx, tx_cpu_idx, link>>
  BY DEF IndexInv, HwSend
<1>2. Dist(clean_idx, tx_dma_idx) < Dist(clean_idx, tx_cpu_idx)
  <2>1. Dist(clean_idx, tx_dma_idx) <= Dist(clean_idx, tx_cpu_idx)
    BY <1>1 DEF IndexInv, IndexOrder
  <2>2. /\ clean_idx <= tx_dma_idx => Dist(clean_idx, tx_dma_idx) = tx_dma_idx - clean_idx
        /\ tx_dma_idx < clean_idx => Dist(clean_idx, tx_dma_idx) = tx_dma_idx - clean_idx + N
        /\ clean_idx <= tx_cpu_idx => Dist(clean_idx, tx_cpu_idx) = tx_cpu_idx - clean_idx
        /\ tx_cpu_idx < clean_idx => Dist(clean_idx, tx_cpu_idx) = tx_cpu_idx - clean_idx + N
    BY <1>1, DistCases
  <2> QED
    BY <1>1, <2>1, <2>2, RingAssumption DEF Idx
<1>3. /\ Dist(clean_idx, tx_dma_idx) \in 0 .. N - 1
      /\ Dist(clean_idx, tx_cpu_idx) \in 0 .. N - 1
  BY <1>1, DistType
<1>4. tx_dma_idx' \in Idx /\ Dist(clean_idx, tx_dma_idx') = Dist(clean_idx, tx_dma_idx) + 1
  <2>1. 1 \in 0 .. N /\ Dist(clean_idx, tx_dma_idx) + 1 < N
    BY <1>2, <1>3, RingAssumption
  <2> QED
    BY <2>1, <1>1, DistAppend
<1>5. IndexOrder'
  BY <1>1, <1>2, <1>3, <1>4 DEF IndexInv, IndexOrder, Dist
<1>6. Occupancy'
  BY <1>1 DEF IndexInv, Occupancy, Dist
<1> QED
  BY <1>1, <1>4, <1>5, <1>6 DEF IndexInv, Idx

\* The poll: it cleans at most up to the engine's position.
LEMMA CleanKeeps ==
  ASSUME IndexInv, NEW budget \in Nat, tx_clean_q(budget)
  PROVE  IndexInv'
<1>1. /\ cpu_idx \in Idx /\ clean_idx \in Idx /\ tx_cpu_idx \in Idx /\ tx_dma_idx \in Idx
      /\ link # "down" /\ UNCHANGED <<cpu_idx, tx_cpu_idx, tx_dma_idx, link>>
  BY DEF IndexInv, tx_clean_q
<1>2. PICK m \in 0 .. Dist(clean_idx, tx_dma_idx) : clean_idx' = Nth(clean_idx, m)
  BY DEF tx_clean_q, dtx
<1>3. /\ Dist(clean_idx, tx_dma_idx) \in Nat /\ Dist(clean_idx, tx_cpu_idx) \in Nat
      /\ Dist(clean_idx, cpu_idx) \in Nat
  BY <1>1, DistType
<1>4. /\ m \in 0 .. Dist(clean_idx, tx_cpu_idx)
      /\ m \in 0 .. Dist(clean_idx, cpu_idx)
  BY <1>1, <1>2, <1>3 DEF IndexInv, IndexOrder
<1>5. /\ clean_idx' \in Idx
      /\ Dist(clean_idx', tx_dma_idx) = Dist(clean_idx, tx_dma_idx) - m
      /\ Dist(clean_idx', tx_cpu_idx) = Dist(clean_idx, tx_cpu_idx) - m
      /\ Dist(clean_idx', cpu_idx) = Dist(clean_idx, cpu_idx) - m
  BY <1>1, <1>2, <1>4, DistAdvance
<1>6. IndexOrder'
  BY <1>1, <1>2, <1>3, <1>4, <1>5 DEF IndexInv, IndexOrder, Dist
<1>7. Occupancy'
  BY <1>1, <1>2, <1>3, <1>5, RingAssumption DEF IndexInv, Occupancy, Dist
<1> QED
  BY <1>1, <1>5, <1>6, <1>7 DEF IndexInv, Idx

\* Indices start, and restart, at zero.
LEMMA ZeroIndices ==
  ASSUME cpu_idx = 0, clean_idx = 0, tx_cpu_idx = 0, tx_dma_idx \in Idx,
         link # "down" => tx_dma_idx = 0
  PROVE  IndexInv
BY RingAssumption DEF IndexInv, Occupancy, IndexOrder, Dist, Idx

LEMMA IndexReset ==
  ASSUME IndexInv, tx_ring_reset
  PROVE  IndexInv'
<1>1. /\ cpu_idx' = 0 /\ clean_idx' = 0 /\ tx_cpu_idx' = 0
      /\ tx_dma_idx' = tx_dma_idx /\ link' = "down"
  BY DEF tx_ring_reset
<1>2. 0 \in Idx /\ Dist(0, 0) = 0 /\ 0 <= N - Reserve
  BY RingAssumption DEF Idx, Dist
<1>3. Occupancy' /\ IndexOrder'
  BY <1>1, <1>2 DEF Occupancy, IndexOrder, Dist
<1> QED
  BY <1>1, <1>2, <1>3 DEF IndexInv, Idx

\* A step of start_xmit.
LEMMA XmitKeeps ==
  ASSUME IndexInv, start_xmit
  PROVE  IndexInv'
<1>1. PICK b \in 0 .. MaxBurst - 1 :
        \/ \E s \in Skbs :
             xmit_linear(s, b) \/ (\E n \in 1 .. MaxFrags : xmit_sg(s, n, b))
        \/ xmit_drop(b) \/ xmit_drop_push_failed(b)
        \/ \E n \in 0 .. MaxFrags : xmit_busy(n, b)
        \/ \E n \in 1 .. MaxFrags :
             xmit_sg_head_fails(n, b) \/ (\E f \in 1 .. n : xmit_unwind_sg(n, f, b))
  BY DEF start_xmit
<1>2. ASSUME NEW s \in Skbs, xmit_linear(s, b) PROVE IndexInv'
  <2>1. /\ Sent(b, Nth(cpu_idx, Needed(0))) /\ HasRoom(0) /\ link = "up"
        /\ UNCHANGED <<clean_idx, tx_dma_idx, link>>
    BY <1>2 DEF xmit_linear, Needed, StackSends
  <2> QED
    BY <2>1, SentKeeps, PacketAssumption
<1>3. ASSUME NEW s \in Skbs, NEW n \in 1 .. MaxFrags, xmit_sg(s, n, b) PROVE IndexInv'
  <2>1. /\ Sent(b, Nth(cpu_idx, Needed(n))) /\ HasRoom(n) /\ link = "up"
        /\ UNCHANGED <<clean_idx, tx_dma_idx, link>>
    BY <1>3 DEF xmit_sg, StackSends
  <2> QED
    BY <2>1, SentKeeps, PacketAssumption
<1>4. CASE xmit_drop(b) \/ xmit_drop_push_failed(b)
  BY <1>4, IndicesUnchanged DEF xmit_drop, xmit_drop_push_failed, StackSends, ring
<1>5. ASSUME NEW n \in 0 .. MaxFrags, xmit_busy(n, b) PROVE IndexInv'
  BY <1>5, IndicesUnchanged DEF xmit_busy, StackSends, ring
<1>6. ASSUME NEW n \in 1 .. MaxFrags, xmit_sg_head_fails(n, b) PROVE IndexInv'
  BY <1>6, IndicesUnchanged DEF xmit_sg_head_fails, StackSends
<1>7. ASSUME NEW n \in 1 .. MaxFrags, NEW f \in 1 .. n, xmit_unwind_sg(n, f, b)
      PROVE  IndexInv'
  BY <1>7, IndicesUnchanged DEF xmit_unwind_sg, StackSends
<1> QED
  BY <1>1, <1>2, <1>3, <1>4, <1>5, <1>6, <1>7

\* IndexInv is invariant: Init establishes it and every step keeps it.
THEOREM IndexInvariance == Spec => []IndexInv
<1>1. Init => IndexInv
  BY ZeroIndices, RingAssumption DEF Init, Idx
<1>2. IndexInv /\ [Next]_vars => IndexInv'
  <2> SUFFICES ASSUME IndexInv, [Next]_vars PROVE IndexInv'
    OBVIOUS
  <2>1. CASE start_xmit
    BY <2>1, XmitKeeps
  <2>2. CASE HwSend
    BY <2>2, HwSendKeeps
  <2>3. CASE tx_poll
    BY <2>3, CleanKeeps, PollAssumption DEF tx_poll
  <2>4. CASE open
    BY <2>4, RingAssumption DEF open, IndexInv, Occupancy, IndexOrder, Dist, Idx
  <2>5. CASE stop
    BY <2>5, IndicesUnchanged DEF stop, ring
  <2>6. CASE tx_ring_reset
    BY <2>6, IndexReset
  <2>7. CASE UNCHANGED vars
    BY <2>7 DEF vars, IndexInv, Occupancy, IndexOrder, Dist, Idx
  <2> QED
    BY <2>1, <2>2, <2>3, <2>4, <2>5, <2>6, <2>7 DEF Next
<1> QED
  BY <1>1, <1>2, PTL DEF Spec

\* The room check of start_xmit keeps the ring from ever filling up, for every
\* ring size and reserve: the subtraction it rests on never wraps.
THEOREM RoomCheckSound == Spec => []Occupancy
<1>1. IndexInv => Occupancy
  BY DEF IndexInv
<1> QED
  BY <1>1, IndexInvariance, PTL

\* The poll never overtakes the engine, nor the engine the driver.
THEOREM IndicesOrdered == Spec => []IndexOrder
<1>1. IndexInv => IndexOrder
  BY DEF IndexInv
<1> QED
  BY <1>1, IndexInvariance, PTL

-----------------------------------------------------------------------------
(* The part of the ring between two indices.                               *)

\* Seen from the end of a window, what is behind it and what is in it.
LEMMA DistVia ==
  ASSUME NEW a \in Idx, NEW b \in Idx, NEW i \in Idx
  PROVE  /\ Dist(a, b) <= Dist(a, i) => Dist(b, i) = Dist(a, i) - Dist(a, b)
         /\ Dist(a, i) < Dist(a, b) => Dist(b, i) = Dist(a, i) - Dist(a, b) + N
<1>1. /\ a <= b => Dist(a, b) = b - a
      /\ b < a => Dist(a, b) = b - a + N
  BY DistCases
<1>2. /\ a <= i => Dist(a, i) = i - a
      /\ i < a => Dist(a, i) = i - a + N
  BY DistCases
<1>3. /\ b <= i => Dist(b, i) = i - b
      /\ i < b => Dist(b, i) = i - b + N
  BY DistCases
<1> QED
  BY <1>1, <1>2, <1>3, RingAssumption DEF Idx

\* An index is at distance zero from itself only.
LEMMA DistZero ==
  ASSUME NEW a \in Idx, NEW b \in Idx
  PROVE  Dist(a, b) = 0 <=> a = b
BY DistCases, RingAssumption DEF Idx

\* Filling k descriptors adds as many to the window, none of them in it.
LEMMA WindowGrows ==
  ASSUME NEW a \in Idx, NEW b \in Idx, NEW k \in 0 .. N, Dist(a, b) + k < N
  PROVE  /\ Dist(b, Nth(b, k)) = k
         /\ Window(a, Nth(b, k)) = Window(a, b) \cup Window(b, Nth(b, k))
         /\ Window(a, b) \cap Window(b, Nth(b, k)) = {}
<1> DEFINE c == Nth(b, k)
<1>1. /\ c \in Idx /\ Dist(a, c) = Dist(a, b) + k /\ Dist(a, b) \in 0 .. N - 1
  BY DistAppend, DistType
<1> HIDE DEF c
<1>2. Dist(b, c) = k
  <2>1. Dist(a, b) <= Dist(a, c)
    BY <1>1
  <2>2. Dist(b, c) = Dist(a, c) - Dist(a, b)
    BY <1>1, <2>1, DistVia
  <2> QED
    BY <1>1, <2>2
<1>3. ASSUME NEW i \in Idx
      PROVE  /\ Dist(a, i) < Dist(a, c) <=> Dist(a, i) < Dist(a, b) \/ Dist(b, i) < k
             /\ ~ (Dist(a, i) < Dist(a, b) /\ Dist(b, i) < k)
  <2>1. Dist(a, i) \in 0 .. N - 1 /\ Dist(b, i) \in 0 .. N - 1
    BY DistType
  <2>2. /\ Dist(a, b) <= Dist(a, i) => Dist(b, i) = Dist(a, i) - Dist(a, b)
        /\ Dist(a, i) < Dist(a, b) => Dist(b, i) = Dist(a, i) - Dist(a, b) + N
    BY DistVia
  <2> QED
    BY <1>1, <2>1, <2>2, RingAssumption
<1>4. Window(a, c) = Window(a, b) \cup Window(b, c) /\ Window(a, b) \cap Window(b, c) = {}
  BY <1>2, <1>3 DEF Window
<1> QED
  BY <1>2, <1>4 DEF c

\* Cleaning m descriptors takes them out of the window.
LEMMA WindowShrinks ==
  ASSUME NEW a \in Idx, NEW b \in Idx, NEW m \in 0 .. Dist(a, b)
  PROVE  /\ Dist(a, Nth(a, m)) = m
         /\ Window(a, Nth(a, m)) \subseteq Window(a, b)
         /\ Window(Nth(a, m), b) = Window(a, b) \ Window(a, Nth(a, m))
<1> DEFINE c == Nth(a, m)
<1>1. /\ c \in Idx /\ Dist(c, b) = Dist(a, b) - m /\ Dist(a, b) \in 0 .. N - 1
  BY DistAdvance, DistType
<1>2. Dist(a, c) = m
  <2>1. Dist(a, a) = 0 /\ m \in 0 .. N /\ m < N
    BY <1>1, DistZero, RingAssumption
  <2> QED
    BY <2>1, DistAppend
<1> HIDE DEF c
<1>3. ASSUME NEW i \in Idx
      PROVE  /\ Dist(a, i) < m => Dist(a, i) < Dist(a, b)
             /\ Dist(c, i) < Dist(c, b) <=> Dist(a, i) < Dist(a, b) /\ ~ (Dist(a, i) < m)
  <2>1. Dist(a, i) \in 0 .. N - 1 /\ Dist(c, i) \in 0 .. N - 1
    BY <1>1, DistType
  <2>2. /\ m <= Dist(a, i) => Dist(c, i) = Dist(a, i) - m
        /\ Dist(a, i) < m => Dist(c, i) = Dist(a, i) - m + N
    BY <1>1, <1>2, DistVia
  <2> QED
    BY <1>1, <2>1, <2>2, RingAssumption
<1>4. /\ Window(a, c) \subseteq Window(a, b)
      /\ Window(c, b) = Window(a, b) \ Window(a, c)
  BY <1>2, <1>3 DEF Window
<1> QED
  BY <1>2, <1>4 DEF c

\* The descriptor before an index.
LEMMA OneBefore ==
  ASSUME NEW a \in Idx, NEW b \in Idx, a # b
  PROVE  /\ Nth(b, N - 1) \in Idx
         /\ Dist(a, Nth(b, N - 1)) = Dist(a, b) - 1
         /\ Dist(a, b) > 0
         /\ Nth(b, N - 1) \in Window(a, b)
<1> DEFINE c == Nth(b, N - 1)
<1>1. /\ c \in Idx
      /\ b + (N - 1) < N => c = b + (N - 1)
      /\ b + (N - 1) >= N => c = b + (N - 1) - N
  BY NthCases, RingAssumption
<1>2. /\ a <= b => Dist(a, b) = b - a
      /\ b < a => Dist(a, b) = b - a + N
  BY DistCases
<1>3. /\ a <= c => Dist(a, c) = c - a
      /\ c < a => Dist(a, c) = c - a + N
  BY <1>1, DistCases
<1> HIDE DEF c
<1>4. Dist(a, c) = Dist(a, b) - 1 /\ Dist(a, b) > 0
  BY <1>1, <1>2, <1>3, RingAssumption DEF Idx
<1>5. c \in Window(a, b)
  BY <1>1, <1>4, DistType DEF Window
<1> QED
  BY <1>1, <1>4, <1>5 DEF c

\* The empty window, and the one of a single descriptor.
LEMMA WindowEmpty ==
  ASSUME NEW a \in Idx
  PROVE  Window(a, a) = {}
<1>1. Dist(a, a) = 0 /\ \A i \in Idx : Dist(a, i) \in 0 .. N - 1
  BY DistZero, DistType
<1> QED
  BY <1>1 DEF Window

LEMMA WindowOne ==
  ASSUME NEW a \in Idx
  PROVE  Window(a, Nth(a, 1)) = {a}
<1>1. Dist(a, a) = 0 /\ 1 \in 0 .. N /\ 1 < N
  BY DistZero, RingAssumption
<1>2. Dist(a, Nth(a, 1)) = 1
  BY <1>1, DistAppend
<1>3. \A i \in Idx : Dist(a, i) < 1 <=> i = a
  <2>1. \A i \in Idx : Dist(a, i) \in 0 .. N - 1 /\ (Dist(a, i) = 0 <=> i = a)
    BY DistType, DistZero
  <2> QED
    BY <2>1
<1> QED
  BY <1>2, <1>3 DEF Window

-----------------------------------------------------------------------------
(* DMA mappings.                                                           *)

\* The mappings of a set of descriptors with lengths D and map flags M.
MapsOf(S, D, M) == UNION {Unmaps(i, D[i], M[i]) : i \in S}

LEMMA MapsMember ==
  ASSUME NEW S, NEW D, NEW M, NEW e
  PROVE  e \in MapsOf(S, D, M) <=> \E i \in S : e \in Unmaps(i, D[i], M[i])
BY DEF MapsOf

LEMMA UnmapsIndex ==
  ASSUME NEW i, NEW d, NEW m, NEW e \in Unmaps(i, d, m)
  PROVE  e[1] = i
BY DEF Unmaps

LEMMA MapsUnion ==
  ASSUME NEW S, NEW T, NEW D, NEW M
  PROVE  MapsOf(S \cup T, D, M) = MapsOf(S, D, M) \cup MapsOf(T, D, M)
BY DEF MapsOf

LEMMA MapsAgree ==
  ASSUME NEW S, NEW D, NEW M, NEW E, NEW L, \A i \in S : D[i] = E[i] /\ M[i] = L[i]
  PROVE  MapsOf(S, D, M) = MapsOf(S, E, L)
<1>1. \A i \in S : Unmaps(i, D[i], M[i]) = Unmaps(i, E[i], L[i])
  OBVIOUS
<1> QED
  BY <1>1 DEF MapsOf

LEMMA MapsDisjoint ==
  ASSUME NEW S, NEW T, NEW D, NEW M, NEW E, NEW L, S \cap T = {}
  PROVE  MapsOf(S, D, M) \cap MapsOf(T, E, L) = {}
<1>1. \A e \in MapsOf(S, D, M) : e[1] \in S
  BY MapsMember, UnmapsIndex
<1>2. \A e \in MapsOf(T, E, L) : e[1] \in T
  BY MapsMember, UnmapsIndex
<1> QED
  BY <1>1, <1>2

LEMMA MapsRest ==
  ASSUME NEW S, NEW T, NEW D, NEW M, T \subseteq S
  PROVE  /\ MapsOf(T, D, M) \subseteq MapsOf(S, D, M)
         /\ MapsOf(S, D, M) \ MapsOf(T, D, M) = MapsOf(S \ T, D, M)
<1>1. S = (S \ T) \cup T
  OBVIOUS
<1>2. MapsOf(S, D, M) = MapsOf(S \ T, D, M) \cup MapsOf(T, D, M)
  BY <1>1, MapsUnion
<1>3. MapsOf(S \ T, D, M) \cap MapsOf(T, D, M) = {}
  BY MapsDisjoint
<1> QED
  BY <1>2, <1>3

LEMMA MapsType ==
  ASSUME NEW S \in SUBSET Idx, NEW D \in [Idx -> [sdl : SUBSET {0, 1}, ls : BOOLEAN]], NEW M
  PROVE  MapsOf(S, D, M) \in SUBSET Mapping
<1>1. ASSUME NEW i \in S PROVE Unmaps(i, D[i], M[i]) \subseteq Mapping
  <2>1. i \in Idx /\ D[i].sdl \subseteq {0, 1}
    OBVIOUS
  <2> QED
    BY <2>1 DEF Unmaps, Mapping
<1> QED
  BY <1>1 DEF MapsOf

-----------------------------------------------------------------------------
(* The segments of a scatter-gather packet.                                *)

LEMMA SegmentSlot ==
  ASSUME NEW k \in Nat
  PROVE  k \div 2 \in Nat /\ k % 2 \in {0, 1} /\ k = 2 * (k \div 2) + (k % 2)
OBVIOUS

\* Two segments share a descriptor and a slot only if they are the same.
LEMMA SlotOfOne ==
  ASSUME NEW k \in Nat, NEW l \in Nat, k \div 2 = l \div 2, k % 2 = l % 2
  PROVE  k = l
BY SegmentSlot

\* Completion unmaps a segment as a page unless it is the head.
LEMMA SegmentKind ==
  ASSUME NEW last \in Nat, NEW k \in 0 .. last
  PROVE  k % 2 \in SgMap(k \div 2, last) <=> k # 0
<1>1. CASE k = 0
  <2>1. ASSUME NEW l \in SegsOf(k \div 2, last) \ {0} PROVE l % 2 # k % 2
    <3>1. l \in Nat /\ l # k /\ l \div 2 = k \div 2
      BY <1>1, <2>1 DEF SegsOf
    <3> QED
      BY <3>1, SlotOfOne
  <2> QED
    BY <1>1, <2>1 DEF SgMap
<1>2. CASE k # 0
  BY <1>2 DEF SgMap, SegsOf
<1> QED
  BY <1>1, <1>2

LEMMA NthDist ==
  ASSUME NEW a \in Idx, NEW i \in Idx
  PROVE  Nth(a, Dist(a, i)) = i
<1>1. Dist(a, i) \in 0 .. N - 1 /\ Dist(a, i) \in 0 .. N
  BY DistType, RingAssumption
<1>2. /\ a + Dist(a, i) < N => Nth(a, Dist(a, i)) = a + Dist(a, i)
      /\ a + Dist(a, i) >= N => Nth(a, Dist(a, i)) = a + Dist(a, i) - N
  BY <1>1, NthCases
<1>3. /\ a <= i => Dist(a, i) = i - a
      /\ i < a => Dist(a, i) = i - a + N
  BY DistCases
<1> QED
  BY <1>1, <1>2, <1>3, RingAssumption DEF Idx

\* An index less than the ring away.
LEMMA DistNth ==
  ASSUME NEW a \in Idx, NEW k \in 0 .. N - 1
  PROVE  Nth(a, k) \in Idx /\ Dist(a, Nth(a, k)) = k
<1>1. Dist(a, a) = 0 /\ k \in 0 .. N /\ k < N
  BY DistZero, RingAssumption
<1> QED
  BY <1>1, DistAppend

\* The descriptor of a segment, and its packet's last one.
LEMMA SegmentDescriptor ==
  ASSUME NEW n \in Nat, NEW k \in 0 .. n
  PROVE  /\ k \div 2 \in 0 .. Needed(n) - 1
         /\ n \div 2 = Needed(n) - 1
<1>1. /\ k \div 2 \in Nat /\ k % 2 \in {0, 1} /\ k = 2 * (k \div 2) + (k % 2)
      /\ n \div 2 \in Nat /\ n % 2 \in {0, 1} /\ n = 2 * (n \div 2) + (n % 2)
      /\ (n + 2) \div 2 \in Nat /\ (n + 2) % 2 \in {0, 1}
      /\ n + 2 = 2 * ((n + 2) \div 2) + ((n + 2) % 2)
  <2>1. k \in Nat /\ n + 2 \in Nat
    OBVIOUS
  <2> QED
    BY <2>1, SegmentSlot
<1> DEFINE kd == k \div 2
           nd == n \div 2
           md == (n + 2) \div 2
           km == k % 2
           nm == n % 2
           mm == (n + 2) % 2
<1>2. /\ kd \in Nat /\ nd \in Nat /\ md \in Nat /\ km \in {0, 1} /\ nm \in {0, 1} /\ mm \in {0, 1}
      /\ k = 2 * kd + km /\ n = 2 * nd + nm /\ n + 2 = 2 * md + mm /\ k <= n
  BY <1>1
<1> HIDE DEF kd, nd, md, km, nm, mm
<1>3. kd \in 0 .. md - 1 /\ nd = md - 1
  BY <1>2
<1> QED
  BY <1>3 DEF kd, nd, md, Needed

\* The descriptors' lengths and map flags as the driver writes them, or
\* reconstructs them when a fragment fails, name the segments mapped so far.
LEMMA SegmentsNamed ==
  ASSUME NEW n \in Nat, NEW last \in 0 .. n, Needed(n) < N, cpu_idx \in Idx
  PROVE  SgMapped(last) =
           UNION {Unmaps(i, SgDesc(Dist(cpu_idx, i), last), SgMap(Dist(cpu_idx, i), last)) :
                    i \in SgIdx(n)}
<1> DEFINE U(i) == Unmaps(i, SgDesc(Dist(cpu_idx, i), last), SgMap(Dist(cpu_idx, i), last))
<1>1. Needed(n) \in 0 .. N - 1 /\ last \in Nat
  BY NeededPositive, RingAssumption
<1>2. SgIdx(n) = {i \in Idx : Dist(cpu_idx, i) < Needed(n)}
  BY <1>1, DistNth DEF SgIdx, Window
<1>3. ASSUME NEW k \in 0 .. last
      PROVE  /\ Nth(cpu_idx, k \div 2) \in SgIdx(n)
             /\ <<Nth(cpu_idx, k \div 2), k % 2, SgKind(k)>> \in U(Nth(cpu_idx, k \div 2))
  <2> DEFINE o == k \div 2
             i == Nth(cpu_idx, o)
  <2>1. o \in 0 .. Needed(n) - 1 /\ o \in 0 .. N - 1 /\ o < Needed(n)
    <3>1. k \in 0 .. n
      BY <1>1
    <3>2. o \in 0 .. Needed(n) - 1
      BY <3>1, SegmentDescriptor
    <3> HIDE DEF o
    <3> QED
      BY <3>2, <1>1, RingAssumption
  <2>2. i \in Idx /\ Dist(cpu_idx, i) = o
    BY <2>1, DistNth
  <2>3. i \in SgIdx(n)
    BY <1>2, <2>1, <2>2
  <2>4. k % 2 \in SgDesc(o, last).sdl
    BY DEF SgDesc, SegsOf
  <2>5. SgKind(k) = IF k % 2 \in SgMap(o, last) THEN "page" ELSE "single"
    BY <1>1, SegmentKind DEF SgKind
  <2>6. <<i, k % 2, SgKind(k)>> \in Unmaps(i, SgDesc(o, last), SgMap(o, last))
    BY <2>4, <2>5 DEF Unmaps
  <2> QED
    BY <2>2, <2>3, <2>6
<1>4. ASSUME NEW i \in SgIdx(n), NEW e \in U(i)
      PROVE  e \in SgMapped(last)
  <2> DEFINE o == Dist(cpu_idx, i)
  <2>1. i \in Idx /\ Nth(cpu_idx, o) = i
    BY <1>2, NthDist
  <2>2. PICK j \in SgDesc(o, last).sdl : e = <<i, j, IF j \in SgMap(o, last) THEN "page" ELSE "single">>
    BY DEF Unmaps
  <2>3. PICK k \in SegsOf(o, last) : j = k % 2
    BY <2>2 DEF SgDesc
  <2>4. k \in 0 .. last /\ k \div 2 = o
    BY <2>3 DEF SegsOf
  <2>5. SgKind(k) = IF j \in SgMap(o, last) THEN "page" ELSE "single"
    BY <1>1, <2>3, <2>4, SegmentKind DEF SgKind
  <2>6. e = <<Nth(cpu_idx, k \div 2), k % 2, SgKind(k)>>
    BY <2>1, <2>2, <2>3, <2>4, <2>5
  <2> QED
    BY <2>4, <2>6 DEF SgMapped
<1>5. SgMapped(last) \subseteq UNION {U(i) : i \in SgIdx(n)}
  BY <1>3 DEF SgMapped
<1>6. UNION {U(i) : i \in SgIdx(n)} \subseteq SgMapped(last)
  BY <1>4
<1> QED
  BY <1>5, <1>6

-----------------------------------------------------------------------------
(* Packets in the ring, counted.                                           *)

SkbsOf(f) == {f[i] : i \in Idx} \ {NoSkb}

LEMMA SkbsFinite ==
  ASSUME NEW f \in [Idx -> Skbs \cup {NoSkb}]
  PROVE  IsFiniteSet(SkbsOf(f)) /\ Cardinality(SkbsOf(f)) \in Nat
<1> DEFINE T == {f[i] : i \in Idx}
<1>1. IsFiniteSet(Idx)
  BY FS_Interval, RingAssumption DEF Idx
<1>2. f \in Surjection(Idx, T)
  BY DEF Surjection
<1>3. IsFiniteSet(T)
  BY <1>1, <1>2, FS_Surjection
<1>4. SkbsOf(f) \in SUBSET T
  BY DEF SkbsOf
<1>5. IsFiniteSet(SkbsOf(f))
  BY <1>3, <1>4, FS_Subset
<1> QED
  BY <1>5, FS_CardinalityType

\* A packet that was not in the ring is put into a free descriptor.
LEMMA SkbsAdd ==
  ASSUME NEW f \in [Idx -> Skbs \cup {NoSkb}], NEW g \in [Idx -> Skbs \cup {NoSkb}],
         NEW s \in Skbs, NEW l \in Idx, f[l] = NoSkb, g[l] = s,
         \A i \in Idx : f[i] # s, \A i \in Idx : i # l => g[i] = f[i]
  PROVE  Cardinality(SkbsOf(g)) = Cardinality(SkbsOf(f)) + 1
<1>1. s # NoSkb
  BY PacketAssumption
<1>2. SkbsOf(g) = SkbsOf(f) \cup {s} /\ s \notin SkbsOf(f)
  BY <1>1 DEF SkbsOf
<1> QED
  BY <1>2, SkbsFinite, FS_AddElement

\* The packets of the descriptors C leave the ring.
LEMMA SkbsRemove ==
  ASSUME NEW f \in [Idx -> Skbs \cup {NoSkb}], NEW g \in [Idx -> Skbs \cup {NoSkb}],
         NEW C \in SUBSET Idx,
         \A i \in C : f[i] # NoSkb,
         \A i, j \in Idx : f[i] # NoSkb /\ f[i] = f[j] => i = j,
         \A i \in Idx : g[i] = IF i \in C THEN NoSkb ELSE f[i]
  PROVE  /\ Cardinality(C) \in Nat
         /\ Cardinality(SkbsOf(g)) = Cardinality(SkbsOf(f)) - Cardinality(C)
<1> DEFINE R == {f[i] : i \in C}
           h == [i \in C |-> f[i]]
<1>1. IsFiniteSet(C)
  <2>1. IsFiniteSet(Idx)
    BY FS_Interval, RingAssumption DEF Idx
  <2> QED
    BY <2>1, FS_Subset
<1>2. ExistsBijection(C, R)
  <2>1. h \in [C -> R]
    OBVIOUS
  <2>2. \A i, j \in C : h[i] = h[j] => i = j
    OBVIOUS
  <2>3. \A t \in R : \E i \in C : h[i] = t
    OBVIOUS
  <2> HIDE DEF h, R
  <2>4. h \in Injection(C, R)
    BY <2>1, <2>2 DEF Injection, IsInjective
  <2>5. h \in Surjection(C, R)
    BY <2>1, <2>3 DEF Surjection
  <2> QED
    BY <2>4, <2>5 DEF Bijection, ExistsBijection
<1>3. IsFiniteSet(R) /\ Cardinality(R) = Cardinality(C) /\ Cardinality(C) \in Nat
  BY <1>1, <1>2, FS_Bijection, FS_CardinalityType
<1>4. SkbsOf(f) = SkbsOf(g) \cup R /\ SkbsOf(g) \cap R = {}
  <2>1. R \subseteq SkbsOf(f)
    BY DEF SkbsOf
  <2>2. SkbsOf(g) \subseteq SkbsOf(f)
    BY DEF SkbsOf
  <2>3. SkbsOf(f) \subseteq SkbsOf(g) \cup R
    BY DEF SkbsOf
  <2>4. ASSUME NEW x \in SkbsOf(g), x \in R PROVE FALSE
    <3>1. PICK i \in Idx : x = g[i] /\ x # NoSkb
      BY DEF SkbsOf
    <3>2. PICK j \in C : x = f[j]
      BY <2>4
    <3>3. i \notin C /\ f[i] = f[j] /\ f[i] # NoSkb
      BY <3>1, <3>2
    <3> QED
      BY <3>2, <3>3
  <2> QED
    BY <2>1, <2>2, <2>3, <2>4
<1> HIDE DEF R
<1>5. Cardinality(SkbsOf(g) \cup R) =
        Cardinality(SkbsOf(g)) + Cardinality(R) - Cardinality(SkbsOf(g) \cap R)
  BY <1>3, SkbsFinite, FS_Union
<1>6. Cardinality({}) = 0
  BY FS_EmptySet
<1>7. Cardinality(SkbsOf(f)) = Cardinality(SkbsOf(g)) + Cardinality(R) - 0
  BY <1>4, <1>5, <1>6
<1>8. Cardinality(SkbsOf(f)) \in Nat /\ Cardinality(SkbsOf(g)) \in Nat
  BY SkbsFinite
<1> QED
  BY <1>3, <1>7, <1>8

-----------------------------------------------------------------------------
(* The inductive invariant.                                                *)

Used == Window(clean_idx, cpu_idx)
LastOf(i) == desc[i].ls /\ skb[i] # NoSkb

DownEmpty == link = "down" => cpu_idx = clean_idx

LiveMaps == mapped = MapsOf(Used, desc, map)

\* What ends the part in use, and the part shown to the engine, is a packet's
\* last descriptor.
LastsInv ==
  /\ cpu_idx # clean_idx => LastOf(Nth(cpu_idx, N - 1))
  /\ link # "down" /\ tx_cpu_idx # clean_idx => LastOf(Nth(tx_cpu_idx, N - 1))

SkbsInv ==
  /\ \A i \in Idx : skb[i] # NoSkb => i \in Used /\ desc[i].ls
  /\ \A i, j \in Idx : skb[i] # NoSkb /\ skb[i] = skb[j] => i = j

BqlCovers == Cardinality(SkbsOf(skb)) <= bql

TxIInv ==
  /\ IndexInv
  /\ TypeOK
  /\ DownEmpty /\ LiveMaps /\ LastsInv /\ SkbsInv
  /\ BqlCovers /\ ThrottledIsVisible /\ OnlyKnownFaults

\* The next state's values of the notions above.
LEMMA NextNotions ==
  /\ Used' = Window(clean_idx', cpu_idx')
  /\ MapsOf(Used, desc, map)' = MapsOf(Used', desc', map')
  /\ SkbsOf(skb)' = SkbsOf(skb')
<1>1. Used' = Window(clean_idx', cpu_idx')
  BY DEF Used, Window, Dist, Idx
<1>2. MapsOf(Used, desc, map)' = MapsOf(Used', desc', map')
  BY DEF MapsOf, Unmaps
<1>3. SkbsOf(skb)' = SkbsOf(skb')
  BY DEF SkbsOf, Idx
<1> QED
  BY <1>1, <1>2, <1>3

LEMMA NextLasts ==
  ASSUME cpu_idx' # clean_idx' =>
           desc'[Nth(cpu_idx', N - 1)].ls /\ skb'[Nth(cpu_idx', N - 1)] # NoSkb,
         link' # "down" /\ tx_cpu_idx' # clean_idx' =>
           desc'[Nth(tx_cpu_idx', N - 1)].ls /\ skb'[Nth(tx_cpu_idx', N - 1)] # NoSkb
  PROVE  LastsInv'
BY DEF LastsInv, LastOf, Nth

LEMMA NextSkbs ==
  ASSUME \A i \in Idx : skb'[i] # NoSkb => i \in Used' /\ desc'[i].ls,
         \A i, j \in Idx : skb'[i] # NoSkb /\ skb'[i] = skb'[j] => i = j
  PROVE  SkbsInv'
BY DEF SkbsInv, Idx

\* The last packet of a window ends it.
LEMMA LastIsUsed ==
  ASSUME IndexInv, cpu_idx # clean_idx
  PROVE  /\ Nth(cpu_idx, N - 1) \in Used
         /\ Dist(clean_idx, Nth(cpu_idx, N - 1)) = Dist(clean_idx, cpu_idx) - 1
BY OneBefore DEF IndexInv, Used

\* What is shown to the engine is in use.
LEMMA ShownIsUsed ==
  ASSUME IndexInv, link # "down", tx_cpu_idx # clean_idx
  PROVE  /\ Nth(tx_cpu_idx, N - 1) \in Idx
         /\ Nth(tx_cpu_idx, N - 1) \in Used
<1>1. /\ cpu_idx \in Idx /\ clean_idx \in Idx /\ tx_cpu_idx \in Idx
      /\ Dist(clean_idx, tx_cpu_idx) <= Dist(clean_idx, cpu_idx)
  BY DEF IndexInv, IndexOrder
<1>2. Nth(tx_cpu_idx, N - 1) \in Window(clean_idx, tx_cpu_idx)
  BY <1>1, OneBefore
<1>3. Nth(tx_cpu_idx, N - 1) \in Window(clean_idx, cpu_idx)
  BY <1>1, <1>2, DistType DEF Window
<1> QED
  BY <1>3 DEF Used, Window

\* A descriptor at the end of the window is none of those in use.
LEMMA NewIsUnused ==
  ASSUME IndexInv, NEW n \in Nat, HasRoom(n)
  PROVE  /\ Needed(n) \in 1 .. N - 1
         /\ Dist(clean_idx, cpu_idx) + Needed(n) < N
         /\ Window(clean_idx, Nth(cpu_idx, Needed(n))) = Used \cup SgIdx(n)
         /\ Used \cap SgIdx(n) = {}
         /\ Used \in SUBSET Idx /\ SgIdx(n) \in SUBSET Idx
         /\ SgIdx(n) = {i \in Idx : Dist(cpu_idx, i) < Needed(n)}
         /\ Nth(cpu_idx, Needed(n) - 1) \in SgIdx(n)
<1>1. Dist(clean_idx, cpu_idx) \in 0 .. N - Reserve
  BY DistType, RingAssumption DEF IndexInv, Occupancy
<1>2. Needed(n) \in 1 .. N - 1 /\ Dist(clean_idx, cpu_idx) + Needed(n) < N
  BY <1>1, NeededPositive, AvailIsRoom, RingAssumption DEF IndexInv, HasRoom
<1>3. cpu_idx \in Idx /\ clean_idx \in Idx /\ Needed(n) \in 0 .. N
  BY <1>2, RingAssumption DEF IndexInv
<1>4. /\ Dist(cpu_idx, Nth(cpu_idx, Needed(n))) = Needed(n)
      /\ Window(clean_idx, Nth(cpu_idx, Needed(n))) = Used \cup SgIdx(n)
      /\ Used \cap SgIdx(n) = {}
  BY <1>2, <1>3, WindowGrows DEF Used, SgIdx
<1>5. SgIdx(n) = {i \in Idx : Dist(cpu_idx, i) < Needed(n)}
  BY <1>4 DEF SgIdx, Window
<1>6. Nth(cpu_idx, Needed(n) - 1) \in SgIdx(n)
  <2>1. Needed(n) - 1 \in 0 .. N - 1
    BY <1>2, RingAssumption
  <2>2. /\ Nth(cpu_idx, Needed(n) - 1) \in Idx
        /\ Dist(cpu_idx, Nth(cpu_idx, Needed(n) - 1)) = Needed(n) - 1
    BY <1>3, <2>1, DistNth
  <2> QED
    BY <1>2, <1>5, <2>2
<1> QED
  BY <1>2, <1>4, <1>5, <1>6 DEF Used, Window

\* The last descriptor of a new packet is the one before the new cpu_idx.
LEMMA NewLast ==
  ASSUME NEW a \in Idx, NEW k \in 1 .. N - 1
  PROVE  /\ Nth(a, k) \in Idx /\ Nth(a, k) # a
         /\ Nth(Nth(a, k), N - 1) = Nth(a, k - 1)
<1>1. Nth(a, k) \in Idx /\ Dist(a, Nth(a, k)) = k
  BY DistNth, RingAssumption
<1>2. Nth(a, k) # a
  BY <1>1, DistZero
<1>3. /\ Nth(Nth(a, k), N - 1) \in Idx
      /\ Dist(a, Nth(Nth(a, k), N - 1)) = k - 1
  BY <1>1, <1>2, OneBefore
<1>4. Nth(a, k - 1) = Nth(Nth(a, k), N - 1)
  BY <1>3, NthDist
<1> QED
  BY <1>1, <1>2, <1>4

-----------------------------------------------------------------------------
(* What the steps do to the inductive invariant.                           *)

\* A packet with n fragments goes into the ring: only its descriptors change,
\* the last of them takes the skb.
LEMMA SendKeeps ==
  ASSUME TxIInv, IndexInv', NEW n \in 0 .. MaxFrags, NEW b \in 0 .. MaxBurst - 1, NEW s \in Skbs,
         StackSends(b), HasRoom(n), Fresh(s), Sent(b, Nth(cpu_idx, Needed(n))),
         skb' \in [Idx -> Skbs \cup {NoSkb}],
         desc' \in [Idx -> [sdl : SUBSET {0, 1}, ls : BOOLEAN]],
         map' \in [Idx -> SUBSET {0, 1}],
         \A i \in Idx \ SgIdx(n) : skb'[i] = skb[i] /\ desc'[i] = desc[i] /\ map'[i] = map[i],
         \A i \in SgIdx(n) : skb'[i] = IF i = Nth(cpu_idx, Needed(n) - 1) THEN s ELSE NoSkb,
         desc'[Nth(cpu_idx, Needed(n) - 1)].ls,
         mapped' = mapped \cup MapsOf(SgIdx(n), desc', map'),
         faults' \in FragFaults,
         UNCHANGED <<clean_idx, tx_dma_idx, drv_xoff, link>>
  PROVE  TxIInv' /\ BqlDrift' = BqlDrift
<1> DEFINE G == SgIdx(n)
           l == Nth(cpu_idx, Needed(n) - 1)
<1>1. /\ IndexInv /\ TypeOK /\ LiveMaps /\ LastsInv /\ SkbsInv
      /\ BqlCovers /\ OnlyKnownFaults
  BY DEF TxIInv
<1>2. /\ Needed(n) \in 1 .. N - 1
      /\ Used \cap G = {} /\ Used \in SUBSET Idx /\ G \in SUBSET Idx /\ l \in G
      /\ cpu_idx \in Idx
  BY <1>1, NewIsUnused DEF IndexInv
<1>3. link = "up" /\ s # NoSkb /\ \A i \in Idx : skb[i] # s
  BY PacketAssumption DEF StackSends, Fresh
<1>4. /\ cpu_idx' = Nth(cpu_idx, Needed(n)) /\ bql' = bql + 1 /\ burst' = b
      /\ tx_cpu_idx' \in {cpu_idx', tx_cpu_idx}
      /\ bql' > BqlLimit => tx_cpu_idx' = cpu_idx'
  BY DEF Sent
<1>5. Used' = Used \cup G
  BY <1>1, <1>4, NewIsUnused, NextNotions
<1>6. Nth(cpu_idx', N - 1) = l
  BY <1>2, <1>4, NewLast
<1>7. desc'[l].ls /\ skb'[l] = s /\ skb'[l] # NoSkb
  BY <1>2, <1>3
<1>8. LiveMaps'
  <2>1. MapsOf(Used, desc', map') = mapped
    <3>1. \A i \in Used : desc[i] = desc'[i] /\ map[i] = map'[i]
      BY <1>2
    <3> QED
      BY <1>1, <3>1, MapsAgree DEF LiveMaps
  <2>2. MapsOf(Used', desc', map') = mapped'
    BY <1>5, <2>1, MapsUnion
  <2> QED
    BY <2>2, NextNotions DEF LiveMaps
<1> HIDE DEF l, G
<1>9. LastsInv'
  <2>1. ASSUME link # "down", tx_cpu_idx' = tx_cpu_idx, tx_cpu_idx # clean_idx
        PROVE  /\ desc'[Nth(tx_cpu_idx', N - 1)].ls
               /\ skb'[Nth(tx_cpu_idx', N - 1)] # NoSkb
    <3> DEFINE t == Nth(tx_cpu_idx, N - 1)
    <3>1. t \in Idx /\ t \in Used /\ desc[t].ls /\ skb[t] # NoSkb
      BY <1>1, <2>1, ShownIsUsed DEF LastsInv, LastOf
    <3>2. t \in Idx \ G
      BY <1>2, <3>1
    <3> QED
      BY <2>1, <3>1, <3>2 DEF G
  <2>2. link' = link /\ clean_idx' = clean_idx
    OBVIOUS
  <2>3. link' # "down" /\ tx_cpu_idx' # clean_idx' =>
           desc'[Nth(tx_cpu_idx', N - 1)].ls /\ skb'[Nth(tx_cpu_idx', N - 1)] # NoSkb
    <3>1. CASE tx_cpu_idx' = cpu_idx'
      BY <1>6, <1>7, <3>1
    <3>2. CASE tx_cpu_idx' = tx_cpu_idx
      BY <2>1, <2>2, <3>2
    <3> QED
      BY <1>4, <3>1, <3>2
  <2> QED
    BY <1>6, <1>7, <2>3, NextLasts
<1>10. \A i \in Idx : i # l => skb'[i] = skb[i]
  <2>1. \A i \in G : i # l => skb'[i] = NoSkb
    BY DEF G, l
  <2>2. \A i \in G : skb[i] = NoSkb
    BY <1>1, <1>2 DEF SkbsInv
  <2> QED
    BY <2>1, <2>2 DEF G
<1>11. SkbsInv'
  <2>1. \A i \in Idx : skb'[i] # NoSkb => i \in Used' /\ desc'[i].ls
    <3>1. ASSUME NEW i \in Idx, skb'[i] # NoSkb, i # l PROVE i \in Used' /\ desc'[i].ls
      <4>1. i \in Used /\ desc[i].ls
        BY <1>1, <1>10, <3>1 DEF SkbsInv
      <4>2. i \in Idx \ G
        BY <1>2, <4>1
      <4> QED
        BY <1>5, <4>1, <4>2 DEF G
    <3> QED
      BY <1>2, <1>5, <1>7, <3>1
  <2>2. \A i, j \in Idx : skb'[i] # NoSkb /\ skb'[i] = skb'[j] => i = j
    BY <1>1, <1>3, <1>7, <1>10 DEF SkbsInv
  <2> QED
    BY <2>1, <2>2, NextSkbs
<1>12. bql \in Nat /\ Cardinality(SkbsOf(skb')) = Cardinality(SkbsOf(skb)) + 1
  <2>1. skb \in [Idx -> Skbs \cup {NoSkb}] /\ l \in Idx /\ skb[l] = NoSkb /\ bql \in Nat
    BY <1>1, <1>2 DEF TypeOK, SkbsInv
  <2> QED
    BY <2>1, <1>3, <1>7, <1>10, SkbsAdd
<1>13. Cardinality(SkbsOf(skb)) \in Nat
  BY <1>1, SkbsFinite DEF TypeOK
<1>14. BqlCovers'
  BY <1>1, <1>4, <1>12, <1>13, NextNotions DEF BqlCovers
<1>15. BqlDrift' = BqlDrift
  <2>1. BqlDrift = bql - Cardinality(SkbsOf(skb))
    BY DEF BqlDrift, InRing, SkbsOf
  <2>2. BqlDrift' = bql' - Cardinality(SkbsOf(skb'))
    BY DEF BqlDrift, InRing, SkbsOf, Idx
  <2> QED
    BY <2>1, <2>2, <1>4, <1>12, <1>13
<1>16. OnlyKnownFaults'
  BY <1>1 DEF OnlyKnownFaults, FragFaults
<1>17. TypeOK'
  <2>1. mapped' \in SUBSET Mapping
    BY <1>1, <1>2, MapsType DEF TypeOK, G
  <2>2. bql' \in Nat
    BY <1>4, <1>12
  <2>3. faults' \in SUBSET {"clean unmap", "unwind unmap", "reset unmap", "double free", "stale frags"}
    BY <1>1 DEF TypeOK, FragFaults
  <2>4. cpu_idx' \in Idx /\ clean_idx' \in Idx /\ tx_cpu_idx' \in Idx /\ tx_dma_idx' \in Idx
    BY DEF IndexInv, Idx
  <2>5. drv_xoff' \in BOOLEAN /\ link' \in {"down", "up", "stopping"}
    BY <1>1 DEF TypeOK
  <2> QED
    BY <1>4, <2>1, <2>2, <2>3, <2>4, <2>5 DEF TypeOK, Idx, Mapping
<1>18. DownEmpty' /\ ThrottledIsVisible'
  BY <1>3, <1>4 DEF DownEmpty, ThrottledIsVisible
<1> QED
  BY <1>8, <1>9, <1>11, <1>14, <1>15, <1>16, <1>17, <1>18 DEF TxIInv

\* Steps that leave the part in use, the skbs and the mappings as they are.
LEMMA UseUnchanged ==
  ASSUME TxIInv, IndexInv',
         TypeOK', OnlyKnownFaults',
         \A i \in Used : desc'[i] = desc[i] /\ map'[i] = map[i],
         link' = "down" <=> link = "down",
         UNCHANGED <<cpu_idx, clean_idx, tx_cpu_idx, skb, mapped, bql>>
  PROVE  TxIInv' /\ BqlDrift' = BqlDrift
<1>1. /\ IndexInv /\ TypeOK /\ LiveMaps /\ LastsInv /\ SkbsInv
      /\ BqlCovers /\ DownEmpty /\ ThrottledIsVisible
  BY DEF TxIInv
<1>2. Used' = Used /\ Used \in SUBSET Idx
  BY NextNotions DEF Used, Window
<1>3. LiveMaps'
  <2>1. MapsOf(Used, desc, map) = MapsOf(Used, desc', map')
    BY MapsAgree
  <2> QED
    BY <1>1, <1>2, <2>1, NextNotions DEF LiveMaps
<1>4. LastsInv'
  <2>1. cpu_idx # clean_idx =>
          desc'[Nth(cpu_idx, N - 1)].ls /\ skb[Nth(cpu_idx, N - 1)] # NoSkb
    BY <1>1, LastIsUsed DEF LastsInv, LastOf
  <2>2. link' # "down" /\ tx_cpu_idx # clean_idx =>
          desc'[Nth(tx_cpu_idx, N - 1)].ls /\ skb[Nth(tx_cpu_idx, N - 1)] # NoSkb
    BY <1>1, ShownIsUsed DEF LastsInv, LastOf
  <2> QED
    BY <2>1, <2>2, NextLasts
<1>5. SkbsInv'
  BY <1>1, <1>2, NextSkbs DEF SkbsInv
<1>6. BqlCovers' /\ BqlDrift' = BqlDrift
  BY <1>1 DEF BqlCovers, BqlDrift, InRing, SkbsOf, Idx
<1>7. DownEmpty' /\ ThrottledIsVisible'
  BY <1>1 DEF DownEmpty, ThrottledIsVisible
<1> QED
  BY <1>3, <1>4, <1>5, <1>6, <1>7 DEF TxIInv

LEMMA LinearKeeps ==
  ASSUME TxIInv, IndexInv', NEW b \in 0 .. MaxBurst - 1, NEW s \in Skbs, xmit_linear(s, b)
  PROVE  TxIInv' /\ BqlDrift' = BqlDrift
<1>1. /\ StackSends(b) /\ Fresh(s) /\ HasRoom(0)
      /\ Sent(b, Nth(cpu_idx, Needed(0)))
      /\ mapped' = mapped \cup {<<cpu_idx, 0, "single">>}
      /\ map' = [map EXCEPT ![cpu_idx] = {}]
      /\ skb' = [skb EXCEPT ![cpu_idx] = s]
      /\ desc' = [desc EXCEPT ![cpu_idx] = [sdl |-> {0}, ls |-> TRUE]]
      /\ faults' \in FragFaults
      /\ UNCHANGED <<clean_idx, tx_dma_idx, drv_xoff, link>>
  BY DEF xmit_linear, Needed, FragFaults
<1>2. /\ cpu_idx \in Idx /\ IndexInv
      /\ skb \in [Idx -> Skbs \cup {NoSkb}]
      /\ desc \in [Idx -> [sdl : SUBSET {0, 1}, ls : BOOLEAN]]
      /\ map \in [Idx -> SUBSET {0, 1}]
  BY DEF TxIInv, IndexInv, TypeOK
<1>3. SgIdx(0) = {cpu_idx} /\ Nth(cpu_idx, Needed(0) - 1) = cpu_idx
  <2>1. Needed(0) = 1
    BY DEF Needed
  <2>2. Nth(cpu_idx, 0) = cpu_idx
    BY <1>2, NthDist, DistZero
  <2> QED
    BY <1>2, <2>1, <2>2, WindowOne DEF SgIdx
<1>4. /\ skb' \in [Idx -> Skbs \cup {NoSkb}]
      /\ desc' \in [Idx -> [sdl : SUBSET {0, 1}, ls : BOOLEAN]]
      /\ map' \in [Idx -> SUBSET {0, 1}]
  BY <1>1, <1>2
<1>5. /\ skb'[cpu_idx] = s /\ map'[cpu_idx] = {}
      /\ desc'[cpu_idx] = [sdl |-> {0}, ls |-> TRUE]
      /\ \A i \in Idx \ {cpu_idx} : skb'[i] = skb[i] /\ desc'[i] = desc[i] /\ map'[i] = map[i]
  BY <1>1, <1>2
<1>6. MapsOf({cpu_idx}, desc', map') = {<<cpu_idx, 0, "single">>}
  BY <1>5 DEF MapsOf, Unmaps
<1>7. 0 \in 0 .. MaxFrags
  BY PacketAssumption
<1>8. /\ \A i \in Idx \ SgIdx(0) : skb'[i] = skb[i] /\ desc'[i] = desc[i] /\ map'[i] = map[i]
      /\ \A i \in SgIdx(0) : skb'[i] = IF i = Nth(cpu_idx, Needed(0) - 1) THEN s ELSE NoSkb
      /\ desc'[Nth(cpu_idx, Needed(0) - 1)].ls
      /\ mapped' = mapped \cup MapsOf(SgIdx(0), desc', map')
  <2>1. desc'[Nth(cpu_idx, Needed(0) - 1)] = [sdl |-> {0}, ls |-> TRUE]
    BY <1>3, <1>5
  <2>2. desc'[Nth(cpu_idx, Needed(0) - 1)].ls
    BY <2>1
  <2>3. mapped' = mapped \cup MapsOf(SgIdx(0), desc', map')
    BY <1>1, <1>3, <1>6
  <2>4. /\ \A i \in Idx \ SgIdx(0) : skb'[i] = skb[i] /\ desc'[i] = desc[i] /\ map'[i] = map[i]
        /\ \A i \in SgIdx(0) : skb'[i] = IF i = Nth(cpu_idx, Needed(0) - 1) THEN s ELSE NoSkb
    BY <1>3, <1>5
  <2> QED
    BY <2>2, <2>3, <2>4
<1> QED
  BY <1>1, <1>4, <1>7, <1>8, SendKeeps

LEMMA SgKeeps ==
  ASSUME TxIInv, IndexInv', NEW b \in 0 .. MaxBurst - 1, NEW s \in Skbs,
         NEW n \in 1 .. MaxFrags, xmit_sg(s, n, b)
  PROVE  TxIInv' /\ BqlDrift' = BqlDrift
<1> DEFINE l == Nth(cpu_idx, Needed(n) - 1)
           D(i) == SgDesc(Dist(cpu_idx, i), n)
           M(i) == SgMap(Dist(cpu_idx, i), n)
<1>1. /\ StackSends(b) /\ Fresh(s) /\ HasRoom(n)
      /\ Sent(b, Nth(cpu_idx, Needed(n)))
      /\ mapped' = mapped \cup SgMapped(n)
      /\ map' = [i \in Idx |-> IF i \in SgIdx(n) THEN M(i) ELSE map[i]]
      /\ skb' = [i \in Idx |-> IF i \in SgIdx(n) THEN SgSkb(s, i, n) ELSE skb[i]]
      /\ desc' = [i \in Idx |-> IF i \in SgIdx(n) THEN D(i) ELSE desc[i]]
      /\ faults' \in FragFaults
      /\ UNCHANGED <<clean_idx, tx_dma_idx, drv_xoff, link>>
  BY DEF xmit_sg
<1>2. /\ cpu_idx \in Idx /\ IndexInv /\ n \in Nat
      /\ skb \in [Idx -> Skbs \cup {NoSkb}]
      /\ desc \in [Idx -> [sdl : SUBSET {0, 1}, ls : BOOLEAN]]
      /\ map \in [Idx -> SUBSET {0, 1}]
  <2>1. n \in Nat
    OBVIOUS
  <2> QED
    BY <2>1 DEF TxIInv, IndexInv, TypeOK
<1>3. /\ Needed(n) \in 1 .. N - 1 /\ SgIdx(n) \in SUBSET Idx /\ l \in SgIdx(n)
      /\ Dist(cpu_idx, l) = Needed(n) - 1
  <2>1. Needed(n) \in 1 .. N - 1 /\ SgIdx(n) \in SUBSET Idx /\ l \in SgIdx(n)
    BY <1>1, <1>2, NewIsUnused
  <2>2. Needed(n) - 1 \in 0 .. N - 1
    BY <2>1, RingAssumption
  <2> QED
    BY <1>2, <2>1, <2>2, DistNth
<1>4. D(l).ls
  <2>1. n \div 2 = Needed(n) - 1
    BY <1>2, SegmentDescriptor
  <2> QED
    BY <1>3, <2>1 DEF SgDesc
<1>5. \A i \in Idx : D(i) \in [sdl : SUBSET {0, 1}, ls : BOOLEAN] /\ M(i) \in SUBSET {0, 1}
  <2>1. \A o : \A k \in SegsOf(o, n) : k % 2 \in {0, 1}
    BY <1>2, SegmentSlot DEF SegsOf
  <2> QED
    BY <2>1 DEF SgDesc, SgMap
<1>6. SgMapped(n) = UNION {Unmaps(i, D(i), M(i)) : i \in SgIdx(n)}
  <2>1. Needed(n) < N /\ n \in 0 .. n
    BY <1>2, <1>3, RingAssumption
  <2> QED
    BY <1>2, <2>1, SegmentsNamed
<1>7. \A i \in SgIdx(n) : SgSkb(s, i, n) = IF i = l THEN s ELSE NoSkb
  BY DEF SgSkb
<1> HIDE DEF D, M, l
<1>8. /\ skb' \in [Idx -> Skbs \cup {NoSkb}]
      /\ desc' \in [Idx -> [sdl : SUBSET {0, 1}, ls : BOOLEAN]]
      /\ map' \in [Idx -> SUBSET {0, 1}]
  <2>1. skb' \in [Idx -> Skbs \cup {NoSkb}]
    BY <1>1, <1>2, <1>7
  <2>2. desc' \in [Idx -> [sdl : SUBSET {0, 1}, ls : BOOLEAN]]
    BY <1>1, <1>2, <1>5
  <2>3. map' \in [Idx -> SUBSET {0, 1}]
    BY <1>1, <1>2, <1>5
  <2> QED
    BY <2>1, <2>2, <2>3
<1>9. /\ \A i \in Idx \ SgIdx(n) : skb'[i] = skb[i] /\ desc'[i] = desc[i] /\ map'[i] = map[i]
      /\ \A i \in SgIdx(n) : desc'[i] = D(i) /\ map'[i] = M(i)
      /\ \A i \in SgIdx(n) : skb'[i] = IF i = l THEN s ELSE NoSkb
  BY <1>1, <1>3, <1>7
<1>10. mapped' = mapped \cup MapsOf(SgIdx(n), desc', map')
  <2>1. \A i \in SgIdx(n) : Unmaps(i, desc'[i], map'[i]) = Unmaps(i, D(i), M(i))
    BY <1>9
  <2>2. MapsOf(SgIdx(n), desc', map') = UNION {Unmaps(i, D(i), M(i)) : i \in SgIdx(n)}
    BY <2>1 DEF MapsOf
  <2> QED
    BY <1>1, <1>6, <2>2
<1>11. desc'[l].ls /\ n \in 0 .. MaxFrags
  BY <1>3, <1>4, <1>9, PacketAssumption
<1> QED
  BY <1>1, <1>8, <1>9, <1>10, <1>11, SendKeeps DEF l

\* A refused packet, or one dropped before anything was mapped.
LEMMA RefuseKeeps ==
  ASSUME TxIInv, IndexInv', NEW b \in 0 .. MaxBurst - 1, NEW n \in Nat,
         xmit_busy(n, b) \/ xmit_drop(b) \/ xmit_drop_push_failed(b)
  PROVE  TxIInv' /\ BqlDrift' = BqlDrift
<1>1. /\ UNCHANGED <<cpu_idx, clean_idx, tx_cpu_idx, tx_dma_idx, skb, desc, map, mapped,
                     bql, link>>
      /\ burst' \in {0, b}
      /\ drv_xoff' \in {TRUE, drv_xoff}
      /\ faults' \in {faults, faults \cup {"double free"}}
  BY DEF xmit_busy, xmit_drop, xmit_drop_push_failed, ring
<1>2. TypeOK /\ OnlyKnownFaults
  BY DEF TxIInv
<1>3. OnlyKnownFaults'
  BY <1>1, <1>2 DEF OnlyKnownFaults
<1>4. TypeOK'
  <2>1. burst' \in 0 .. MaxBurst - 1
    <3>1. MaxBurst \in Nat \ {0}
      BY PacketAssumption
    <3>2. 0 \in 0 .. MaxBurst - 1
      BY <3>1
    <3> QED
      BY <1>1, <3>2
  <2>2. faults' \in SUBSET {"clean unmap", "unwind unmap", "reset unmap", "double free", "stale frags"}
    BY <1>1, <1>2 DEF TypeOK
  <2> QED
    BY <1>1, <1>2, <2>1, <2>2 DEF TypeOK, Idx, Mapping
<1> QED
  BY <1>1, <1>3, <1>4, UseUnchanged

\* A scatter-gather packet fails to map: its descriptors are outside the part
\* in use, so blanking them changes neither the packets nor what is mapped.
LEMMA BlankKeeps ==
  ASSUME TxIInv, IndexInv', NEW b \in 0 .. MaxBurst - 1, NEW n \in 1 .. MaxFrags,
         HasRoom(n),
         map' = [i \in Idx |-> IF i \in SgIdx(n) THEN {} ELSE map[i]],
         skb' = [i \in Idx |-> IF i \in SgIdx(n) THEN NoSkb ELSE skb[i]],
         desc' \in {desc, [i \in Idx |-> IF i \in SgIdx(n) THEN Free ELSE desc[i]]},
         mapped' = mapped,
         faults' \in FragFaults,
         burst' = b,
         UNCHANGED <<cpu_idx, clean_idx, tx_cpu_idx, tx_dma_idx, drv_xoff, bql, link>>
  PROVE  TxIInv' /\ BqlDrift' = BqlDrift
<1>1. IndexInv /\ TypeOK /\ SkbsInv /\ OnlyKnownFaults
  BY DEF TxIInv
<1>2. Used \cap SgIdx(n) = {} /\ Used \in SUBSET Idx /\ SgIdx(n) \in SUBSET Idx
  <2>1. n \in Nat
    OBVIOUS
  <2> QED
    BY <1>1, <2>1, NewIsUnused
<1>3. skb' = skb
  <2>1. \A i \in SgIdx(n) : skb[i] = NoSkb
    BY <1>1, <1>2 DEF SkbsInv
  <2>2. skb \in [Idx -> Skbs \cup {NoSkb}]
    BY <1>1 DEF TypeOK
  <2> QED
    BY <1>2, <2>1, <2>2
<1>4. \A i \in Used : desc'[i] = desc[i] /\ map'[i] = map[i]
  BY <1>2
<1>5. OnlyKnownFaults'
  BY <1>1 DEF OnlyKnownFaults, FragFaults
<1>6. TypeOK'
  <2>1. map' \in [Idx -> SUBSET {0, 1}]
    BY <1>1, <1>2 DEF TypeOK
  <2>2. Free \in [sdl : SUBSET {0, 1}, ls : BOOLEAN]
    BY DEF Free
  <2>3. desc \in [Idx -> [sdl : SUBSET {0, 1}, ls : BOOLEAN]]
    BY <1>1 DEF TypeOK
  <2>4. desc' \in [Idx -> [sdl : SUBSET {0, 1}, ls : BOOLEAN]]
    BY <1>2, <2>2, <2>3
  <2>5. faults' \in SUBSET {"clean unmap", "unwind unmap", "reset unmap", "double free", "stale frags"}
    BY <1>1 DEF TypeOK, FragFaults
  <2> QED
    BY <1>1, <1>3, <2>1, <2>4, <2>5 DEF TypeOK, Idx, Mapping
<1> QED
  BY <1>3, <1>4, <1>5, <1>6, UseUnchanged

\* The unwind of a scatter-gather packet names exactly the segments that were
\* mapped for it, and none of a packet in the ring.
LEMMA UnwindExact ==
  ASSUME TxIInv, NEW n \in 1 .. MaxFrags, NEW f \in 1 .. n, HasRoom(n),
         NEW names,
         names = UNION {Unmaps(i, SgDesc(Dist(cpu_idx, i), f - 1),
                                  SgMap(Dist(cpu_idx, i), f - 1)) : i \in SgIdx(n)}
  PROVE  /\ names = SgMapped(f - 1)
         /\ (mapped \cup SgMapped(f - 1)) \ names = mapped
<1>1. IndexInv /\ LiveMaps /\ n \in Nat /\ f - 1 \in 0 .. n
  <2>1. n \in Nat /\ f - 1 \in 0 .. n
    OBVIOUS
  <2> QED
    BY <2>1 DEF TxIInv
<1>2. Needed(n) \in 1 .. N - 1 /\ Used \cap SgIdx(n) = {}
  BY <1>1, NewIsUnused
<1>3. names = SgMapped(f - 1)
  <2>1. Needed(n) < N /\ cpu_idx \in Idx
    BY <1>1, <1>2, RingAssumption DEF IndexInv
  <2> QED
    BY <1>1, <2>1, SegmentsNamed
<1>4. mapped \cap names = {}
  <2> DEFINE D == [i \in SgIdx(n) |-> SgDesc(Dist(cpu_idx, i), f - 1)]
             M == [i \in SgIdx(n) |-> SgMap(Dist(cpu_idx, i), f - 1)]
  <2>1. \A i \in SgIdx(n) :
          Unmaps(i, D[i], M[i]) = Unmaps(i, SgDesc(Dist(cpu_idx, i), f - 1),
                                            SgMap(Dist(cpu_idx, i), f - 1))
    OBVIOUS
  <2> HIDE DEF D, M
  <2>2. names = MapsOf(SgIdx(n), D, M)
    BY <2>1 DEF MapsOf
  <2> QED
    BY <1>1, <1>2, <2>2, MapsDisjoint DEF LiveMaps
<1> QED
  BY <1>3, <1>4

LEMMA UnwindKeeps ==
  ASSUME TxIInv, IndexInv', NEW b \in 0 .. MaxBurst - 1, NEW n \in 1 .. MaxFrags,
         NEW f \in 1 .. n, xmit_unwind_sg(n, f, b)
  PROVE  TxIInv' /\ BqlDrift' = BqlDrift
<1> DEFINE live == mapped \cup SgMapped(f - 1)
           names == UNION {Unmaps(i, SgDesc(Dist(cpu_idx, i), f - 1),
                                     SgMap(Dist(cpu_idx, i), f - 1)) : i \in SgIdx(n)}
<1>1. /\ StackSends(b) /\ HasRoom(n)
      /\ mapped' = live \ names
      /\ \E fs \in FragFaults : faults' = fs \cup Fault("unwind unmap", names, live)
      /\ map' = [i \in Idx |-> IF i \in SgIdx(n) THEN {} ELSE map[i]]
      /\ skb' = [i \in Idx |-> IF i \in SgIdx(n) THEN NoSkb ELSE skb[i]]
      /\ desc' = [i \in Idx |-> IF i \in SgIdx(n) THEN Free ELSE desc[i]]
      /\ burst' = b
      /\ UNCHANGED <<cpu_idx, clean_idx, tx_cpu_idx, tx_dma_idx, drv_xoff, bql, link>>
  BY DEF xmit_unwind_sg, Unwind
<1>2. names = SgMapped(f - 1) /\ live \ names = mapped
  BY <1>1, UnwindExact
<1> HIDE DEF names
<1>3. Fault("unwind unmap", names, live) = {}
  BY <1>2 DEF Fault
<1> HIDE DEF live
<1>4. mapped' = mapped /\ faults' \in FragFaults
  BY <1>1, <1>2, <1>3
<1> QED
  BY <1>1, <1>4, BlankKeeps

LEMMA HeadFailKeeps ==
  ASSUME TxIInv, IndexInv', NEW b \in 0 .. MaxBurst - 1, NEW n \in 1 .. MaxFrags,
         xmit_sg_head_fails(n, b)
  PROVE  TxIInv' /\ BqlDrift' = BqlDrift
<1>1. /\ HasRoom(n)
      /\ map' = [i \in Idx |-> IF i \in SgIdx(n) THEN {} ELSE map[i]]
      /\ skb' = [i \in Idx |-> IF i \in SgIdx(n) THEN NoSkb ELSE skb[i]]
      /\ burst' = b
      /\ UNCHANGED <<cpu_idx, clean_idx, tx_cpu_idx, tx_dma_idx, desc, mapped,
                     drv_xoff, bql, link, faults>>
  BY DEF xmit_sg_head_fails
<1>2. faults' \in FragFaults /\ desc' \in {desc, [i \in Idx |-> IF i \in SgIdx(n) THEN Free ELSE desc[i]]}
  BY <1>1 DEF FragFaults
<1> QED
  BY <1>1, <1>2, BlankKeeps

LEMMA QuietKeeps ==
  ASSUME TxIInv, IndexInv', HwSend \/ stop
  PROVE  TxIInv' /\ BqlDrift' = BqlDrift
<1>1. /\ UNCHANGED <<cpu_idx, clean_idx, tx_cpu_idx, skb, desc, map, mapped, bql, burst, faults>>
      /\ drv_xoff' \in {TRUE, drv_xoff}
      /\ link # "down" /\ link' \in {link, "stopping"}
  BY DEF HwSend, stop, ring
<1>2. TypeOK /\ OnlyKnownFaults
  BY DEF TxIInv
<1>3. OnlyKnownFaults'
  BY <1>1, <1>2 DEF OnlyKnownFaults
<1>4. TypeOK'
  <2>1. tx_dma_idx' \in Idx
    BY DEF IndexInv, Idx
  <2>2. drv_xoff' \in BOOLEAN /\ link' \in {"down", "up", "stopping"}
    BY <1>1, <1>2 DEF TypeOK
  <2> QED
    BY <1>1, <1>2, <2>1, <2>2 DEF TypeOK, Idx, Mapping
<1> QED
  BY <1>1, <1>3, <1>4, UseUnchanged

\* The poll: the descriptors it cleans are in use, their mappings are live, and
\* it reports one packet for each skb that leaves the ring.
LEMMA CleanKeepsAll ==
  ASSUME TxIInv, IndexInv', NEW budget \in Nat, tx_clean_q(budget)
  PROVE  TxIInv' /\ BqlDrift' = BqlDrift
<1>1. /\ IndexInv /\ TypeOK /\ LiveMaps /\ LastsInv /\ SkbsInv
      /\ BqlCovers /\ ThrottledIsVisible /\ OnlyKnownFaults
  BY DEF TxIInv
<1>2. /\ cpu_idx \in Idx /\ clean_idx \in Idx /\ tx_cpu_idx \in Idx /\ tx_dma_idx \in Idx
      /\ link # "down"
      /\ UNCHANGED <<cpu_idx, tx_cpu_idx, tx_dma_idx, desc, burst, link>>
  BY DEF tx_clean_q, TxIInv, IndexInv
<1> DEFINE Gone(m) == Window(clean_idx, Nth(clean_idx, m))
<1>3. PICK m \in 0 .. Dist(clean_idx, tx_dma_idx) :
        /\ mapped' = mapped \ MapsOf(Gone(m), desc, map)
        /\ faults' = faults \cup Fault("clean unmap", MapsOf(Gone(m), desc, map), mapped)
        /\ map' = [i \in Idx |-> IF i \in Gone(m) THEN {} ELSE map[i]]
        /\ skb' = [i \in Idx |-> IF i \in Completed(m) THEN NoSkb ELSE skb[i]]
        /\ clean_idx' = Nth(clean_idx, m)
        /\ bql' = bql - Cardinality(Completed(m))
        /\ drv_xoff' = (drv_xoff /\ ~ Wakes(Avail(Nth(clean_idx, m), cpu_idx)))
  BY DEF tx_clean_q, dtx, tx_completed_queue, MapsOf
<1> DEFINE gone == Gone(m)
           C == Completed(m)
<1>4. m \in 0 .. Dist(clean_idx, cpu_idx) /\ m \in 0 .. Dist(clean_idx, tx_cpu_idx)
  <2>1. /\ Dist(clean_idx, tx_dma_idx) \in Nat /\ Dist(clean_idx, tx_cpu_idx) \in Nat
        /\ Dist(clean_idx, cpu_idx) \in Nat
    BY <1>2, DistType
  <2> QED
    BY <2>1, <1>1, <1>2 DEF IndexInv, IndexOrder
<1>5. gone \subseteq Used /\ Used' = Used \ gone /\ Used \in SUBSET Idx
  <2>1. Used \in SUBSET Idx
    BY DEF Used, Window
  <2>2. Used' = Window(clean_idx', cpu_idx)
    BY <1>2, NextNotions
  <2>3. /\ Window(clean_idx, Nth(clean_idx, m)) \subseteq Window(clean_idx, cpu_idx)
        /\ Window(Nth(clean_idx, m), cpu_idx) =
             Window(clean_idx, cpu_idx) \ Window(clean_idx, Nth(clean_idx, m))
    BY <1>2, <1>4, WindowShrinks
  <2>4. clean_idx' = Nth(clean_idx, m)
    BY <1>3
  <2> QED
    BY <2>1, <2>2, <2>3, <2>4 DEF Used
<1>6. C = {i \in gone : desc[i].ls /\ skb[i] # NoSkb}
  BY DEF Completed
<1> HIDE DEF C, Gone
<1>7. C \in SUBSET Idx /\ (\A i \in C : skb[i] # NoSkb)
  BY <1>5, <1>6
<1>8. /\ skb \in [Idx -> Skbs \cup {NoSkb}] /\ map \in [Idx -> SUBSET {0, 1}]
      /\ bql \in Nat /\ mapped \in SUBSET Mapping
  BY <1>1 DEF TypeOK
<1>9. /\ skb' \in [Idx -> Skbs \cup {NoSkb}]
      /\ \A i \in Idx : skb'[i] = IF i \in C THEN NoSkb ELSE skb[i]
  BY <1>3, <1>8 DEF C
<1>10. /\ map' \in [Idx -> SUBSET {0, 1}]
       /\ \A i \in Idx \ gone : map'[i] = map[i]
  BY <1>3, <1>8
<1>11. \A i \in Idx : i \notin gone => skb'[i] = skb[i]
  BY <1>6, <1>9
<1>12. LiveMaps'
  <2>1. mapped \ MapsOf(gone, desc, map) = MapsOf(Used \ gone, desc, map)
    BY <1>1, <1>5, MapsRest DEF LiveMaps
  <2>2. MapsOf(Used \ gone, desc, map) = MapsOf(Used \ gone, desc', map')
    <3>1. \A i \in Used \ gone : desc[i] = desc'[i] /\ map[i] = map'[i]
      BY <1>2, <1>5, <1>10
    <3> QED
      BY <3>1, MapsAgree
  <2> QED
    BY <1>3, <1>5, <2>1, <2>2, NextNotions DEF LiveMaps
<1>13. faults' = faults
  <2>1. MapsOf(gone, desc, map) \subseteq mapped
    BY <1>1, <1>5, MapsRest DEF LiveMaps
  <2> QED
    BY <1>3, <2>1 DEF Fault
<1>14. LastsInv'
  <2>1. ASSUME NEW x \in Idx, x \in Used', desc[x].ls, skb[x] # NoSkb
        PROVE  desc'[x].ls /\ skb'[x] # NoSkb
    BY <1>2, <1>5, <1>11, <2>1
  <2>2. ASSUME cpu_idx # clean_idx'
        PROVE  desc'[Nth(cpu_idx, N - 1)].ls /\ skb'[Nth(cpu_idx, N - 1)] # NoSkb
    <3> DEFINE x == Nth(cpu_idx, N - 1)
    <3>1. cpu_idx # clean_idx
      <4>1. ASSUME cpu_idx = clean_idx PROVE FALSE
        <5>1. Used' = {}
          BY <1>2, <1>5, <4>1, WindowEmpty DEF Used
        <5>2. x \in Window(clean_idx', cpu_idx)
          <6>1. clean_idx' \in Idx
            BY DEF IndexInv, Idx
          <6> QED
            BY <6>1, <1>2, <2>2, OneBefore
        <5> QED
          BY <5>1, <5>2, <1>2, NextNotions
      <4> QED
        BY <4>1
    <3>2. desc[x].ls /\ skb[x] # NoSkb /\ x \in Idx
      BY <1>1, <1>5, <3>1, LastIsUsed DEF LastsInv, LastOf
    <3>3. x \in Used'
      <4>1. clean_idx' \in Idx
        BY DEF IndexInv, Idx
      <4>2. x \in Window(clean_idx', cpu_idx)
        BY <4>1, <1>2, <2>2, OneBefore
      <4> QED
        BY <4>2, <1>2, NextNotions
    <3> QED
      BY <2>1, <3>2, <3>3
  <2>3. ASSUME tx_cpu_idx # clean_idx'
        PROVE  desc'[Nth(tx_cpu_idx, N - 1)].ls /\ skb'[Nth(tx_cpu_idx, N - 1)] # NoSkb
    <3> DEFINE x == Nth(tx_cpu_idx, N - 1)
    <3>1. clean_idx' \in Idx
      BY DEF IndexInv, Idx
    <3>2. x \in Window(clean_idx', tx_cpu_idx)
      BY <3>1, <1>2, <2>3, OneBefore
    <3>3. x \in Idx /\ x \in Used'
      <4>1. /\ Dist(clean_idx', tx_cpu_idx) <= Dist(clean_idx', cpu_idx)
        <5>1. IndexOrder' /\ link' # "down"
          BY <1>2 DEF IndexInv
        <5> QED
          BY <5>1, <1>2 DEF IndexOrder, Dist
      <4>2. x \in Window(clean_idx', cpu_idx)
        BY <3>1, <3>2, <4>1, <1>2, DistType DEF Window
      <4> QED
        BY <4>2, <1>2, NextNotions DEF Window
    <3>4. tx_cpu_idx # clean_idx
      <4>1. ASSUME tx_cpu_idx = clean_idx PROVE FALSE
        <5>1. Window(clean_idx', tx_cpu_idx) = Window(clean_idx, tx_cpu_idx) \ gone
          <6>1. Window(Nth(clean_idx, m), tx_cpu_idx) =
                  Window(clean_idx, tx_cpu_idx) \ Window(clean_idx, Nth(clean_idx, m))
            BY <1>2, <1>4, WindowShrinks
          <6>2. clean_idx' = Nth(clean_idx, m)
            BY <1>3
          <6> QED
            BY <6>1, <6>2 DEF Gone
        <5>2. Window(clean_idx, tx_cpu_idx) = {}
          BY <1>2, <4>1, WindowEmpty
        <5> QED
          BY <3>2, <5>1, <5>2
      <4> QED
        BY <4>1
    <3>5. desc[x].ls /\ skb[x] # NoSkb
      BY <1>1, <1>2, <3>4 DEF LastsInv, LastOf
    <3> QED
      BY <2>1, <3>3, <3>5
  <2> QED
    BY <1>2, <2>2, <2>3, NextLasts
<1>15. SkbsInv'
  <2>1. \A i \in Idx : skb'[i] # NoSkb => i \in Used' /\ desc'[i].ls
    <3>1. ASSUME NEW i \in Idx, skb'[i] # NoSkb PROVE i \in Used' /\ desc'[i].ls
      <4>1. i \notin C /\ skb[i] # NoSkb
        BY <1>9, <3>1
      <4>2. i \in Used /\ desc[i].ls
        BY <1>1, <4>1 DEF SkbsInv
      <4>3. i \notin gone
        BY <1>6, <4>1, <4>2
      <4> QED
        BY <1>2, <1>5, <4>2, <4>3
    <3> QED
      BY <3>1
  <2>2. \A i, j \in Idx : skb'[i] # NoSkb /\ skb'[i] = skb'[j] => i = j
    BY <1>1, <1>9 DEF SkbsInv
  <2> QED
    BY <2>1, <2>2, NextSkbs
<1>16. /\ Cardinality(C) \in Nat
       /\ Cardinality(SkbsOf(skb')) = Cardinality(SkbsOf(skb)) - Cardinality(C)
  <2>1. \A i, j \in Idx : skb[i] # NoSkb /\ skb[i] = skb[j] => i = j
    BY <1>1 DEF SkbsInv
  <2> QED
    BY <2>1, <1>7, <1>8, <1>9, SkbsRemove
<1>17. Cardinality(SkbsOf(skb)) \in Nat /\ Cardinality(SkbsOf(skb')) \in Nat
  BY <1>8, <1>9, SkbsFinite
<1>18. bql' = bql - Cardinality(C)
  BY <1>3 DEF C
<1>19. bql' \in Nat /\ BqlCovers'
  <2>1. Cardinality(SkbsOf(skb)) <= bql
    BY <1>1 DEF BqlCovers
  <2>2. bql' \in Nat /\ Cardinality(SkbsOf(skb')) <= bql'
    BY <2>1, <1>8, <1>16, <1>17, <1>18
  <2> QED
    BY <2>2, NextNotions DEF BqlCovers
<1>20. BqlDrift' = BqlDrift
  <2>1. BqlDrift = bql - Cardinality(SkbsOf(skb))
    BY DEF BqlDrift, InRing, SkbsOf
  <2>2. BqlDrift' = bql' - Cardinality(SkbsOf(skb'))
    BY DEF BqlDrift, InRing, SkbsOf, Idx
  <2> QED
    BY <2>1, <2>2, <1>8, <1>16, <1>17, <1>18
<1>21. TypeOK'
  <2>1. mapped' \in SUBSET Mapping
    BY <1>3, <1>8
  <2>2. drv_xoff' \in BOOLEAN
    BY <1>3
  <2>3. clean_idx' \in Idx
    BY DEF IndexInv, Idx
  <2> QED
    BY <1>1, <1>2, <1>9, <1>10, <1>13, <1>19, <2>1, <2>2, <2>3 DEF TypeOK, Idx, Mapping
<1>22. ThrottledIsVisible'
  <2>1. bql' <= bql
    BY <1>8, <1>16, <1>18
  <2>2. BqlLimit \in Nat
    BY PacketAssumption
  <2> QED
    BY <1>1, <1>2, <1>8, <1>19, <2>1, <2>2 DEF ThrottledIsVisible
<1>23. DownEmpty' /\ OnlyKnownFaults'
  BY <1>1, <1>2, <1>13 DEF DownEmpty, OnlyKnownFaults
<1> QED
  BY <1>12, <1>14, <1>15, <1>19, <1>20, <1>21, <1>22, <1>23 DEF TxIInv

\* ndo_open: an empty ring, which the byte queue limit may still count packets
\* of.
LEMMA OpenKeeps ==
  ASSUME TxIInv, IndexInv', open
  PROVE  TxIInv' /\ BqlDrift' = BqlDrift
<1>1. /\ link = "down"
      /\ cpu_idx' = 0 /\ clean_idx' = 0 /\ tx_cpu_idx' = 0 /\ tx_dma_idx' = 0
      /\ skb' = [i \in Idx |-> NoSkb]
      /\ desc' = [i \in Idx |-> Free]
      /\ map' = [i \in Idx |-> {}]
      /\ drv_xoff' = FALSE
      /\ link' = "up"
      /\ UNCHANGED <<mapped, bql, burst, faults>>
  BY DEF open
<1>2. /\ IndexInv /\ TypeOK /\ DownEmpty /\ LiveMaps /\ SkbsInv
      /\ BqlCovers /\ OnlyKnownFaults
  BY DEF TxIInv
<1>3. 0 \in Idx /\ clean_idx \in Idx
  BY <1>2, RingAssumption DEF IndexInv, Idx
<1>4. Used = {} /\ Used' = {}
  <2>1. cpu_idx = clean_idx
    BY <1>1, <1>2 DEF DownEmpty
  <2>2. Window(clean_idx, clean_idx) = {} /\ Window(0, 0) = {}
    BY <1>3, WindowEmpty
  <2> QED
    BY <2>1, <2>2, <1>1, NextNotions DEF Used
<1>5. skb' = skb
  <2>1. \A i \in Idx : skb[i] = NoSkb
    BY <1>2, <1>4 DEF SkbsInv
  <2>2. skb \in [Idx -> Skbs \cup {NoSkb}]
    BY <1>2 DEF TypeOK
  <2> QED
    BY <1>1, <2>1, <2>2
<1>6. LiveMaps'
  BY <1>1, <1>2, <1>4, NextNotions DEF LiveMaps, MapsOf
<1>7. SkbsInv'
  BY <1>1, NextSkbs
<1>8. LastsInv' /\ DownEmpty' /\ ThrottledIsVisible'
  BY <1>1 DEF LastsInv, DownEmpty, ThrottledIsVisible
<1>9. BqlCovers' /\ BqlDrift' = BqlDrift
  BY <1>1, <1>2, <1>5 DEF BqlCovers, BqlDrift, InRing, SkbsOf, Idx
<1>10. OnlyKnownFaults'
  BY <1>1, <1>2 DEF OnlyKnownFaults
<1>11. TypeOK'
  <2>1. Free \in [sdl : SUBSET {0, 1}, ls : BOOLEAN]
    BY DEF Free
  <2>2. desc' \in [Idx -> [sdl : SUBSET {0, 1}, ls : BOOLEAN]]
    BY <1>1, <2>1
  <2>3. map' \in [Idx -> SUBSET {0, 1}]
    BY <1>1
  <2> QED
    BY <1>1, <1>2, <1>3, <1>5, <2>2, <2>3 DEF TypeOK, Idx, Mapping
<1> QED
  BY <1>6, <1>7, <1>8, <1>9, <1>10, <1>11 DEF TxIInv

\* The ring reset frees every packet and releases every mapping; the byte queue
\* limit is not told.
LEMMA ResetKeeps ==
  ASSUME TxIInv, IndexInv', tx_ring_reset
  PROVE  TxIInv' /\ BqlDrift' >= BqlDrift /\ link = "stopping" /\ link' = "down"
<1>1. /\ link = "stopping"
      /\ mapped' = mapped \ MapsOf(Idx, desc, map)
      /\ faults' = faults \cup Fault("reset unmap", MapsOf(Idx, desc, map), mapped)
      /\ skb' = [i \in Idx |-> NoSkb]
      /\ map' = [i \in Idx |-> {}]
      /\ desc' = [i \in Idx |-> Free]
      /\ cpu_idx' = 0 /\ clean_idx' = 0 /\ tx_cpu_idx' = 0
      /\ link' = "down"
      /\ UNCHANGED <<tx_dma_idx, drv_xoff, bql, burst>>
  BY DEF tx_ring_reset, MapsOf
<1>2. /\ IndexInv /\ TypeOK /\ LiveMaps /\ SkbsInv /\ BqlCovers /\ OnlyKnownFaults
  BY DEF TxIInv
<1>3. 0 \in Idx
  BY RingAssumption DEF Idx
<1>4. Used' = {} /\ Used \subseteq Idx
  BY <1>1, <1>3, WindowEmpty, NextNotions DEF Used, Window
<1>5. LiveMaps'
  <2>1. MapsOf(Used, desc, map) \subseteq MapsOf(Idx, desc, map)
    BY <1>4, MapsRest
  <2>2. mapped' = {}
    BY <1>1, <1>2, <2>1 DEF LiveMaps
  <2>3. MapsOf(Used', desc', map') = {}
    BY <1>4 DEF MapsOf
  <2> QED
    BY <2>2, <2>3, NextNotions DEF LiveMaps
<1>6. SkbsInv'
  BY <1>1, NextSkbs
<1>7. LastsInv' /\ DownEmpty' /\ ThrottledIsVisible'
  BY <1>1 DEF LastsInv, DownEmpty, ThrottledIsVisible
<1>8. SkbsOf(skb') = {} /\ Cardinality(SkbsOf(skb')) = 0
  BY <1>1, FS_EmptySet DEF SkbsOf
<1>9. bql \in Nat /\ bql' = bql /\ Cardinality(SkbsOf(skb)) \in Nat
  <2>1. bql \in Nat /\ skb \in [Idx -> Skbs \cup {NoSkb}]
    BY <1>2 DEF TypeOK
  <2> QED
    BY <2>1, <1>1, SkbsFinite
<1>10. BqlCovers'
  <2>1. Cardinality(SkbsOf(skb')) <= bql'
    BY <1>8, <1>9
  <2> QED
    BY <2>1, NextNotions DEF BqlCovers
<1>11. BqlDrift' >= BqlDrift
  <2>1. BqlDrift = bql - Cardinality(SkbsOf(skb))
    BY DEF BqlDrift, InRing, SkbsOf
  <2>2. BqlDrift' = bql' - Cardinality(SkbsOf(skb'))
    BY DEF BqlDrift, InRing, SkbsOf, Idx
  <2> HIDE DEF BqlDrift
  <2> QED
    BY <2>1, <2>2, <1>8, <1>9
<1>12. faults' \subseteq faults \cup {"reset unmap"}
  BY <1>1 DEF Fault
<1>13. OnlyKnownFaults'
  BY <1>2, <1>12 DEF OnlyKnownFaults
<1>14. TypeOK'
  <2>1. desc' \in [Idx -> [sdl : SUBSET {0, 1}, ls : BOOLEAN]]
    <3>1. Free \in [sdl : SUBSET {0, 1}, ls : BOOLEAN]
      BY DEF Free
    <3> QED
      BY <1>1, <3>1
  <2>2. map' \in [Idx -> SUBSET {0, 1}] /\ skb' \in [Idx -> Skbs \cup {NoSkb}]
    BY <1>1
  <2>3. mapped' \in SUBSET Mapping
    BY <1>1, <1>2 DEF TypeOK
  <2>4. faults' \in SUBSET {"clean unmap", "unwind unmap", "reset unmap", "double free", "stale frags"}
    BY <1>2, <1>12 DEF TypeOK
  <2>5. cpu_idx' \in Idx /\ clean_idx' \in Idx /\ tx_cpu_idx' \in Idx /\ tx_dma_idx' \in Idx
    BY DEF IndexInv, Idx
  <2>6. bql' \in Nat /\ drv_xoff' \in BOOLEAN /\ burst' \in 0 .. MaxBurst - 1
    BY <1>1, <1>2 DEF TypeOK
  <2> QED
    BY <1>1, <2>1, <2>2, <2>3, <2>4, <2>5, <2>6 DEF TypeOK, Idx, Mapping
<1> QED
  BY <1>1, <1>5, <1>6, <1>7, <1>10, <1>11, <1>13, <1>14 DEF TxIInv

LEMMA XmitKeepsAll ==
  ASSUME TxIInv, start_xmit
  PROVE  TxIInv' /\ BqlDrift' = BqlDrift
<1>1. IndexInv'
  BY XmitKeeps DEF TxIInv
<1>2. PICK b \in 0 .. MaxBurst - 1 :
        \/ \E s \in Skbs :
             xmit_linear(s, b) \/ (\E n \in 1 .. MaxFrags : xmit_sg(s, n, b))
        \/ xmit_drop(b) \/ xmit_drop_push_failed(b)
        \/ \E n \in 0 .. MaxFrags : xmit_busy(n, b)
        \/ \E n \in 1 .. MaxFrags :
             xmit_sg_head_fails(n, b) \/ (\E f \in 1 .. n : xmit_unwind_sg(n, f, b))
  BY DEF start_xmit
<1>3. ASSUME NEW s \in Skbs, xmit_linear(s, b) PROVE TxIInv' /\ BqlDrift' = BqlDrift
  BY <1>1, <1>3, LinearKeeps
<1>4. ASSUME NEW s \in Skbs, NEW n \in 1 .. MaxFrags, xmit_sg(s, n, b)
      PROVE  TxIInv' /\ BqlDrift' = BqlDrift
  BY <1>1, <1>4, SgKeeps
<1>5. CASE xmit_drop(b) \/ xmit_drop_push_failed(b)
  <2>1. 0 \in Nat
    OBVIOUS
  <2> QED
    BY <1>1, <1>5, <2>1, RefuseKeeps
<1>6. ASSUME NEW n \in 0 .. MaxFrags, xmit_busy(n, b) PROVE TxIInv' /\ BqlDrift' = BqlDrift
  <2>1. n \in Nat
    OBVIOUS
  <2> QED
    BY <1>1, <1>6, <2>1, RefuseKeeps
<1>7. ASSUME NEW n \in 1 .. MaxFrags, xmit_sg_head_fails(n, b)
      PROVE  TxIInv' /\ BqlDrift' = BqlDrift
  BY <1>1, <1>7, HeadFailKeeps
<1>8. ASSUME NEW n \in 1 .. MaxFrags, NEW f \in 1 .. n, xmit_unwind_sg(n, f, b)
      PROVE  TxIInv' /\ BqlDrift' = BqlDrift
  BY <1>1, <1>8, UnwindKeeps
<1> QED
  BY <1>2, <1>3, <1>4, <1>5, <1>6, <1>7, <1>8

\* What a step does to the byte queue limit's count.
DriftStep == IF link = "stopping" /\ link' = "down" THEN BqlDrift' >= BqlDrift
                                                    ELSE BqlDrift' = BqlDrift

LEMMA TxStep ==
  ASSUME TxIInv, [Next]_vars
  PROVE  TxIInv' /\ DriftStep
<1>1. IndexInv /\ bql \in Nat /\ Cardinality(SkbsOf(skb)) \in Nat
  BY SkbsFinite DEF TxIInv, TypeOK
<1>2. BqlDrift \in Int /\ BqlDrift = bql - Cardinality(SkbsOf(skb))
  BY <1>1 DEF BqlDrift, InRing, SkbsOf
<1>3. ASSUME TxIInv', BqlDrift' = BqlDrift PROVE TxIInv' /\ DriftStep
  <2>1. BqlDrift' >= BqlDrift
    BY <1>2, <1>3
  <2> QED
    BY <1>3, <2>1 DEF DriftStep
<1>4. CASE start_xmit
  BY <1>3, <1>4, XmitKeepsAll
<1>5. CASE HwSend
  BY <1>1, <1>3, <1>5, HwSendKeeps, QuietKeeps
<1>6. CASE tx_poll
  <2>1. PICK budget \in 1 .. Quantum : tx_clean_q(budget)
    BY <1>6 DEF tx_poll
  <2>2. budget \in Nat
    BY PollAssumption
  <2>3. IndexInv'
    BY <1>1, <2>1, <2>2, CleanKeeps
  <2> QED
    BY <1>3, <2>1, <2>2, <2>3, CleanKeepsAll
<1>7. CASE open
  <2>1. IndexInv'
    BY <1>1, <1>7, RingAssumption DEF open, IndexInv, Occupancy, IndexOrder, Dist, Idx
  <2> QED
    BY <1>3, <1>7, <2>1, OpenKeeps
<1>8. CASE stop
  <2>1. IndexInv'
    BY <1>1, <1>8, IndicesUnchanged DEF stop, ring
  <2> QED
    BY <1>3, <1>8, <2>1, QuietKeeps
<1>9. CASE tx_ring_reset
  <2>1. IndexInv'
    BY <1>1, <1>9, IndexReset
  <2> QED
    BY <1>9, <2>1, ResetKeeps DEF DriftStep
<1>10. CASE UNCHANGED vars
  <2>1. IndexInv'
    BY <1>1, <1>10, IndicesUnchanged DEF vars, IndexInv, Occupancy, IndexOrder, Dist, Idx
  <2>2. TypeOK' /\ OnlyKnownFaults'
    BY <1>10 DEF TxIInv, TypeOK, OnlyKnownFaults, vars, Idx, Mapping
  <2> QED
    BY <1>3, <1>10, <2>1, <2>2, UseUnchanged DEF vars
<1> QED
  BY <1>4, <1>5, <1>6, <1>7, <1>8, <1>9, <1>10 DEF Next

LEMMA TxInit ==
  ASSUME Init
  PROVE  TxIInv
<1>1. IndexInv
  BY ZeroIndices, RingAssumption DEF Init, Idx
<1>2. clean_idx \in Idx /\ Used = {}
  <2>1. clean_idx \in Idx /\ cpu_idx = clean_idx
    BY <1>1 DEF Init, IndexInv
  <2> QED
    BY <2>1, WindowEmpty DEF Used
<1>3. LiveMaps
  BY <1>2 DEF Init, LiveMaps, MapsOf
<1>4. LastsInv /\ DownEmpty /\ SkbsInv /\ OnlyKnownFaults
  BY DEF Init, LastsInv, DownEmpty, SkbsInv, OnlyKnownFaults
<1>5. SkbsOf(skb) = {} /\ Cardinality(SkbsOf(skb)) = 0 /\ bql = 0
  BY FS_EmptySet DEF Init, SkbsOf
<1>6. BqlCovers
  BY <1>5 DEF BqlCovers
<1>7. ThrottledIsVisible
  BY DEF Init, ThrottledIsVisible
<1>8. TypeOK
  <2>1. desc \in [Idx -> [sdl : SUBSET {0, 1}, ls : BOOLEAN]]
    <3>1. Free \in [sdl : SUBSET {0, 1}, ls : BOOLEAN]
      BY DEF Free
    <3> QED
      BY <3>1 DEF Init
  <2>2. skb \in [Idx -> Skbs \cup {NoSkb}] /\ map \in [Idx -> SUBSET {0, 1}]
    BY DEF Init
  <2>3. burst \in 0 .. MaxBurst - 1
    <3>1. MaxBurst \in Nat \ {0}
      BY PacketAssumption
    <3> QED
      BY <3>1 DEF Init
  <2>4. bql \in Nat /\ drv_xoff \in BOOLEAN /\ link \in {"down", "up", "stopping"}
    BY DEF Init
  <2>5. mapped = {} /\ faults = {}
    BY DEF Init
  <2> QED
    BY <1>1, <2>1, <2>2, <2>3, <2>4, <2>5 DEF TypeOK, IndexInv
<1> QED
  BY <1>1, <1>3, <1>4, <1>6, <1>7, <1>8 DEF TxIInv

\* TxIInv is invariant: Init establishes it and every step of start_xmit, of
\* the engine, of the poll and of ndo_open and ndo_stop keeps it.
THEOREM TxInvariance == Spec => []TxIInv
<1>1. Init => TxIInv
  BY TxInit
<1>2. TxIInv /\ [Next]_vars => TxIInv'
  BY TxStep
<1> QED
  BY <1>1, <1>2, PTL DEF Spec

\* Whatever packets are sent, however many fragments fail to map and whenever
\* the poll runs, the live mappings are those of the descriptors in use.
THEOREM MappedExactlyAlways == Spec => []MappedExactly
<1>1. TxIInv => MappedExactly
  <2> SUFFICES ASSUME TxIInv PROVE MappedExactly
    OBVIOUS
  <2>1. mapped = UNION {Unmaps(i, desc[i], map[i]) : i \in Window(clean_idx, cpu_idx)}
    BY DEF TxIInv, LiveMaps, MapsOf, Used
  <2>2. ASSUME link = "down" PROVE mapped = {}
    <3>1. clean_idx \in Idx /\ cpu_idx = clean_idx
      BY <2>2 DEF TxIInv, IndexInv, DownEmpty
    <3>2. Window(clean_idx, cpu_idx) = {}
      BY <3>1, WindowEmpty
    <3> QED
      BY <2>1, <3>2
  <2> QED
    BY <2>1, <2>2 DEF MappedExactly
<1> QED
  BY <1>1, TxInvariance, PTL

\* Packets are whole in the ring, each skb is there once and in the part in
\* use, and the doorbell shows the engine whole packets only.
THEOREM PacketsWholeAlways == Spec => []PacketsWhole
<1>1. TxIInv => PacketsWhole
  <2> SUFFICES ASSUME TxIInv PROVE PacketsWhole
    OBVIOUS
  <2>1. IndexInv /\ LastsInv /\ SkbsInv
    BY DEF TxIInv
  <2>2. cpu_idx \in Idx /\ clean_idx \in Idx
    BY <2>1 DEF IndexInv
  <2>3. ASSUME NEW i \in Used
        PROVE  \E j \in Used : Dist(clean_idx, i) <= Dist(clean_idx, j) /\ LastOf(j)
    <3>1. i \in Idx /\ Dist(clean_idx, i) < Dist(clean_idx, cpu_idx)
      BY DEF Used, Window
    <3>2. Dist(clean_idx, i) \in 0 .. N - 1 /\ Dist(clean_idx, cpu_idx) \in 0 .. N - 1
      BY <2>2, <3>1, DistType
    <3>3. cpu_idx # clean_idx
      BY <2>2, <3>1, <3>2, DistZero
    <3>4. /\ Nth(cpu_idx, N - 1) \in Used
          /\ Dist(clean_idx, Nth(cpu_idx, N - 1)) = Dist(clean_idx, cpu_idx) - 1
      BY <2>1, <3>3, LastIsUsed
    <3>5. LastOf(Nth(cpu_idx, N - 1))
      BY <2>1, <3>3 DEF LastsInv
    <3>6. Dist(clean_idx, i) <= Dist(clean_idx, cpu_idx) - 1
      BY <3>1, <3>2, RingAssumption
    <3> QED
      BY <3>4, <3>5, <3>6
  <2>4. tx_cpu_idx # clean_idx /\ link # "down" => LastOf(Nth(tx_cpu_idx, N - 1))
    BY <2>1 DEF LastsInv
  <2> QED
    BY <2>1, <2>3, <2>4 DEF PacketsWhole, SkbsInv, Used, LastOf
<1> QED
  BY <1>1, TxInvariance, PTL

\* Completion and unwinding never release what is not mapped, or with another
\* kind: what can go wrong is what OnlyKnownFaults names.
THEOREM OnlyKnownFaultsAlways == Spec => []OnlyKnownFaults
<1>1. TxIInv => OnlyKnownFaults
  BY DEF TxIInv
<1> QED
  BY <1>1, TxInvariance, PTL

\* The byte queue limit never holds the stack back over packets the engine was
\* not shown, for every limit and burst length.
THEOREM ThrottledIsVisibleAlways == Spec => []ThrottledIsVisible
<1>1. TxIInv => ThrottledIsVisible
  BY DEF TxIInv
<1> QED
  BY <1>1, TxInvariance, PTL

\* The byte queue limit's count and the ring's packets drift apart at the ring
\* reset only, and there upwards.
THEOREM BqlDriftsAtResetOnlyAlways == Spec => BqlDriftsAtResetOnly
<1>1. TxIInv /\ [Next]_vars =>
        [IF link = "stopping" /\ link' = "down" THEN BqlDrift' >= BqlDrift
                                                ELSE BqlDrift' = BqlDrift]_vars
  BY TxStep DEF DriftStep
<1> QED
  BY <1>1, TxInvariance, PTL DEF Spec, BqlDriftsAtResetOnly

\* The poll finds nothing to clean in a stranded ring, and too little room.
LEMMA PollOnStranded ==
  ASSUME IndexInv, Stranded, NEW budget \in Nat, tx_clean_q(budget)
  PROVE  Stranded'
<1>1. /\ cpu_idx \in Idx /\ clean_idx \in Idx /\ tx_cpu_idx \in Idx /\ tx_dma_idx \in Idx
      /\ Dist(clean_idx, tx_dma_idx) <= Dist(clean_idx, tx_cpu_idx)
  BY DEF IndexInv, IndexOrder, Stranded
<1>2. Dist(clean_idx, tx_cpu_idx) = 0
  BY <1>1, DistZero DEF Stranded
<1>3. Dist(clean_idx, tx_dma_idx) = 0
  BY <1>1, <1>2, DistType, RingAssumption
<1>4. /\ clean_idx' = Nth(clean_idx, 0)
      /\ drv_xoff' = (drv_xoff /\ ~ Wakes(Avail(Nth(clean_idx, 0), cpu_idx)))
      /\ UNCHANGED <<cpu_idx, tx_cpu_idx, burst, link>>
  <2>1. PICK m \in 0 .. Dist(clean_idx, tx_dma_idx) :
          /\ clean_idx' = Nth(clean_idx, m)
          /\ drv_xoff' = (drv_xoff /\ ~ Wakes(Avail(Nth(clean_idx, m), cpu_idx)))
    BY DEF tx_clean_q, dtx
  <2>2. m = 0
    BY <1>3
  <2> QED
    BY <2>1, <2>2 DEF tx_clean_q
<1>5. Nth(clean_idx, 0) = clean_idx
  BY <1>1, NthCases, RingAssumption DEF Idx
<1>6. Avail(clean_idx, cpu_idx) < Wake /\ Avail(clean_idx, cpu_idx) \in Int
  BY <1>1, RingAssumption DEF Stranded, Avail, Idx
<1>7. ~ Wakes(Avail(clean_idx, cpu_idx))
  BY <1>6, RingAssumption DEF Wakes
<1> QED
  BY <1>4, <1>5, <1>7 DEF Stranded, Avail

\* A queue stranded by a burst that filled the ring before its doorbell stays
\* stopped until the interface goes down, whatever engine, poll and stack do.
THEOREM StrandedForGoodAlways == Spec => StrandedForGood
<1> DEFINE A == Stranded => Stranded' \/ link' = "stopping"
<1>1. IndexInv /\ [Next]_vars => [A]_vars
  <2> SUFFICES ASSUME IndexInv, Next, Stranded PROVE Stranded' \/ link' = "stopping"
    OBVIOUS
  <2>1. link = "up" /\ drv_xoff /\ clean_idx = tx_cpu_idx
    BY DEF Stranded
  <2>2. ~ start_xmit
    BY <2>1 DEF start_xmit, xmit_linear, xmit_sg, xmit_drop, xmit_drop_push_failed,
       xmit_busy, xmit_sg_head_fails, xmit_unwind_sg, StackSends
  <2>3. ~ HwSend
    <3>1. /\ clean_idx \in Idx /\ tx_cpu_idx \in Idx /\ tx_dma_idx \in Idx
          /\ Dist(clean_idx, tx_dma_idx) <= Dist(clean_idx, tx_cpu_idx)
      BY <2>1 DEF IndexInv, IndexOrder
    <3>2. Dist(clean_idx, tx_dma_idx) = 0
      BY <2>1, <3>1, DistZero, DistType, RingAssumption
    <3> QED
      BY <2>1, <3>1, <3>2, DistZero DEF HwSend
  <2>4. CASE tx_poll
    BY <2>4, PollOnStranded, PollAssumption DEF tx_poll
  <2>5. ~ open /\ ~ tx_ring_reset
    BY <2>1 DEF open, tx_ring_reset
  <2>6. CASE stop
    BY <2>6 DEF stop
  <2> QED
    BY <2>2, <2>3, <2>4, <2>5, <2>6 DEF Next
<1> QED
  BY <1>1, IndexInvariance, PTL DEF Spec, StrandedForGood

-----------------------------------------------------------------------------
(* The ring implements TxQueue.                                            *)

PktsOf(f, w) == {f[i] : i \in w} \ {NoSkb}
OrderOf(f, c) ==
  {pair \in SkbsOf(f) \X SkbsOf(f) :
     \E i, j \in Idx : f[i] = pair[1] /\ f[j] = pair[2] /\ Dist(c, i) < Dist(c, j)}

\* The queue's variables in this state and the next.
LEMMA QueueNotions ==
  /\ InRing = SkbsOf(skb) /\ InRing' = SkbsOf(skb')
  /\ Ahead = OrderOf(skb, clean_idx) /\ Ahead' = OrderOf(skb', clean_idx')
  /\ PacketsIn(Window(clean_idx, tx_cpu_idx)) = PktsOf(skb, Window(clean_idx, tx_cpu_idx))
  /\ PacketsIn(Window(clean_idx, tx_cpu_idx))' = PktsOf(skb', Window(clean_idx', tx_cpu_idx'))
  /\ PacketsIn(Window(clean_idx, tx_dma_idx)) = PktsOf(skb, Window(clean_idx, tx_dma_idx))
  /\ PacketsIn(Window(clean_idx, tx_dma_idx))' = PktsOf(skb', Window(clean_idx', tx_dma_idx'))
<1>1. InRing = SkbsOf(skb) /\ InRing' = SkbsOf(skb')
  BY DEF InRing, SkbsOf, Idx
<1>2. Ahead = OrderOf(skb, clean_idx)
  BY <1>1 DEF Ahead, OrderOf
<1>3. Ahead' = OrderOf(skb', clean_idx')
  BY <1>1 DEF Ahead, OrderOf, Idx, Dist
<1>4. /\ PacketsIn(Window(clean_idx, tx_cpu_idx)) = PktsOf(skb, Window(clean_idx, tx_cpu_idx))
      /\ PacketsIn(Window(clean_idx, tx_dma_idx)) = PktsOf(skb, Window(clean_idx, tx_dma_idx))
  BY DEF PacketsIn, PktsOf
<1>5. /\ PacketsIn(Window(clean_idx, tx_cpu_idx))' = PktsOf(skb', Window(clean_idx', tx_cpu_idx'))
      /\ PacketsIn(Window(clean_idx, tx_dma_idx))' = PktsOf(skb', Window(clean_idx', tx_dma_idx'))
  BY DEF PacketsIn, PktsOf, Window, Dist, Idx
<1> QED
  BY <1>1, <1>2, <1>3, <1>4, <1>5

LEMMA OrderMember ==
  ASSUME NEW f, NEW c, NEW p, NEW q
  PROVE  <<p, q>> \in OrderOf(f, c) <=>
           /\ p \in SkbsOf(f) /\ q \in SkbsOf(f)
           /\ \E i, j \in Idx : f[i] = p /\ f[j] = q /\ Dist(c, i) < Dist(c, j)
BY DEF OrderOf

\* Two relations with the same pairs.
LEMMA SamePairs ==
  ASSUME NEW X, NEW A \in SUBSET (X \X X), NEW B \in SUBSET (X \X X),
         \A p, q \in X : <<p, q>> \in A <=> <<p, q>> \in B
  PROVE  A = B
OBVIOUS

\* A step that leaves packets, positions and the link alone changes nothing.
LEMMA QueueStutters ==
  ASSUME UNCHANGED <<skb, clean_idx, tx_cpu_idx, tx_dma_idx, link>>
  PROVE  UNCHANGED Queue!qvars
BY QueueNotions DEF Queue!qvars

\* A packet that enters the ring is accepted behind those in it.
LEMMA AcceptRefines ==
  ASSUME TxIInv, NEW n \in Nat, NEW b, NEW s \in Skbs,
         link = "up", HasRoom(n), Fresh(s), Sent(b, Nth(cpu_idx, Needed(n))),
         \A i \in Idx \ SgIdx(n) : skb'[i] = skb[i],
         \A i \in SgIdx(n) : skb'[i] = IF i = Nth(cpu_idx, Needed(n) - 1) THEN s ELSE NoSkb,
         UNCHANGED <<clean_idx, tx_dma_idx, link>>
  PROVE  Queue!Accept(s)
<1> DEFINE G == SgIdx(n)
           l == Nth(cpu_idx, Needed(n) - 1)
<1>1. IndexInv /\ SkbsInv
  BY DEF TxIInv
<1>2. /\ cpu_idx \in Idx /\ clean_idx \in Idx /\ tx_cpu_idx \in Idx /\ tx_dma_idx \in Idx
      /\ Dist(clean_idx, tx_dma_idx) <= Dist(clean_idx, tx_cpu_idx)
      /\ Dist(clean_idx, tx_cpu_idx) <= Dist(clean_idx, cpu_idx)
  BY <1>1 DEF IndexInv, IndexOrder
<1>3. /\ Used \cap G = {} /\ l \in G /\ l \in Idx /\ G \in SUBSET Idx
      /\ Window(clean_idx, Nth(cpu_idx, Needed(n))) = Used \cup G
  BY <1>1, NewIsUnused
<1>4. s # NoSkb /\ \A i \in Idx : skb[i] # s
  BY PacketAssumption DEF Fresh
<1> HIDE DEF G, l
<1>5. /\ \A i \in Idx : i # l => skb'[i] = skb[i]
      /\ skb'[l] = s /\ skb[l] = NoSkb
  <2>1. \A i \in G : i \in Idx /\ skb[i] = NoSkb
    BY <1>1, <1>3 DEF SkbsInv
  <2> QED
    BY <1>3, <2>1 DEF G, l
<1>6. SkbsOf(skb') = SkbsOf(skb) \cup {s} /\ s \notin SkbsOf(skb)
  BY <1>3, <1>4, <1>5 DEF SkbsOf
<1>7. ASSUME NEW i \in Idx, skb[i] # NoSkb
      PROVE  Dist(clean_idx, i) < Dist(clean_idx, l) /\ ~ (Dist(clean_idx, l) < Dist(clean_idx, i))
  <2>1. i \in Used /\ l \notin Used
    BY <1>1, <1>3, <1>7 DEF SkbsInv
  <2>2. Dist(clean_idx, i) < Dist(clean_idx, cpu_idx) /\ ~ (Dist(clean_idx, l) < Dist(clean_idx, cpu_idx))
    BY <1>3, <2>1 DEF Used, Window
  <2>3. /\ Dist(clean_idx, i) \in Int /\ Dist(clean_idx, l) \in Int
        /\ Dist(clean_idx, cpu_idx) \in Int
    BY <1>2, <1>3, DistType
  <2> QED
    BY <2>2, <2>3
<1>8. OrderOf(skb', clean_idx) = OrderOf(skb, clean_idx) \cup (SkbsOf(skb) \X {s})
  <2> DEFINE X == SkbsOf(skb')
             A == OrderOf(skb', clean_idx)
             B == OrderOf(skb, clean_idx) \cup (SkbsOf(skb) \X {s})
  <2>1. A \in SUBSET (X \X X) /\ B \in SUBSET (X \X X)
    BY <1>6 DEF OrderOf
  <2>2. ASSUME NEW p \in X, NEW q \in X
        PROVE  <<p, q>> \in A <=> <<p, q>> \in B
    <3>1. p # NoSkb /\ q # NoSkb
      BY DEF SkbsOf
    <3>2. <<p, q>> \in A <=>
            \E i, j \in Idx : skb'[i] = p /\ skb'[j] = q /\ Dist(clean_idx, i) < Dist(clean_idx, j)
      BY OrderMember
    <3>3. <<p, q>> \in OrderOf(skb, clean_idx) <=>
            /\ p \in SkbsOf(skb) /\ q \in SkbsOf(skb)
            /\ \E i, j \in Idx : skb[i] = p /\ skb[j] = q /\ Dist(clean_idx, i) < Dist(clean_idx, j)
      BY OrderMember
    <3>4. ~ (Dist(clean_idx, l) < Dist(clean_idx, l))
      BY <1>2, <1>3, DistType
    <3>5. CASE p # s /\ q # s
      <4>1. p \in SkbsOf(skb) /\ q \in SkbsOf(skb)
        BY <1>6, <3>5
      <4>2. \A i \in Idx : /\ skb'[i] = p <=> skb[i] = p
                           /\ skb'[i] = q <=> skb[i] = q
        BY <1>3, <1>5, <3>1, <3>5
      <4>3. <<p, q>> \in B <=> <<p, q>> \in OrderOf(skb, clean_idx)
        BY <3>5
      <4> QED
        BY <3>2, <3>3, <4>1, <4>2, <4>3
    <3>6. CASE p = s
      <4>1. \A i \in Idx : skb'[i] = p => i = l
        BY <1>4, <1>5, <3>6
      <4>2. \A j \in Idx : skb'[j] # NoSkb => j = l \/ skb[j] # NoSkb
        BY <1>5
      <4>3. <<p, q>> \notin A
        BY <1>7, <3>1, <3>2, <3>4, <4>1, <4>2
      <4>4. <<p, q>> \notin B
        BY <1>6, <3>3, <3>6
      <4> QED
        BY <4>3, <4>4
    <3>7. CASE p # s /\ q = s
      <4>1. p \in SkbsOf(skb)
        BY <1>6, <3>7
      <4>2. PICK i \in Idx : skb[i] = p
        BY <4>1 DEF SkbsOf
      <4>3. skb'[i] = p /\ Dist(clean_idx, i) < Dist(clean_idx, l) /\ skb'[l] = q
        BY <1>5, <1>7, <3>1, <3>7, <4>2
      <4>4. <<p, q>> \in A
        BY <1>3, <3>2, <4>3
      <4>5. <<p, q>> \in B
        BY <3>7, <4>1
      <4> QED
        BY <4>4, <4>5
    <3> QED
      BY <3>5, <3>6, <3>7
  <2> HIDE DEF A, B, X
  <2>3. A = B
    BY <2>1, <2>2, SamePairs
  <2> QED
    BY <2>3 DEF A, B
<1>9. ASSUME NEW x \in Idx, Dist(clean_idx, x) <= Dist(clean_idx, cpu_idx)
      PROVE  PktsOf(skb', Window(clean_idx, x)) = PktsOf(skb, Window(clean_idx, x))
  <2>1. Window(clean_idx, x) \subseteq Used /\ Window(clean_idx, x) \subseteq Idx
    BY <1>2, <1>9, DistType DEF Window, Used
  <2>2. \A i \in Window(clean_idx, x) : skb'[i] = skb[i]
    BY <1>3, <1>5, <2>1
  <2> QED
    BY <2>2 DEF PktsOf
<1>10. PktsOf(skb', Window(clean_idx, tx_dma_idx)) = PktsOf(skb, Window(clean_idx, tx_dma_idx))
  <2>1. Dist(clean_idx, tx_dma_idx) <= Dist(clean_idx, cpu_idx)
    BY <1>2, DistType
  <2> QED
    BY <1>2, <1>9, <2>1
<1>11. PktsOf(skb', Used \cup G) = SkbsOf(skb')
  <2>1. Used \cup G \subseteq Idx
    BY <1>3 DEF Used, Window
  <2>2. \A i \in Idx : skb'[i] # NoSkb => i \in Used \cup G
    BY <1>1, <1>3, <1>5 DEF SkbsInv
  <2> QED
    BY <2>1, <2>2 DEF PktsOf, SkbsOf
<1>12. PktsOf(skb', Window(clean_idx', tx_cpu_idx')) \in
         {PktsOf(skb, Window(clean_idx, tx_cpu_idx)), SkbsOf(skb')}
  <2>1. CASE tx_cpu_idx' = tx_cpu_idx
    BY <1>2, <1>9, <2>1
  <2>2. CASE tx_cpu_idx' = Nth(cpu_idx, Needed(n))
    BY <1>3, <1>11, <2>2
  <2> QED
    BY <2>1, <2>2 DEF Sent
<1> QED
  BY <1>6, <1>8, <1>10, <1>12, QueueNotions DEF Queue!Accept

\* The engine moves on: it has sent a packet if the descriptor was its last.
LEMMA SendRefines ==
  ASSUME TxIInv, HwSend
  PROVE  Queue!QNext \/ UNCHANGED Queue!qvars
<1> DEFINE t == tx_dma_idx
           sent == Window(clean_idx, t)
<1>1. /\ link # "down" /\ t # tx_cpu_idx /\ tx_dma_idx' = Nth(t, 1)
      /\ UNCHANGED <<clean_idx, tx_cpu_idx, skb, link>>
  BY DEF HwSend
<1>2. /\ clean_idx \in Idx /\ tx_cpu_idx \in Idx /\ t \in Idx
      /\ Dist(clean_idx, t) <= Dist(clean_idx, tx_cpu_idx)
  BY <1>1 DEF TxIInv, IndexInv, IndexOrder
<1>3. \A i, j \in Idx : skb[i] # NoSkb /\ skb[i] = skb[j] => i = j
  BY DEF TxIInv, SkbsInv
<1>4. Dist(clean_idx, t) < Dist(clean_idx, tx_cpu_idx)
  <2>1. Dist(clean_idx, t) # Dist(clean_idx, tx_cpu_idx)
    <3>1. Nth(clean_idx, Dist(clean_idx, t)) = t
      BY <1>2, NthDist
    <3>2. Nth(clean_idx, Dist(clean_idx, tx_cpu_idx)) = tx_cpu_idx
      BY <1>2, NthDist
    <3> QED
      BY <1>1, <3>1, <3>2
  <2> QED
    BY <1>2, <2>1, DistType
<1>5. t \notin sent /\ sent \subseteq Idx
  BY <1>2, DistType DEF Window
<1>6. Window(clean_idx, Nth(t, 1)) = sent \cup {t}
  <2>1. Dist(clean_idx, t) + 1 < N /\ 1 \in 0 .. N
    BY <1>2, <1>4, DistType, RingAssumption
  <2>2. Window(clean_idx, Nth(t, 1)) = Window(clean_idx, t) \cup Window(t, Nth(t, 1))
    BY <1>2, <2>1, WindowGrows
  <2> QED
    BY <1>2, <2>2, WindowOne
<1>7. t \in Window(clean_idx, tx_cpu_idx)
  BY <1>2, <1>4 DEF Window
<1> HIDE DEF sent
<1>8. CASE skb[t] = NoSkb
  <2>1. PktsOf(skb, sent \cup {t}) = PktsOf(skb, sent)
    BY <1>8 DEF PktsOf
  <2> QED
    BY <1>1, <1>6, <2>1, QueueNotions DEF Queue!qvars, sent
<1>9. CASE skb[t] # NoSkb
  <2> DEFINE p == skb[t]
  <2>1. p \in Skbs
    BY <1>2, <1>9 DEF TxIInv, TypeOK
  <2>2. PktsOf(skb, sent \cup {t}) = PktsOf(skb, sent) \cup {p}
    BY <1>9 DEF PktsOf
  <2>3. p \in PktsOf(skb, Window(clean_idx, tx_cpu_idx))
    BY <1>7, <1>9 DEF PktsOf
  <2>4. p \notin PktsOf(skb, sent)
    BY <1>2, <1>3, <1>5, <1>9 DEF PktsOf
  <2>5. ASSUME NEW q, <<q, p>> \in OrderOf(skb, clean_idx)
        PROVE  q \in PktsOf(skb, sent)
    <3>1. q \in SkbsOf(skb)
      BY <2>5, OrderMember
    <3>2. PICK i, j \in Idx : skb[i] = q /\ skb[j] = p /\ Dist(clean_idx, i) < Dist(clean_idx, j)
      BY <2>5, OrderMember
    <3>3. j = t
      BY <1>2, <1>3, <1>9, <3>2
    <3>4. i \in sent
      BY <3>2, <3>3 DEF sent, Window
    <3> QED
      BY <3>1, <3>2, <3>4 DEF PktsOf, SkbsOf
  <2> HIDE DEF p
  <2>6. Queue!Send(p)
    BY <1>1, <1>6, <2>2, <2>3, <2>4, <2>5, QueueNotions DEF Queue!Send, sent
  <2> QED
    BY <2>1, <2>6 DEF Queue!QNext
<1> QED
  BY <1>8, <1>9

\* The poll frees the packets of the descriptors it passes, the first ones in
\* the ring, all of them sent.
LEMMA CompleteRefines ==
  ASSUME TxIInv, NEW budget \in Nat, tx_clean_q(budget)
  PROVE  Queue!QNext
<1>1. /\ clean_idx \in Idx /\ tx_cpu_idx \in Idx /\ tx_dma_idx \in Idx
      /\ Dist(clean_idx, tx_dma_idx) <= Dist(clean_idx, tx_cpu_idx)
      /\ UNCHANGED <<tx_cpu_idx, tx_dma_idx, link>>
  BY DEF tx_clean_q, TxIInv, IndexInv, IndexOrder
<1>2. /\ \A i \in Idx : skb[i] # NoSkb => desc[i].ls
      /\ \A i, j \in Idx : skb[i] # NoSkb /\ skb[i] = skb[j] => i = j
  BY DEF TxIInv, SkbsInv
<1>3. PICK m \in 0 .. Dist(clean_idx, tx_dma_idx) :
        /\ skb' = [i \in Idx |-> IF i \in Completed(m) THEN NoSkb ELSE skb[i]]
        /\ clean_idx' = Nth(clean_idx, m)
  BY DEF tx_clean_q, dtx
<1>4. /\ m \in 0 .. Dist(clean_idx, tx_cpu_idx)
      /\ m \in Nat /\ Dist(clean_idx, tx_dma_idx) \in Nat
  BY <1>1, DistType
<1> DEFINE gone == Window(clean_idx, Nth(clean_idx, m))
           F == PktsOf(skb, gone)
<1>5. /\ clean_idx' \in Idx /\ Dist(clean_idx, clean_idx') = m
      /\ gone = {i \in Idx : Dist(clean_idx, i) < m}
      /\ gone \subseteq Window(clean_idx, tx_dma_idx)
      /\ Window(clean_idx', tx_dma_idx) = Window(clean_idx, tx_dma_idx) \ gone
      /\ Window(clean_idx', tx_cpu_idx) = Window(clean_idx, tx_cpu_idx) \ gone
  <2>1. Nth(clean_idx, m) \in Idx
    BY <1>1, DistAdvance
  <2>2. /\ Dist(clean_idx, Nth(clean_idx, m)) = m
        /\ gone \subseteq Window(clean_idx, tx_dma_idx)
        /\ Window(Nth(clean_idx, m), tx_dma_idx) = Window(clean_idx, tx_dma_idx) \ gone
    BY <1>1, WindowShrinks
  <2>3. Window(Nth(clean_idx, m), tx_cpu_idx) = Window(clean_idx, tx_cpu_idx) \ gone
    BY <1>1, <1>4, WindowShrinks
  <2>4. gone = {i \in Idx : Dist(clean_idx, i) < m}
    BY <2>2 DEF Window
  <2> QED
    BY <1>3, <2>1, <2>2, <2>3, <2>4
<1>6. \A i \in Idx : skb'[i] = IF i \in gone THEN NoSkb ELSE skb[i]
  <2>1. Completed(m) = {i \in gone : desc[i].ls /\ skb[i] # NoSkb}
    BY DEF Completed
  <2> QED
    BY <1>2, <1>3, <2>1
<1> HIDE DEF gone
<1>7. ASSUME NEW w \in SUBSET Idx
      PROVE  /\ PktsOf(skb', w) = PktsOf(skb, w) \ F
             /\ PktsOf(skb', w \ gone) = PktsOf(skb, w) \ F
  <2>1. gone \in SUBSET Idx
    BY <1>5
  <2>2. ASSUME NEW i \in w, i \notin gone, skb[i] # NoSkb
        PROVE  skb'[i] = skb[i] /\ skb[i] \notin F
    BY <1>2, <1>6, <2>1, <2>2 DEF PktsOf
  <2>3. ASSUME NEW i \in w, i \in gone
        PROVE  skb'[i] = NoSkb /\ (skb[i] # NoSkb => skb[i] \in F)
    BY <1>6, <2>3 DEF PktsOf
  <2> HIDE DEF F
  <2>4. PktsOf(skb', w) = PktsOf(skb, w) \ F
    <3>1. ASSUME NEW x \in PktsOf(skb', w) PROVE x \in PktsOf(skb, w) \ F
      <4>1. PICK i \in w : x = skb'[i] /\ x # NoSkb
        BY DEF PktsOf
      <4>2. i \notin gone
        BY <2>3, <4>1
      <4>3. skb[i] # NoSkb
        BY <1>6, <4>1, <4>2
      <4>4. x = skb[i] /\ x \notin F
        BY <2>2, <4>1, <4>2, <4>3
      <4> QED
        BY <4>1, <4>4 DEF PktsOf
    <3>2. ASSUME NEW x \in PktsOf(skb, w), x \notin F PROVE x \in PktsOf(skb', w)
      <4>1. PICK i \in w : x = skb[i] /\ x # NoSkb
        BY DEF PktsOf
      <4>2. i \notin gone
        BY <2>3, <3>2, <4>1
      <4>3. x = skb'[i]
        BY <2>2, <4>1, <4>2
      <4> QED
        BY <4>1, <4>3 DEF PktsOf
    <3> QED
      BY <3>1, <3>2
  <2>5. PktsOf(skb', w \ gone) = PktsOf(skb', w)
    BY <2>3 DEF PktsOf
  <2> QED
    BY <2>4, <2>5
<1>8. SkbsOf(skb') = SkbsOf(skb) \ F
  <2>1. SkbsOf(skb) = PktsOf(skb, Idx) /\ SkbsOf(skb') = PktsOf(skb', Idx)
    BY DEF SkbsOf, PktsOf
  <2>2. Idx \in SUBSET Idx
    OBVIOUS
  <2> QED
    BY <1>7, <2>1, <2>2
<1>9. /\ PktsOf(skb', Window(clean_idx', tx_dma_idx)) = PktsOf(skb, Window(clean_idx, tx_dma_idx)) \ F
      /\ PktsOf(skb', Window(clean_idx', tx_cpu_idx)) = PktsOf(skb, Window(clean_idx, tx_cpu_idx)) \ F
  <2>1. Window(clean_idx, tx_dma_idx) \in SUBSET Idx /\ Window(clean_idx, tx_cpu_idx) \in SUBSET Idx
    BY DEF Window
  <2> QED
    BY <1>5, <1>7, <2>1
<1>10. F \subseteq PktsOf(skb, Window(clean_idx, tx_dma_idx)) /\ F \in SUBSET SkbsOf(skb)
  BY <1>5 DEF PktsOf, SkbsOf
<1>11. ASSUME NEW p \in F, NEW q \in SkbsOf(skb) \ F
       PROVE  <<q, p>> \notin OrderOf(skb, clean_idx)
  <2>1. SUFFICES ASSUME <<q, p>> \in OrderOf(skb, clean_idx) PROVE FALSE
    OBVIOUS
  <2>2. PICK j, i \in Idx : skb[j] = q /\ skb[i] = p /\ Dist(clean_idx, j) < Dist(clean_idx, i)
    BY <2>1, OrderMember
  <2>3. p # NoSkb /\ q # NoSkb
    BY <1>11 DEF PktsOf, SkbsOf
  <2>4. PICK k \in gone : skb[k] = p
    BY <1>11 DEF PktsOf
  <2>5. i \in gone
    BY <1>2, <1>5, <2>2, <2>3, <2>4
  <2>6. j \notin gone
    BY <1>11, <2>2, <2>3 DEF PktsOf
  <2>7. Dist(clean_idx, i) \in Int /\ Dist(clean_idx, j) \in Int
    BY <1>1, DistType
  <2> QED
    BY <1>4, <1>5, <2>2, <2>5, <2>6, <2>7
<1>12. OrderOf(skb', clean_idx') = OrderOf(skb, clean_idx) \cap (SkbsOf(skb') \X SkbsOf(skb'))
  <2> DEFINE X == SkbsOf(skb')
             A == OrderOf(skb', clean_idx')
             B == OrderOf(skb, clean_idx) \cap (X \X X)
  <2>1. A \in SUBSET (X \X X) /\ B \in SUBSET (X \X X)
    BY DEF OrderOf
  <2>2. ASSUME NEW i \in Idx, NEW j \in Idx, i \notin gone, j \notin gone
        PROVE  Dist(clean_idx', i) < Dist(clean_idx', j) <=> Dist(clean_idx, i) < Dist(clean_idx, j)
    <3>1. /\ Dist(clean_idx, i) \in Int /\ Dist(clean_idx, j) \in Int
          /\ m <= Dist(clean_idx, i) /\ m <= Dist(clean_idx, j)
      BY <1>1, <1>4, <1>5, <2>2, DistType
    <3>2. /\ Dist(clean_idx', i) = Dist(clean_idx, i) - m
          /\ Dist(clean_idx', j) = Dist(clean_idx, j) - m
      BY <1>1, <1>5, <3>1, DistVia
    <3> QED
      BY <1>4, <3>1, <3>2
  <2>3. ASSUME NEW p \in X, NEW q \in X
        PROVE  <<p, q>> \in A <=> <<p, q>> \in B
    <3>1. /\ p # NoSkb /\ q # NoSkb /\ p \notin F /\ q \notin F
          /\ p \in SkbsOf(skb) /\ q \in SkbsOf(skb)
      BY <1>8 DEF SkbsOf
    <3>2. \A i \in Idx : /\ skb'[i] = p <=> skb[i] = p /\ i \notin gone
                         /\ skb'[i] = q <=> skb[i] = q /\ i \notin gone
      BY <1>6, <3>1
    <3>3. \A i \in Idx : skb[i] = p \/ skb[i] = q => i \notin gone
      BY <3>1 DEF PktsOf
    <3>4. <<p, q>> \in A <=>
            \E i, j \in Idx : skb'[i] = p /\ skb'[j] = q /\ Dist(clean_idx', i) < Dist(clean_idx', j)
      BY OrderMember
    <3>5. <<p, q>> \in OrderOf(skb, clean_idx) <=>
            \E i, j \in Idx : skb[i] = p /\ skb[j] = q /\ Dist(clean_idx, i) < Dist(clean_idx, j)
      BY <3>1, OrderMember
    <3>6. <<p, q>> \in A <=> <<p, q>> \in OrderOf(skb, clean_idx)
      BY <2>2, <3>2, <3>3, <3>4, <3>5
    <3> QED
      BY <3>6
  <2> HIDE DEF A, B, X
  <2>4. A = B
    BY <2>1, <2>3, SamePairs
  <2> QED
    BY <2>4 DEF A, B, X
<1> HIDE DEF F
<1>13. Queue!Complete(F)
  BY <1>1, <1>8, <1>9, <1>10, <1>11, <1>12, QueueNotions DEF Queue!Complete
<1> QED
  BY <1>10, <1>13, QueueNotions DEF Queue!QNext

\* An empty ring holds nothing.
LEMMA EmptyQueue ==
  ASSUME NEW f, NEW c, \A i \in Idx : f[i] = NoSkb
  PROVE  /\ SkbsOf(f) = {} /\ OrderOf(f, c) = {}
         /\ \A x : PktsOf(f, Window(c, x)) = {}
<1>1. SkbsOf(f) = {}
  BY DEF SkbsOf
<1> QED
  BY <1>1 DEF OrderOf, PktsOf, Window

\* The packets start_xmit accepts, refuses and drops.
LEMMA XmitRefines ==
  ASSUME TxIInv, start_xmit
  PROVE  Queue!QNext \/ UNCHANGED Queue!qvars
<1>1. PICK b \in 0 .. MaxBurst - 1 :
        \/ \E s \in Skbs :
             xmit_linear(s, b) \/ (\E n \in 1 .. MaxFrags : xmit_sg(s, n, b))
        \/ xmit_drop(b) \/ xmit_drop_push_failed(b)
        \/ \E n \in 0 .. MaxFrags : xmit_busy(n, b)
        \/ \E n \in 1 .. MaxFrags :
             xmit_sg_head_fails(n, b) \/ (\E f \in 1 .. n : xmit_unwind_sg(n, f, b))
  BY DEF start_xmit
<1>2. cpu_idx \in Idx /\ IndexInv /\ SkbsInv /\ skb \in [Idx -> Skbs \cup {NoSkb}]
  BY DEF TxIInv, IndexInv, TypeOK
<1>3. ASSUME NEW s \in Skbs, xmit_linear(s, b) PROVE Queue!Accept(s)
  <2>1. /\ link = "up" /\ HasRoom(0) /\ Fresh(s) /\ Sent(b, Nth(cpu_idx, Needed(0)))
        /\ skb' = [skb EXCEPT ![cpu_idx] = s]
        /\ UNCHANGED <<clean_idx, tx_dma_idx, link>>
    BY <1>3 DEF xmit_linear, StackSends, Needed
  <2>2. SgIdx(0) = {cpu_idx} /\ Nth(cpu_idx, Needed(0) - 1) = cpu_idx
    <3>1. Needed(0) = 1
      BY DEF Needed
    <3>2. Nth(cpu_idx, 0) = cpu_idx
      BY <1>2, NthDist, DistZero
    <3> QED
      BY <1>2, <3>1, <3>2, WindowOne DEF SgIdx
  <2>3. /\ \A i \in Idx \ SgIdx(0) : skb'[i] = skb[i]
        /\ \A i \in SgIdx(0) : skb'[i] = IF i = Nth(cpu_idx, Needed(0) - 1) THEN s ELSE NoSkb
    BY <1>2, <2>1, <2>2
  <2>4. 0 \in Nat
    OBVIOUS
  <2> QED
    BY <2>1, <2>3, <2>4, AcceptRefines
<1>4. ASSUME NEW s \in Skbs, NEW n \in 1 .. MaxFrags, xmit_sg(s, n, b) PROVE Queue!Accept(s)
  <2>1. /\ link = "up" /\ HasRoom(n) /\ Fresh(s) /\ Sent(b, Nth(cpu_idx, Needed(n)))
        /\ skb' = [i \in Idx |-> IF i \in SgIdx(n) THEN SgSkb(s, i, n) ELSE skb[i]]
        /\ UNCHANGED <<clean_idx, tx_dma_idx, link>>
    BY <1>4 DEF xmit_sg, StackSends
  <2>2. n \in Nat
    OBVIOUS
  <2>3. SgIdx(n) \subseteq Idx
    BY DEF SgIdx, Window
  <2>4. /\ \A i \in Idx \ SgIdx(n) : skb'[i] = skb[i]
        /\ \A i \in SgIdx(n) : skb'[i] = IF i = Nth(cpu_idx, Needed(n) - 1) THEN s ELSE NoSkb
    BY <2>1, <2>3 DEF SgSkb
  <2> QED
    BY <2>1, <2>2, <2>4, AcceptRefines
<1>5. ASSUME xmit_drop(b) \/ xmit_drop_push_failed(b) \/ \E n \in 0 .. MaxFrags : xmit_busy(n, b)
      PROVE  UNCHANGED Queue!qvars
  <2>1. UNCHANGED <<skb, clean_idx, tx_cpu_idx, tx_dma_idx, link>>
    BY <1>5 DEF xmit_drop, xmit_drop_push_failed, xmit_busy, ring
  <2> QED
    BY <2>1, QueueStutters
<1>6. ASSUME NEW n \in 1 .. MaxFrags,
             xmit_sg_head_fails(n, b) \/ \E f \in 1 .. n : xmit_unwind_sg(n, f, b)
      PROVE  UNCHANGED Queue!qvars
  <2>1. /\ HasRoom(n)
        /\ skb' = [i \in Idx |-> IF i \in SgIdx(n) THEN NoSkb ELSE skb[i]]
        /\ UNCHANGED <<clean_idx, tx_cpu_idx, tx_dma_idx, link>>
    BY <1>6 DEF xmit_sg_head_fails, xmit_unwind_sg
  <2>2. n \in Nat
    OBVIOUS
  <2>3. \A i \in SgIdx(n) : i \in Idx /\ skb[i] = NoSkb
    <3>1. Used \cap SgIdx(n) = {} /\ SgIdx(n) \in SUBSET Idx
      BY <1>2, <2>1, <2>2, NewIsUnused
    <3> QED
      BY <1>2, <3>1 DEF SkbsInv
  <2>4. skb' = skb
    BY <1>2, <2>1, <2>3
  <2> QED
    BY <2>1, <2>4, QueueStutters
<1>7. ASSUME NEW s \in Skbs, Queue!Accept(s) PROVE Queue!QNext
  BY <1>7 DEF Queue!QNext
<1> QED
  BY <1>1, <1>3, <1>4, <1>5, <1>6, <1>7

\* ndo_open and ndo_stop.
LEMMA LinkRefines ==
  ASSUME TxIInv, open \/ stop \/ tx_ring_reset
  PROVE  Queue!QNext
<1>1. CASE open
  <2>1. link = "down" /\ link' = "up" /\ \A i \in Idx : skb'[i] = NoSkb
    BY <1>1 DEF open
  <2>2. \A i \in Idx : skb[i] = NoSkb
    <3>1. cpu_idx = clean_idx /\ clean_idx \in Idx
      BY <2>1 DEF TxIInv, DownEmpty, IndexInv
    <3>2. Used = {}
      BY <3>1, WindowEmpty DEF Used
    <3> QED
      BY <3>2 DEF TxIInv, SkbsInv
  <2>3. Queue!Open
    BY <2>1, <2>2, EmptyQueue, QueueNotions DEF Queue!Open
  <2> QED
    BY <2>3 DEF Queue!QNext
<1>2. CASE stop
  <2>1. /\ link = "up" /\ link' = "stopping"
        /\ UNCHANGED <<skb, clean_idx, tx_cpu_idx, tx_dma_idx>>
    BY <1>2 DEF stop, ring
  <2>2. Queue!Stop
    BY <2>1, QueueNotions DEF Queue!Stop
  <2> QED
    BY <2>2 DEF Queue!QNext
<1>3. CASE tx_ring_reset
  <2>1. link = "stopping" /\ link' = "down" /\ \A i \in Idx : skb'[i] = NoSkb
    BY <1>3 DEF tx_ring_reset
  <2>2. Queue!Flush
    BY <2>1, EmptyQueue, QueueNotions DEF Queue!Flush
  <2> QED
    BY <2>2 DEF Queue!QNext
<1> QED
  BY <1>1, <1>2, <1>3

\* The ring implements TxQueue, for every ring, packet size, burst and budget:
\* packets are freed once, in order, when sent or when the interface goes down.
THEOREM QueueRefinement == Spec => RefinesTxQueue
<1>1. Init => Queue!QInit
  <2> SUFFICES ASSUME Init PROVE Queue!QInit
    OBVIOUS
  <2>1. link = "down" /\ \A i \in Idx : skb[i] = NoSkb
    BY DEF Init
  <2> QED
    BY <2>1, EmptyQueue, QueueNotions DEF Queue!QInit
<1>2. TxIInv /\ [Next]_vars => [Queue!QNext]_(Queue!qvars)
  <2> SUFFICES ASSUME TxIInv, [Next]_vars PROVE Queue!QNext \/ UNCHANGED Queue!qvars
    OBVIOUS
  <2>1. CASE tx_poll
    <3>1. PICK budget \in 1 .. Quantum : tx_clean_q(budget)
      BY <2>1 DEF tx_poll
    <3>2. budget \in Nat
      BY PollAssumption
    <3> QED
      BY <3>1, <3>2, CompleteRefines
  <2>2. CASE UNCHANGED vars
    BY <2>2, QueueStutters DEF vars
  <2> QED
    BY <2>1, <2>2, XmitRefines, SendRefines, LinkRefines DEF Next
<1> QED
  BY <1>1, <1>2, TxInvariance, PTL DEF Spec, RefinesTxQueue, Queue!QSpec
=============================================================================
