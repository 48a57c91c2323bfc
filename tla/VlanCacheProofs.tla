-------------------------- MODULE VlanCacheProofs --------------------------
(***************************************************************************)
(* Proofs about VlanCache: for every table size, every set of VLAN ids and *)
(* every set of transmit queues. The argument is about slots: a cached id  *)
(* has a slot below vlan_next_idx whose half register holds the id, and    *)
(* only the holder of vlan_lock writes, into a slot no cached id has.      *)
(***************************************************************************)
EXTENDS VlanCache, FiniteSetTheorems, TLAPS

AllocPcs == {"locked", "read", "written"}
HeldPcs == AllocPcs \cup {"unlock"}

\* The id in a slot of the table.
Slot(s) == vlan_id[s \div 2][s % 2]

\* A packet that goes out with index i (slot + 1) names the slot of its id.
Named(v, i) == i # 0 => v \in Vids /\ vlan_idx[v] = i

\* vlan_lock is held exactly from the allocation to the unlock.
LockInv == \A q \in Queues : pc[q] \in HeldPcs <=> vlan_lock = q

\* A cached id has a slot that was handed out, and its register has the id.
TableInv ==
  \A v \in Vids : vlan_idx[v] # 0 =>
    /\ vlan_idx[v] <= vlan_next_idx
    /\ Slot(vlan_idx[v] - 1) = v

\* The queue that fills a slot has the newest one, which no id has yet, for
\* an id that is not cached; what it read of the register is still true.
FillInv ==
  \A q \in Queues : pc[q] \in AllocPcs =>
    /\ idx[q] + 1 = vlan_next_idx
    /\ vlan_idx[skb[q]] = 0
    /\ \A v \in Vids : vlan_idx[v] # vlan_next_idx
    /\ pc[q] = "read" => val[q] = vlan_id[idx[q] \div 2]
    /\ pc[q] = "written" => Slot(idx[q]) = skb[q]

\* A packet on its way to the ring.
CpuInv ==
  \A q \in Queues :
    /\ pc[q] \in {"miss"} \cup HeldPcs => skb[q] \in Vids
    /\ pc[q] \in {"unlock", "ready"} => Named(skb[q], idx[q])

\* A packet in a ring.
RingInv ==
  \A q \in Queues : \A i \in 1 .. Len(ring[q]) :
    /\ Named(ring[q][i].vid, ring[q][i].vidx)
    /\ ring[q][i].vidx = 0 => ring[q][i].inner = ring[q][i].vid

\* While the interface is down nothing is transmitted.
DownInv == ctl = "down" => \A q \in Queues : pc[q] = "idle" /\ ring[q] = <<>>

\* Every slot handed out has its id, or is being filled.
Cached == {v \in Vids : vlan_idx[v] # 0}
CountInv == vlan_next_idx = Cardinality(Cached) + Cardinality(Allocating)

SlotInv == TypeOK /\ LockInv /\ TableInv /\ FillInv /\ CpuInv /\ RingInv /\ DownInv
TableIInv == SlotInv /\ CountInv

-----------------------------------------------------------------------------
(* Slots and register halves.                                              *)

LEMMA SlotParts ==
  ASSUME NEW s \in 0 .. Slots - 1
  PROVE  /\ s \div 2 \in Regs /\ s % 2 \in 0 .. 1
         /\ \A t \in 0 .. Slots - 1 : s \div 2 = t \div 2 /\ s % 2 = t % 2 => s = t
  BY VlanAssumption DEF Regs

\* The write of one half of a register changes one slot and no other.
LEMMA WriteChangesOneSlot ==
  ASSUME TypeOK, FillInv, CpuInv, NEW q \in Queues, vlan_id_write(q)
  PROVE  /\ vlan_id' \in [Regs -> Words]
         /\ idx[q] \in 0 .. Slots - 1
         /\ Slot(idx[q])' = skb[q]
         /\ \A t \in 0 .. Slots - 1 : t # idx[q] => vlan_id'[t \div 2][t % 2] = Slot(t)
<1> USE VlanAssumption
<1>1. idx[q] \in 0 .. Slots - 1
  BY DEF TypeOK, FillInv, vlan_id_write, AllocPcs
<1>2. /\ val[q] = vlan_id[idx[q] \div 2] /\ val[q] \in Words /\ skb[q] \in Vids
  BY DEF TypeOK, FillInv, CpuInv, vlan_id_write, AllocPcs, HeldPcs
<1>3. idx[q] \div 2 \in Regs /\ idx[q] % 2 \in 0 .. 1
  BY <1>1, SlotParts
<1> DEFINE w == [val[q] EXCEPT ![idx[q] % 2] = skb[q]]
<1>4. w \in Words /\ w[idx[q] % 2] = skb[q]
      /\ \A h \in 0 .. 1 : h # idx[q] % 2 => w[h] = val[q][h]
  BY <1>2, <1>3 DEF Words
<1>5. vlan_id' = [vlan_id EXCEPT ![idx[q] \div 2] = w]
  BY DEF vlan_id_write
<1> HIDE DEF w
<1>6. vlan_id' \in [Regs -> Words]
  BY <1>3, <1>4, <1>5 DEF TypeOK
<1>7. Slot(idx[q])' = skb[q]
  BY <1>3, <1>4, <1>5 DEF TypeOK, Slot, vlan_id_write
<1>8. ASSUME NEW t \in 0 .. Slots - 1, t # idx[q]
      PROVE  vlan_id'[t \div 2][t % 2] = Slot(t)
  <2>1. t \div 2 \in Regs /\ t % 2 \in 0 .. 1
    BY SlotParts
  <2>2. CASE t \div 2 = idx[q] \div 2
    <3>1. t % 2 # idx[q] % 2
      BY <1>1, <1>8, <2>2, SlotParts
    <3>2. QED
      BY <1>2, <1>3, <1>4, <1>5, <2>1, <2>2, <3>1 DEF TypeOK, Slot
  <2>3. CASE t \div 2 # idx[q] \div 2
    BY <1>3, <1>5, <2>1, <2>3 DEF TypeOK, Slot
  <2>4. QED
    BY <2>2, <2>3
<1>9. QED
  BY <1>1, <1>6, <1>7, <1>8

-----------------------------------------------------------------------------
(* Every action preserves SlotInv.                                         *)

LEMMA InitSlots == Init => SlotInv
<1> SUFFICES ASSUME Init PROVE SlotInv
  OBVIOUS
<1>1. TypeOK
  BY VlanAssumption DEF Init, TypeOK, NoWord, Words
<1>2. QED
  BY <1>1, VlanAssumption DEF Init, SlotInv, LockInv, TableInv, FillInv, CpuInv, RingInv, DownInv,
     AllocPcs, HeldPcs

LEMMA StepPrepare ==
  ASSUME SlotInv, NEW q \in Queues, NEW v \in Vids \cup {NoVid}, prepare_vlan(q, v)
  PROVE  SlotInv'
<1> USE VlanAssumption DEF SlotInv, prepare_vlan, goto, cache_vars, device_vars
<1>1. TypeOK'
  BY DEF TypeOK
<1>2. LockInv' /\ DownInv'
  BY DEF TypeOK, LockInv, DownInv, HeldPcs, AllocPcs
<1>3. TableInv' /\ RingInv'
  BY DEF TableInv, RingInv, Slot, Named
<1>4. FillInv'
  BY DEF TypeOK, FillInv, AllocPcs, Slot
<1>5. CpuInv'
  BY DEF TypeOK, CpuInv, HeldPcs, AllocPcs, Named
<1>6. QED
  BY <1>1, <1>2, <1>3, <1>4, <1>5

LEMMA StepAlloc ==
  ASSUME SlotInv, NEW q \in Queues, cache_alloc(q)
  PROVE  SlotInv'
<1> USE VlanAssumption DEF SlotInv, cache_alloc, goto, device_vars, recheck, vlan_lock_free
<1>1. skb[q] \in Vids
  BY DEF CpuInv, HeldPcs
<1>2. TypeOK'
  BY <1>1 DEF TypeOK
<1>3. LockInv' /\ DownInv'
  BY DEF TypeOK, LockInv, DownInv, HeldPcs, AllocPcs
<1>4. TableInv' /\ RingInv'
  BY DEF TypeOK, TableInv, RingInv, Slot, Named
<1>5. FillInv'
  BY <1>1 DEF TypeOK, FillInv, LockInv, TableInv, AllocPcs, HeldPcs, Slot
<1>6. CpuInv'
  BY <1>1 DEF TypeOK, CpuInv, HeldPcs, AllocPcs, Named
<1>7. QED
  BY <1>2, <1>3, <1>4, <1>5, <1>6

LEMMA StepRead ==
  ASSUME SlotInv, NEW q \in Queues, vlan_id_read(q)
  PROVE  SlotInv'
<1> USE VlanAssumption DEF SlotInv, vlan_id_read, goto, cache_vars, device_vars
<1>1. idx[q] \in 0 .. Slots - 1
  BY DEF TypeOK, FillInv, AllocPcs
<1>2. TypeOK'
  BY <1>1, SlotParts DEF TypeOK
<1>3. LockInv' /\ DownInv'
  BY DEF TypeOK, LockInv, DownInv, HeldPcs, AllocPcs
<1>4. TableInv' /\ RingInv'
  BY DEF TableInv, RingInv, Slot, Named
<1>5. FillInv'
  BY DEF TypeOK, FillInv, AllocPcs, Slot
<1>6. CpuInv'
  BY DEF TypeOK, CpuInv, HeldPcs, AllocPcs, Named
<1>7. QED
  BY <1>2, <1>3, <1>4, <1>5, <1>6

LEMMA StepWrite ==
  ASSUME SlotInv, NEW q \in Queues, vlan_id_write(q)
  PROVE  SlotInv'
<1> USE VlanAssumption DEF SlotInv
<1>1. TypeOK'
  BY WriteChangesOneSlot DEF TypeOK, vlan_id_write, goto, device_vars
<1>2. LockInv' /\ DownInv' /\ CpuInv' /\ RingInv'
  BY DEF TypeOK, LockInv, DownInv, CpuInv, RingInv, Named, HeldPcs, AllocPcs,
         vlan_id_write, goto, device_vars
<1>3. TableInv'
  <2> SUFFICES ASSUME NEW v \in Vids, vlan_idx[v] # 0
               PROVE  /\ vlan_idx[v] <= vlan_next_idx
                      /\ vlan_id'[(vlan_idx[v] - 1) \div 2][(vlan_idx[v] - 1) % 2] = v
    BY DEF TableInv, Slot, vlan_id_write
  <2>1. vlan_idx[v] - 1 \in 0 .. Slots - 1
    BY DEF TypeOK
  <2>2. vlan_idx[v] - 1 # idx[q]
    BY DEF TypeOK, FillInv, AllocPcs, vlan_id_write
  <2>3. QED
    BY <2>1, <2>2, WriteChangesOneSlot DEF TableInv
<1>4. FillInv'
  <2>1. \A p \in Queues : pc'[p] \in AllocPcs => p = q
    BY DEF TypeOK, LockInv, HeldPcs, AllocPcs, vlan_id_write, goto
  <2>2. pc'[q] = "written"
    BY DEF TypeOK, vlan_id_write, goto
  <2>3. Slot(idx[q])' = skb[q]
    BY WriteChangesOneSlot
  <2>4. QED
    BY <2>1, <2>2, <2>3 DEF TypeOK, FillInv, AllocPcs, vlan_id_write, goto
<1>5. QED
  BY <1>1, <1>2, <1>3, <1>4

LEMMA StepPublish ==
  ASSUME SlotInv, NEW q \in Queues, cache_publish(q)
  PROVE  SlotInv'
<1> USE VlanAssumption DEF SlotInv, cache_publish, goto, device_vars
<1>1. /\ skb[q] \in Vids /\ vlan_idx[skb[q]] = 0 /\ idx[q] + 1 = vlan_next_idx
      /\ Slot(idx[q]) = skb[q]
  BY DEF FillInv, CpuInv, HeldPcs, AllocPcs
<1>2. TypeOK'
  BY <1>1 DEF TypeOK
<1>3. LockInv' /\ DownInv'
  BY DEF TypeOK, LockInv, DownInv, HeldPcs, AllocPcs
<1>4. TableInv'
  <2> SUFFICES ASSUME NEW v \in Vids, vlan_idx'[v] # 0
               PROVE  vlan_idx'[v] <= vlan_next_idx /\ Slot(vlan_idx'[v] - 1) = v
    BY DEF TableInv, Slot
  <2>1. CASE v = skb[q]
    <3>1. vlan_idx'[v] = idx[q] + 1 /\ idx[q] \in Nat /\ (idx[q] + 1) - 1 = idx[q]
      BY <1>1, <2>1 DEF TypeOK
    <3>2. QED
      BY <1>1, <2>1, <3>1 DEF TypeOK
  <2>2. CASE v # skb[q]
    BY <2>2 DEF TypeOK, TableInv
  <2>3. QED
    BY <2>1, <2>2
<1>5. FillInv'
  BY DEF TypeOK, FillInv, LockInv, AllocPcs, HeldPcs
<1>6. CpuInv'
  BY <1>1 DEF TypeOK, CpuInv, HeldPcs, AllocPcs, Named
<1>7. RingInv'
  BY <1>1 DEF TypeOK, RingInv, Named
<1>8. QED
  BY <1>2, <1>3, <1>4, <1>5, <1>6, <1>7

LEMMA StepUnlock ==
  ASSUME SlotInv, NEW q \in Queues, cache_unlock(q)
  PROVE  SlotInv'
<1> USE VlanAssumption DEF SlotInv, cache_unlock, goto, cache_vars, device_vars
<1>1. TypeOK' /\ LockInv' /\ DownInv'
  BY DEF TypeOK, LockInv, DownInv, HeldPcs, AllocPcs
<1>2. TableInv' /\ RingInv'
  BY DEF TableInv, RingInv, Slot, Named
<1>3. FillInv' /\ CpuInv'
  BY DEF TypeOK, FillInv, CpuInv, HeldPcs, AllocPcs, Named, Slot
<1>4. QED
  BY <1>1, <1>2, <1>3

LEMMA StepXmit ==
  ASSUME SlotInv, NEW q \in Queues, xmit(q)
  PROVE  SlotInv'
<1> USE VlanAssumption DEF SlotInv
<1> DEFINE p == [vid |-> skb[q], vidx |-> idx[q], inner |-> IF idx[q] = 0 THEN skb[q] ELSE NoVid]
<1>1. p \in Packets /\ p.vid = skb[q] /\ p.vidx = idx[q] /\ (idx[q] = 0 => p.inner = skb[q])
  BY DEF Packets, TypeOK
<1>2. ring' = [ring EXCEPT ![q] = Append(@, p)]
  BY DEF xmit
<1> HIDE DEF p
<1>3. TypeOK'
  BY <1>1, <1>2 DEF TypeOK, xmit, goto, cache_vars, NoWord, Words
<1>4. LockInv' /\ DownInv'
  BY <1>2 DEF TypeOK, LockInv, DownInv, HeldPcs, AllocPcs, xmit, goto, cache_vars
<1>5. TableInv' /\ FillInv' /\ CpuInv'
  BY DEF TypeOK, TableInv, FillInv, CpuInv, HeldPcs, AllocPcs, Named, Slot, xmit, goto, cache_vars
<1>6. Named(p.vid, p.vidx) /\ (p.vidx = 0 => p.inner = p.vid)
  BY <1>1 DEF CpuInv, Named, xmit
<1>7. RingInv'
  <2> SUFFICES ASSUME NEW r \in Queues, NEW i \in 1 .. Len(ring'[r])
               PROVE  /\ Named(ring'[r][i].vid, ring'[r][i].vidx)
                      /\ ring'[r][i].vidx = 0 => ring'[r][i].inner = ring'[r][i].vid
    BY DEF RingInv, Named, xmit, cache_vars
  <2>1. ring[r] \in Seq(Packets) /\ ring' = [x \in Queues |-> IF x = q THEN Append(ring[q], p) ELSE ring[x]]
    BY <1>2 DEF TypeOK
  <2>2. CASE r = q /\ i = Len(ring[q]) + 1
    BY <1>1, <1>6, <2>1, <2>2
  <2>3. CASE ~(r = q /\ i = Len(ring[q]) + 1)
    <3>1. i \in 1 .. Len(ring[r]) /\ ring'[r][i] = ring[r][i]
      BY <1>1, <2>1, <2>3
    <3>2. QED
      BY <3>1 DEF RingInv
  <2>4. QED
    BY <2>2, <2>3
<1>8. QED
  BY <1>3, <1>4, <1>5, <1>7

LEMMA StepDrop ==
  ASSUME SlotInv, NEW q \in Queues, xmit_drop(q)
  PROVE  SlotInv'
<1> USE VlanAssumption DEF SlotInv, xmit_drop, goto, cache_vars, device_vars
<1>1. TypeOK'
  BY DEF TypeOK, NoWord, Words
<1>2. LockInv' /\ DownInv'
  BY DEF TypeOK, LockInv, DownInv, HeldPcs, AllocPcs
<1>3. TableInv' /\ FillInv' /\ CpuInv' /\ RingInv'
  BY DEF TypeOK, TableInv, FillInv, CpuInv, RingInv, HeldPcs, AllocPcs, Named, Slot
<1>4. QED
  BY <1>1, <1>2, <1>3

LEMMA StepSend ==
  ASSUME SlotInv, NEW q \in Queues, HwSend(q)
  PROVE  SlotInv'
<1> USE VlanAssumption DEF SlotInv, HwSend, cache_vars, cpu_vars
<1>1. TypeOK'
  BY DEF TypeOK
<1>2. LockInv' /\ DownInv'
  BY DEF TypeOK, LockInv, DownInv, HeldPcs, AllocPcs
<1>3. TableInv' /\ FillInv' /\ CpuInv'
  BY DEF TableInv, FillInv, CpuInv, Named, Slot
<1>4. RingInv'
  BY DEF TypeOK, RingInv, Named
<1>5. QED
  BY <1>1, <1>2, <1>3, <1>4

LEMMA StepOpenStop ==
  ASSUME SlotInv, open \/ stop
  PROVE  SlotInv'
<1> USE VlanAssumption DEF SlotInv, cache_vars, cpu_vars
<1>1. CASE open
  <2>1. TypeOK'
    BY <1>1 DEF TypeOK, open
  <2>2. QED
    BY <1>1, <2>1 DEF open, LockInv, TableInv, FillInv, CpuInv, RingInv, DownInv, HeldPcs, AllocPcs, Named
<1>2. CASE stop
  <2>1. TypeOK' /\ LockInv' /\ TableInv' /\ RingInv' /\ DownInv'
    BY <1>2 DEF TypeOK, stop, LockInv, TableInv, RingInv, DownInv, Slot
  <2>2. FillInv' /\ CpuInv'
    BY <1>2 DEF stop, FillInv, CpuInv, HeldPcs, AllocPcs, Named
  <2>3. QED
    BY <2>1, <2>2
<1>3. QED
  BY <1>1, <1>2

LEMMA StepSlots == SlotInv /\ [Next]_vars => SlotInv'
<1> SUFFICES ASSUME SlotInv, [Next]_vars PROVE SlotInv'
  OBVIOUS
<1>1. CASE UNCHANGED vars
  BY <1>1 DEF vars, SlotInv, TypeOK, LockInv, TableInv, FillInv, CpuInv, RingInv, DownInv, Named, Slot
<1>2. ASSUME NEW q \in Queues,
             \/ \E v \in Vids \cup {NoVid} : prepare_vlan(q, v)
             \/ cache_alloc(q) \/ vlan_id_read(q) \/ vlan_id_write(q) \/ cache_publish(q)
             \/ cache_unlock(q) \/ xmit(q) \/ xmit_drop(q) \/ HwSend(q)
      PROVE  SlotInv'
  BY <1>2, StepPrepare, StepAlloc, StepRead, StepWrite, StepPublish, StepUnlock, StepXmit,
     StepDrop, StepSend
<1>3. QED
  BY <1>1, <1>2, StepOpenStop DEF Next

-----------------------------------------------------------------------------
(* Counting the slots.                                                     *)

LEMMA CachedFinite == ASSUME TypeOK PROVE IsFiniteSet(Cached)
  BY VlanAssumption, FS_Subset DEF Cached

\* At most the holder of vlan_lock is filling a slot.
LEMMA OneFills ==
  ASSUME TypeOK, LockInv
  PROVE  Allocating = IF \E q \in Queues : vlan_lock = q /\ pc[q] \in AllocPcs
                      THEN {vlan_lock} ELSE {}
  BY DEF Allocating, LockInv, HeldPcs, AllocPcs

LEMMA FillingCount ==
  ASSUME TypeOK, LockInv
  PROVE  Cardinality(Allocating) =
           IF \E q \in Queues : vlan_lock = q /\ pc[q] \in AllocPcs THEN 1 ELSE 0
  BY OneFills, FS_EmptySet, FS_Singleton

LEMMA StepCount == SlotInv /\ SlotInv' /\ CountInv /\ [Next]_vars => CountInv'
<1> SUFFICES ASSUME SlotInv, SlotInv', CountInv, [Next]_vars PROVE CountInv'
  OBVIOUS
<1> USE VlanAssumption DEF SlotInv
<1> DEFINE A == \E q \in Queues : vlan_lock = q /\ pc[q] \in AllocPcs
           n == Cardinality(Allocating)
           c == Cardinality(Cached)
<1>1. n = (IF A THEN 1 ELSE 0) /\ n' = (IF A' THEN 1 ELSE 0)
  <2>1. n = (IF A THEN 1 ELSE 0)
    BY FillingCount
  <2>2. Allocating' = {q \in Queues : pc'[q] \in {"locked", "read", "written"}}
    BY DEF Allocating
  <2>3. Allocating' = IF A' THEN {vlan_lock'} ELSE {}
    BY <2>2 DEF LockInv, HeldPcs, AllocPcs
  <2>4. QED
    BY <2>1, <2>3, FS_EmptySet, FS_Singleton
<1>2. IsFiniteSet(Cached) /\ c \in Nat
  BY CachedFinite, FS_CardinalityType
<1>3. vlan_next_idx = c + n
  BY DEF CountInv
<1> SUFFICES vlan_next_idx' = c' + n'
  BY DEF CountInv
<1> HIDE DEF n, c
<1>4. ASSUME NEW q \in Queues, cache_alloc(q)
      PROVE  vlan_next_idx' = c' + n'
  <2>1. ~A
    BY <1>4 DEF cache_alloc, vlan_lock_free
  <2>2. c' = c
    BY <1>4 DEF cache_alloc, c, Cached
  <2>3. A' <=> pc'[q] = "locked"
    BY <1>4 DEF cache_alloc, goto, AllocPcs, TypeOK
  <2>4. vlan_next_idx' = vlan_next_idx + (IF pc'[q] = "locked" THEN 1 ELSE 0)
    BY <1>4 DEF cache_alloc, goto, TypeOK
  <2>5. QED
    BY <1>1, <1>2, <1>3, <2>1, <2>2, <2>3, <2>4
<1>5. ASSUME NEW q \in Queues, cache_publish(q)
      PROVE  vlan_next_idx' = c' + n'
  <2>1. A /\ ~A'
    BY <1>5 DEF cache_publish, goto, TypeOK, LockInv, HeldPcs, AllocPcs
  <2>2. skb[q] \in Vids /\ skb[q] \notin Cached
    BY <1>5 DEF cache_publish, FillInv, CpuInv, HeldPcs, AllocPcs, Cached
  <2>3. Cached' = Cached \cup {skb[q]}
    <3>1. vlan_idx' = [vlan_idx EXCEPT ![skb[q]] = idx[q] + 1] /\ idx[q] + 1 # 0
      BY <1>5 DEF cache_publish, TypeOK
    <3>2. QED
      BY <2>2, <3>1 DEF Cached, TypeOK
  <2>4. c' = c + 1
    BY <1>2, <2>2, <2>3, FS_AddElement DEF c
  <2>5. vlan_next_idx' = vlan_next_idx
    BY <1>5 DEF cache_publish
  <2>6. QED
    BY <1>1, <1>2, <1>3, <2>1, <2>4, <2>5
<1>6. CASE open
  <2>1. Cached' = {} /\ vlan_next_idx' = 0
    BY <1>6 DEF open, Cached
  <2>2. ~A'
    BY <1>6 DEF open, DownInv, cpu_vars, AllocPcs
  <2>3. QED
    BY <1>1, <2>1, <2>2, FS_EmptySet DEF c
<1>7. ASSUME UNCHANGED <<vlan_idx, vlan_next_idx>>, A' <=> A
      PROVE  vlan_next_idx' = c' + n'
  BY <1>1, <1>3, <1>7 DEF c, Cached
<1>8. ASSUME NEW q \in Queues,
             \/ \E v \in Vids \cup {NoVid} : prepare_vlan(q, v)
             \/ vlan_id_read(q) \/ vlan_id_write(q) \/ cache_unlock(q)
             \/ xmit(q) \/ xmit_drop(q) \/ HwSend(q)
      PROVE  vlan_next_idx' = c' + n'
  <2>1. UNCHANGED <<vlan_idx, vlan_next_idx>>
    BY <1>8 DEF prepare_vlan, vlan_id_read, vlan_id_write, cache_unlock, xmit, xmit_drop, HwSend,
                cache_vars
  <2>2. A' <=> A
    BY <1>8 DEF prepare_vlan, vlan_id_read, vlan_id_write, cache_unlock, xmit, xmit_drop, HwSend,
                cpu_vars, goto, TypeOK, LockInv, HeldPcs, AllocPcs
  <2>3. QED
    BY <1>7, <2>1, <2>2
<1>9. CASE stop \/ UNCHANGED vars
  <2>1. UNCHANGED <<vlan_idx, vlan_next_idx, vlan_lock, pc>>
    BY <1>9 DEF stop, vars, cache_vars, cpu_vars
  <2>2. QED
    BY <1>7, <2>1
<1>10. QED
  BY <1>4, <1>5, <1>6, <1>8, <1>9 DEF Next

-----------------------------------------------------------------------------
(* The theorems.                                                           *)

\* TableIInv is an invariant of the VLAN tag cache
\* (ralink_fe_tx_prepare_vlan, ralink_fe_vlan_cache_alloc): for every number
\* of slots, ids and queues.
THEOREM TableInvariance == Spec => []TableIInv
<1>1. Init => TableIInv
  <2> SUFFICES ASSUME Init PROVE TableIInv
    OBVIOUS
  <2>1. Cached = {} /\ Allocating = {} /\ vlan_next_idx = 0
    BY DEF Init, Cached, Allocating
  <2>2. CountInv
    BY <2>1, FS_EmptySet DEF CountInv
  <2>3. QED
    BY <2>2, InitSlots DEF TableIInv
<1>2. TableIInv /\ [Next]_vars => TableIInv'
  BY StepSlots, StepCount DEF TableIInv
<1>3. QED
  BY <1>1, <1>2, PTL DEF Spec

\* A packet with an index in its descriptor or a tag in its data leaves with
\* its own id, whichever queue filled the slot and whatever was written to the
\* other half of the register since.
THEOREM OwnTagAlways == Spec => []OwnTag
<1>1. TableIInv => OwnTag
  <2> SUFFICES ASSUME SlotInv, NEW q \in Queues, NEW i \in DOMAIN ring[q]
               PROVE  Wire(ring[q][i]) = ring[q][i].vid
    BY DEF OwnTag, TableIInv
  <2>1. i \in 1 .. Len(ring[q]) /\ ring[q][i] \in Packets
    BY DEF SlotInv, TypeOK
  <2>2. Named(ring[q][i].vid, ring[q][i].vidx) /\ (ring[q][i].vidx = 0 => ring[q][i].inner = ring[q][i].vid)
    BY <2>1 DEF SlotInv, RingInv
  <2>3. QED
    BY <2>2 DEF Wire, Named, SlotInv, TableInv, Slot
<1>2. QED
  BY <1>1, TableInvariance, PTL

\* The slots handed out by ralink_fe_vlan_cache_alloc are as many as the ids
\* that are cached or being cached, and no two ids share one.
THEOREM OneSlotPerIdAlways == Spec => []OneSlotPerId
<1>1. TableIInv => OneSlotPerId
  <2> SUFFICES ASSUME TableIInv PROVE OneSlotPerId
    OBVIOUS
  <2>1. vlan_next_idx = Cardinality({v \in Vids : vlan_idx[v] # 0}) + Cardinality(Allocating)
    BY DEF TableIInv, CountInv, Cached
  <2>2. \A v, w \in {x \in Vids : vlan_idx[x] # 0} : vlan_idx[v] = vlan_idx[w] => v = w
    BY DEF TableIInv, SlotInv, TableInv
  <2>3. QED
    BY <2>1, <2>2 DEF OneSlotPerId
<1>2. QED
  BY <1>1, TableInvariance, PTL
============================================================================
