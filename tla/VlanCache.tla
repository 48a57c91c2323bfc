------------------------------ MODULE VlanCache ------------------------------
(***************************************************************************)
(* VLAN tag insertion on transmission (ralink_fe.c). A descriptor names a  *)
(* slot of a small table of VLAN ids in the engine's registers, two ids to *)
(* a register. The driver fills the table as ids turn up, from any number  *)
(* of transmit queues at once: vlan_idx is looked up without a lock, a     *)
(* miss allocates a slot under vlan_lock, and when the table is full the   *)
(* tag is put into the packet instead. Slots are never given back;         *)
(* ndo_open forgets all of them. On the SoCs of the driver, which have one *)
(* CPU, transmit queues do not run at the same time; that they do here is  *)
(* what vlan_lock is written for.                                          *)
(***************************************************************************)
EXTENDS Naturals, Sequences, FiniteSets

CONSTANTS Vids, NoVid,  \* VLAN ids, and none
          Slots,   \* RALINK_FE_VLAN_SLOTS
          Queues,  \* transmit queues, each with its own lock in the stack
          NoQueue,
          Depth    \* bound: packets waiting in one queue

ASSUME VlanAssumption ==
  /\ Slots \in Nat \ {0} /\ Slots % 2 = 0
  /\ Depth \in Nat \ {0}
  /\ IsFiniteSet(Vids)  \* vlan_idx has VLAN_N_VID entries
  /\ NoVid \notin Vids /\ NoQueue \notin Queues

VARIABLES
  insv,          \* the SoC inserts tags (tx4_port is not RA_TX4_NONE)
  vlan_idx,      \* per id: 0 for uncached, else slot + 1
  vlan_next_idx, \* the next free slot
  vlan_lock,     \* the holder of priv->vlan_lock
  vlan_id,       \* the registers: two ids each
  pc,            \* per queue: where its ndo_start_xmit is
  skb,           \* per queue: the packet's id, as the stack gave it
  idx,           \* per queue: vidx
  val,           \* per queue: the register as read
  ring,          \* per queue: packets the engine has yet to send
  ctl            \* "down" or "up"

vars == <<insv, vlan_idx, vlan_next_idx, vlan_lock, vlan_id, pc, skb, idx, val, ring, ctl>>

Regs == 0 .. (Slots \div 2) - 1
Words == [0 .. 1 -> Vids \cup {NoVid}]

\* A packet in a ring: the id it should carry, the one in its data, and the
\* slot + 1 the engine is to insert (0: INSV not set).
Packets == [vid : Vids \cup {NoVid}, inner : Vids \cup {NoVid}, vidx : 0 .. Slots]

TypeOK ==
  /\ insv \in BOOLEAN
  /\ vlan_idx \in [Vids -> 0 .. Slots] /\ vlan_next_idx \in 0 .. Slots
  /\ vlan_lock \in Queues \cup {NoQueue}
  /\ vlan_id \in [Regs -> Words]
  /\ pc \in [Queues -> {"idle", "miss", "locked", "read", "written", "unlock", "ready"}]
  /\ skb \in [Queues -> Vids \cup {NoVid}]
  /\ idx \in [Queues -> 0 .. Slots] /\ val \in [Queues -> Words]
  /\ ring \in [Queues -> Seq(Packets)]
  /\ ctl \in {"down", "up"}

NoWord == [h \in 0 .. 1 |-> NoVid]

Init ==
  /\ insv \in BOOLEAN
  /\ vlan_idx = [v \in Vids |-> 0] /\ vlan_next_idx = 0 /\ vlan_lock = NoQueue
  /\ vlan_id = [r \in Regs |-> NoWord]
  /\ pc = [q \in Queues |-> "idle"] /\ skb = [q \in Queues |-> NoVid]
  /\ idx = [q \in Queues |-> 0] /\ val = [q \in Queues |-> NoWord]
  /\ ring = [q \in Queues |-> <<>>]
  /\ ctl = "down"

goto(q, l) == pc' = [pc EXCEPT ![q] = l]
cache_vars == <<vlan_idx, vlan_next_idx, vlan_id>>
device_vars == <<insv, ring, ctl>>

-----------------------------------------------------------------------------
(* ralink_fe_tx_prepare_vlan.                                              *)

\* An untagged packet needs nothing; an id that is cached takes no lock.
prepare_vlan(q, v) ==
  /\ ctl = "up" /\ pc[q] = "idle" /\ Len(ring[q]) < Depth
  /\ skb' = [skb EXCEPT ![q] = v]
  /\ idx' = [idx EXCEPT ![q] = IF v = NoVid THEN 0 ELSE vlan_idx[v]]
  /\ goto(q, IF v # NoVid /\ vlan_idx[v] = 0 /\ insv THEN "miss" ELSE "ready")
  /\ UNCHANGED <<cache_vars, vlan_lock, val, device_vars>>

\* Fault: no lock around the allocation.
vlan_lock_missing == TRUE

vlan_lock_free == vlan_lock = NoQueue

\* Fault: the id is not looked up again under the lock.
recheck_missing(v) == 0

recheck(v) == vlan_idx[v]

\* ralink_fe_vlan_cache_alloc. Another queue may have cached the id since.
cache_alloc(q) ==
  LET found == recheck(skb[q])
      full == vlan_next_idx >= Slots
  IN /\ pc[q] = "miss" /\ vlan_lock_free
     /\ vlan_lock' = q
     /\ idx' = [idx EXCEPT ![q] = IF found # 0 \/ full THEN found ELSE vlan_next_idx]
     /\ vlan_next_idx' = IF found # 0 \/ full THEN vlan_next_idx ELSE vlan_next_idx + 1
     /\ goto(q, IF found # 0 \/ full THEN "unlock" ELSE "locked")
     /\ UNCHANGED <<vlan_idx, vlan_id, skb, val, device_vars>>

\* ralink_fe_vlan_id_write_locked: one half of the register is replaced.
vlan_id_read(q) ==
  /\ pc[q] = "locked"
  /\ val' = [val EXCEPT ![q] = vlan_id[idx[q] \div 2]]
  /\ goto(q, "read")
  /\ UNCHANGED <<cache_vars, vlan_lock, skb, idx, device_vars>>

vlan_id_write(q) ==
  /\ pc[q] = "read"
  /\ vlan_id' = [vlan_id EXCEPT ![idx[q] \div 2] = [val[q] EXCEPT ![idx[q] % 2] = skb[q]]]
  /\ goto(q, "written")
  /\ UNCHANGED <<vlan_idx, vlan_next_idx, vlan_lock, skb, idx, val, device_vars>>

\* Only now other queues may find the id.
cache_publish(q) ==
  /\ pc[q] = "written"
  /\ idx' = [idx EXCEPT ![q] = @ + 1]
  /\ vlan_idx' = [vlan_idx EXCEPT ![skb[q]] = idx[q] + 1]
  /\ goto(q, "unlock")
  /\ UNCHANGED <<vlan_next_idx, vlan_id, vlan_lock, skb, val, device_vars>>

cache_unlock(q) ==
  /\ pc[q] = "unlock"
  /\ vlan_lock' = NoQueue
  /\ goto(q, "ready")
  /\ UNCHANGED <<cache_vars, skb, idx, val, device_vars>>

\* The rest of ndo_start_xmit: the descriptor names the slot, or the tag has
\* been pushed into the packet (INSV off).
xmit(q) ==
  /\ pc[q] = "ready"
  /\ ring' = [ring EXCEPT ![q] =
                Append(@, [vid |-> skb[q], vidx |-> idx[q],
                           inner |-> IF idx[q] = 0 THEN skb[q] ELSE NoVid])]
  /\ goto(q, "idle")
  /\ skb' = [skb EXCEPT ![q] = NoVid] /\ idx' = [idx EXCEPT ![q] = 0]
  /\ val' = [val EXCEPT ![q] = NoWord]
  /\ UNCHANGED <<cache_vars, vlan_lock, insv, ctl>>

\* __vlan_hwaccel_push_inside or the mapping fails.
xmit_drop(q) ==
  /\ pc[q] = "ready"
  /\ goto(q, "idle")
  /\ skb' = [skb EXCEPT ![q] = NoVid] /\ idx' = [idx EXCEPT ![q] = 0]
  /\ val' = [val EXCEPT ![q] = NoWord]
  /\ UNCHANGED <<cache_vars, vlan_lock, device_vars>>

-----------------------------------------------------------------------------
(* The engine, ndo_open and ndo_stop.                                      *)

cpu_vars == <<vlan_lock, pc, skb, idx, val>>

\* The engine sends the next packet of a queue (external).
HwSend(q) ==
  /\ ring[q] # <<>>
  /\ ring' = [ring EXCEPT ![q] = Tail(@)]
  /\ UNCHANGED <<cache_vars, cpu_vars, insv, ctl>>

\* ndo_open forgets the table; the registers keep their ids.
open ==
  /\ ctl = "down"
  /\ vlan_idx' = [v \in Vids |-> 0] /\ vlan_next_idx' = 0
  /\ ctl' = "up"
  /\ UNCHANGED <<vlan_id, cpu_vars, insv, ring>>

\* netif_tx_disable waits for running transmissions; the rings are reset. An
\* engine that ralink_fe_dma_disable could not stop has lost its rings, and
\* nothing is said about what it still sends.
stop ==
  /\ ctl = "up" /\ \A q \in Queues : pc[q] = "idle"
  /\ ctl' = "down"
  /\ ring' = [q \in Queues |-> <<>>]
  /\ UNCHANGED <<cache_vars, cpu_vars, insv>>

-----------------------------------------------------------------------------
Next ==
  \/ \E q \in Queues :
       \/ \E v \in Vids \cup {NoVid} : prepare_vlan(q, v)
       \/ cache_alloc(q) \/ vlan_id_read(q) \/ vlan_id_write(q) \/ cache_publish(q)
       \/ cache_unlock(q) \/ xmit(q) \/ xmit_drop(q) \/ HwSend(q)
  \/ open \/ stop

Spec == Init /\ [][Next]_vars

-----------------------------------------------------------------------------
(* Properties.                                                             *)

\* The id with which the engine would send a packet now.
Wire(p) == IF p.vidx = 0 THEN p.inner ELSE vlan_id[(p.vidx - 1) \div 2][(p.vidx - 1) % 2]

\* Whenever the engine gets to a packet, the packet leaves with its own VLAN
\* id: whichever queue cached the id (ralink_fe_vlan_cache_alloc), whatever
\* was written into the other half of the register meanwhile, whether the
\* table was full, and over any number of stops and opens.
OwnTag == \A q \in Queues : \A i \in DOMAIN ring[q] : Wire(ring[q][i]) = ring[q][i].vid

Allocating == {q \in Queues : pc[q] \in {"locked", "read", "written"}}

\* The table's few slots are spent on distinct ids: two queues that miss the
\* same id at once cache it in one slot, and none is lost.
OneSlotPerId ==
  LET cached == {v \in Vids : vlan_idx[v] # 0} IN
  /\ vlan_next_idx = Cardinality(cached) + Cardinality(Allocating)
  /\ \A v, w \in cached : vlan_idx[v] = vlan_idx[w] => v = w
=============================================================================
