-------------------------- MODULE FlowOffloadProofs --------------------------
(***************************************************************************)
(* Proofs about FlowOffload. One lemma per action shows that it preserves  *)
(* the inductive invariant IInv; the first step of each lemma proves the   *)
(* conjuncts that stand on their own, the others those that need further   *)
(* parts of the invariant. The theorems follow: the invariants that the    *)
(* runs check, the action property on lastused and the refinement of       *)
(* FlowAuth.                                                               *)
(***************************************************************************)
EXTENDS FlowOffload, TLAPS

\* Authorising a flow takes memory that no table, slot or promotion refers to.
LEMMA flow_replace_preserves ==
  ASSUME IInv, NEW c \in Cookies, NEW k \in Keys, flow_replace(c, k)
  PROVE  IInv'
<1>1. TypeOK' /\ CtlInv'
  BY DEF IInv, TypeOK, FoeRecord, CtlInv, flow_replace, prepare_accepts,
      v1_prepare_accepts, v2_prepare_accepts, flow_lock_free, TcBound,
      entry_vars, table_vars, Keys
<1>2. MemInv'
  BY DEF IInv, TypeOK, FoeRecord, MemInv, LinkedIsLive, flow_replace,
      prepare_accepts, v1_prepare_accepts, v2_prepare_accepts, flow_lock_free,
      TcBound, entry_vars, table_vars, Parsable, v1_Parsable, v2_Parsable,
      Keys
<1>3. TcInv'
  BY DEF IInv, TypeOK, FoeRecord, MemInv, LinkedIsLive, TcInv, flow_replace,
      prepare_accepts, v1_prepare_accepts, v2_prepare_accepts, flow_lock_free,
      TcBound, entry_vars, table_vars
<1>4. RxInv'
  BY DEF IInv, TypeOK, FoeRecord, MemInv, LinkedIsLive, RxInv, flow_replace,
      prepare_accepts, v1_prepare_accepts, v2_prepare_accepts, flow_lock_free,
      TcBound, entry_vars, table_vars
<1>5. NoOrphanBind'
  BY DEF IInv, TypeOK, FoeRecord, MemInv, LinkedIsLive, NoOrphanBind, Owned,
      flow_replace, prepare_accepts, v1_prepare_accepts, v2_prepare_accepts,
      flow_lock_free, TcBound, entry_vars, table_vars
<1> QED
  BY <1>1, <1>2, <1>3, <1>4, <1>5 DEF IInv

\* Publishing the tuple: the entry has been in the cookie table since before.
LEMMA flow_insert_tuple_preserves ==
  ASSUME IInv, flow_insert_tuple
  PROVE  IInv'
<1>1. TcInv' /\ RxInv' /\ CtlInv' /\ NoOrphanBind'
  BY DEF IInv, TcInv, RxInv, CtlInv, NoOrphanBind, Owned, flow_insert_tuple,
      IdleTc, entry_vars, table_vars
<1>2. TypeOK'
  BY DEF IInv, TypeOK, FoeRecord, TcInv, flow_insert_tuple, IdleTc,
      entry_vars, table_vars
<1>3. MemInv'
  BY DEF IInv, TypeOK, FoeRecord, MemInv, LinkedIsLive, TcInv,
      flow_insert_tuple, IdleTc, entry_vars, table_vars
<1> QED
  BY <1>1, <1>2, <1>3 DEF IInv

\* The error path of flow_insert: the entry was never visible to RX, so no slot
\* can carry its template when it is freed without a grace period.
LEMMA flow_insert_fails_preserves ==
  ASSUME IInv, flow_insert_fails
  PROVE  IInv'
<1>1. TypeOK' /\ TcInv' /\ CtlInv'
  BY DEF IInv, TypeOK, FoeRecord, TcInv, CtlInv, flow_insert_fails, IdleTc,
      entry_vars, table_vars, Keys
<1>2. MemInv'
  BY DEF IInv, TypeOK, FoeRecord, MemInv, LinkedIsLive, TcInv,
      flow_insert_fails, IdleTc, entry_vars, table_vars
<1>3. RxInv'
  BY DEF IInv, TypeOK, FoeRecord, TcInv, RxInv, flow_insert_fails, IdleTc,
      entry_vars, table_vars
<1>4. NoOrphanBind'
  BY NullAssumption
  DEF IInv, TypeOK, FoeRecord, MemInv, LinkedIsLive, TcInv, RxInv, CtlInv,
      NoOrphanBind, Owned, flow_insert_fails, IdleTc, entry_vars, table_vars
<1> QED
  BY <1>1, <1>2, <1>3, <1>4 DEF IInv

\* Marking an entry dead waits for ppe->lock, so the promotion in progress, if
\* any, is not of this entry.
LEMMA flow_destroy_preserves ==
  ASSUME IInv, NEW c \in Cookies, flow_destroy(c)
  PROVE  IInv'
<1>1. TypeOK' /\ MemInv' /\ TcInv' /\ RxInv' /\ CtlInv' /\ NoOrphanBind'
  BY DEF IInv, TypeOK, FoeRecord, MemInv, LinkedIsLive, TcInv, RxInv, CtlInv,
      NoOrphanBind, Owned, flow_destroy, flow_lock_free, TcBound,
      ppe_lock_free, entry_vars, table_vars, Keys
<1> QED
  BY <1>1 DEF IInv

\* ops->remove: if any slot is bound with the entry's template, the entry
\* remembers it and the tuple matches, so the slot is cleared.
LEMMA flow_remove_preserves ==
  ASSUME IInv, flow_remove
  PROVE  IInv'
<1>1. MemInv' /\ RxInv' /\ CtlInv'
  BY DEF IInv, MemInv, LinkedIsLive, RxInv, CtlInv, flow_remove,
      ppe_lock_free, foe_clear_locked, v1_foe_clear, v2_foe_clear,
      foe_is_bound, v1_foe_is_bound, v2_foe_is_bound, Zeroed, entry_vars,
      table_vars
<1>2. TypeOK'
  BY DEF IInv, TypeOK, FoeRecord, MemInv, LinkedIsLive, TcInv, RxInv, CtlInv,
      NoOrphanBind, Owned, flow_remove, ppe_lock_free, foe_clear_locked,
      v1_foe_clear, v2_foe_clear, foe_is_bound, v1_foe_is_bound,
      v2_foe_is_bound, Zeroed, entry_vars, table_vars, Parsable, v1_Parsable,
      v2_Parsable, Keys
<1>3. TcInv'
  BY DEF IInv, TypeOK, FoeRecord, TcInv, flow_remove, ppe_lock_free,
      foe_clear_locked, v1_foe_clear, v2_foe_clear, foe_is_bound,
      v1_foe_is_bound, v2_foe_is_bound, Zeroed, entry_vars, table_vars
<1>4. NoOrphanBind'
  BY DEF IInv, TypeOK, FoeRecord, NoOrphanBind, Owned, flow_remove,
      ppe_lock_free, foe_clear_locked, v1_foe_clear, v2_foe_clear,
      foe_is_bound, v1_foe_is_bound, v2_foe_is_bound, Zeroed, entry_vars,
      table_vars, Parsable, v1_Parsable, v2_Parsable, Keys
<1> QED
  BY <1>1, <1>2, <1>3, <1>4 DEF IInv

\* Unlinking the tuple of a dead entry does not touch the entry being promoted.
LEMMA flow_unlink_preserves ==
  ASSUME IInv, flow_unlink
  PROVE  IInv'
<1>1. TypeOK' /\ MemInv' /\ TcInv' /\ CtlInv' /\ NoOrphanBind'
  BY DEF IInv, TypeOK, FoeRecord, MemInv, LinkedIsLive, TcInv, CtlInv,
      NoOrphanBind, Owned, flow_unlink, entry_vars, table_vars, Keys
<1>2. RxInv'
  BY DEF IInv, TypeOK, FoeRecord, TcInv, RxInv, flow_unlink, entry_vars,
      table_vars
<1> QED
  BY <1>1, <1>2 DEF IInv

\* Forgetting the entry: it remembers no slot, so no bound slot carries its template.
LEMMA flow_free_preserves ==
  ASSUME IInv, flow_free
  PROVE  IInv'
<1>1. TcInv' /\ RxInv' /\ CtlInv'
  BY DEF IInv, TcInv, RxInv, CtlInv, flow_free, kfree_rcu, IdleTc, entry_vars,
      table_vars
<1>2. TypeOK'
  BY DEF IInv, TypeOK, FoeRecord, TcInv, flow_free, kfree_rcu, IdleTc,
      entry_vars, table_vars
<1>3. MemInv'
  BY DEF IInv, TypeOK, FoeRecord, MemInv, LinkedIsLive, TcInv, flow_free,
      kfree_rcu, IdleTc, entry_vars, table_vars
<1>4. NoOrphanBind'
  BY NullAssumption
  DEF IInv, TypeOK, FoeRecord, MemInv, LinkedIsLive, TcInv, RxInv, CtlInv,
      NoOrphanBind, Owned, flow_free, kfree_rcu, IdleTc, entry_vars,
      table_vars
<1> QED
  BY <1>1, <1>2, <1>3, <1>4 DEF IInv

\* A keepalive only refreshes lastused.
LEMMA offload_check_keepalive_preserves ==
  ASSUME IInv, NEW s \in Slots, offload_check_keepalive(s)
  PROVE  IInv'
<1>1. TypeOK' /\ MemInv' /\ TcInv' /\ RxInv' /\ CtlInv' /\ NoOrphanBind'
  BY DEF IInv, TypeOK, FoeRecord, MemInv, LinkedIsLive, TcInv, RxInv, CtlInv,
      NoOrphanBind, Owned, offload_check_keepalive, ppe_lock_free, entry_vars,
      table_vars, Keys
<1> QED
  BY <1>1 DEF IInv

\* Authorisation: the remembered slot, if another one, is forgotten only when
\* it is no matching BIND, so no bound slot loses its owner.
LEMMA offload_check_authorise_preserves ==
  ASSUME IInv, NEW s \in Slots, offload_check_authorise(s)
  PROVE  IInv'
<1>1. TypeOK' /\ MemInv' /\ TcInv' /\ CtlInv'
  BY DEF IInv, TypeOK, FoeRecord, MemInv, LinkedIsLive, TcInv, CtlInv,
      offload_check_authorise, ppe_lock_free, foe_is_bound, v1_foe_is_bound,
      v2_foe_is_bound, entry_vars, table_vars, Keys
<1>2. RxInv'
  BY DEF IInv, TypeOK, FoeRecord, RxInv, offload_check_authorise,
      ppe_lock_free, foe_is_bound, v1_foe_is_bound, v2_foe_is_bound,
      entry_vars, table_vars
<1>3. NoOrphanBind'
  BY DEF IInv, TypeOK, FoeRecord, NoOrphanBind, Owned,
      offload_check_authorise, ppe_lock_free, foe_is_bound, v1_foe_is_bound,
      v2_foe_is_bound, entry_vars, table_vars, Parsable, v1_Parsable,
      v2_Parsable, Keys
<1> QED
  BY <1>1, <1>2, <1>3 DEF IInv

\* The descriptor is copied while INVALID.
LEMMA foe_commit_copy_preserves ==
  ASSUME IInv, foe_commit_copy
  PROVE  IInv'
<1>1. TypeOK' /\ MemInv' /\ TcInv'
  BY DEF IInv, TypeOK, FoeRecord, MemInv, LinkedIsLive, TcInv, RxInv,
      foe_commit_copy, entry_vars, table_vars, Keys
<1>2. NoOrphanBind'
  BY NullAssumption
  DEF IInv, TypeOK, FoeRecord, RxInv, NoOrphanBind, Owned, foe_commit_copy,
      entry_vars, table_vars
<1>3. RxInv'
  BY DEF IInv, TypeOK, FoeRecord, RxInv, foe_commit_copy, entry_vars,
      table_vars
<1>4. CtlInv'
  BY DEF IInv, TypeOK, FoeRecord, CtlInv, foe_commit_copy, entry_vars,
      table_vars
<1> QED
  BY <1>1, <1>2, <1>3, <1>4 DEF IInv

\* Publication: the new BIND slot is owned by the promotion in progress.
LEMMA foe_commit_publish_preserves ==
  ASSUME IInv, foe_commit_publish
  PROVE  IInv'
<1>1. MemInv' /\ TcInv' /\ RxInv' /\ CtlInv'
  BY DEF IInv, MemInv, LinkedIsLive, TcInv, RxInv, CtlInv, foe_commit_publish,
      entry_vars, table_vars
<1>2. TypeOK'
  BY DEF IInv, TypeOK, FoeRecord, RxInv, foe_commit_publish, entry_vars,
      table_vars
<1>3. NoOrphanBind'
  BY DEF IInv, TypeOK, FoeRecord, MemInv, LinkedIsLive, TcInv, RxInv, CtlInv,
      NoOrphanBind, Owned, foe_commit_publish, entry_vars, table_vars
<1> QED
  BY <1>1, <1>2, <1>3 DEF IInv

\* Association: ownership passes from the promotion to the entry.
LEMMA offload_check_associate_preserves ==
  ASSUME IInv, offload_check_associate
  PROVE  IInv'
<1>1. RxInv'
  BY DEF IInv, RxInv, offload_check_associate, IdleRx, entry_vars, table_vars
<1>2. TypeOK'
  BY DEF IInv, TypeOK, FoeRecord, RxInv, offload_check_associate, IdleRx,
      entry_vars, table_vars
<1>3. MemInv'
  BY DEF IInv, TypeOK, FoeRecord, MemInv, LinkedIsLive, RxInv,
      offload_check_associate, IdleRx, entry_vars, table_vars
<1>4. TcInv'
  BY DEF IInv, TypeOK, FoeRecord, TcInv, RxInv, offload_check_associate,
      IdleRx, entry_vars, table_vars
<1>5. CtlInv'
  BY DEF IInv, TypeOK, FoeRecord, RxInv, CtlInv, offload_check_associate,
      IdleRx, entry_vars, table_vars
<1>6. NoOrphanBind'
  BY NullAssumption
  DEF IInv, TypeOK, FoeRecord, RxInv, NoOrphanBind, Owned,
      offload_check_associate, IdleRx, entry_vars, table_vars
<1> QED
  BY <1>1, <1>2, <1>3, <1>4, <1>5, <1>6 DEF IInv

\* Start begins with the engine off.
LEMMA v1_start_preserves ==
  ASSUME IInv, v1_start
  PROVE  IInv'
<1>1. TypeOK' /\ MemInv' /\ TcInv' /\ RxInv' /\ CtlInv' /\ NoOrphanBind'
  BY DEF IInv, TypeOK, FoeRecord, MemInv, LinkedIsLive, TcInv, RxInv, CtlInv,
      NoOrphanBind, Owned, v1_start, entry_vars, table_vars, Keys
<1> QED
  BY <1>1 DEF IInv

\* Stop turns the engine off; the ownership of slots no longer matters.
LEMMA v1_stop_preserves ==
  ASSUME IInv, v1_stop
  PROVE  IInv'
<1>1. TypeOK' /\ MemInv' /\ TcInv' /\ RxInv' /\ CtlInv' /\ NoOrphanBind'
  BY DEF IInv, TypeOK, FoeRecord, MemInv, LinkedIsLive, TcInv, RxInv, CtlInv,
      NoOrphanBind, Owned, v1_stop, entry_vars, table_vars, Keys
<1> QED
  BY <1>1 DEF IInv

\* Removal begins after TC and RX have been shut out.
LEMMA ppe_deinit_preserves ==
  ASSUME IInv, ppe_deinit
  PROVE  IInv'
<1>1. TypeOK' /\ MemInv' /\ TcInv' /\ RxInv' /\ CtlInv' /\ NoOrphanBind'
  BY DEF IInv, TypeOK, FoeRecord, MemInv, LinkedIsLive, TcInv, RxInv, CtlInv,
      NoOrphanBind, Owned, ppe_deinit, entry_vars, table_vars, Keys
<1> QED
  BY <1>1 DEF IInv

\* The walk covers the whole cookie table, which flow_lock freezes.
LEMMA offload_reset_preserves ==
  ASSUME IInv, offload_reset
  PROVE  IInv'
<1>1. TypeOK' /\ MemInv' /\ TcInv' /\ RxInv' /\ CtlInv' /\ NoOrphanBind'
  BY DEF IInv, TypeOK, FoeRecord, MemInv, LinkedIsLive, TcInv, RxInv, CtlInv,
      NoOrphanBind, Owned, offload_reset, flow_lock_free, entry_vars,
      table_vars, Keys
<1> QED
  BY <1>1 DEF IInv

\* Associations are dropped only while the engine is off.
LEMMA offload_reset_one_preserves ==
  ASSUME IInv, offload_reset_one
  PROVE  IInv'
<1>1. TypeOK' /\ MemInv' /\ TcInv' /\ RxInv'
  BY DEF IInv, TypeOK, FoeRecord, MemInv, LinkedIsLive, TcInv, RxInv,
      offload_reset_one, ppe_lock_free, entry_vars, table_vars, Keys
<1>2. CtlInv'
  BY DEF IInv, TypeOK, FoeRecord, CtlInv, offload_reset_one, ppe_lock_free,
      entry_vars, table_vars
<1>3. NoOrphanBind'
  BY DEF IInv, TypeOK, FoeRecord, CtlInv, NoOrphanBind, Owned,
      offload_reset_one, ppe_lock_free, entry_vars, table_vars
<1> QED
  BY <1>1, <1>2, <1>3 DEF IInv

\* After the walk every linked entry has forgotten its slot.
LEMMA offload_reset_done_preserves ==
  ASSUME IInv, offload_reset_done
  PROVE  IInv'
<1>1. TypeOK' /\ MemInv' /\ TcInv' /\ RxInv' /\ NoOrphanBind'
  BY DEF IInv, TypeOK, FoeRecord, MemInv, LinkedIsLive, TcInv, RxInv,
      NoOrphanBind, Owned, offload_reset_done, IdleCtl, entry_vars,
      table_vars, Keys
<1>2. CtlInv'
  <2>1. CASE ctl.op = "start"
    BY <2>1 DEF IInv, TypeOK, CtlInv, offload_reset_done, entry_vars, table_vars
  <2>2. CASE ctl.op = "stop"
    BY <2>2 DEF IInv, TypeOK, CtlInv, offload_reset_done, IdleCtl, entry_vars,
                table_vars
  <2>3. CASE ctl.op = "deinit"
    BY <2>3 DEF IInv, TypeOK, CtlInv, offload_reset_done, entry_vars, table_vars
  <2> QED
    BY <2>1, <2>2, <2>3 DEF IInv, TypeOK, CtlInv, offload_reset_done
<1> QED
  BY <1>1, <1>2 DEF IInv

\* The engine is enabled over an all-zero table.
LEMMA v1_start_enable_preserves ==
  ASSUME IInv, v1_start_enable
  PROVE  IInv'
<1>1. TypeOK' /\ MemInv' /\ TcInv' /\ CtlInv' /\ NoOrphanBind'
  BY DEF IInv, TypeOK, FoeRecord, MemInv, LinkedIsLive, TcInv, CtlInv,
      NoOrphanBind, Owned, v1_start_enable, IdleCtl, v1_foe_clear_all, Zeroed,
      entry_vars, table_vars, Keys
<1>2. RxInv'
  BY DEF IInv, TypeOK, FoeRecord, RxInv, CtlInv, v1_start_enable, IdleCtl,
      v1_foe_clear_all, Zeroed, entry_vars, table_vars
<1> QED
  BY <1>1, <1>2 DEF IInv

\* The flush covers the whole cookie table.
LEMMA flow_flush_preserves ==
  ASSUME IInv, flow_flush
  PROVE  IInv'
<1>1. TypeOK' /\ MemInv' /\ TcInv' /\ RxInv' /\ CtlInv' /\ NoOrphanBind'
  BY DEF IInv, TypeOK, FoeRecord, MemInv, LinkedIsLive, TcInv, RxInv, CtlInv,
      NoOrphanBind, Owned, flow_flush, flow_lock_free, entry_vars, table_vars,
      Keys
<1> QED
  BY <1>1 DEF IInv

\* Each flushed entry leaves both tables and its memory goes to RCU.
LEMMA flow_flush_one_preserves ==
  ASSUME IInv, flow_flush_one
  PROVE  IInv'
<1>1. TypeOK' /\ CtlInv'
  BY DEF IInv, TypeOK, FoeRecord, CtlInv, flow_flush_one, kfree_rcu,
      entry_vars, table_vars, Keys
<1>2. MemInv'
  BY DEF IInv, TypeOK, FoeRecord, MemInv, LinkedIsLive, flow_flush_one,
      kfree_rcu, entry_vars, table_vars
<1>3. TcInv'
  BY DEF IInv, TypeOK, FoeRecord, TcInv, CtlInv, flow_flush_one, kfree_rcu,
      entry_vars, table_vars
<1>4. RxInv'
  BY DEF IInv, TypeOK, FoeRecord, RxInv, CtlInv, flow_flush_one, kfree_rcu,
      entry_vars, table_vars
<1>5. NoOrphanBind'
  BY DEF IInv, TypeOK, FoeRecord, CtlInv, NoOrphanBind, Owned, flow_flush_one,
      kfree_rcu, entry_vars, table_vars
<1> QED
  BY <1>1, <1>2, <1>3, <1>4, <1>5 DEF IInv

\* At the end of the flush nothing is linked.
LEMMA offload_deinit_preserves ==
  ASSUME IInv, offload_deinit
  PROVE  IInv'
<1>1. TypeOK' /\ MemInv' /\ TcInv' /\ RxInv' /\ CtlInv' /\ NoOrphanBind'
  BY DEF IInv, TypeOK, FoeRecord, MemInv, LinkedIsLive, TcInv, RxInv, CtlInv,
      NoOrphanBind, Owned, offload_deinit, IdleCtl, entry_vars, table_vars,
      Keys
<1> QED
  BY <1>1 DEF IInv

\* A new device starts from an all-zero table.
LEMMA ppe_init_preserves ==
  ASSUME IInv, ppe_init
  PROVE  IInv'
<1>1. TypeOK' /\ MemInv' /\ TcInv' /\ RxInv' /\ CtlInv' /\ NoOrphanBind'
  BY DEF IInv, TypeOK, FoeRecord, MemInv, LinkedIsLive, TcInv, RxInv, CtlInv,
      NoOrphanBind, Owned, ppe_init, Zeroed, ProbedPhase, entry_vars,
      table_vars, Keys
<1> QED
  BY <1>1 DEF IInv

\* The engine ends a bound connection: one BIND less.
LEMMA HwFin_preserves ==
  ASSUME IInv, NEW s \in Slots, HwFin(s)
  PROVE  IInv'
<1>1. TypeOK' /\ MemInv' /\ TcInv' /\ RxInv' /\ CtlInv' /\ NoOrphanBind'
  BY DEF IInv, TypeOK, FoeRecord, MemInv, LinkedIsLive, TcInv, RxInv, CtlInv,
      NoOrphanBind, Owned, HwFin, entry_vars, table_vars, Keys
<1> QED
  BY <1>1 DEF IInv

\* The engine ages a slot: at most one BIND less, also under a promotion.
LEMMA HwAge_preserves ==
  ASSUME IInv, NEW s \in Slots, HwAge(s)
  PROVE  IInv'
<1>1. TypeOK' /\ MemInv' /\ TcInv' /\ RxInv' /\ CtlInv' /\ NoOrphanBind'
  BY DEF IInv, TypeOK, FoeRecord, MemInv, LinkedIsLive, TcInv, RxInv, CtlInv,
      NoOrphanBind, Owned, HwAge, entry_vars, table_vars, Keys
<1> QED
  BY <1>1 DEF IInv

\* The engine learns into a slot that is neither bound nor being promoted.
LEMMA HwLearn_preserves ==
  ASSUME IInv, NEW s \in Slots, NEW k \in Keys, HwLearn(s, k)
  PROVE  IInv'
<1>1. TypeOK' /\ MemInv' /\ TcInv' /\ RxInv' /\ CtlInv' /\ NoOrphanBind'
  BY DEF IInv, TypeOK, FoeRecord, MemInv, LinkedIsLive, TcInv, RxInv, CtlInv,
      NoOrphanBind, Owned, HwLearn, entry_vars, table_vars, Keys
<1> QED
  BY <1>1 DEF IInv

\* Time passing changes only lastused relative to jiffies.
LEMMA Tick_preserves ==
  ASSUME IInv, Tick
  PROVE  IInv'
<1>1. TypeOK' /\ MemInv' /\ TcInv' /\ RxInv' /\ CtlInv' /\ NoOrphanBind'
  BY DEF IInv, TypeOK, FoeRecord, MemInv, LinkedIsLive, TcInv, RxInv, CtlInv,
      NoOrphanBind, Owned, Tick, entry_vars, table_vars, Keys
<1> QED
  BY <1>1 DEF IInv

\* Memory whose grace period ended was unlinked before.
LEMMA rcu_free_preserves ==
  ASSUME IInv, NEW x \in Entries, rcu_free(x)
  PROVE  IInv'
<1>1. TypeOK' /\ CtlInv'
  BY DEF IInv, TypeOK, FoeRecord, CtlInv, rcu_free, entry_vars, table_vars,
      Keys
<1>2. MemInv'
  BY DEF IInv, TypeOK, FoeRecord, MemInv, LinkedIsLive, rcu_free, entry_vars,
      table_vars
<1>3. TcInv'
  BY DEF IInv, TypeOK, FoeRecord, MemInv, LinkedIsLive, TcInv, rcu_free,
      entry_vars, table_vars
<1>4. RxInv'
  BY DEF IInv, TypeOK, FoeRecord, MemInv, LinkedIsLive, RxInv, rcu_free,
      entry_vars, table_vars
<1>5. NoOrphanBind'
  BY DEF IInv, TypeOK, FoeRecord, MemInv, LinkedIsLive, NoOrphanBind, Owned,
      rcu_free, entry_vars, table_vars
<1> QED
  BY <1>1, <1>2, <1>3, <1>4, <1>5 DEF IInv

-----------------------------------------------------------------------------
(* The invariant, and the properties that follow from it.                  *)

\* IInv holds in every state of every behaviour, for any number of entries,
\* cookies, tuples and slots and for both PPE generations.
THEOREM Invariance == Spec => []IInv
<1>1. Init => IInv
  BY GenAssumption, NullAssumption
  DEF Init, IInv, TypeOK, FoeRecord, MemInv, LinkedIsLive, TcInv, RxInv, CtlInv,
      NoOrphanBind, Owned, Zeroed, IdleTc, IdleRx, IdleCtl, ProbedPhase
<1>2. IInv /\ [Next]_vars => IInv'
  <2> SUFFICES ASSUME IInv, [Next]_vars PROVE IInv'
    OBVIOUS
  <2>1. CASE TcStep
    BY <2>1, flow_replace_preserves, flow_insert_tuple_preserves,
       flow_insert_fails_preserves, flow_destroy_preserves,
       flow_remove_preserves, flow_unlink_preserves, flow_free_preserves
    DEF TcStep
  <2>2. CASE RxStep
    BY <2>2, offload_check_keepalive_preserves,
       offload_check_authorise_preserves, foe_commit_copy_preserves,
       foe_commit_publish_preserves, offload_check_associate_preserves
    DEF RxStep
  <2>3. CASE CtlStep
    BY <2>3, v1_start_preserves, v1_stop_preserves, ppe_deinit_preserves,
       offload_reset_preserves, offload_reset_one_preserves,
       offload_reset_done_preserves, v1_start_enable_preserves,
       flow_flush_preserves, flow_flush_one_preserves,
       offload_deinit_preserves, ppe_init_preserves
    DEF CtlStep
  <2>4. CASE HwStep
    BY <2>4, HwFin_preserves, HwAge_preserves, HwLearn_preserves DEF HwStep
  <2>5. CASE EnvStep
    BY <2>5, Tick_preserves, rcu_free_preserves DEF EnvStep
  <2>6. CASE UNCHANGED vars
    BY <2>6
    DEF vars, IInv, TypeOK, MemInv, LinkedIsLive, TcInv, RxInv, CtlInv,
        NoOrphanBind, Owned
  <2> QED
    BY <2>1, <2>2, <2>3, <2>4, <2>5, <2>6 DEF Next
<1> QED
  BY <1>1, <1>2, PTL DEF Spec

\* The state of the offload has its declared type.
THEOREM TypeCorrect == Spec => []TypeOK
<1>1. IInv => TypeOK
  BY DEF IInv
<1> QED
  BY <1>1, Invariance, PTL

\* While the engine runs, every BIND slot of the FOE table belongs to a flow in
\* the cookie table that remembers this slot and has its tuple.
THEOREM NoOrphan == Spec => []NoOrphanBind
<1>1. IInv => NoOrphanBind
  BY DEF IInv
<1> QED
  BY <1>1, Invariance, PTL

\* A flow's template is bound in at most one slot.
THEOREM OneBind == Spec => []OneBindPerFlow
<1>1. IInv => OneBindPerFlow
  <2> SUFFICES ASSUME IInv, phase = "on", NEW s \in Slots, NEW t \in Slots,
                      foe[s].st = "BIND", foe[t].st = "BIND",
                      foe[s].tmpl = foe[t].tmpl
               PROVE  s = t
    BY DEF OneBindPerFlow
  <2>1. Owned(s) /\ Owned(t)
    BY DEF IInv, NoOrphanBind
  <2>2. rx.pc = "associate" /\ rx.e = foe[s].tmpl =>
          hash[foe[s].tmpl] \in {NoSlot, rx.foe}
    BY DEF IInv, RxInv
  <2> QED
    BY <2>1, <2>2, NullAssumption DEF Owned
<1> QED
  BY <1>1, Invariance, PTL

\* A promotion in progress is of a flow that is linked, allocated and not dead,
\* into a slot that still has its tuple.
THEOREM Promotion == Spec => []PromotionStaysAuthorised
<1>1. IInv => PromotionStaysAuthorised
  BY DEF IInv, TypeOK, RxInv, MemInv, LinkedIsLive, PromotionStaysAuthorised
<1> QED
  BY <1>1, Invariance, PTL

\* Everything a lookup can return is allocated memory.
THEOREM LookupSafety == Spec => []LinkedIsLive
<1>1. IInv => LinkedIsLive
  BY DEF IInv, MemInv
<1> QED
  BY <1>1, Invariance, PTL

\* Nothing is linked after removal.
THEOREM Removal == Spec => []DeinitLeavesNothing
<1>1. IInv => DeinitLeavesNothing
  BY DEF IInv, TypeOK, MemInv, LinkedIsLive, CtlInv, DeinitLeavesNothing
<1> QED
  BY <1>1, Invariance, PTL

\* lastused is refreshed only on behalf of a linked, living flow: when its own
\* template has been bound, or by a slot it remembers that carries its template or
\* that of an entry with the same tuple.
THEOREM Activity == Spec => ActivityIsGenuine
<1> DEFINE A == \A e \in fresh' \ fresh :
                  LET s == hash'[e] IN
                    /\ e \in tuple_table \ dead
                    /\ s # NoSlot /\ foe[s].key = key[e]
                    /\ \/ rx.pc = "associate" /\ rx.e = e /\ foe[s].tmpl = e
                       \/ /\ foe[s].st = "BIND" /\ hash[e] = s
                          /\ foe[s].tmpl \in {e} \cup Duplicates(e)
                          /\ hash[foe[s].tmpl] = s
<1>1. IInv /\ [Next]_vars => [A]_vars
  <2> SUFFICES ASSUME IInv, Next PROVE A
    OBVIOUS
  <2>1. ASSUME NEW s \in Slots, offload_check_keepalive(s) PROVE A
    <3>1. SUFFICES ASSUME NEW e \in fresh' \ fresh
          PROVE  /\ e \in tuple_table \ dead
                 /\ hash'[e] # NoSlot /\ foe[hash'[e]].key = key[e]
                 /\ foe[hash'[e]].st = "BIND" /\ hash[e] = hash'[e]
                 /\ foe[hash'[e]].tmpl \in {e} \cup Duplicates(e)
                 /\ hash[foe[hash'[e]].tmpl] = hash'[e]
      OBVIOUS
    <3>2. /\ e \in tuple_table \ dead /\ foe[s].key = key[e]
          /\ hash[e] = s /\ hash'[e] = s
          /\ foe[s].st = "BIND" /\ phase = "on" /\ rx.pc = "idle"
      BY <2>1, <3>1 DEF offload_check_keepalive, ppe_lock_free
    <3>3. Owned(s) /\ rx.pc # "associate"
      BY <3>2 DEF IInv, NoOrphanBind
    <3>4. /\ foe[s].tmpl \in flow_table /\ key[foe[s].tmpl] = key[e]
          /\ hash[foe[s].tmpl] = s
      BY <3>2, <3>3 DEF Owned
    <3> QED
      BY <3>2, <3>4, NullAssumption DEF Duplicates
  <2>2. CASE offload_check_associate
    BY <2>2, NullAssumption DEF IInv, TypeOK, RxInv, offload_check_associate
  <2>3. CASE fresh' \subseteq fresh
    BY <2>3
  <2>4. TcStep \/ CtlStep \/ HwStep \/ EnvStep => fresh' \subseteq fresh
    BY DEF TcStep, CtlStep, HwStep, EnvStep, flow_replace, flow_insert_tuple,
       flow_insert_fails, flow_destroy, flow_remove, flow_unlink, flow_free,
       v1_start, v1_stop, ppe_deinit, offload_reset, offload_reset_one,
       offload_reset_done, v1_start_enable, flow_flush, flow_flush_one,
       offload_deinit, ppe_init, HwFin, HwAge, HwLearn, Tick, rcu_free
  <2>5. foe_commit_copy \/ foe_commit_publish
          \/ (\E s \in Slots : offload_check_authorise(s)) => fresh' \subseteq fresh
    BY DEF foe_commit_copy, foe_commit_publish, offload_check_authorise
  <2> QED
    BY <2>1, <2>2, <2>3, <2>4, <2>5 DEF Next, RxStep
<1> QED
  BY <1>1, Invariance, PTL DEF Spec, ActivityIsGenuine

-----------------------------------------------------------------------------
(* Refinement of FlowAuth.                                                 *)

\* Steps that change neither which flows are linked or dead nor which slots
\* forward are stuttering steps of FlowAuth.
LEMMA Stutters ==
  ASSUME IInv, UNCHANGED <<flow_table, dead, phase, foe>>
  PROVE  UNCHANGED Auth!avars
  BY DEF Auth!avars

\* A TC step authorises, revokes or forgets one flow, or unbinds one slot. It
\* forgets a flow only when no slot forwards for it.
LEMMA TcRefines ==
  ASSUME IInv, TcStep
  PROVE  [Auth!ANext]_(Auth!avars)
<1>1. ASSUME NEW c \in Cookies, NEW k \in Keys, flow_replace(c, k)
      PROVE  Auth!ANext
  <2>1. PICK e \in Entries : /\ mem[e] = "free"
                             /\ flow_table' = flow_table \cup {e}
    BY <1>1 DEF flow_replace
  <2>2. e \notin flow_table /\ e \notin dead
    BY <2>1 DEF IInv, MemInv, LinkedIsLive
  <2>3. UNCHANGED <<dead, phase, foe>>
    BY <1>1 DEF flow_replace
  <2>4. Auth!Authorise(e)
    BY <2>1, <2>2, <2>3 DEF Auth!Authorise
  <2> QED
    BY <2>4 DEF Auth!ANext
<1>2. ASSUME NEW c \in Cookies, flow_destroy(c)
      PROVE  [Auth!ANext]_(Auth!avars)
  <2>1. PICK e \in flow_table : dead' = dead \cup {e}
    BY <1>2 DEF flow_destroy
  <2>2. UNCHANGED <<flow_table, phase, foe>>
    BY <1>2 DEF flow_destroy, table_vars
  <2>3. CASE e \in dead
    BY <2>1, <2>2, <2>3, Stutters DEF IInv, TypeOK
  <2>4. CASE e \notin dead
    <3>1. Auth!Revoke(e)
      BY <2>1, <2>2, <2>4 DEF IInv, TypeOK, Auth!Revoke
    <3> QED
      BY <3>1, <2>1 DEF IInv, TypeOK, Auth!ANext
  <2> QED
    BY <2>3, <2>4
<1>3. CASE flow_insert_fails \/ flow_free
  <2>1. /\ tc.e \in flow_table /\ tc.e \in Entries
        /\ flow_table' = flow_table \ {tc.e}
        /\ UNCHANGED <<dead, phase, foe>>
    BY <1>3 DEF IInv, TypeOK, TcInv, flow_insert_fails, flow_free
  <2>2. ASSUME NEW s \in Slots, phase = "on", foe[s].st = "BIND"
        PROVE  foe[s].tmpl # tc.e
    <3>1. Owned(s)
      BY <2>2 DEF IInv, NoOrphanBind
    <3>2. hash[tc.e] = NoSlot
      BY <1>3 DEF IInv, TcInv, flow_insert_fails, flow_free
    <3>3. rx.pc # "idle" => rx.e # tc.e
      BY <1>3 DEF IInv, TypeOK, TcInv, RxInv, flow_insert_fails, flow_free
    <3> QED
      BY <3>1, <3>2, <3>3, NullAssumption DEF Owned
  <2>3. PICK e \in Entries : e = tc.e
    BY <2>1
  <2>4. Auth!Forget(e)
    BY <2>1, <2>2, <2>3, NullAssumption DEF Auth!Forget, Auth!Forwarded
  <2> QED
    BY <2>4 DEF Auth!ANext
<1>4. CASE flow_remove
  <2>1. UNCHANGED <<flow_table, dead, phase>>
    BY <1>4 DEF flow_remove, entry_vars, table_vars
  <2>2. CASE foe' = foe
    BY <2>1, <2>2, Stutters
  <2>3. CASE hash[tc.e] # NoSlot
             /\ foe' = [foe EXCEPT ![hash[tc.e]] = foe_clear_locked(foe[hash[tc.e]])]
    <3>1. PICK s \in Slots : s = hash[tc.e]
      BY <1>4, <2>3 DEF IInv, TypeOK, TcInv, flow_remove
    <3>2. foe_clear_locked(foe[s]).st = "INVALID"
      BY <3>1, GenAssumption
      DEF IInv, TypeOK, FoeRecord, foe_clear_locked, v1_foe_clear, v2_foe_clear, Zeroed
    <3>3. Auth!Unbind(s)
      <4>1. foe'[s].st = "INVALID" /\ \A r \in Slots : r # s => foe'[r] = foe[r]
        BY <2>3, <3>1, <3>2 DEF IInv, TypeOK
      <4> QED
        BY <2>1, <3>1, <4>1 DEF Auth!Unbind
    <3> QED
      BY <3>1, <3>3 DEF Auth!ANext
  <2> QED
    BY <1>4, <2>2, <2>3 DEF flow_remove
<1>5. CASE flow_insert_tuple \/ flow_unlink
  BY <1>5, Stutters DEF flow_insert_tuple, flow_unlink, entry_vars
<1> QED
  BY <1>1, <1>2, <1>3, <1>4, <1>5 DEF TcStep

\* Publishing BIND binds the promoted flow, which is active and forwards
\* through no other slot; the other steps of the RX check change nothing.
LEMMA RxRefines ==
  ASSUME IInv, RxStep
  PROVE  [Auth!ANext]_(Auth!avars)
<1>1. CASE foe_commit_publish
  <2>1. /\ rx.foe \in Slots /\ rx.e \in Entries
        /\ rx.e \in flow_table /\ rx.e \notin dead /\ phase = "on"
        /\ foe[rx.foe].st = "INVALID" /\ foe[rx.foe].tmpl = rx.e
        /\ hash[rx.e] \in {NoSlot, rx.foe}
    BY <1>1 DEF IInv, TypeOK, MemInv, LinkedIsLive, RxInv, foe_commit_publish
  <2>2. /\ foe' = [foe EXCEPT ![rx.foe].st = "BIND"]
        /\ UNCHANGED <<flow_table, dead, phase>>
    BY <1>1 DEF foe_commit_publish, entry_vars, table_vars
  <2>3. ASSUME NEW s \in Slots, foe[s].st = "BIND" PROVE foe[s].tmpl # rx.e
    <3>1. Owned(s)
      BY <2>1, <2>3 DEF IInv, NoOrphanBind
    <3>2. rx.pc # "associate"
      BY <1>1 DEF foe_commit_publish
    <3> QED
      BY <2>1, <2>3, <3>1, <3>2, NullAssumption DEF Owned
  <2>4. PICK s \in Slots, e \in Entries : s = rx.foe /\ e = rx.e
    BY <2>1
  <2>5. Auth!Bind(s, e)
    <3>1. /\ foe'[s].st = "BIND" /\ foe'[s].tmpl = e
          /\ \A r \in Slots : r # s => foe'[r] = foe[r]
      BY <2>1, <2>2, <2>4 DEF IInv, TypeOK, FoeRecord
    <3>2. ~ Auth!Forwarded(e)
      BY <2>1, <2>3, <2>4, NullAssumption DEF Auth!Forwarded
    <3> QED
      BY <2>1, <2>2, <2>4, <3>1, <3>2 DEF Auth!Bind
  <2> QED
    BY <2>5 DEF Auth!ANext
<1>2. CASE foe_commit_copy
  <2>1. /\ rx.foe \in Slots /\ foe[rx.foe].st # "BIND" /\ foe'[rx.foe].st # "BIND"
        /\ \A s \in Slots : s # rx.foe => foe'[s] = foe[s]
        /\ UNCHANGED <<flow_table, dead, phase>>
    BY <1>2 DEF IInv, TypeOK, RxInv, foe_commit_copy, entry_vars, table_vars
  <2> QED
    BY <2>1 DEF Auth!avars
<1>3. CASE offload_check_associate
           \/ \E s \in Slots : offload_check_keepalive(s) \/ offload_check_authorise(s)
  BY <1>3, Stutters
  DEF offload_check_associate, offload_check_keepalive, offload_check_authorise,
      entry_vars, table_vars
<1> QED
  BY <1>1, <1>2, <1>3 DEF RxStep

\* Turning the engine off quiesces it; a flow is flushed while it is off; it
\* is turned on over an all-zero table.
LEMMA CtlRefines ==
  ASSUME IInv, CtlStep
  PROVE  [Auth!ANext]_(Auth!avars)
<1>1. CASE v1_stop \/ ppe_deinit
  <2>1. phase' = "off" /\ UNCHANGED <<flow_table, dead>>
    BY <1>1 DEF v1_stop, ppe_deinit, entry_vars, table_vars
  <2>2. Auth!Quiesce
    BY <2>1 DEF Auth!Quiesce
  <2> QED
    BY <2>2 DEF Auth!ANext
<1>2. CASE flow_flush_one
  <2>1. PICK e \in ctl.todo : /\ dead' = dead \cup {e}
                              /\ flow_table' = flow_table \ {e}
    BY <1>2 DEF flow_flush_one
  <2>2. e \in Entries /\ phase = "off" /\ phase' = "off"
    BY <1>2, <2>1 DEF IInv, TypeOK, CtlInv, flow_flush_one
  <2>3. Auth!Forget(e)
    BY <2>1, <2>2, NullAssumption DEF Auth!Forget, Auth!Forwarded
  <2> QED
    BY <2>2, <2>3 DEF Auth!ANext
<1>3. CASE v1_start_enable \/ ppe_init
  <2>1. /\ phase # "on" /\ \A s \in Slots : foe'[s].st # "BIND"
        /\ UNCHANGED <<flow_table, dead>>
    BY <1>3 DEF IInv, CtlInv, v1_start_enable, v1_foe_clear_all, ppe_init, Zeroed,
       entry_vars, table_vars
  <2> QED
    BY <2>1 DEF Auth!avars
<1>4. CASE offload_deinit
  <2>1. phase # "on" /\ phase' # "on" /\ UNCHANGED <<flow_table, dead>>
    BY <1>4 DEF IInv, CtlInv, offload_deinit, entry_vars, table_vars
  <2> QED
    BY <2>1 DEF Auth!avars
<1>5. CASE v1_start \/ offload_reset \/ offload_reset_one \/ offload_reset_done
           \/ flow_flush
  BY <1>5, Stutters
  DEF v1_start, offload_reset, offload_reset_one, offload_reset_done, flow_flush,
      entry_vars, table_vars
<1> QED
  BY <1>1, <1>2, <1>3, <1>4, <1>5 DEF CtlStep

\* The engine on its own only unbinds; memory and time are invisible.
LEMMA HwRefines ==
  ASSUME IInv, HwStep \/ EnvStep
  PROVE  [Auth!ANext]_(Auth!avars)
<1>1. ASSUME NEW s \in Slots, HwFin(s) \/ HwAge(s)
      PROVE  Auth!ANext
  <2>1. /\ foe'[s].st # "BIND" /\ \A t \in Slots : t # s => foe'[t] = foe[t]
        /\ UNCHANGED <<flow_table, dead, phase>>
    BY <1>1 DEF IInv, TypeOK, FoeRecord, HwFin, HwAge, entry_vars, table_vars
  <2>2. Auth!Unbind(s)
    BY <2>1 DEF Auth!Unbind
  <2> QED
    BY <2>2 DEF Auth!ANext
<1>2. ASSUME NEW s \in Slots, NEW k \in Keys, HwLearn(s, k)
      PROVE  UNCHANGED Auth!avars
  <2>1. /\ foe[s].st # "BIND" /\ foe'[s].st # "BIND"
        /\ \A t \in Slots : t # s => foe'[t] = foe[t]
        /\ UNCHANGED <<flow_table, dead, phase>>
    BY <1>2 DEF IInv, TypeOK, HwLearn, entry_vars, table_vars
  <2> QED
    BY <2>1 DEF Auth!avars
<1>3. CASE Tick
  BY <1>3, Stutters DEF Tick, entry_vars, table_vars
<1>4. ASSUME NEW e \in Entries, rcu_free(e)
      PROVE  UNCHANGED Auth!avars
  <2>1. e \notin flow_table /\ dead' = dead \ {e} /\ UNCHANGED <<flow_table, phase, foe>>
    BY <1>4 DEF IInv, MemInv, LinkedIsLive, rcu_free, table_vars
  <2> QED
    BY <2>1 DEF Auth!avars
<1> QED
  BY <1>1, <1>2, <1>3, <1>4 DEF HwStep, EnvStep

\* The flow offload implements FlowAuth: the engine forwards for a flow only
\* while Linux authorises it, a dead flow is not bound, and FLOW_CLS_DESTROY
\* completes only when no slot forwards for the flow.
THEOREM Refinement == Spec => RefinesFlowAuth
<1>1. Init => Auth!AInit
  BY DEF Init, Auth!AInit, Zeroed
<1>2. IInv /\ [Next]_vars => [Auth!ANext]_(Auth!avars)
  <2> SUFFICES ASSUME IInv, [Next]_vars PROVE [Auth!ANext]_(Auth!avars)
    OBVIOUS
  <2>1. CASE UNCHANGED vars
    BY <2>1, Stutters DEF vars
  <2> QED
    BY <2>1, TcRefines, RxRefines, CtlRefines, HwRefines DEF Next
<1> QED
  BY <1>1, <1>2, Invariance, PTL DEF Spec, RefinesFlowAuth, Auth!ASpec
=============================================================================
