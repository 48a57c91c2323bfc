----------------------------- MODULE FlowOffload -----------------------------
(***************************************************************************)
(* The PPE flow offload of the Ralink frame engine: the software flow      *)
(* tables (ra_ppe_offload.c), the promotion of hardware-learned FOE slots  *)
(* to BIND (ra_ppe_v1_offload.c, ra_ppe_v2_offload.c) and the engine's     *)
(* start, stop and removal (ra_ppe.c, ra_ppe_v1.c, ra_ppe_v2.c).           *)
(*                                                                         *)
(* Four actors interleave:                                                 *)
(*   tc   the TC control path, one operation at a time under flow_lock;    *)
(*   rx   ops->offload->check() from the RX poll, under ppe->lock;         *)
(*   ctl  ndo_open, ndo_stop and driver removal;                           *)
(*   hw   the packet processing engine, which learns, ages and finishes    *)
(*        FOE slots on its own and is held off by no lock.                 *)
(* Every statement that another actor can observe is a step of its own.    *)
(***************************************************************************)
EXTENDS Naturals

CONSTANTS Gen,        \* PPE generation: "v1" or "v2"
          Entries,    \* memory objects that can hold a ra_flow_entry
          Cookies,    \* TC cookies
          V4Keys,     \* IPv4 5-tuples
          V6Keys,     \* IPv6 5-tuples
          OtherKeys,  \* what the engine learns and the driver does not parse
          Slots,      \* FOE table indices
          NoEntry, NoCookie, NoKey, NoSlot

Keys == V4Keys \cup V6Keys \cup OtherKeys

ASSUME GenAssumption == Gen \in {"v1", "v2"}
ASSUME NullAssumption ==
  /\ NoEntry \notin Entries
  /\ NoCookie \notin Cookies
  /\ NoKey \notin Keys
  /\ NoSlot \notin Slots
ASSUME KeyAssumption ==
  /\ V4Keys \cap OtherKeys = {}
  /\ V6Keys \cap OtherKeys = {}

VARIABLES
  mem,         \* Entries -> "free", "live" or "rcu" (handed to kfree_rcu)
  cookie,      \* entry->cookie
  key,         \* entry->key
  hash,        \* entry->hash while entry->hash_valid, else NoSlot
  dead,        \* the entries with entry->dead set
  fresh,       \* the entries with entry->lastused = jiffies
  flow_table,  \* entries linked by cookie_node
  tuple_table, \* entries linked by tuple_node, visible to RX
  foe,         \* the FOE table: state, original tuple, owner of the template
  phase,       \* the engine: "off", "on", or "gone" after removal
  tc,          \* TC operation in progress: program counter and entry
  rx,          \* promotion in progress: program counter, slot and entry
  ctl,         \* open/stop/remove in progress: operation, pc, walk's rest
  rcu_hold     \* entries in "rcu" whose grace period waits for the rx reader

vars == <<mem, cookie, key, hash, dead, fresh, flow_table, tuple_table,
          foe, phase, tc, rx, ctl, rcu_hold>>

entry_vars == <<mem, cookie, key, dead>>
table_vars == <<flow_table, tuple_table>>

Zeroed == [st |-> "INVALID", key |-> NoKey, tmpl |-> NoEntry]
IdleTc == [pc |-> "idle", e |-> NoEntry]
IdleRx == [pc |-> "idle", foe |-> NoSlot, e |-> NoEntry]
IdleCtl == [op |-> "none", pc |-> "idle", todo |-> {}]

\* PPEv2 runs from probe to removal, PPEv1 from ndo_open to ndo_stop.
ProbedPhase == IF Gen = "v2" THEN "on" ELSE "off"

FoeRecord == [st : {"INVALID", "UNBIND", "BIND", "FIN"},
              key : Keys \cup {NoKey},
              tmpl : Entries \cup {NoEntry}]

TypeOK ==
  /\ mem \in [Entries -> {"free", "live", "rcu"}]
  /\ cookie \in [Entries -> Cookies \cup {NoCookie}]
  /\ key \in [Entries -> Keys \cup {NoKey}]
  /\ hash \in [Entries -> Slots \cup {NoSlot}]
  /\ dead \in SUBSET Entries
  /\ fresh \in SUBSET Entries
  /\ flow_table \in SUBSET Entries
  /\ tuple_table \in SUBSET Entries
  /\ foe \in [Slots -> FoeRecord]
  /\ phase \in {"off", "on", "gone"}
  /\ tc \in [pc : {"idle", "insert", "remove", "unlink", "free"},
             e : Entries \cup {NoEntry}]
  /\ rx \in [pc : {"idle", "copy", "publish", "associate"},
             foe : Slots \cup {NoSlot}, e : Entries \cup {NoEntry}]
  /\ ctl \in [op : {"none", "start", "stop", "deinit"},
              pc : {"idle", "lock", "walk", "clear", "flushlock", "flush"},
              todo : SUBSET Entries]
  /\ rcu_hold \in SUBSET Entries

\* ra_ppe_init: empty tables, a zeroed FOE table, nothing in progress.
Init ==
  /\ mem = [e \in Entries |-> "free"]
  /\ cookie = [e \in Entries |-> NoCookie]
  /\ key = [e \in Entries |-> NoKey]
  /\ hash = [e \in Entries |-> NoSlot]
  /\ dead = {}
  /\ fresh = {}
  /\ flow_table = {}
  /\ tuple_table = {}
  /\ foe = [s \in Slots |-> Zeroed]
  /\ phase = ProbedPhase
  /\ tc = IdleTc
  /\ rx = IdleRx
  /\ ctl = IdleCtl
  /\ rcu_hold = {}

-----------------------------------------------------------------------------
(* Locks. ppe->lock is held over several steps by rx alone; the sections   *)
(* of tc and ctl under it are single steps. flow_lock is a mutex.          *)

\* Fault: the sections are not serialised.
ppe_lock_missing == TRUE

ppe_lock_free == rx.pc = "idle"
flow_lock_free == tc.pc = "idle" /\ ctl.pc \notin {"walk", "flush"}

\* unregister_netdev has unbound every flow block before removal begins.
TcBound == phase # "gone" /\ ctl.op # "deinit"

-----------------------------------------------------------------------------
(* FOE descriptor helpers.                                                 *)

\* The tuples each generation's flow_key_from_foe can read back.
v1_Parsable == V4Keys
v2_Parsable == V4Keys \cup V6Keys
Parsable == IF Gen = "v1" THEN v1_Parsable ELSE v2_Parsable

\* ops->prepare accepts IPv4 on PPEv1, IPv4 and IPv6 on PPEv2.
v1_prepare_accepts(k) == k \in V4Keys
v2_prepare_accepts(k) == k \in V4Keys \cup V6Keys
prepare_accepts(k) ==
  IF Gen = "v1" THEN v1_prepare_accepts(k) ELSE v2_prepare_accepts(k)

v1_foe_is_bound(f, k) == f.st = "BIND" /\ f.key \in V4Keys /\ f.key = k
\* Fault: IPv6 descriptors are not recognised.
v2_foe_is_bound_v4_only(f, k) == f.st = "BIND" /\ f.key \in V4Keys /\ f.key = k

v2_foe_is_bound(f, k) == f.st = "BIND" /\ f.key \in v2_Parsable /\ f.key = k
foe_is_bound(f, k) ==
  IF Gen = "v1" THEN v1_foe_is_bound(f, k) ELSE v2_foe_is_bound(f, k)

\* PPEv1 zeroes the descriptor, PPEv2 only makes its state INVALID.
v1_foe_clear(f) == Zeroed
v2_foe_clear(f) == [f EXCEPT !.st = "INVALID"]
foe_clear_locked(f) ==
  IF Gen = "v1" THEN v1_foe_clear(f) ELSE v2_foe_clear(f)

-----------------------------------------------------------------------------
(* TC control path.                                                        *)

\* FLOW_CLS_REPLACE up to the insertion into the cookie table. Rejections
\* (cookie exists, unsupported match or action, no memory) change nothing.
flow_replace(c, k) ==
  /\ TcBound /\ flow_lock_free
  /\ ~ \E e \in flow_table : cookie[e] = c
  /\ prepare_accepts(k)
  /\ \E e \in Entries :
       /\ mem[e] = "free"
       /\ mem' = [mem EXCEPT ![e] = "live"]
       /\ cookie' = [cookie EXCEPT ![e] = c]
       /\ key' = [key EXCEPT ![e] = k]
       /\ flow_table' = flow_table \cup {e}
       /\ tc' = [pc |-> "insert", e |-> e]
  /\ UNCHANGED <<hash, dead, fresh, tuple_table, foe, phase, rx, ctl, rcu_hold>>

\* Publication in the RX-visible tuple table. rhashtable_insert_fast does not
\* look for an entry with the same key, so two cookies may share a tuple.
flow_insert_tuple ==
  /\ tc.pc = "insert"
  /\ tuple_table' = tuple_table \cup {tc.e}
  /\ tc' = IdleTc
  /\ UNCHANGED <<entry_vars, hash, fresh, flow_table, foe, phase, rx, ctl, rcu_hold>>

\* Fault: the error path forgets the cookie table.
flow_insert_fails_linked ==
  /\ tc.pc = "insert"
  /\ mem' = [mem EXCEPT ![tc.e] = "free"]
  /\ tc' = IdleTc
  /\ UNCHANGED <<cookie, key, hash, dead, fresh, flow_table, tuple_table, foe, phase, rx, ctl, rcu_hold>>

\* The insertion fails: the entry leaves the cookie table and is freed at once.
flow_insert_fails ==
  /\ tc.pc = "insert"
  /\ flow_table' = flow_table \ {tc.e}
  /\ mem' = [mem EXCEPT ![tc.e] = "free"]
  /\ cookie' = [cookie EXCEPT ![tc.e] = NoCookie]
  /\ key' = [key EXCEPT ![tc.e] = NoKey]
  /\ tc' = IdleTc
  /\ UNCHANGED <<hash, dead, fresh, tuple_table, foe, phase, rx, ctl, rcu_hold>>

\* Fault: dead is not set.
flow_destroy_alive(c) ==
  /\ TcBound /\ flow_lock_free /\ ppe_lock_free
  /\ \E e \in flow_table : cookie[e] = c /\ tc' = [pc |-> "remove", e |-> e]
  /\ UNCHANGED <<entry_vars, hash, fresh, table_vars, foe, phase, rx, ctl, rcu_hold>>

\* FLOW_CLS_DESTROY: mark the entry dead under ppe->lock.
flow_destroy(c) ==
  /\ TcBound /\ flow_lock_free /\ ppe_lock_free
  /\ \E e \in flow_table :
       /\ cookie[e] = c
       /\ dead' = dead \cup {e}
       /\ tc' = [pc |-> "remove", e |-> e]
  /\ UNCHANGED <<mem, cookie, key, hash, fresh, table_vars, foe, phase, rx, ctl, rcu_hold>>

\* Fault: the slot is forgotten but not cleared.
flow_remove_keeps_slot ==
  /\ tc.pc = "remove" /\ ppe_lock_free
  /\ hash' = [hash EXCEPT ![tc.e] = NoSlot]
  /\ tc' = [tc EXCEPT !.pc = "unlink"]
  /\ UNCHANGED <<entry_vars, fresh, table_vars, foe, phase, rx, ctl, rcu_hold>>

\* ops->remove: clear the remembered slot only while it still is this flow's
\* BIND, and forget it.
flow_remove ==
  /\ tc.pc = "remove" /\ ppe_lock_free
  /\ LET s == hash[tc.e] IN
     foe' = IF s # NoSlot /\ foe_is_bound(foe[s], key[tc.e])
              THEN [foe EXCEPT ![s] = foe_clear_locked(foe[s])]
              ELSE foe
  /\ hash' = [hash EXCEPT ![tc.e] = NoSlot]
  /\ tc' = [tc EXCEPT !.pc = "unlink"]
  /\ UNCHANGED <<entry_vars, fresh, table_vars, phase, rx, ctl, rcu_hold>>

\* ra_ppe_flow_unlink, tuple table first ...
flow_unlink ==
  /\ tc.pc = "unlink"
  /\ tuple_table' = tuple_table \ {tc.e}
  /\ tc' = [tc EXCEPT !.pc = "free"]
  /\ UNCHANGED <<entry_vars, hash, fresh, flow_table, foe, phase, rx, ctl, rcu_hold>>

\* An RX reader that is running when kfree_rcu is called delays the free.
kfree_rcu(e) ==
  /\ mem' = [mem EXCEPT ![e] = "rcu"]
  /\ rcu_hold' = IF rx.pc = "idle" THEN rcu_hold ELSE rcu_hold \cup {e}

\* ... then the cookie table, and the deferred free.
flow_free ==
  /\ tc.pc = "free"
  /\ flow_table' = flow_table \ {tc.e}
  /\ kfree_rcu(tc.e)
  /\ tc' = IdleTc
  /\ UNCHANGED <<cookie, key, dead, hash, fresh, tuple_table, foe, phase, rx, ctl>>

-----------------------------------------------------------------------------
(* RX notifications. A report names a slot and may be stale: the engine    *)
(* queued it in the RX ring before software or hardware changed the slot.  *)

\* Fault: a keepalive of any slot with the tuple is accepted.
offload_check_keepalive_any(s) ==
  /\ phase = "on" /\ ppe_lock_free
  /\ foe[s].st = "BIND" /\ foe[s].key \in Parsable
  /\ \E e \in tuple_table \ dead : key[e] = foe[s].key /\ fresh' = fresh \cup {e}
  /\ UNCHANGED <<entry_vars, hash, table_vars, foe, phase, tc, rx, ctl, rcu_hold>>

\* HIT_BIND_KEEPALIVE for a slot: refresh the flow that owns it.
offload_check_keepalive(s) ==
  /\ phase = "on" /\ ppe_lock_free
  /\ foe[s].st = "BIND" /\ foe[s].key \in Parsable
  /\ \E e \in tuple_table \ dead :
       /\ key[e] = foe[s].key
       /\ hash[e] = s
       /\ fresh' = fresh \cup {e}
  /\ UNCHANGED <<entry_vars, hash, table_vars, foe, phase, tc, rx, ctl, rcu_hold>>

\* Fault: the remembered slot is not looked at.
offload_check_authorise_twice(s) ==
  /\ phase = "on" /\ ppe_lock_free
  /\ foe[s].st = "UNBIND" /\ foe[s].key \in Parsable
  /\ \E e \in tuple_table \ dead :
       key[e] = foe[s].key /\ rx' = [pc |-> "copy", foe |-> s, e |-> e]
  /\ UNCHANGED <<entry_vars, hash, fresh, table_vars, foe, phase, tc, ctl, rcu_hold>>

\* HIT_UNBIND_RATE_REACH, first half: authorise the learned tuple. Any entry
\* with that tuple may be found: a table resize reorders duplicates.
offload_check_authorise(s) ==
  /\ phase = "on" /\ ppe_lock_free
  /\ foe[s].st = "UNBIND" /\ foe[s].key \in Parsable
  /\ \E e \in tuple_table \ dead :
       /\ key[e] = foe[s].key
       /\ ~ (hash[e] \notin {NoSlot, s} /\ foe_is_bound(foe[hash[e]], key[e]))
       /\ hash' = [hash EXCEPT ![e] = IF @ = s THEN s ELSE NoSlot]
       /\ rx' = [pc |-> "copy", foe |-> s, e |-> e]
  /\ UNCHANGED <<entry_vars, fresh, table_vars, foe, phase, tc, ctl, rcu_hold>>

\* The template with the tuple read again from the slot, copied as INVALID.
foe_commit_copy ==
  /\ rx.pc = "copy"
  /\ foe' = [foe EXCEPT ![rx.foe] =
               [st |-> "INVALID", key |-> foe[rx.foe].key, tmpl |-> rx.e]]
  /\ rx' = [rx EXCEPT !.pc = "publish"]
  /\ UNCHANGED <<entry_vars, hash, fresh, table_vars, phase, tc, ctl, rcu_hold>>

\* The state word written last: the engine may now forward.
foe_commit_publish ==
  /\ rx.pc = "publish"
  /\ foe' = [foe EXCEPT ![rx.foe].st = "BIND"]
  /\ rx' = [rx EXCEPT !.pc = "associate"]
  /\ UNCHANGED <<entry_vars, hash, fresh, table_vars, phase, tc, ctl, rcu_hold>>

\* Fault: the RCU read-side section is not left.
offload_check_associate_no_unlock ==
  /\ rx.pc = "associate"
  /\ hash' = [hash EXCEPT ![rx.e] = rx.foe]
  /\ fresh' = fresh \cup {rx.e}
  /\ rx' = IdleRx
  /\ UNCHANGED <<entry_vars, table_vars, foe, phase, tc, ctl, rcu_hold>>

\* Record the association, drop the lock and leave the RCU section.
offload_check_associate ==
  /\ rx.pc = "associate"
  /\ hash' = [hash EXCEPT ![rx.e] = rx.foe]
  /\ fresh' = fresh \cup {rx.e}
  /\ rx' = IdleRx
  /\ rcu_hold' = {}
  /\ UNCHANGED <<entry_vars, table_vars, foe, phase, tc, ctl>>

-----------------------------------------------------------------------------
(* Open, stop and removal.                                                 *)

\* ra_ppe_v1_start: the engine is (still) off while it is prepared.
v1_start ==
  /\ Gen = "v1" /\ phase = "off" /\ ctl.pc = "idle"
  /\ ctl' = [op |-> "start", pc |-> "lock", todo |-> {}]
  /\ UNCHANGED <<entry_vars, hash, fresh, table_vars, foe, phase, tc, rx, rcu_hold>>

\* ra_ppe_v1_stop, after napi_disable: no RX check is running or will run.
v1_stop ==
  /\ Gen = "v1" /\ phase = "on" /\ ctl.pc = "idle" /\ rx.pc = "idle"
  /\ phase' = "off"
  /\ ctl' = [op |-> "stop", pc |-> "lock", todo |-> {}]
  /\ UNCHANGED <<entry_vars, hash, fresh, table_vars, foe, tc, rx, rcu_hold>>

\* ra_ppe_deinit, after unregister_netdev: stop once more (PPEv1) or disable
\* the flows (PPEv2).
ppe_deinit ==
  /\ phase = (IF Gen = "v1" THEN "off" ELSE "on")
  /\ ctl.pc = "idle" /\ tc.pc = "idle" /\ rx.pc = "idle"
  /\ phase' = "off"
  /\ ctl' = [op |-> "deinit", pc |-> "lock", todo |-> {}]
  /\ UNCHANGED <<entry_vars, hash, fresh, table_vars, foe, tc, rx, rcu_hold>>

\* ra_ppe_offload_reset: take flow_lock and walk the cookie table ...
offload_reset ==
  /\ ctl.pc = "lock" /\ flow_lock_free
  /\ ctl' = [ctl EXCEPT !.pc = "walk", !.todo = flow_table]
  /\ UNCHANGED <<entry_vars, hash, fresh, table_vars, foe, phase, tc, rx, rcu_hold>>

\* Fault: the walk leaves hash_valid set.
offload_reset_one_keeps ==
  /\ ctl.pc = "walk" /\ ppe_lock_free
  /\ \E e \in ctl.todo : ctl' = [ctl EXCEPT !.todo = @ \ {e}]
  /\ UNCHANGED <<entry_vars, hash, fresh, table_vars, foe, phase, tc, rx, rcu_hold>>

\* ... forgetting one association after the other under ppe->lock ...
offload_reset_one ==
  /\ ctl.pc = "walk" /\ ppe_lock_free
  /\ \E e \in ctl.todo :
       /\ hash' = [hash EXCEPT ![e] = NoSlot]
       /\ ctl' = [ctl EXCEPT !.todo = @ \ {e}]
  /\ UNCHANGED <<entry_vars, fresh, table_vars, foe, phase, tc, rx, rcu_hold>>

\* ... and release it.
offload_reset_done ==
  /\ ctl.pc = "walk" /\ ctl.todo = {}
  /\ ctl' = CASE ctl.op = "start" -> [ctl EXCEPT !.pc = "clear"]
              [] ctl.op = "stop" -> IdleCtl
              [] OTHER -> [ctl EXCEPT !.pc = "flushlock"]
  /\ UNCHANGED <<entry_vars, hash, fresh, table_vars, foe, phase, tc, rx, rcu_hold>>

\* The rest of ra_ppe_v1_start: clear the table, then enable the engine, or
\* fail because the table is out of the engine's reach.
v1_foe_clear_all == foe' = [s \in Slots |-> Zeroed]
v1_start_enable ==
  /\ ctl.pc = "clear"
  /\ v1_foe_clear_all
  /\ phase' \in {"on", "off"}
  /\ ctl' = IdleCtl
  /\ UNCHANGED <<entry_vars, hash, fresh, table_vars, tc, rx, rcu_hold>>

\* ra_ppe_offload_deinit: ra_ppe_flow_flush under flow_lock ...
flow_flush ==
  /\ ctl.pc = "flushlock" /\ flow_lock_free
  /\ ctl' = [ctl EXCEPT !.pc = "flush", !.todo = flow_table]
  /\ UNCHANGED <<entry_vars, hash, fresh, table_vars, foe, phase, tc, rx, rcu_hold>>

\* ... unlinks one entry after the other (without ppe->lock) ...
flow_flush_one ==
  /\ ctl.pc = "flush"
  /\ \E e \in ctl.todo :
       /\ dead' = dead \cup {e}
       /\ tuple_table' = tuple_table \ {e}
       /\ flow_table' = flow_table \ {e}
       /\ kfree_rcu(e)
       /\ ctl' = [ctl EXCEPT !.todo = @ \ {e}]
  /\ UNCHANGED <<cookie, key, hash, fresh, foe, phase, tc, rx>>

\* ... waits for the readers, destroys the tables and frees the FOE table.
offload_deinit ==
  /\ ctl.pc = "flush" /\ ctl.todo = {} /\ rx.pc = "idle"
  /\ phase' = "gone"
  /\ ctl' = IdleCtl
  /\ UNCHANGED <<entry_vars, hash, fresh, table_vars, foe, tc, rx, rcu_hold>>

\* The driver is bound again: a new, zeroed table, and for PPEv2 a running
\* engine.
ppe_init ==
  /\ phase = "gone"
  /\ phase' = ProbedPhase
  /\ foe' = [s \in Slots |-> Zeroed]
  /\ UNCHANGED <<entry_vars, hash, fresh, table_vars, tc, rx, ctl, rcu_hold>>

-----------------------------------------------------------------------------
(* Environment: RCU, time and the engine (external).                       *)

\* The grace period of an unlinked entry has passed.
rcu_free(e) ==
  /\ mem[e] = "rcu" /\ e \notin rcu_hold
  /\ mem' = [mem EXCEPT ![e] = "free"]
  /\ cookie' = [cookie EXCEPT ![e] = NoCookie]
  /\ key' = [key EXCEPT ![e] = NoKey]
  /\ hash' = [hash EXCEPT ![e] = NoSlot]
  /\ dead' = dead \ {e}
  /\ fresh' = fresh \ {e}
  /\ UNCHANGED <<table_vars, foe, phase, tc, rx, ctl, rcu_hold>>

\* jiffies advances: no flow was used "now" any more.
Tick ==
  /\ fresh' = {}
  /\ UNCHANGED <<entry_vars, hash, table_vars, foe, phase, tc, rx, ctl, rcu_hold>>

\* The engine learns a tuple into a slot that is not bound. It does not pick
\* the slot whose rate report software is answering at that moment.
HwLearn(s, k) ==
  /\ phase = "on"
  /\ foe[s].st \in {"INVALID", "UNBIND"}
  /\ rx.foe # s
  /\ foe' = [foe EXCEPT ![s] = [st |-> "UNBIND", key |-> k, tmpl |-> NoEntry]]
  /\ UNCHANGED <<entry_vars, hash, fresh, table_vars, phase, tc, rx, ctl, rcu_hold>>

\* The engine sees the end of a bound connection, or ages a slot, also the
\* one software is promoting.
HwFin(s) ==
  /\ phase = "on" /\ foe[s].st = "BIND"
  /\ foe' = [foe EXCEPT ![s].st = "FIN"]
  /\ UNCHANGED <<entry_vars, hash, fresh, table_vars, phase, tc, rx, ctl, rcu_hold>>

HwAge(s) ==
  /\ phase = "on" /\ foe[s].st # "INVALID"
  /\ foe' = [foe EXCEPT ![s].st = "INVALID"]
  /\ UNCHANGED <<entry_vars, hash, fresh, table_vars, phase, tc, rx, ctl, rcu_hold>>

-----------------------------------------------------------------------------
TcStep ==
  \/ \E c \in Cookies : flow_destroy(c) \/ (\E k \in Keys : flow_replace(c, k))
  \/ flow_insert_tuple \/ flow_insert_fails
  \/ flow_remove \/ flow_unlink \/ flow_free

RxStep ==
  \/ \E s \in Slots : offload_check_keepalive(s) \/ offload_check_authorise(s)
  \/ foe_commit_copy \/ foe_commit_publish \/ offload_check_associate

CtlStep ==
  \/ v1_start \/ v1_stop \/ ppe_deinit
  \/ offload_reset \/ offload_reset_one \/ offload_reset_done
  \/ v1_start_enable
  \/ flow_flush \/ flow_flush_one \/ offload_deinit \/ ppe_init

HwStep ==
  \E s \in Slots : HwFin(s) \/ HwAge(s) \/ (\E k \in Keys : HwLearn(s, k))

EnvStep == Tick \/ (\E e \in Entries : rcu_free(e))

Next == TcStep \/ RxStep \/ CtlStep \/ HwStep \/ EnvStep

Spec == Init /\ [][Next]_vars

\* Fairness: a TC operation or a promotion that has begun goes on (both are
\* straight-line code), ppe->lock is a fair spinlock, grace periods end.
Fairness ==
  /\ WF_vars(flow_insert_tuple \/ flow_insert_fails)
  /\ SF_vars(flow_remove)
  /\ WF_vars(flow_unlink) /\ WF_vars(flow_free)
  /\ WF_vars(foe_commit_copy) /\ WF_vars(foe_commit_publish)
  /\ WF_vars(offload_check_associate)
  /\ \A e \in Entries : WF_vars(rcu_free(e))

FairSpec == Spec /\ Fairness

-----------------------------------------------------------------------------
(* Properties.                                                             *)

\* The slot carries the template of a flow Linux still has, which remembers
\* exactly this slot and has exactly this tuple.
Owned(s) ==
  /\ foe[s].tmpl \in flow_table
  /\ foe[s].key = key[foe[s].tmpl]
  /\ foe[s].key \in Parsable
  /\ \/ hash[foe[s].tmpl] = s
     \/ rx = [pc |-> "associate", foe |-> s, e |-> foe[s].tmpl]

\* While the engine runs, every BIND slot is owned: flow_destroy will find and
\* clear it. No interleaving of destroy, promotion, ageing, relearning and
\* restart leaves the engine forwarding for a flow Linux has forgotten.
NoOrphanBind ==
  phase = "on" => \A s \in Slots : foe[s].st = "BIND" => Owned(s)

\* A flow is bound in at most one slot at a time, although the engine may learn
\* its tuple in several: the check against the remembered slot in
\* offload_check, with the lock held until the new slot is recorded.
OneBindPerFlow ==
  phase = "on" =>
    \A s, t \in Slots :
      foe[s].st = "BIND" /\ foe[t].st = "BIND" /\ foe[s].tmpl = foe[t].tmpl
        => s = t

\* From authorisation to association the promoted flow stays authorised: not
\* dead, not unlinked, not freed, and the slot still has the tuple that was
\* looked up. (dead is set under ppe->lock for this reason.)
PromotionStaysAuthorised ==
  rx.pc # "idle" =>
    /\ rx.e \in tuple_table \ dead
    /\ mem[rx.e] = "live"
    /\ foe[rx.foe].key = key[rx.e]

\* What RX and TC can look up is allocated, and RX finds nothing that TC does
\* not know: insertion and removal order of the two tables, including the
\* error path of flow_insert and the deferred free.
LinkedIsLive ==
  /\ tuple_table \subseteq flow_table
  /\ \A e \in Entries : e \in flow_table <=> mem[e] = "live"

\* Removal leaves no entry linked or allocated outside RCU, whatever TC did
\* before (ra_ppe_flow_flush, ra_ppe_offload_deinit).
DeinitLeavesNothing ==
  phase = "gone" =>
    /\ flow_table = {} /\ tuple_table = {}
    /\ \A e \in Entries : mem[e] # "live"

\* The other entries with the tuple of e: rhashtable_insert_fast admits them.
Duplicates(e) == {d \in flow_table \ {e} : key[d] = key[e]}

\* Linux is told that a flow is in use when its template is bound, and later
\* only by a slot the flow remembers in which its own template is bound, or that
\* of a duplicate which remembers this slot too. So a slot that was recycled for
\* another tuple, or for nobody, refreshes no flow (the hash comparison of the
\* keepalive path), and one that was recycled for another cookie refreshes the
\* first cookie only if both have the same tuple: the hash comparison does not
\* tell those apart.
ActivityIsGenuine ==
  [][\A e \in fresh' \ fresh :
       LET s == hash'[e] IN
         /\ e \in tuple_table \ dead
         /\ s # NoSlot /\ foe[s].key = key[e]
         /\ \/ rx.pc = "associate" /\ rx.e = e /\ foe[s].tmpl = e
            \/ /\ foe[s].st = "BIND" /\ hash[e] = s
               /\ foe[s].tmpl \in {e} \cup Duplicates(e)
               /\ hash[foe[s].tmpl] = s]_vars

\* A destroyed flow is eventually freed: flow_destroy never blocks for ever on
\* RX, and the reader it may have raced with ends.
DeadIsFreed == \A e \in Entries : (e \in dead) ~> (mem[e] = "free")

-----------------------------------------------------------------------------
(* The inductive invariant behind NoOrphanBind and the refinement.         *)

\* Memory and the two tables agree; unallocated memory carries no state.
MemInv ==
  /\ LinkedIsLive
  /\ \A e \in Entries : mem[e] = "free" => hash[e] = NoSlot /\ e \notin dead
  /\ \A e \in flow_table : key[e] \in Parsable

\* Where the TC operation is, and that only its entry is linked and dead.
TcInv ==
  /\ tc.pc # "idle" => tc.e \in flow_table
  /\ tc.pc = "insert" => tc.e \notin tuple_table /\ tc.e \notin dead /\ hash[tc.e] = NoSlot
  /\ tc.pc \in {"remove", "unlink", "free"} => tc.e \in dead
  /\ tc.pc \in {"unlink", "free"} => hash[tc.e] = NoSlot
  /\ tc.pc = "free" => tc.e \notin tuple_table
  /\ \A e \in flow_table \cap dead :
       tc.pc \in {"remove", "unlink", "free"} /\ tc.e = e

\* The promotion in progress, under ppe->lock.
RxInv ==
  /\ rx.pc = "idle" => rx.foe = NoSlot
  /\ rx.pc # "idle" =>
       /\ phase = "on"
       /\ rx.foe \in Slots
       /\ rx.e \in tuple_table /\ rx.e \notin dead
       /\ foe[rx.foe].key = key[rx.e]
       /\ hash[rx.e] \in {NoSlot, rx.foe}
       /\ rx.pc = "copy" => foe[rx.foe].st \in {"UNBIND", "INVALID"}
       /\ rx.pc = "publish" => foe[rx.foe].st = "INVALID"
       /\ rx.pc \in {"publish", "associate"} => foe[rx.foe].tmpl = rx.e

\* The engine is off while its state is torn down or rebuilt, and removal
\* runs alone.
CtlInv ==
  /\ ctl.pc # "idle" => phase = "off"
  /\ (ctl.pc = "idle") <=> (ctl.op = "none")
  /\ ctl.pc \in {"walk", "flush"} => tc.pc = "idle" /\ ctl.todo \subseteq flow_table
  /\ ctl.op = "deinit" \/ phase = "gone" => tc.pc = "idle"
  /\ ctl.pc \in {"flushlock", "flush"} => ctl.op = "deinit"
  /\ ctl.pc \in {"walk"} => \A e \in flow_table \ ctl.todo : hash[e] = NoSlot
  /\ ctl.pc \in {"flushlock", "flush"} => \A e \in flow_table : hash[e] = NoSlot
  /\ ctl.pc = "flush" => ctl.todo = flow_table
  /\ phase = "gone" => flow_table = {}

\* Everything together: the invariant that every step preserves.
IInv == TypeOK /\ MemInv /\ TcInv /\ RxInv /\ CtlInv /\ NoOrphanBind

-----------------------------------------------------------------------------
\* The offload implements the abstract authorisation specification.
Auth == INSTANCE FlowAuth WITH
  Flows <- Entries, NoFlow <- NoEntry,
  status <- [e \in Entries |-> IF e \notin flow_table THEN "none"
                               ELSE IF e \in dead THEN "revoking"
                               ELSE "active"],
  fwd <- [s \in Slots |-> IF phase = "on" /\ foe[s].st = "BIND"
                            THEN foe[s].tmpl ELSE NoEntry]

\* Every step of the offload is a step of FlowAuth or changes nothing there:
\* in particular a dead flow is never bound and a flow is forgotten only when
\* no running slot forwards for it.
RefinesFlowAuth == Auth!ASpec
=============================================================================
