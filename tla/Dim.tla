--------------------------------- MODULE Dim ---------------------------------
(***************************************************************************)
(* Dynamic interrupt moderation (ralink_fe.c). The polls feed net_dim,     *)
(* which moves a profile index and queues a work item per direction; the   *)
(* item writes its direction's half of one delay register, by a shadow     *)
(* that both items modify under dim_lock. ndo_stop cancels the items,      *)
(* ndo_open writes the register anew.                                      *)
(***************************************************************************)
EXTENDS Naturals, Sequences

Dirs == {"rx", "tx"}
NoDir == "none"

\* ralink_rx_dim_profiles and ralink_tx_dim_profiles.
Profiles == [
  rx |-> << [usec |-> 20, pkts |-> 4],   [usec |-> 40, pkts |-> 8],
            [usec |-> 80, pkts |-> 16],  [usec |-> 160, pkts |-> 24],
            [usec |-> 320, pkts |-> 32] >>,
  tx |-> << [usec |-> 140, pkts |-> 40], [usec |-> 170, pkts |-> 52],
            [usec |-> 200, pkts |-> 64], [usec |-> 240, pkts |-> 76],
            [usec |-> 280, pkts |-> 88] >>]

VARIABLES
  profile_ix,  \* dim->profile_ix
  state,       \* dim->state
  work,        \* per direction: where its work item is
  half,        \* per direction: the value its item will put into its half
  old,         \* per direction: the shadow as its item read it
  dim_lock,    \* the holder of priv->dim_lock
  dly_int_cfg, \* the shadow
  reg,         \* the register
  ctl,         \* "down", "up", or where ndo_stop is
  cancelled    \* history: directions whose queued item was cancelled

vars == <<profile_ix, state, work, half, old, dim_lock, dly_int_cfg, reg, ctl, cancelled>>

atmost(n, max) == IF n < max THEN n ELSE max

\* A half of the register: enable bit, 7 bits of packets, 8 bits of time in
\* units of 20 us, rounded up.
Half(d, ix) ==
  LET p == Profiles[d][ix + 1]
  IN [en |-> TRUE, pint |-> atmost(p.pkts, 127), ptime |-> atmost((p.usec + 19) \div 20, 255)]

Off == [en |-> FALSE, pint |-> 0, ptime |-> 0]
Halves == [en : BOOLEAN, pint : 0 .. 127, ptime : 0 .. 255]

TypeOK ==
  /\ profile_ix \in [Dirs -> 0 .. 4]
  /\ state \in [Dirs -> {"start", "measure", "apply"}]
  /\ work \in [Dirs -> {"none", "queued", "run", "locked", "write", "unlock", "return"}]
  /\ half \in [Dirs -> Halves]
  /\ old \in [Dirs -> [Dirs -> Halves]]
  /\ dim_lock \in Dirs \cup {NoDir}
  /\ dly_int_cfg \in [Dirs -> Halves] /\ reg \in [Dirs -> Halves]
  /\ ctl \in {"down", "up", "cancel rx", "cancel tx"}
  /\ cancelled \in SUBSET Dirs

Zero == [d \in Dirs |-> Off]

\* After ralink_fe_dim_init.
Init ==
  /\ profile_ix = [rx |-> 0, tx |-> 2]
  /\ state = [d \in Dirs |-> "start"]
  /\ work = [d \in Dirs |-> "none"]
  /\ half = Zero
  /\ old = [d \in Dirs |-> Zero]
  /\ dim_lock = NoDir
  /\ dly_int_cfg = Zero
  /\ reg = Zero
  /\ ctl = "down"
  /\ cancelled = {}

-----------------------------------------------------------------------------
(* net_dim at the end of a poll (external). A decision moves the profile   *)
(* by one and queues the item; until the item has run nothing else happens.*)

dim_frame == <<half, old, dim_lock, dly_int_cfg, reg, ctl, cancelled>>

net_dim_measures(d) ==
  /\ ctl = "up" /\ state[d] = "start"
  /\ state' = [state EXCEPT ![d] = "measure"]
  /\ UNCHANGED <<profile_ix, work, dim_frame>>

net_dim_decides(d, ix) ==
  /\ ctl = "up" /\ state[d] = "measure"
  /\ ix \in {profile_ix[d] + 1, profile_ix[d] - 1} \cap (0 .. 4)
  /\ profile_ix' = [profile_ix EXCEPT ![d] = ix]
  /\ state' = [state EXCEPT ![d] = "apply"]
  /\ work' = [work EXCEPT ![d] = IF @ = "none" THEN "queued" ELSE @]
  /\ UNCHANGED dim_frame

-----------------------------------------------------------------------------
(* ralink_fe_dim_rx and ralink_fe_dim_tx, on a workqueue.                  *)

work_frame == <<profile_ix, ctl, cancelled>>

work_profile(d) ==
  /\ work[d] = "queued"
  /\ half' = [half EXCEPT ![d] = Half(d, profile_ix[d])]
  /\ work' = [work EXCEPT ![d] = "run"]
  /\ UNCHANGED <<work_frame, state, old, dim_lock, dly_int_cfg, reg>>

\* Fault: no lock around the shadow.
dim_lock_missing == TRUE

dim_lock_free == dim_lock = NoDir

work_lock(d) ==
  /\ work[d] = "run" /\ dim_lock_free
  /\ dim_lock' = d
  /\ old' = [old EXCEPT ![d] = dly_int_cfg]
  /\ work' = [work EXCEPT ![d] = "locked"]
  /\ UNCHANGED <<work_frame, state, half, dly_int_cfg, reg>>

\* An unchanged value is not written.
work_store(d) ==
  LET val == [old[d] EXCEPT ![d] = half[d]] IN
  /\ work[d] = "locked"
  /\ dly_int_cfg' = IF val = old[d] THEN dly_int_cfg ELSE val
  /\ work' = [work EXCEPT ![d] = IF val = old[d] THEN "unlock" ELSE "write"]
  /\ UNCHANGED <<work_frame, state, half, old, dim_lock, reg>>

work_write(d) ==
  /\ work[d] = "write"
  /\ reg' = [old[d] EXCEPT ![d] = half[d]]
  /\ work' = [work EXCEPT ![d] = "unlock"]
  /\ UNCHANGED <<work_frame, state, half, old, dim_lock, dly_int_cfg>>

work_unlock(d) ==
  /\ work[d] = "unlock"
  /\ dim_lock' = NoDir
  /\ work' = [work EXCEPT ![d] = "return"]
  /\ UNCHANGED <<work_frame, state, half, old, dly_int_cfg, reg>>

\* Fault: the item forgets to have measuring resumed.
resume_missing(d) == state[d]

resume(d) == "start"

work_return(d) ==
  /\ work[d] = "return"
  /\ state' = [state EXCEPT ![d] = resume(d)]
  /\ work' = [work EXCEPT ![d] = "none"]
  /\ UNCHANGED <<work_frame, half, old, dim_lock, dly_int_cfg, reg>>

work_step(d) ==
  \/ work_profile(d) \/ work_lock(d) \/ work_store(d)
  \/ work_write(d) \/ work_unlock(d) \/ work_return(d)

-----------------------------------------------------------------------------
(* ndo_open and ndo_stop.                                                  *)

\* net_dim_setting leaves dim->state alone; ralink_fe_dim_hw_setup writes
\* both halves.
open ==
  /\ ctl = "down"
  /\ dly_int_cfg' = [d \in Dirs |-> Half(d, profile_ix[d])]
  /\ reg' = dly_int_cfg'
  /\ ctl' = "up"
  /\ UNCHANGED <<profile_ix, state, work, half, old, dim_lock, cancelled>>

\* The polls are disabled.
stop ==
  /\ ctl = "up"
  /\ ctl' = "cancel rx"
  /\ UNCHANGED <<profile_ix, state, work, half, old, dim_lock, dly_int_cfg, reg, cancelled>>

\* cancel_work_sync drops an item that has not begun and waits for one that has.
cancel_work_sync(d, next) ==
  /\ ctl' = next
  /\ work[d] \in {"none", "queued"}
  /\ cancelled' = IF work[d] = "queued" THEN cancelled \cup {d} ELSE cancelled
  /\ work' = [work EXCEPT ![d] = "none"]
  /\ UNCHANGED <<profile_ix, state, half, old, dim_lock, dly_int_cfg, reg>>

stop_cancel_rx == ctl = "cancel rx" /\ cancel_work_sync("rx", "cancel tx")

stop_cancel_tx == ctl = "cancel tx" /\ cancel_work_sync("tx", "down")

-----------------------------------------------------------------------------
Next ==
  \/ \E d \in Dirs : net_dim_measures(d) \/ work_step(d)
  \/ \E d \in Dirs, ix \in 0 .. 4 : net_dim_decides(d, ix)
  \/ open \/ stop \/ stop_cancel_rx \/ stop_cancel_tx

Spec == Init /\ [][Next]_vars

\* The workqueue runs queued items, and the spin lock is granted to a waiter
\* that keeps waiting.
FairSpec == Spec /\ \A d \in Dirs : SF_vars(work_step(d))

-----------------------------------------------------------------------------
(* Properties.                                                             *)

\* While the interface is up and the items are done, the register holds the
\* profiles net_dim has chosen for both directions, although each item
\* rewrites the word both share (ralink_fe_dim_rx, ralink_fe_dim_tx), only if
\* its shadow differs, and items are cancelled between sessions.
RegisterHoldsProfiles ==
  ctl = "up" => \A d \in Dirs : work[d] = "none" => reg[d] = Half(d, profile_ix[d])

\* Moderation resumes after every decision, over any number of stops and
\* opens, unless ndo_stop cancelled an item that had not begun: then
\* dim->state stays at DIM_APPLY_NEW_PROFILE, in which net_dim does nothing,
\* and nothing resets it.
Adapts == \A d \in Dirs : state[d] = "apply" ~> state[d] # "apply" \/ d \in cancelled
=============================================================================
