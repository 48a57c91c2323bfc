------------------------------ MODULE DimProofs ------------------------------
(***************************************************************************)
(* The two halves of the delay register are never lost to each other: the  *)
(* inductive invariant over the moderation items, the shadow under         *)
(* dim_lock and the register, over any number of opens and stops.          *)
(***************************************************************************)
EXTENDS Dim, TLAPS

\* Where an item holds dim_lock.
Holding == {"locked", "write", "unlock"}

\* The lock is held by the one item that is between lock and unlock.
LockInv == \A d \in Dirs : dim_lock = d <=> work[d] \in Holding

\* From its decision to its item's return a direction measures nothing, so the
\* item's profile is still the chosen one.
ItemInv ==
  \A d \in Dirs :
    /\ work[d] # "none" => state[d] = "apply"
    /\ work[d] \notin {"none", "queued"} => half[d] = Half(d, profile_ix[d])

\* What the holder of the lock has read is the shadow, until it has stored; the
\* register lags behind the shadow in the half of a holder about to write.
ShadowInv ==
  \A d \in Dirs :
    /\ work[d] = "locked" => old[d] = dly_int_cfg
    /\ work[d] = "write" => dly_int_cfg = [old[d] EXCEPT ![d] = half[d]]
    /\ work[d] # "write" => reg[d] = dly_int_cfg[d]

\* The shadow has the chosen profile wherever no item has yet to store it.
HalvesInv ==
  ctl = "up" =>
    \A d \in Dirs : work[d] \notin {"queued", "run", "locked"} =>
                      dly_int_cfg[d] = Half(d, profile_ix[d])

\* ndo_stop leaves no item behind.
StopInv ==
  /\ ctl = "cancel tx" => work["rx"] = "none"
  /\ ctl = "down" => \A d \in Dirs : work[d] = "none"

DimIInv == TypeOK /\ LockInv /\ ItemInv /\ ShadowInv /\ HalvesInv /\ StopInv

-----------------------------------------------------------------------------
(* The moderation profiles fit the register.                               *)

LEMMA HalfType ==
  ASSUME NEW d \in Dirs, NEW ix \in 0 .. 4
  PROVE  Half(d, ix) \in Halves
<1> DEFINE p == Profiles[d][ix + 1]
<1>1. p.pkts \in Nat /\ p.usec \in Nat
  <2>1. CASE d = "rx"
    BY <2>1 DEF Profiles
  <2>2. CASE d = "tx"
    BY <2>2 DEF Profiles
  <2> QED
    BY <2>1, <2>2 DEF Dirs
<1> HIDE DEF p
<1>2. atmost(p.pkts, 127) \in 0 .. 127
  BY <1>1 DEF atmost
<1>3. atmost((p.usec + 19) \div 20, 255) \in 0 .. 255
  <2>1. (p.usec + 19) \div 20 \in Nat
    BY <1>1
  <2> QED
    BY <2>1 DEF atmost
<1>4. Half(d, ix) = [en |-> TRUE, pint |-> atmost(p.pkts, 127),
                     ptime |-> atmost((p.usec + 19) \div 20, 255)]
  BY DEF Half, p
<1> QED
  BY <1>2, <1>3, <1>4 DEF Halves

LEMMA ZeroType == Zero \in [Dirs -> Halves]
BY DEF Zero, Off, Halves

-----------------------------------------------------------------------------
(* The steps.                                                              *)

LEMMA DimInit ==
  ASSUME Init
  PROVE  DimIInv
<1>1. TypeOK
  BY ZeroType DEF Init, TypeOK, Dirs, Zero
<1>2. LockInv
  BY DEF Init, LockInv, Holding, Dirs, NoDir
<1>3. ItemInv /\ ShadowInv /\ HalvesInv /\ StopInv
  BY DEF Init, ItemInv, ShadowInv, HalvesInv, StopInv, Dirs
<1> QED
  BY <1>1, <1>2, <1>3 DEF DimIInv

\* net_dim measures; it decides only while its direction has no item.
LEMMA NetDimKeeps ==
  ASSUME DimIInv, NEW d \in Dirs, NEW ix \in 0 .. 4,
         net_dim_measures(d) \/ net_dim_decides(d, ix)
  PROVE  DimIInv'
<1> USE DEF dim_frame
<1>1. TypeOK /\ LockInv /\ ItemInv /\ ShadowInv /\ HalvesInv /\ StopInv
  BY DEF DimIInv
<1>2. CASE net_dim_measures(d)
  <2>1. work[d] = "none"
    BY <1>1, <1>2 DEF ItemInv, net_dim_measures
  <2>2. TypeOK'
    BY <1>1, <1>2 DEF TypeOK, net_dim_measures
  <2>3. ItemInv'
    BY <1>1, <1>2, <2>1 DEF TypeOK, ItemInv, net_dim_measures
  <2>4. LockInv' /\ ShadowInv' /\ HalvesInv' /\ StopInv'
    BY <1>1, <1>2 DEF LockInv, ShadowInv, HalvesInv, StopInv, net_dim_measures
  <2> QED
    BY <2>2, <2>3, <2>4 DEF DimIInv
<1>3. CASE net_dim_decides(d, ix)
  <2>1. /\ ctl = "up" /\ state[d] = "measure"
        /\ profile_ix' = [profile_ix EXCEPT ![d] = ix]
        /\ state' = [state EXCEPT ![d] = "apply"]
        /\ work' = [work EXCEPT ![d] = IF @ = "none" THEN "queued" ELSE @]
        /\ UNCHANGED <<half, old, dim_lock, dly_int_cfg, reg, ctl, cancelled>>
    BY <1>3 DEF net_dim_decides
  <2>2. work[d] = "none" /\ work' = [work EXCEPT ![d] = "queued"]
    BY <1>1, <2>1 DEF ItemInv
  <2>3. TypeOK'
    BY <1>1, <2>1, <2>2 DEF TypeOK
  <2>4. \A e \in Dirs : IF e = d THEN work'[e] = "queued" /\ state'[e] = "apply"
                        ELSE /\ work'[e] = work[e] /\ state'[e] = state[e]
                             /\ profile_ix'[e] = profile_ix[e]
    BY <1>1, <2>1, <2>2 DEF TypeOK
  <2>5. LockInv'
    BY <1>1, <2>1, <2>2, <2>4 DEF LockInv, Holding
  <2>6. ItemInv'
    BY <1>1, <2>1, <2>4 DEF ItemInv
  <2>7. ShadowInv'
    BY <1>1, <2>1, <2>2, <2>4 DEF ShadowInv
  <2>8. HalvesInv' /\ StopInv'
    BY <1>1, <2>1, <2>4 DEF HalvesInv, StopInv, Dirs
  <2> QED
    BY <2>3, <2>5, <2>6, <2>7, <2>8 DEF DimIInv
<1> QED
  BY <1>2, <1>3

\* An item's steps outside the lock: it computes its value, and returns.
LEMMA ItemKeeps ==
  ASSUME DimIInv, NEW d \in Dirs, work_profile(d) \/ work_return(d)
  PROVE  DimIInv'
<1> USE DEF work_frame
<1>1. TypeOK /\ LockInv /\ ItemInv /\ ShadowInv /\ HalvesInv /\ StopInv
  BY DEF DimIInv
<1>2. CASE work_profile(d)
  <2>1. /\ work[d] = "queued"
        /\ half' = [half EXCEPT ![d] = Half(d, profile_ix[d])]
        /\ work' = [work EXCEPT ![d] = "run"]
        /\ UNCHANGED <<profile_ix, ctl, cancelled, state, old, dim_lock, dly_int_cfg, reg>>
    BY <1>2 DEF work_profile
  <2>2. Half(d, profile_ix[d]) \in Halves
    BY <1>1, HalfType DEF TypeOK
  <2>3. TypeOK'
    BY <1>1, <2>1, <2>2 DEF TypeOK
  <2>4. \A e \in Dirs : IF e = d THEN work'[e] = "run" /\ half'[e] = Half(e, profile_ix[e])
                        ELSE work'[e] = work[e] /\ half'[e] = half[e]
    BY <1>1, <2>1 DEF TypeOK
  <2>5. LockInv' /\ ItemInv'
    BY <1>1, <2>1, <2>4 DEF LockInv, ItemInv, Holding
  <2>6. ShadowInv'
    BY <1>1, <2>1, <2>4 DEF ShadowInv
  <2>7. HalvesInv' /\ StopInv'
    BY <1>1, <2>1, <2>4 DEF HalvesInv, StopInv, Dirs
  <2> QED
    BY <2>3, <2>5, <2>6, <2>7 DEF DimIInv
<1>3. CASE work_return(d)
  <2>1. /\ work[d] = "return"
        /\ state' = [state EXCEPT ![d] = "start"]
        /\ work' = [work EXCEPT ![d] = "none"]
        /\ UNCHANGED <<profile_ix, ctl, cancelled, half, old, dim_lock, dly_int_cfg, reg>>
    BY <1>3 DEF work_return, resume
  <2>2. TypeOK'
    BY <1>1, <2>1 DEF TypeOK
  <2>3. \A e \in Dirs : IF e = d THEN work'[e] = "none"
                        ELSE work'[e] = work[e] /\ state'[e] = state[e]
    BY <1>1, <2>1 DEF TypeOK
  <2>4. LockInv' /\ ItemInv'
    BY <1>1, <2>1, <2>3 DEF LockInv, ItemInv, Holding
  <2>5. ShadowInv'
    BY <1>1, <2>1, <2>3 DEF ShadowInv
  <2>6. HalvesInv' /\ StopInv'
    BY <1>1, <2>1, <2>3 DEF HalvesInv, StopInv, Dirs
  <2> QED
    BY <2>2, <2>4, <2>5, <2>6 DEF DimIInv
<1> QED
  BY <1>2, <1>3

\* An item takes the lock and reads the shadow; it gives the lock back.
LEMMA LockKeeps ==
  ASSUME DimIInv, NEW d \in Dirs, work_lock(d) \/ work_unlock(d)
  PROVE  DimIInv'
<1> USE DEF work_frame
<1>1. TypeOK /\ LockInv /\ ItemInv /\ ShadowInv /\ HalvesInv /\ StopInv
  BY DEF DimIInv
<1>2. CASE work_lock(d)
  <2>1. /\ work[d] = "run" /\ dim_lock = NoDir /\ dim_lock' = d
        /\ old' = [old EXCEPT ![d] = dly_int_cfg]
        /\ work' = [work EXCEPT ![d] = "locked"]
        /\ UNCHANGED <<profile_ix, ctl, cancelled, state, half, dly_int_cfg, reg>>
    BY <1>2 DEF work_lock, dim_lock_free
  <2>2. TypeOK'
    BY <1>1, <2>1 DEF TypeOK
  <2>3. \A e \in Dirs : IF e = d THEN work'[e] = "locked" /\ old'[e] = dly_int_cfg
                        ELSE work'[e] = work[e] /\ old'[e] = old[e]
    BY <1>1, <2>1 DEF TypeOK
  <2>4. \A e \in Dirs : work[e] \notin Holding
    BY <1>1, <2>1 DEF LockInv, Dirs, NoDir
  <2>5. LockInv' /\ ItemInv'
    BY <1>1, <2>1, <2>3, <2>4 DEF LockInv, ItemInv, Holding
  <2>6. ShadowInv'
    BY <1>1, <2>1, <2>3, <2>4 DEF ShadowInv, Holding
  <2>7. HalvesInv' /\ StopInv'
    BY <1>1, <2>1, <2>3 DEF HalvesInv, StopInv, Dirs
  <2> QED
    BY <2>2, <2>5, <2>6, <2>7 DEF DimIInv
<1>3. CASE work_unlock(d)
  <2>1. /\ work[d] = "unlock" /\ dim_lock' = NoDir
        /\ work' = [work EXCEPT ![d] = "return"]
        /\ UNCHANGED <<profile_ix, ctl, cancelled, state, half, old, dly_int_cfg, reg>>
    BY <1>3 DEF work_unlock
  <2>2. TypeOK'
    BY <1>1, <2>1 DEF TypeOK
  <2>3. \A e \in Dirs : IF e = d THEN work'[e] = "return" ELSE work'[e] = work[e]
    BY <1>1, <2>1 DEF TypeOK
  <2>4. \A e \in Dirs : e # d => work[e] \notin Holding
    <3>1. dim_lock = d
      BY <1>1, <2>1 DEF LockInv, Holding
    <3> QED
      BY <1>1, <3>1 DEF LockInv
  <2>5. LockInv' /\ ItemInv'
    BY <1>1, <2>1, <2>3, <2>4 DEF LockInv, ItemInv, Holding, Dirs, NoDir
  <2>6. ShadowInv'
    BY <1>1, <2>1, <2>3 DEF ShadowInv
  <2>7. HalvesInv' /\ StopInv'
    BY <1>1, <2>1, <2>3 DEF HalvesInv, StopInv, Dirs
  <2> QED
    BY <2>2, <2>5, <2>6, <2>7 DEF DimIInv
<1> QED
  BY <1>2, <1>3

\* Under the lock, the item stores its half in the shadow ...
LEMMA StoreKeeps ==
  ASSUME DimIInv, NEW d \in Dirs, work_store(d)
  PROVE  DimIInv'
<1>1. TypeOK /\ LockInv /\ ItemInv /\ ShadowInv /\ HalvesInv /\ StopInv
  BY DEF DimIInv
<1> DEFINE val == [old[d] EXCEPT ![d] = half[d]]
<1>2. /\ work[d] = "locked"
      /\ dly_int_cfg' = IF val = old[d] THEN dly_int_cfg ELSE val
      /\ work' = [work EXCEPT ![d] = IF val = old[d] THEN "unlock" ELSE "write"]
      /\ UNCHANGED <<profile_ix, ctl, cancelled, state, half, old, dim_lock, reg>>
  BY DEF work_store, work_frame
<1>3. \A e \in Dirs : e # d => work[e] \notin Holding
  <2>1. dim_lock = d
    BY <1>1, <1>2 DEF LockInv, Holding
  <2> QED
    BY <1>1, <2>1 DEF LockInv
<1>4. /\ old[d] = dly_int_cfg /\ half[d] = Half(d, profile_ix[d])
      /\ \A e \in Dirs : reg[e] = dly_int_cfg[e]
  BY <1>1, <1>2, <1>3 DEF ShadowInv, ItemInv, Holding
<1>5. /\ val \in [Dirs -> Halves] /\ val[d] = half[d]
      /\ \A e \in Dirs : e # d => val[e] = dly_int_cfg[e]
  BY <1>1, <1>4 DEF TypeOK
<1> HIDE DEF val
<1>6. CASE val = old[d]
  <2>1. dly_int_cfg' = dly_int_cfg /\ work' = [work EXCEPT ![d] = "unlock"]
    BY <1>2, <1>6
  <2>2. \A e \in Dirs : IF e = d THEN work'[e] = "unlock" ELSE work'[e] = work[e]
    BY <1>1, <2>1 DEF TypeOK
  <2>3. TypeOK'
    BY <1>1, <1>2, <2>1 DEF TypeOK
  <2>4. LockInv' /\ ItemInv' /\ StopInv'
    BY <1>1, <1>2, <2>2 DEF LockInv, ItemInv, StopInv, Holding, Dirs
  <2>5. ShadowInv'
    BY <1>1, <1>2, <1>4, <2>1, <2>2 DEF ShadowInv
  <2>6. dly_int_cfg[d] = Half(d, profile_ix[d])
    BY <1>4, <1>5, <1>6
  <2>7. HalvesInv'
    BY <1>1, <1>2, <2>1, <2>2, <2>6 DEF HalvesInv
  <2> QED
    BY <2>3, <2>4, <2>5, <2>7 DEF DimIInv
<1>7. CASE val # old[d]
  <2>1. dly_int_cfg' = val /\ work' = [work EXCEPT ![d] = "write"]
    BY <1>2, <1>7
  <2>2. \A e \in Dirs : IF e = d THEN work'[e] = "write" ELSE work'[e] = work[e]
    BY <1>1, <2>1 DEF TypeOK
  <2>3. TypeOK'
    BY <1>1, <1>2, <1>5, <2>1 DEF TypeOK
  <2>4. LockInv' /\ ItemInv' /\ StopInv'
    BY <1>1, <1>2, <2>2 DEF LockInv, ItemInv, StopInv, Holding, Dirs
  <2>5. ShadowInv'
    <3>1. val = [old[d] EXCEPT ![d] = half[d]]
      BY DEF val
    <3>2. \A e \in Dirs : e # d => work'[e] \notin {"locked", "write"}
      BY <1>3, <2>2 DEF Holding
    <3> QED
      BY <1>2, <1>4, <1>5, <2>1, <2>2, <3>1, <3>2 DEF ShadowInv
  <2>6. HalvesInv'
    BY <1>1, <1>2, <1>4, <1>5, <2>1, <2>2 DEF HalvesInv
  <2> QED
    BY <2>3, <2>4, <2>5, <2>6 DEF DimIInv
<1> QED
  BY <1>6, <1>7

\* ... and writes the register.
LEMMA WriteKeeps ==
  ASSUME DimIInv, NEW d \in Dirs, work_write(d)
  PROVE  DimIInv'
<1>1. TypeOK /\ LockInv /\ ItemInv /\ ShadowInv /\ HalvesInv /\ StopInv
  BY DEF DimIInv
<1>2. /\ work[d] = "write"
      /\ reg' = [old[d] EXCEPT ![d] = half[d]]
      /\ work' = [work EXCEPT ![d] = "unlock"]
      /\ UNCHANGED <<profile_ix, ctl, cancelled, state, half, old, dim_lock, dly_int_cfg>>
  BY DEF work_write, work_frame
<1>3. reg' = dly_int_cfg
  BY <1>1, <1>2 DEF ShadowInv
<1>4. \A e \in Dirs : IF e = d THEN work'[e] = "unlock" ELSE work'[e] = work[e]
  BY <1>1, <1>2 DEF TypeOK
<1>5. TypeOK'
  BY <1>1, <1>2, <1>3 DEF TypeOK
<1>6. LockInv' /\ ItemInv' /\ StopInv'
  BY <1>1, <1>2, <1>4 DEF LockInv, ItemInv, StopInv, Holding, Dirs
<1>7. ShadowInv'
  BY <1>1, <1>2, <1>3, <1>4 DEF ShadowInv
<1>8. HalvesInv'
  BY <1>1, <1>2, <1>4 DEF HalvesInv
<1> QED
  BY <1>5, <1>6, <1>7, <1>8 DEF DimIInv

\* ndo_open writes both halves while no item exists.
LEMMA OpenKeeps ==
  ASSUME DimIInv, open
  PROVE  DimIInv'
<1>1. TypeOK /\ LockInv /\ ItemInv /\ ShadowInv /\ HalvesInv /\ StopInv
  BY DEF DimIInv
<1>2. /\ ctl = "down" /\ ctl' = "up"
      /\ dly_int_cfg' = [d \in Dirs |-> Half(d, profile_ix[d])]
      /\ reg' = dly_int_cfg'
      /\ UNCHANGED <<profile_ix, state, work, half, old, dim_lock, cancelled>>
  BY DEF open
<1>3. \A d \in Dirs : work[d] = "none"
  BY <1>1, <1>2 DEF StopInv
<1>4. \A d \in Dirs : Half(d, profile_ix[d]) \in Halves
  BY <1>1, HalfType DEF TypeOK
<1>5. TypeOK'
  BY <1>1, <1>2, <1>4 DEF TypeOK
<1>6. LockInv' /\ ItemInv' /\ StopInv'
  BY <1>1, <1>2 DEF LockInv, ItemInv, StopInv
<1>7. ShadowInv' /\ HalvesInv'
  BY <1>2, <1>3 DEF ShadowInv, HalvesInv
<1> QED
  BY <1>5, <1>6, <1>7 DEF DimIInv

\* ndo_stop waits for a running item, so none is left when it has returned.
LEMMA StopKeeps ==
  ASSUME DimIInv, stop \/ stop_cancel_rx \/ stop_cancel_tx
  PROVE  DimIInv'
<1>1. TypeOK /\ LockInv /\ ItemInv /\ ShadowInv /\ HalvesInv /\ StopInv
  BY DEF DimIInv
<1>2. CASE stop
  <2>1. /\ ctl' = "cancel rx"
        /\ UNCHANGED <<profile_ix, state, work, half, old, dim_lock, dly_int_cfg, reg, cancelled>>
    BY <1>2 DEF stop
  <2>2. TypeOK'
    BY <1>1, <2>1 DEF TypeOK
  <2>3. LockInv' /\ ItemInv' /\ ShadowInv' /\ HalvesInv' /\ StopInv'
    BY <1>1, <2>1 DEF LockInv, ItemInv, ShadowInv, HalvesInv, StopInv
  <2> QED
    BY <2>2, <2>3 DEF DimIInv
<1>3. ASSUME NEW d \in Dirs, NEW next \in {"cancel tx", "down"}, cancel_work_sync(d, next),
             next = "cancel tx" => d = "rx",
             next = "down" => d = "tx" /\ ctl = "cancel tx"
      PROVE  DimIInv'
  <2>1. /\ ctl' = next /\ work[d] \in {"none", "queued"}
        /\ cancelled' = IF work[d] = "queued" THEN cancelled \cup {d} ELSE cancelled
        /\ work' = [work EXCEPT ![d] = "none"]
        /\ UNCHANGED <<profile_ix, state, half, old, dim_lock, dly_int_cfg, reg>>
    BY <1>3 DEF cancel_work_sync
  <2>2. \A e \in Dirs : IF e = d THEN work'[e] = "none" ELSE work'[e] = work[e]
    BY <1>1, <2>1 DEF TypeOK
  <2>3. TypeOK'
    BY <1>1, <2>1 DEF TypeOK
  <2>4. LockInv' /\ ItemInv' /\ ShadowInv'
    BY <1>1, <2>1, <2>2 DEF LockInv, ItemInv, ShadowInv, Holding
  <2>5. HalvesInv'
    BY <2>1 DEF HalvesInv
  <2>6. StopInv'
    BY <1>1, <1>3, <2>1, <2>2 DEF StopInv, Dirs
  <2> QED
    BY <2>3, <2>4, <2>5, <2>6 DEF DimIInv
<1>4. CASE stop_cancel_rx
  BY <1>3, <1>4 DEF stop_cancel_rx, Dirs
<1>5. CASE stop_cancel_tx
  BY <1>3, <1>5 DEF stop_cancel_tx, Dirs
<1> QED
  BY <1>2, <1>4, <1>5

\* DimIInv is invariant, for every interleaving of the polls, the two items,
\* ndo_open and ndo_stop.
THEOREM DimInvariance == Spec => []DimIInv
<1>1. Init => DimIInv
  BY DimInit
<1>2. DimIInv /\ [Next]_vars => DimIInv'
  <2> SUFFICES ASSUME DimIInv, [Next]_vars PROVE DimIInv'
    OBVIOUS
  <2>1. ASSUME NEW d \in Dirs, net_dim_measures(d) PROVE DimIInv'
    <3>1. 0 \in 0 .. 4
      OBVIOUS
    <3> QED
      BY <2>1, <3>1, NetDimKeeps
  <2>2. ASSUME NEW d \in Dirs, NEW ix \in 0 .. 4, net_dim_decides(d, ix) PROVE DimIInv'
    BY <2>2, NetDimKeeps
  <2>3. ASSUME NEW d \in Dirs, work_step(d) PROVE DimIInv'
    BY <2>3, ItemKeeps, LockKeeps, StoreKeeps, WriteKeeps DEF work_step
  <2>4. CASE open
    BY <2>4, OpenKeeps
  <2>5. CASE stop \/ stop_cancel_rx \/ stop_cancel_tx
    BY <2>5, StopKeeps
  <2>6. CASE UNCHANGED vars
    BY <2>6 DEF vars, DimIInv, TypeOK, LockInv, ItemInv, ShadowInv, HalvesInv, StopInv
  <2> QED
    BY <2>1, <2>2, <2>3, <2>4, <2>5, <2>6 DEF Next
<1> QED
  BY <1>1, <1>2, PTL DEF Spec

\* The register holds the chosen profile of every direction whose item is done,
\* whatever the two items do to the word they share.
THEOREM RegisterHoldsProfilesAlways == Spec => []RegisterHoldsProfiles
<1>1. DimIInv => RegisterHoldsProfiles
  BY DEF DimIInv, ShadowInv, HalvesInv, RegisterHoldsProfiles
<1> QED
  BY <1>1, DimInvariance, PTL
=============================================================================
