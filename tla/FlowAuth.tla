------------------------------ MODULE FlowAuth ------------------------------
(***************************************************************************)
(* What the PPE flow offload promises to Linux, with no tables, locks or   *)
(* hardware descriptors: a hardware slot forwards packets with a flow's    *)
(* rewrite template only while Linux authorises that flow, a flow being    *)
(* revoked gains no slot, and revocation is complete only when no slot     *)
(* forwards for the flow any more.                                         *)
(***************************************************************************)
CONSTANTS Flows,        \* the flow objects Linux may authorise
          Slots,        \* the hardware flow-table slots
          NoFlow        \* the value of a slot that forwards nothing

VARIABLES status,       \* Flows -> "none", "active" or "revoking"
          fwd           \* Slots -> the flow the slot forwards for, or NoFlow

avars == <<status, fwd>>

ATypeOK ==
  /\ status \in [Flows -> {"none", "active", "revoking"}]
  /\ fwd \in [Slots -> Flows \cup {NoFlow}]

AInit ==
  /\ status = [f \in Flows |-> "none"]
  /\ fwd = [s \in Slots |-> NoFlow]

Forwarded(f) == \E s \in Slots : fwd[s] = f

\* FLOW_CLS_REPLACE accepted the flow.
Authorise(f) ==
  /\ status[f] = "none"
  /\ status' = [status EXCEPT ![f] = "active"]
  /\ UNCHANGED fwd

\* The hardware slot starts forwarding for an authorised flow, which forwards
\* through no other slot.
Bind(s, f) ==
  /\ status[f] = "active"
  /\ ~ Forwarded(f)
  /\ fwd[s] = NoFlow
  /\ fwd' = [fwd EXCEPT ![s] = f]
  /\ UNCHANGED status

\* The slot stops forwarding: hardware aged it, or software cleared it.
Unbind(s) ==
  /\ fwd' = [fwd EXCEPT ![s] = NoFlow]
  /\ UNCHANGED status

\* FLOW_CLS_DESTROY has begun: the flow may lose slots but not gain one.
Revoke(f) ==
  /\ status[f] = "active"
  /\ status' = [status EXCEPT ![f] = "revoking"]
  /\ UNCHANGED fwd

\* The flow is forgotten.
Forget(f) ==
  /\ ~ Forwarded(f)
  /\ status' = [status EXCEPT ![f] = "none"]
  /\ UNCHANGED fwd

\* The engine is switched off as a whole.
Quiesce ==
  /\ fwd' = [s \in Slots |-> NoFlow]
  /\ UNCHANGED status

ANext ==
  \/ \E f \in Flows : Authorise(f) \/ Revoke(f) \/ Forget(f)
  \/ \E s \in Slots : Unbind(s) \/ (\E f \in Flows : Bind(s, f))
  \/ Quiesce

ASpec == AInit /\ [][ANext]_avars
=============================================================================
