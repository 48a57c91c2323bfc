------------------------------ MODULE FlowBlock ------------------------------
(***************************************************************************)
(* Binding of flow blocks (ra_ppe_setup_tc_block in ra_ppe_offload.c). The *)
(* frame engine's netdev and the DSA ports behind it ask for the offload   *)
(* of a block through the same netdev, the frame engine's: they share one  *)
(* callback per block, which is counted.                                   *)
(***************************************************************************)
EXTENDS Naturals, FiniteSets

CONSTANTS Blocks,  \* blocks and flow tables
          Ports    \* netdevs that can be bound to a block

ASSUME PortsAssumption == IsFiniteSet(Ports)

VARIABLES
  block_cb,  \* blocks with a callback into the PPE
  refcnt,    \* the callback's reference count
  bound      \* per block: the ports whose binding was accepted

block_vars == <<block_cb, refcnt, bound>>

BlockTypeOK ==
  /\ block_cb \in SUBSET Blocks
  /\ refcnt \in [Blocks -> 0 .. Cardinality(Ports)]
  /\ bound \in [Blocks -> SUBSET Ports]

BlockInit ==
  /\ block_cb = {}
  /\ refcnt = [b \in Blocks |-> 0]
  /\ bound = [b \in Blocks |-> {}]

-----------------------------------------------------------------------------
\* Fault: a callback that is found is not counted again.
bind_found_uncounted(b) == UNCHANGED <<block_cb, refcnt>>

\* flow_block_cb_lookup finds the callback of another port.
bind_found(b) ==
  /\ refcnt' = [refcnt EXCEPT ![b] = @ + 1]
  /\ UNCHANGED block_cb

\* FLOW_BLOCK_BIND. Without a callback one is allocated, counted and added;
\* if that fails the port stays unbound.
block_bind(b, p) ==
  /\ p \notin bound[b]
  /\ bound' = [bound EXCEPT ![b] = @ \cup {p}]
  /\ IF b \in block_cb
       THEN bind_found(b)
       ELSE /\ block_cb' = block_cb \cup {b}
            /\ refcnt' = [refcnt EXCEPT ![b] = 1]

\* FLOW_BLOCK_UNBIND. The last reference takes the callback away.
block_unbind(b, p) ==
  /\ p \in bound[b] /\ b \in block_cb
  /\ bound' = [bound EXCEPT ![b] = @ \ {p}]
  /\ refcnt' = [refcnt EXCEPT ![b] = @ - 1]
  /\ block_cb' = IF refcnt[b] = 1 THEN block_cb \ {b} ELSE block_cb

-----------------------------------------------------------------------------
\* A block's rules reach the PPE exactly as long as one port is bound to it,
\* in whatever order ports of one block bind and unbind.
CallbackWhileBound == \A b \in Blocks : b \in block_cb <=> bound[b] # {}
=============================================================================
