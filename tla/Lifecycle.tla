------------------------------ MODULE Lifecycle ------------------------------
(***************************************************************************)
(* The life of a frame engine (ralink_fe.c): probe with its unwinding,     *)
(* ndo_open with its error paths, ndo_stop, remove and the release of      *)
(* device-managed resources, step by step, while everything that uses the  *)
(* resources goes on: the polls, the stack's transmissions, DIM work, the  *)
(* engine's DMA, the PPE, MDIO callers (module Mdio) and flow blocks       *)
(* (module FlowBlock).                                                     *)
(*                                                                         *)
(* Interrupts and polls are reduced to one direction, rings to being there *)
(* or not: modules IrqNapi, RxRing and TxRing have the detail.             *)
(***************************************************************************)
EXTENDS Mdio, FlowBlock, Sequences

\* What a device tree gives a board: a managed reset and clock, an MDIO bus, a
\* port with a PHY, a PPE (or "none"), and whether ra_ppe_start accepts the
\* FOE table's size and place.
CONSTANT Boards

ASSUME BoardAssumption ==
  Boards \subseteq [rst : BOOLEAN, bus : BOOLEAN, port : BOOLEAN,
                    ppe : {"none", "v1", "v2"}, start_ok : BOOLEAN]

VARIABLES
  board,
  pc, pos,     \* the running operation, and its step where it is a list
  held,        \* the resources that are there
  leaving,     \* remove has been called
  dma,         \* "off", "boot" (the boot loader's), "on", or "stuck": disabled, still busy
  napi,        \* "off", "idle" or "sched"
  irq_on,      \* interrupts enabled (register and shadow)
  tx_on,       \* the stack may transmit
  dim_work,    \* a DIM work item is queued or runs
  ppe_on,      \* packets are steered through the PPE
  dsa,         \* the netdev is a conduit of the Ralink DSA tagger
  ralink_dsa   \* ppe->ralink_dsa

run_vars == <<dma, napi, irq_on, tx_on, dim_work, ppe_on>>
life_vars == <<board, pc, pos, held, leaving, run_vars, dsa, ralink_dsa>>
vars == <<life_vars, hw, mdio_vars, block_vars>>

\* What probe acquires, in this order. "quiet" is the disabling of what the
\* boot loader left running, which nothing can fail.
Acquire == <<"hw", "desc", "napi", "pp", "moder", "mdio", "phylink", "quiet",
             "irq", "ppe", "ndev">>

Wanted(r) ==
  CASE r = "mdio" -> board.bus
    [] r = "phylink" -> board.port
    [] r = "ppe" -> board.ppe # "none"
    [] OTHER -> r # "quiet"

ProbeHolds == {r \in {Acquire[i] : i \in DOMAIN Acquire} : Wanted(r)}

\* Fault: a failing PPE leaves phylink alone.
ErrLabelPpe == [desc |-> "hw", napi |-> "hw", pp |-> "napi", moder |-> "pp",
                mdio |-> "moder", phylink |-> "moder", irq |-> "phylink",
                ppe |-> "moder", ndev |-> "ppe"]

\* The label probe jumps to when acquiring fails, by what it releases first.
ErrLabel == [desc |-> "hw", napi |-> "hw", pp |-> "napi", moder |-> "pp",
             mdio |-> "moder", phylink |-> "moder", irq |-> "phylink",
             ppe |-> "phylink", ndev |-> "ppe"]

\* What the labels release from there on, and ralink_fe_remove after
\* unregister_netdev; then the managed resources, last acquired first.
Unwind == <<"ppe", "phylink", "moder", "pp", "napi", "hw">>
Remove == <<"moder", "ppe", "phylink", "pp", "napi", "hw">>
Devres == <<"irq", "mdio", "desc">>

Init ==
  /\ board \in Boards
  /\ hw = FALSE /\ MdioInit /\ BlockInit
  /\ pc = "probe" /\ pos = 1 /\ held = {} /\ leaving = FALSE
  /\ dma \in {"off", "boot"} /\ napi = "off" /\ irq_on = FALSE /\ tx_on = FALSE
  /\ dim_work = FALSE /\ ppe_on = FALSE /\ dsa = FALSE /\ ralink_dsa = FALSE

others == <<board, leaving, dsa, mdio_vars, block_vars>>

\* ralink_fe_dma_disable: the engine goes idle in time or not. Every caller goes
\* on in both cases, with a warning at most.
dma_disable == dma' \in (IF dma = "off" THEN {"off"} ELSE {"off", "stuck"})

-----------------------------------------------------------------------------
(* Probe, its unwinding, and remove.                                       *)

\* One more resource, or none where the device tree does not ask for it. A
\* PPEv2 runs from its initialisation on.
probe_step(r) ==
  /\ pc = "probe" /\ r = Acquire[pos] /\ r # "quiet"
  /\ held' = IF Wanted(r) THEN held \cup {r} ELSE held
  /\ hw' = (hw \/ r = "hw")
  /\ ppe_on' = (ppe_on \/ (r = "ppe" /\ board.ppe = "v2"))
  /\ IF r = "ndev" THEN pc' = "bound" /\ pos' = 1 ELSE pc' = pc /\ pos' = pos + 1
  /\ UNCHANGED <<others, dma, napi, irq_on, tx_on, dim_work, ralink_dsa>>

\* DMA off, interrupts acknowledged and off.
probe_quiet ==
  /\ pc = "probe" /\ Acquire[pos] = "quiet"
  /\ dma_disable
  /\ irq_on' = FALSE
  /\ pos' = pos + 1
  /\ UNCHANGED <<others, hw, pc, held, napi, tx_on, dim_work, ppe_on, ralink_dsa>>

\* The step fails, having undone its own part.
probe_fails(r) ==
  /\ pc = "probe" /\ r = Acquire[pos] /\ Wanted(r)
  /\ IF r = "hw"
       THEN pc' = "devres" /\ pos' = 1
       ELSE pc' = "unwind" /\ pos' = CHOOSE i \in DOMAIN Unwind : Unwind[i] = ErrLabel[r]
  /\ UNCHANGED <<others, hw, held, run_vars, ralink_dsa>>

\* ra_ppe_deinit stops the PPE before it frees the tables. ralink_fe_hw_cleanup
\* asserts the reset and stops the clock, if there are any: the engine is dead.
release(r) ==
  LET off == r = "hw" /\ board.rst IN
  /\ held' = held \ {r}
  /\ ppe_on' = (ppe_on /\ r # "ppe")
  /\ hw' = (hw /\ ~ off)
  /\ access' = IF off THEN [trg |-> FALSE, cmd |-> Garbage, data |-> Garbage] ELSE access
  /\ dma' = IF off THEN "off" ELSE dma
  /\ irq_on' = (irq_on /\ ~ off)
  /\ UNCHANGED <<board, leaving, dsa, mdio_lock, mdio_pc, call, performed, ret, block_vars,
                 napi, tx_on, dim_work, ralink_dsa>>

release_step(op, list) ==
  /\ pc = op
  /\ release(list[pos])
  /\ IF pos < Len(list) THEN pos' = pos + 1 /\ pc' = pc ELSE pos' = 1 /\ pc' = "devres"

unwind == release_step("unwind", Unwind)

remove == release_step("remove", Remove)

\* The driver core calls ralink_fe_remove, having unbound the switch driver.
remove_begin ==
  /\ pc \in {"bound", "up"} /\ ~ leaving /\ ~ dsa
  /\ leaving' = TRUE
  /\ UNCHANGED <<board, pc, pos, held, run_vars, dsa, ralink_dsa, hw, mdio_vars, block_vars>>

\* unregister_netdev has stopped the interface and ended all bindings.
unregister_netdev ==
  /\ pc = "bound" /\ leaving /\ \A b \in Blocks : bound[b] = {}
  /\ held' = held \ {"ndev"}
  /\ pc' = "remove" /\ pos' = 1
  /\ UNCHANGED <<others, hw, run_vars, ralink_dsa>>

\* The managed resources, after probe failed or remove returned. Unregistering
\* the bus waits for its drivers' calls.
devres ==
  /\ pc = "devres"
  /\ Devres[pos] = "mdio" => \A u \in Users : mdio_pc[u] = "idle"
  /\ held' = held \ {Devres[pos]}
  /\ IF pos < Len(Devres) THEN pos' = pos + 1 /\ pc' = pc ELSE pos' = 1 /\ pc' = "unbound"
  /\ UNCHANGED <<others, hw, run_vars, ralink_dsa>>

\* The driver is bound again.
rebind ==
  /\ pc = "unbound"
  /\ pc' = "probe" /\ leaving' = FALSE
  /\ irq_on' = FALSE /\ ralink_dsa' = FALSE
  /\ UNCHANGED <<board, pos, held, dma, napi, tx_on, dim_work, ppe_on, dsa, hw, mdio_vars, block_vars>>

-----------------------------------------------------------------------------
(* ndo_open.                                                               *)

open_frame == <<others, hw, pos>>

\* ralink_fe_rx_ring_refill for every queue; when it fails all is released.
open_rings ==
  /\ pc = "bound" /\ ~ leaving
  /\ \/ pc' = "open meta" /\ held' = held \cup {"rings"}
     \/ UNCHANGED <<pc, held>>
  /\ UNCHANGED <<open_frame, run_vars, ralink_dsa>>

\* Metadata for a conduit of the Ralink tagger.
open_meta ==
  /\ pc = "open meta"
  /\ \/ dsa /\ pc' = "open dma" /\ held' = held \cup {"meta"}
            /\ ralink_dsa' = (board.ppe # "none")
     \/ dsa /\ pc' = "bound" /\ held' = held \ {"rings"} /\ UNCHANGED ralink_dsa
     \/ ~ dsa /\ pc' = "open dma" /\ UNCHANGED <<held, ralink_dsa>>
  /\ UNCHANGED <<open_frame, run_vars>>

\* Rings programmed, the interrupt shadow zeroed, NAPI and DMA on.
open_dma ==
  /\ pc = "open dma"
  /\ napi' = "idle" /\ irq_on' = FALSE /\ dma' = "on"
  /\ pc' = "open ppe"
  /\ UNCHANGED <<open_frame, held, tx_on, dim_work, ppe_on, ralink_dsa>>

\* ra_ppe_start does something for a PPEv1 only.
open_ppe ==
  /\ pc = "open ppe"
  /\ IF board.ppe = "v1" /\ ~ board.start_ok
       THEN pc' = "err meta" /\ UNCHANGED ppe_on
       ELSE pc' = "open irq" /\ ppe_on' = (board.ppe # "none")
  /\ UNCHANGED <<open_frame, held, dma, napi, irq_on, tx_on, dim_work, ralink_dsa>>

open_irq ==
  /\ pc = "open irq"
  /\ irq_on' = TRUE /\ tx_on' = TRUE
  /\ pc' = "up"
  /\ UNCHANGED <<open_frame, held, dma, napi, dim_work, ppe_on, ralink_dsa>>

\* err_dma: metadata is freed before NAPI is disabled, ralink_dsa is kept.
open_err_meta ==
  /\ pc = "err meta"
  /\ held' = held \ {"meta"}
  /\ pc' = "err dma"
  /\ UNCHANGED <<open_frame, run_vars, ralink_dsa>>

open_err_dma ==
  /\ pc = "err dma"
  /\ dma_disable
  /\ pc' = "err napi"
  /\ UNCHANGED <<open_frame, held, napi, irq_on, tx_on, dim_work, ppe_on, ralink_dsa>>

open_err_napi ==
  /\ pc = "err napi" /\ napi = "idle"
  /\ napi' = "off"
  /\ held' = held \ {"rings"}
  /\ pc' = "bound"
  /\ UNCHANGED <<open_frame, dma, irq_on, tx_on, dim_work, ppe_on, ralink_dsa>>

-----------------------------------------------------------------------------
(* ndo_stop.                                                               *)

\* netif_tx_disable waits for running transmissions.
stop ==
  /\ pc = "up"
  /\ tx_on' = FALSE
  /\ pc' = "stop irq"
  /\ UNCHANGED <<open_frame, held, dma, napi, irq_on, dim_work, ppe_on, ralink_dsa>>

stop_irq ==
  /\ pc = "stop irq"
  /\ irq_on' = FALSE
  /\ pc' = "stop napi"
  /\ UNCHANGED <<open_frame, held, dma, napi, tx_on, dim_work, ppe_on, ralink_dsa>>

\* napi_disable waits for the poll.
stop_napi ==
  /\ pc = "stop napi" /\ napi = "idle"
  /\ napi' = "off"
  /\ pc' = "stop work"
  /\ UNCHANGED <<open_frame, held, dma, irq_on, tx_on, dim_work, ppe_on, ralink_dsa>>

\* Fault: queued work is left alone.
cancel_work_missing == UNCHANGED dim_work

\* cancel_work_sync of both items, and ralink_fe_dma_disable.
cancel_work_sync == dim_work' = FALSE

stop_work ==
  /\ pc = "stop work"
  /\ cancel_work_sync
  /\ pc' = "stop dma"
  /\ UNCHANGED <<open_frame, held, dma, napi, irq_on, tx_on, ppe_on, ralink_dsa>>

stop_dma ==
  /\ pc = "stop dma"
  /\ dma_disable
  /\ pc' = "stop ppe"
  /\ UNCHANGED <<open_frame, held, napi, irq_on, tx_on, dim_work, ppe_on, ralink_dsa>>

\* A PPEv2 has no stop.
stop_ppe ==
  /\ pc = "stop ppe"
  /\ ppe_on' = (board.ppe = "v2")
  /\ ralink_dsa' = FALSE
  /\ pc' = "stop rings"
  /\ UNCHANGED <<open_frame, held, dma, napi, irq_on, tx_on, dim_work>>

stop_rings ==
  /\ pc = "stop rings"
  /\ held' = held \ {"rings", "meta"}
  /\ pc' = "bound"
  /\ UNCHANGED <<open_frame, run_vars, ralink_dsa>>

-----------------------------------------------------------------------------
(* Everything else that runs.                                              *)

life_frame == <<board, pc, pos, held, leaving, ralink_dsa, hw, mdio_vars>>

\* The handler: masks, and schedules the poll unless NAPI is off.
irq ==
  /\ "irq" \in held /\ hw /\ irq_on
  /\ irq_on' = FALSE
  /\ napi' = IF napi = "idle" THEN "sched" ELSE napi
  /\ UNCHANGED <<life_frame, block_vars, dma, tx_on, dim_work, ppe_on, dsa>>

\* The poll ends: net_dim may queue work, the interrupt is unmasked.
poll_end ==
  /\ napi = "sched"
  /\ napi' = "idle"
  /\ irq_on' = TRUE
  /\ dim_work' \in {dim_work, TRUE}
  /\ UNCHANGED <<life_frame, block_vars, dma, tx_on, ppe_on, dsa>>

dim_run ==
  /\ dim_work
  /\ dim_work' = FALSE
  /\ UNCHANGED <<life_frame, block_vars, dma, napi, irq_on, tx_on, ppe_on, dsa>>

\* The engine ends its last burst after the timeout (external).
dma_drains ==
  /\ dma = "stuck"
  /\ dma' = "off"
  /\ UNCHANGED <<life_frame, block_vars, napi, irq_on, tx_on, dim_work, ppe_on, dsa>>

\* The switch driver comes or goes (external), also while the conduit is up.
dsa_changes ==
  /\ "ndev" \in held /\ ~ leaving
  /\ dsa' = ~ dsa
  /\ UNCHANGED <<life_frame, block_vars, run_vars>>

\* ralink_fe_setup_tc, on a registered netdev with a PPE.
setup_tc(b, p) ==
  /\ "ndev" \in held /\ board.ppe # "none"
  /\ (~ leaving /\ block_bind(b, p)) \/ block_unbind(b, p)
  /\ UNCHANGED <<life_frame, run_vars, dsa>>

\* Drivers on the bus, and phylink, use it as long as it is registered.
mdio(u) ==
  /\ "mdio" \in held
  /\ mdio_enter(u) \/ mdio_step(u)
  /\ UNCHANGED <<life_vars, block_vars>>

mdio_hw == MdioPerform /\ UNCHANGED <<life_vars, block_vars>>

-----------------------------------------------------------------------------
Next ==
  \/ \E i \in DOMAIN Acquire : probe_step(Acquire[i]) \/ probe_fails(Acquire[i])
  \/ probe_quiet \/ unwind \/ remove_begin \/ unregister_netdev \/ remove \/ devres \/ rebind
  \/ open_rings \/ open_meta \/ open_dma \/ open_ppe \/ open_irq
  \/ open_err_meta \/ open_err_dma \/ open_err_napi
  \/ stop \/ stop_irq \/ stop_napi \/ stop_work \/ stop_dma \/ stop_ppe \/ stop_rings
  \/ irq \/ poll_end \/ dim_run \/ dma_drains \/ dsa_changes \/ mdio_hw
  \/ \E b \in Blocks, p \in Ports : setup_tc(b, p)
  \/ \E u \in Users : mdio(u)

Spec == Init /\ [][Next]_vars

-----------------------------------------------------------------------------
(* Properties.                                                             *)

\* Where an operation of the driver core or the stack is. In RunPcs ndo_open
\* has its rings.
RunPcs == {"open meta", "open dma", "open ppe", "open irq", "up",
           "err meta", "err dma", "err napi",
           "stop irq", "stop napi", "stop work", "stop dma", "stop ppe", "stop rings"}
Pcs == {"probe", "unwind", "remove", "devres", "unbound", "bound"} \cup RunPcs

LifeTypeOK ==
  /\ board \in Boards /\ pc \in Pcs /\ pos \in DOMAIN Acquire
  /\ held \in SUBSET (ProbeHolds \cup {"rings", "meta"})
  /\ leaving \in BOOLEAN /\ irq_on \in BOOLEAN /\ tx_on \in BOOLEAN /\ dim_work \in BOOLEAN
  /\ ppe_on \in BOOLEAN /\ dsa \in BOOLEAN /\ ralink_dsa \in BOOLEAN
  /\ dma \in {"off", "boot", "on", "stuck"} /\ napi \in {"off", "idle", "sched"}

\* One type invariant for the composition.
TypeOK == MdioTypeOK /\ BlockTypeOK /\ LifeTypeOK

When(running, resources) == IF running THEN resources ELSE {}

\* What is in use by something that runs or that hardware or the kernel may
\* run at any moment. A poll attaches metadata to frames if ndo_open found DSA.
\* An MDIO call uses the engine's clock, but not while managed resources are
\* released: the bus is one of them and outlives ralink_fe_hw_cleanup.
InUse ==
  LET ppe == When(board.ppe # "none", {"ppe"})
      calls == \E u \in Users : mdio_pc[u] # "idle"
  IN UNION {When(napi = "sched", {"hw", "desc", "napi", "pp", "irq", "ndev", "rings"} \cup ppe),
            When(napi = "sched" /\ ralink_dsa, {"meta"}),
            When(napi # "off", {"napi", "ndev"}),
            When(tx_on, {"hw", "desc", "ndev", "rings"}),
            When(dim_work, {"hw", "moder"}),
            When(dma = "on", {"hw", "desc", "pp", "rings"}),
            When(ppe_on \/ block_cb # {}, {"hw", "ppe"}),
            When("phylink" \in held, {"hw"} \cup When(board.bus, {"mdio"})),
            When(calls, {"mdio"} \cup When(pc # "devres", {"hw"}))}

\* Nothing that runs lacks a resource, and no resource is released while
\* something that may run uses it: in probe's unwinding from every label, the
\* error paths of ndo_open (which frees metadata with NAPI still enabled),
\* ndo_stop and remove, against every interleaving of polls, work, the engine,
\* MDIO calls and flow blocks. (An engine that did not stop in time is not
\* waited for: "stuck" DMA is left out.)
UsedIsHeld == InUse \subseteq held

\* Between operations exactly what should be there is there. After a failed
\* probe or a remove: nothing, and an engine that can be reset is (its DMA is off,
\* or as the boot loader left it).
\* After a failed open or a stop: what probe left. When the interface is up,
\* the PPE believes in DSA exactly if there is metadata for it.
IdleIsClean ==
  /\ pc = "unbound" =>
       /\ held = {} /\ napi = "off" /\ ~ tx_on /\ ~ dim_work /\ ~ ppe_on /\ block_cb = {}
       /\ board.rst => dma \in {"off", "boot"} /\ ~ hw
  /\ pc = "bound" =>
       /\ held = ProbeHolds /\ napi = "off" /\ ~ tx_on /\ ~ dim_work
       /\ dma \in {"off", "stuck"} /\ (ppe_on <=> board.ppe = "v2")
       /\ ralink_dsa => ~ board.start_ok
  /\ pc = "up" => (ralink_dsa <=> "meta" \in held /\ board.ppe # "none")
=============================================================================
