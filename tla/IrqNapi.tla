------------------------------- MODULE IrqNapi -------------------------------
(***************************************************************************)
(* Interrupts and NAPI of the frame engine (ralink_fe.c): the interrupt    *)
(* handler, the shadow of the enable register, the RX and TX polls with    *)
(* their budgets and queue rotation, and what ndo_open and ndo_stop do     *)
(* with them.                                                              *)
(*                                                                         *)
(* A poll runs in softirq context on the only CPU: it is interrupted by    *)
(* the handler and races with the hardware, but not with the other poll or *)
(* with process context. The delay-interrupt logic of the engine signals a *)
(* completion some time after it happened, in one status bit per direction.*)
(***************************************************************************)
EXTENDS Naturals

CONSTANTS RxQs,      \* priv->rxqs
          TxQs,      \* priv->txqs
          Budget,    \* the NAPI weight
          Quantum,   \* RALINK_FE_TX_POLL_QUANTUM
          MaxWork    \* bound: completed packets waiting in one queue

ASSUME QueueAssumption == RxQs \in {1, 2} /\ TxQs \in Nat \ {0}
\* The RX poll of two queues serves both only if its budget lets it.
ASSUME BudgetAssumption ==
  /\ Budget \in Nat /\ Budget >= RxQs
  /\ Quantum \in Nat \ {0}
  /\ MaxWork \in Nat \ {0}

Dirs == {"rx", "tx"}
Queues == ({"rx"} \X (0 .. RxQs - 1)) \cup ({"tx"} \X (0 .. TxQs - 1))

VARIABLES
  irq_mask,     \* priv->irq_mask, the shadow of int_enable
  int_enable,   \* the enable register
  int_status,   \* the status register, latched also while disabled
  delayed,      \* directions with completions not yet in int_status
  work,         \* completed packets per queue
  napi,         \* per direction: "off", "idle" or "sched"
  disabling,    \* directions with napi_disable waiting
  poll,         \* the running poll: direction, pc, queue, round and counts
  tx_poll_next, \* priv->tx_poll_next
  dma,          \* the engine's DMA is on
  ctl,          \* "down", "opening", "up" or a step of ndo_stop
  line,         \* the kernel's interrupt line: "live", or "dead" once disabled
  late          \* a poll has unmasked after ndo_stop masked, and before ndo_open unmasks

vars == <<irq_mask, int_enable, int_status, delayed, work, napi, disabling,
          poll, tx_poll_next, dma, ctl, line, late>>
line_vars == <<line, late>>

NoPoll == [d |-> "none", pc |-> "idle", q |-> 0, i |-> 0, done |-> 0, did |-> FALSE]

\* The states of the running poll.
Polls == [d : Dirs \cup {"none"}, pc : {"idle", "loop", "end", "unmask"},
          q : 0 .. TxQs + RxQs, i : 0 .. TxQs, done : 0 .. Budget, did : BOOLEAN]

TypeOK ==
  /\ irq_mask \in SUBSET Dirs /\ int_enable \in SUBSET Dirs
  /\ int_status \in SUBSET Dirs /\ delayed \in SUBSET Dirs
  /\ work \in [Queues -> 0 .. MaxWork]
  /\ napi \in [Dirs -> {"off", "idle", "sched"}]
  /\ disabling \in SUBSET Dirs
  /\ poll \in Polls
  /\ tx_poll_next \in 0 .. TxQs - 1
  /\ dma \in BOOLEAN
  /\ ctl \in {"down", "opening", "up", "stop tx", "wait tx", "stop rx", "wait rx", "release"}
  /\ line \in {"live", "dead"} /\ late \in BOOLEAN

\* After probe: interrupts off and acknowledged, NAPI not enabled.
Init ==
  /\ irq_mask = {} /\ int_enable = {} /\ int_status = {} /\ delayed = {}
  /\ work = [q \in Queues |-> 0]
  /\ napi = [d \in Dirs |-> "off"]
  /\ disabling = {}
  /\ poll = NoPoll
  /\ tx_poll_next = 0
  /\ dma = FALSE
  /\ ctl = "down"
  /\ line = "live" /\ late = FALSE

-----------------------------------------------------------------------------
(* The hardware (external).                                                *)

HwDone(q) ==
  /\ dma /\ work[q] < MaxWork
  /\ work' = [work EXCEPT ![q] = @ + 1]
  /\ delayed' = delayed \cup {q[1]}
  /\ UNCHANGED <<line_vars, irq_mask, int_enable, int_status, napi, disabling, poll, tx_poll_next, dma, ctl>>

\* The delay interrupt's packet count or time is reached.
HwRaise(d) ==
  /\ d \in delayed
  /\ delayed' = delayed \ {d}
  /\ int_status' = int_status \cup {d}
  /\ UNCHANGED <<line_vars, irq_mask, int_enable, work, napi, disabling, poll, tx_poll_next, dma, ctl>>

-----------------------------------------------------------------------------
(* Masking and the handler.                                                *)

irq_enable(mask) ==
  /\ irq_mask' = irq_mask \cup mask
  /\ int_enable' = irq_mask'

\* Fault: the register gets the mask of before.
irq_disable_stale(mask) ==
  /\ irq_mask' = irq_mask \ mask
  /\ int_enable' = irq_mask

\* Fault: the register alone is changed.
irq_disable_no_shadow(mask) ==
  /\ irq_mask' = irq_mask
  /\ int_enable' = irq_mask \ mask

irq_disable(mask) ==
  /\ irq_mask' = irq_mask \ mask
  /\ int_enable' = irq_mask'

\* napi_schedule_prep refuses while the NAPI instance is off or being disabled.
napi_schedule(ds) ==
  napi' = [d \in Dirs |-> IF d \in ds /\ napi[d] = "idle" /\ d \notin disabling
                            THEN "sched" ELSE napi[d]]

\* Fault: the handler acknowledges everything it did not mask, too.
AckAll(st) == {}

\* Writing st to int_status clears these bits only.
Ack(st) == int_status \ st

Asserted == line = "live" /\ int_status \cap int_enable # {}

\* ralink_fe_irq.
irq ==
  LET st == int_status \cap irq_mask IN
  /\ Asserted
  /\ st # {}
  /\ irq_disable(st)
  /\ int_status' = Ack(st)
  /\ napi_schedule(st)
  /\ UNCHANGED <<line_vars, delayed, work, disabling, poll, tx_poll_next, dma, ctl>>

\* With nothing in st the handler returns IRQ_NONE and masks and acknowledges
\* nothing: the level stays asserted and nothing else runs on the CPU, until
\* the kernel disables a line nobody cares for.
irq_none ==
  /\ Asserted
  /\ int_status \cap irq_mask = {}
  /\ line' = "dead"
  /\ UNCHANGED <<irq_mask, int_enable, int_status, delayed, work, napi, disabling,
                 poll, tx_poll_next, dma, ctl, late>>

-----------------------------------------------------------------------------
(* The polls.                                                              *)

poll_frame == <<line_vars, irq_mask, int_enable, int_status, delayed, napi, disabling, dma, ctl>>

\* The softirq picks a scheduled instance.
poll_begin(d) ==
  /\ poll = NoPoll /\ napi[d] = "sched"
  /\ poll' = [d |-> d, pc |-> "loop", q |-> IF d = "tx" THEN tx_poll_next ELSE 0,
              i |-> 0, done |-> 0, did |-> FALSE]
  /\ UNCHANGED <<poll_frame, work, tx_poll_next>>

\* Fault: queue 1 is looked at only when queue 0 is empty.
rx_poll_next_greedy(p) ==
  IF p.did /\ p.done < Budget THEN [p EXCEPT !.q = 0, !.did = FALSE]
  ELSE IF RxQs = 2 /\ p.q = 0 /\ p.done < Budget THEN [p EXCEPT !.q = 1]
  ELSE [p EXCEPT !.pc = "end"]

\* Where the RX poll goes after looking at queue p.q.
rx_poll_next(p) ==
  IF RxQs = 2 /\ p.q = 0 /\ p.done < Budget THEN [p EXCEPT !.q = 1]
  ELSE IF p.did /\ p.done < Budget THEN [p EXCEPT !.q = 0, !.did = FALSE]
  ELSE [p EXCEPT !.pc = "end"]

\* ralink_fe_rx_poll_1q and _2q: one packet from one queue, if there is one.
rx_poll ==
  /\ poll.d = "rx" /\ poll.pc = "loop"
  /\ LET q == <<"rx", poll.q>>
         got == work[q] > 0
     IN  /\ work' = IF got THEN [work EXCEPT ![q] = @ - 1] ELSE work
         /\ poll' = rx_poll_next(IF got THEN [poll EXCEPT !.done = @ + 1, !.did = TRUE]
                                        ELSE poll)
  /\ UNCHANGED <<poll_frame, tx_poll_next>>

Least(a, b) == IF a < b THEN a ELSE b

\* A round over the TX queues is over: the next one starts one queue further.
tx_round(p) ==
  LET q == (p.q + 1) % TxQs IN
  IF p.did /\ p.done < Budget
    THEN [p EXCEPT !.q = q, !.i = 0, !.did = FALSE]
    ELSE [p EXCEPT !.q = q, !.pc = "end"]

\* ralink_fe_tx_poll: clean up to a quantum of one queue.
tx_poll ==
  /\ poll.d = "tx" /\ poll.pc = "loop"
  /\ LET q == <<"tx", (poll.q + poll.i) % TxQs>>
         n == Least(work[q], Least(Quantum, Budget - poll.done))
         p == [poll EXCEPT !.i = @ + 1, !.done = @ + n, !.did = @ \/ n > 0]
     IN  /\ work' = [work EXCEPT ![q] = @ - n]
         /\ poll' = IF p.i < TxQs /\ p.done < Budget THEN p ELSE tx_round(p)
         /\ tx_poll_next' = IF poll'.pc = "end" THEN poll'.q ELSE tx_poll_next
  /\ UNCHANGED poll_frame

\* Fault: a waiting napi_disable is not noticed.
poll_again_always ==
  /\ poll.pc = "end" /\ poll.done = Budget
  /\ poll' = NoPoll
  /\ UNCHANGED <<poll_frame, work, tx_poll_next>>

\* The budget is used up: the instance stays scheduled and is polled again,
\* unless napi_disable waits, which completes it with its interrupt masked.
poll_again ==
  /\ poll.pc = "end" /\ poll.done = Budget
  /\ napi' = [napi EXCEPT ![poll.d] = IF poll.d \in disabling THEN "idle" ELSE "sched"]
  /\ poll' = NoPoll
  /\ UNCHANGED <<line_vars, irq_mask, int_enable, int_status, delayed, work, disabling, tx_poll_next, dma, ctl>>

\* napi_complete_done ...
poll_complete ==
  /\ poll.pc = "end" /\ poll.done < Budget
  /\ napi' = [napi EXCEPT ![poll.d] = "idle"]
  /\ poll' = [poll EXCEPT !.pc = "unmask"]
  /\ UNCHANGED <<line_vars, irq_mask, int_enable, int_status, delayed, work, disabling, tx_poll_next, dma, ctl>>

\* ... and then the interrupt of this direction, also while stopping.
poll_unmask ==
  /\ poll.pc = "unmask"
  /\ irq_enable({poll.d})
  /\ poll' = NoPoll
  /\ late' = (late \/ ctl # "up")
  /\ UNCHANGED <<line, int_status, delayed, work, napi, disabling, tx_poll_next, dma, ctl>>

-----------------------------------------------------------------------------
(* ndo_open and ndo_stop, in process context.                              *)

ctl_frame == <<delayed, poll, tx_poll_next, line>>

\* ndo_open up to ralink_fe_dma_enable. The shadow is zeroed, the enable
\* register is not written.
open ==
  /\ ctl = "down" /\ ~ Asserted
  /\ irq_mask' = {}
  /\ napi' = [d \in Dirs |-> "idle"]
  /\ int_status' = {}
  /\ dma' = TRUE
  /\ ctl' = "opening"
  /\ UNCHANGED <<ctl_frame, late, int_enable, work, disabling>>

open_done ==
  /\ ctl = "opening" /\ ~ Asserted
  /\ irq_enable(Dirs)
  /\ ctl' = "up"
  /\ late' = FALSE
  /\ UNCHANGED <<ctl_frame, int_status, work, napi, disabling, dma>>

\* ra_ppe_start fails: DMA and NAPI are switched off again.
open_fails ==
  /\ ctl = "opening" /\ ~ Asserted
  /\ dma' = FALSE
  /\ napi' = [d \in Dirs |-> "off"]
  /\ work' = [q \in Queues |-> 0]
  /\ ctl' = "down"
  /\ UNCHANGED <<ctl_frame, late, irq_mask, int_enable, int_status, disabling>>

\* ndo_stop: mask, then disable TX NAPI and RX NAPI one after the other.
stop ==
  /\ ctl = "up" /\ poll = NoPoll
  /\ irq_disable(Dirs)
  /\ ctl' = "stop tx"
  /\ UNCHANGED <<ctl_frame, late, int_status, work, napi, disabling, dma>>

napi_disable(d) ==
  /\ poll = NoPoll
  /\ \/ ctl = "stop tx" /\ d = "tx" /\ ctl' = "wait tx"
     \/ ctl = "stop rx" /\ d = "rx" /\ ctl' = "wait rx"
  /\ disabling' = disabling \cup {d}
  /\ UNCHANGED <<ctl_frame, late, irq_mask, int_enable, int_status, work, napi, dma>>

\* Fault: the poll that still runs is not waited for.
napi_quiet_no_wait(d) == TRUE

\* napi_disable waits until the instance is no longer scheduled.
napi_quiet(d) == napi[d] = "idle"

napi_disabled(d) ==
  /\ poll = NoPoll
  /\ \/ ctl = "wait tx" /\ d = "tx" /\ ctl' = "stop rx"
     \/ ctl = "wait rx" /\ d = "rx" /\ ctl' = "release"
  /\ napi_quiet(d)
  /\ napi' = [napi EXCEPT ![d] = IF @ = "idle" THEN "off" ELSE @]
  /\ disabling' = disabling \ {d}
  /\ UNCHANGED <<ctl_frame, late, irq_mask, int_enable, int_status, work, dma>>

\* DMA off, rings released.
release ==
  /\ ctl = "release"
  /\ dma' = FALSE
  /\ work' = [q \in Queues |-> 0]
  /\ ctl' = "down"
  /\ UNCHANGED <<ctl_frame, late, irq_mask, int_enable, int_status, napi, disabling>>

-----------------------------------------------------------------------------
PollStep == rx_poll \/ tx_poll \/ poll_again \/ poll_complete \/ poll_unmask

StopStep == release \/ (\E d \in Dirs : napi_disable(d) \/ napi_disabled(d))

Next ==
  \/ \E q \in Queues : HwDone(q)
  \/ \E d \in Dirs : HwRaise(d) \/ poll_begin(d)
  \/ irq \/ irq_none \/ PollStep
  \/ open \/ open_done \/ open_fails \/ stop \/ StopStep

Spec == Init /\ [][Next]_vars

\* Fairness: the delay timer expires, an asserted interrupt is taken, a poll
\* that runs goes on, a scheduled instance is eventually polled whatever the
\* other one does (the softirq's list is round robin), and process context
\* gets the CPU between polls (ksoftirqd is an ordinary thread).
Fairness ==
  /\ \A d \in Dirs : WF_vars(HwRaise(d)) /\ SF_vars(poll_begin(d))
  /\ WF_vars(irq) /\ WF_vars(PollStep) /\ SF_vars(StopStep)

FairSpec == Spec /\ Fairness

-----------------------------------------------------------------------------
(* Properties.                                                             *)

\* The interrupt line is lost to an unhandled interrupt only when a poll that
\* was still running has unmasked its direction after ndo_stop masked all, and
\* the next ndo_open, which zeroes the shadow and not the register, has
\* switched DMA on. No other interleaving of handler, polls, open and stop
\* leaves the register enabling what the shadow filters out.
LineLostByLateUnmaskOnly == [][line' # line => late]_vars

\* While a direction is scheduled or polled its interrupt is masked, so that
\* the handler never finds the instance scheduled and no event is merged into
\* a poll that has already looked.
MaskedWhilePolled ==
  \A d \in Dirs : napi[d] = "sched" \/ poll.d = d => d \notin irq_mask

\* No completed packet is forgotten: if a queue has one, its poll is scheduled
\* or running, or the event is still to be signalled and its interrupt is
\* enabled, or the poll that ends will enable it. (Unless the line is lost.)
NoLostEvent ==
  ctl = "up" /\ line = "live" =>
    \A q \in Queues : work[q] > 0 =>
      \/ napi[q[1]] = "sched"
      \/ q[1] \in delayed \cup int_status /\ (q[1] \in int_enable \/ poll.d = q[1])

\* The rings are released only when no poll runs or can be scheduled again,
\* although the handler and the polls unmask and schedule while ndo_stop runs.
NoPollAfterRelease ==
  ctl \in {"release", "down"} => poll = NoPoll /\ \A d \in Dirs : napi[d] = "off"

\* A full queue is served however busy the other queues are: the alternation
\* of the RX poll, the quantum and the rotation of the TX poll, and the unmasking
\* at the end of each poll.
FullQueueServed ==
  \A q \in Queues :
    (ctl = "up" /\ work[q] = MaxWork) ~> (ctl # "up" \/ work[q] < MaxWork \/ line = "dead")

\* ndo_stop ends although packets keep arriving until DMA is switched off:
\* napi_disable does not wait for ever on a poll that uses up its budget.
StopEnds == (ctl = "stop tx") ~> (ctl = "down")
=============================================================================
