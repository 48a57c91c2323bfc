---------------------------- MODULE IrqNapiProofs ----------------------------
(***************************************************************************)
(* Interrupts and NAPI, for every number of TX queues, budget and quantum: *)
(* no event is lost, a direction is masked while it is polled, no poll     *)
(* runs after the rings were released, and the line is lost only after a   *)
(* late unmask.                                                            *)
(***************************************************************************)
EXTENDS IrqNapi, TLAPS

-----------------------------------------------------------------------------
(* The inductive invariant: masks, NAPI states and control.                *)

\* The register enables what the shadow does, except that an ndo_open that
\* has zeroed the shadow leaves what a poll has unmasked late.
EnableInv ==
  /\ irq_mask \subseteq int_enable
  /\ int_enable # irq_mask => irq_mask = {} /\ ctl \in {"opening", "down"}
  /\ ctl # "up" /\ int_enable # {} => late

\* The instance of the running poll is scheduled until the poll completes it.
PollInv ==
  \/ poll = NoPoll
  \/ /\ poll.d \in Dirs /\ poll.pc \in {"loop", "end", "unmask"}
     /\ napi[poll.d] = IF poll.pc = "unmask" THEN "idle" ELSE "sched"

\* The directions that ndo_stop has disabled.
Off(d) == ctl \in {"down", "release"} \/ (d = "tx" /\ ctl \in {"stop rx", "wait rx"})

\* The directions that napi_disable waits for.
Awaited == IF ctl = "wait tx" THEN {"tx"} ELSE IF ctl = "wait rx" THEN {"rx"} ELSE {}

\* NAPI is off exactly where ndo_stop has disabled it; nothing is scheduled
\* before ndo_open unmasks.
NapiInv ==
  /\ \A d \in Dirs : napi[d] = "off" <=> Off(d)
  /\ disabling = Awaited
  /\ ctl \in {"down", "opening", "release"} => poll = NoPoll
  /\ ctl = "opening" => irq_mask = {} /\ \A d \in Dirs : napi[d] = "idle"

ControlInv == TypeOK /\ EnableInv /\ MaskedWhilePolled /\ PollInv /\ NapiInv

-----------------------------------------------------------------------------
(* The inductive invariant: packets and events.                            *)

Pending(d) == d \in delayed \cup int_status

Drained(d) == \A q \in Queues : q[1] = d => work[q] = 0

\* The rings are empty while the interface is down.
DownInv == ctl = "down" => ~ dma /\ \A q \in Queues : work[q] = 0

\* A poll that goes on has budget left; the RX poll starts its rounds at
\* queue 0, the TX poll counts the queues of a round.
LoopInv ==
  poll.pc = "loop" =>
    /\ poll.done < Budget
    /\ poll.d = "rx" => poll.q \in 0 .. RxQs - 1 /\ (poll.q = 0 => ~ poll.did)
    /\ poll.d = "tx" => poll.q \in 0 .. TxQs - 1 /\ poll.i \in 0 .. TxQs - 1

\* The queues of this round that were looked at.
RxLooked == poll.q = 1 /\ ~ poll.did => work[<<"rx", 0>>] = 0
TxLooked == ~ poll.did => \A j \in 0 .. poll.i - 1 : work[<<"tx", (poll.q + j) % TxQs>>] = 0

\* What a round has looked at and found empty is empty, or a new event is
\* pending: with budget left, a poll ends only when all its queues are.
LookInv ==
  poll.d \in Dirs /\ ~ Pending(poll.d) =>
    /\ poll.pc = "loop" /\ poll.d = "rx" => RxLooked
    /\ poll.pc = "loop" /\ poll.d = "tx" => TxLooked
    /\ poll.pc = "end" /\ poll.done < Budget => Drained(poll.d)

\* A completed packet is known to a scheduled poll or to a pending event.
EventInv ==
  ctl \in {"opening", "up"} =>
    \A q \in Queues : work[q] > 0 => napi[q[1]] = "sched" \/ Pending(q[1])

\* A direction that is not polled can interrupt.
EnabledInv ==
  ctl = "up" => \A d \in Dirs : napi[d] = "sched" \/ poll.d = d \/ d \in int_enable

WorkInv == DownInv /\ LoopInv /\ LookInv /\ EventInv /\ EnabledInv

IrqIInv == ControlInv /\ WorkInv

-----------------------------------------------------------------------------
(* What the steps of the poll do to its record.                            *)

LEMMA PollFields ==
  ASSUME NEW p \in Polls
  PROVE  /\ p.d \in Dirs \cup {"none"} /\ p.pc \in {"idle", "loop", "end", "unmask"}
         /\ p.q \in 0 .. TxQs + RxQs /\ p.i \in 0 .. TxQs /\ p.done \in 0 .. Budget
         /\ p.did \in BOOLEAN
BY DEF Polls

LEMMA PollUpdates ==
  ASSUME NEW p \in Polls
  PROVE  /\ \A pc \in {"idle", "loop", "end", "unmask"} : [p EXCEPT !.pc = pc] \in Polls
         /\ \A q \in 0 .. TxQs + RxQs : [p EXCEPT !.q = q] \in Polls
         /\ \A q \in 0 .. TxQs + RxQs : [p EXCEPT !.q = q, !.did = FALSE] \in Polls
         /\ \A n \in 0 .. Budget : [p EXCEPT !.done = n, !.did = TRUE] \in Polls
         /\ \A i \in 0 .. TxQs, n \in 0 .. Budget, b \in BOOLEAN :
              [p EXCEPT !.i = i, !.done = n, !.did = b] \in Polls
         /\ \A q \in 0 .. TxQs + RxQs, i \in 0 .. TxQs :
              [p EXCEPT !.q = q, !.i = i, !.did = FALSE] \in Polls
         /\ \A q \in 0 .. TxQs + RxQs : [p EXCEPT !.q = q, !.pc = "end"] \in Polls
BY DEF Polls

LEMMA NoPollFacts ==
  /\ NoPoll \in Polls /\ NoPoll.d = "none" /\ NoPoll.pc = "idle"
  /\ "none" \notin Dirs
<1>1. 0 \in 0 .. TxQs + RxQs /\ 0 \in 0 .. TxQs /\ 0 \in 0 .. Budget
  BY QueueAssumption, BudgetAssumption
<1> QED
  BY <1>1 DEF NoPoll, Polls, Dirs

\* A queue is a direction and a number.
LEMMA QueueForm ==
  /\ \A q \in Queues : q[1] \in Dirs
  /\ \A q \in Queues : q[1] = "rx" => \E k \in 0 .. RxQs - 1 : q = <<"rx", k>>
  /\ \A q \in Queues : q[1] = "tx" => \E k \in 0 .. TxQs - 1 : q = <<"tx", k>>
  /\ \A k \in 0 .. RxQs - 1 : <<"rx", k>> \in Queues
  /\ \A k \in 0 .. TxQs - 1 : <<"tx", k>> \in Queues
BY DEF Queues, Dirs

\* A step of a polling loop: it takes packets and goes on or ends.
LoopStep ==
  /\ poll.d \in Dirs /\ poll.pc = "loop"
  /\ poll' \in Polls /\ poll'.d = poll.d /\ poll'.pc \in {"loop", "end"}
  /\ work' \in [Queues -> 0 .. MaxWork]
  /\ \A q \in Queues : work'[q] <= work[q]
  /\ tx_poll_next' \in 0 .. TxQs - 1
  /\ UNCHANGED poll_frame

LEMMA LoopStepControl ==
  ASSUME ControlInv, LoopStep
  PROVE  ControlInv'
<1>1. /\ poll.d \in Dirs /\ poll.pc = "loop" /\ poll' \in Polls
      /\ poll'.d = poll.d /\ poll'.pc \in {"loop", "end"}
      /\ work' \in [Queues -> 0 .. MaxWork] /\ tx_poll_next' \in 0 .. TxQs - 1
      /\ UNCHANGED <<irq_mask, int_enable, int_status, delayed, napi, disabling, dma, ctl, line, late>>
  BY DEF LoopStep, poll_frame, line_vars
<1>2. TypeOK'
  BY <1>1 DEF ControlInv, TypeOK
<1>3. EnableInv' /\ MaskedWhilePolled'
  BY <1>1 DEF ControlInv, EnableInv, MaskedWhilePolled
<1>4. poll # NoPoll /\ napi[poll.d] = "sched"
  BY <1>1, NoPollFacts DEF ControlInv, PollInv
<1>5. PollInv'
  BY <1>1, <1>4 DEF PollInv
<1>6. NapiInv'
  BY <1>1, <1>4 DEF ControlInv, NapiInv, Off, Awaited
<1> QED
  BY <1>2, <1>3, <1>5, <1>6 DEF ControlInv

LEMMA LoopStepWork ==
  ASSUME ControlInv, WorkInv, LoopStep
  PROVE  DownInv' /\ EventInv' /\ EnabledInv'
<1>1. /\ poll.d \in Dirs /\ poll'.d = poll.d
      /\ UNCHANGED <<irq_mask, int_enable, int_status, delayed, napi, disabling, dma, ctl, line, late>>
      /\ \A q \in Queues : work'[q] <= work[q] /\ work'[q] \in Nat /\ work[q] \in Nat
  <2>1. work \in [Queues -> 0 .. MaxWork]
    BY DEF ControlInv, TypeOK
  <2>2. /\ poll.d \in Dirs /\ poll'.d = poll.d
        /\ UNCHANGED <<irq_mask, int_enable, int_status, delayed, napi, disabling, dma, ctl, line, late>>
        /\ work' \in [Queues -> 0 .. MaxWork]
        /\ \A q \in Queues : work'[q] <= work[q]
    BY DEF LoopStep, poll_frame, line_vars
  <2>3. 0 .. MaxWork \subseteq Nat
    BY BudgetAssumption
  <2> QED
    BY <2>1, <2>2, <2>3
<1>2. ctl # "down"
  BY <1>1, NoPollFacts DEF ControlInv, NapiInv
<1>3. DownInv'
  BY <1>1, <1>2 DEF DownInv
<1>4. EventInv'
  <2>1. \A q \in Queues : work'[q] > 0 => work[q] > 0
    BY <1>1
  <2> QED
    BY <1>1, <2>1 DEF WorkInv, EventInv, Pending
<1>5. EnabledInv'
  BY <1>1 DEF WorkInv, EnabledInv
<1> QED
  BY <1>3, <1>4, <1>5

-----------------------------------------------------------------------------
(* The RX poll.                                                            *)

\* One look of the RX poll at a queue.
LEMMA RxPollStep ==
  ASSUME ControlInv, WorkInv, rx_poll
  PROVE  LoopStep /\ LoopInv' /\ LookInv'
<1> DEFINE q == <<"rx", poll.q>>
           got == work[q] > 0
           p == IF got THEN [poll EXCEPT !.done = @ + 1, !.did = TRUE] ELSE poll
<1>1. /\ poll.d = "rx" /\ poll.pc = "loop" /\ poll \in Polls
      /\ work' = IF got THEN [work EXCEPT ![q] = @ - 1] ELSE work
      /\ poll' = rx_poll_next(p)
      /\ UNCHANGED <<poll_frame, tx_poll_next>>
  BY DEF rx_poll, ControlInv, TypeOK
<1>2. /\ poll.q \in 0 .. RxQs - 1 /\ (poll.q = 0 => ~ poll.did)
      /\ poll.done \in 0 .. Budget /\ poll.done < Budget /\ poll.did \in BOOLEAN
  BY <1>1, PollFields DEF WorkInv, LoopInv
<1>3. q \in Queues /\ "rx" \in Dirs
  BY <1>2, QueueForm DEF Dirs
<1>4. /\ work \in [Queues -> 0 .. MaxWork]
      /\ work[q] \in 0 .. MaxWork
  BY <1>3 DEF ControlInv, TypeOK
<1>5. /\ work' \in [Queues -> 0 .. MaxWork]
      /\ \A r \in Queues : work'[r] <= work[r] /\ work[r] \in Nat
      /\ \A r \in Queues : r # q => work'[r] = work[r]
      /\ ~ got => work'[q] = 0
  <2>1. CASE got
    <3>1. work[q] - 1 \in 0 .. MaxWork
      BY <2>1, <1>4, BudgetAssumption
    <3>2. work' = [work EXCEPT ![q] = work[q] - 1]
      BY <1>1, <2>1
    <3>3. \A r \in Queues : work'[r] = IF r = q THEN work[q] - 1 ELSE work[r]
      BY <3>2, <1>4
    <3>4. \A r \in Queues : work[r] \in Nat
      BY <1>4, BudgetAssumption
    <3>5. work' \in [Queues -> 0 .. MaxWork]
      BY <3>1, <3>2, <1>4
    <3> QED
      BY <2>1, <3>1, <3>3, <3>4, <3>5
  <2>2. CASE ~ got
    BY <2>2, <1>1, <1>3, <1>4, BudgetAssumption
  <2> QED
    BY <2>1, <2>2
<1>6. /\ p \in Polls /\ p.d = "rx" /\ p.pc = "loop" /\ p.q = poll.q
      /\ p.done \in 0 .. Budget /\ p.did \in BOOLEAN
      /\ ~ p.did => ~ got /\ ~ poll.did /\ p.done < Budget
  <2>1. CASE got
    <3>1. poll.done + 1 \in 0 .. Budget
      BY <1>2, BudgetAssumption
    <3>2. p = [poll EXCEPT !.done = poll.done + 1, !.did = TRUE]
      BY <2>1
    <3> HIDE DEF p
    <3>3. p \in Polls
      BY <1>1, <3>1, <3>2, PollUpdates
    <3>4. p.d = poll.d /\ p.pc = poll.pc /\ p.q = poll.q /\ p.did = TRUE
      BY <1>1, <3>2 DEF Polls
    <3> QED
      BY <1>1, <3>3, <3>4, PollFields
  <2>2. CASE ~ got
    <3>1. p = poll
      BY <2>2
    <3> HIDE DEF p, got
    <3> QED
      BY <1>1, <1>2, <2>2, <3>1
  <2> QED
    BY <2>1, <2>2
<1> HIDE DEF p
\* Where the poll goes.
<1>7. /\ poll' \in Polls /\ poll'.d = "rx" /\ poll'.pc \in {"loop", "end"}
      /\ poll'.pc = "loop" =>
           /\ p.done < Budget /\ poll'.done = p.done
           /\ poll'.q \in 0 .. RxQs - 1 /\ (poll'.q = 0 => ~ poll'.did)
           /\ poll'.q = 1 => RxQs = 2 /\ poll.q = 0 /\ poll'.did = p.did
      /\ poll'.pc = "end" =>
           /\ poll'.done = p.done
           /\ p.done < Budget => ~ p.did /\ ~ (RxQs = 2 /\ poll.q = 0)
  <2>1. 0 \in 0 .. TxQs + RxQs /\ (RxQs = 2 => 1 \in 0 .. TxQs + RxQs)
    BY QueueAssumption
  <2>2. CASE RxQs = 2 /\ p.q = 0 /\ p.done < Budget
    <3>1. poll' = [p EXCEPT !.q = 1]
      BY <1>1, <2>2 DEF rx_poll_next
    <3>2. poll' \in Polls
      BY <1>6, <2>1, <2>2, <3>1, PollUpdates
    <3>3. /\ poll'.d = p.d /\ poll'.pc = p.pc /\ poll'.done = p.done /\ poll'.did = p.did
          /\ poll'.q = 1
      BY <1>6, <3>1 DEF Polls
    <3>4. 1 \in 0 .. RxQs - 1
      BY <2>2
    <3> QED
      BY <1>6, <2>2, <3>2, <3>3, <3>4
  <2>3. CASE ~ (RxQs = 2 /\ p.q = 0 /\ p.done < Budget) /\ p.did /\ p.done < Budget
    <3>1. poll' = [p EXCEPT !.q = 0, !.did = FALSE]
      BY <1>1, <2>3 DEF rx_poll_next
    <3>2. poll' \in Polls
      BY <1>6, <2>1, <3>1, PollUpdates
    <3>3. /\ poll'.d = p.d /\ poll'.pc = p.pc /\ poll'.done = p.done /\ poll'.did = FALSE
          /\ poll'.q = 0
      BY <1>6, <3>1 DEF Polls
    <3>4. 0 \in 0 .. RxQs - 1
      BY QueueAssumption
    <3> QED
      BY <1>6, <2>3, <3>2, <3>3, <3>4
  <2>4. CASE ~ (RxQs = 2 /\ p.q = 0 /\ p.done < Budget) /\ ~ (p.did /\ p.done < Budget)
    <3>1. poll' = [p EXCEPT !.pc = "end"]
      BY <1>1, <2>4 DEF rx_poll_next
    <3>2. poll' \in Polls
      BY <1>6, <3>1, PollUpdates, QueueAssumption, BudgetAssumption
    <3>3. poll'.d = p.d /\ poll'.pc = "end" /\ poll'.done = p.done
      BY <1>6, <3>1 DEF Polls
    <3> QED
      BY <1>6, <2>4, <3>2, <3>3
  <2> QED
    BY <2>2, <2>3, <2>4
<1>8. LoopStep
  <2>1. tx_poll_next' \in 0 .. TxQs - 1
    BY <1>1 DEF ControlInv, TypeOK
  <2> QED
    BY <1>1, <1>3, <1>5, <1>7, <2>1 DEF LoopStep
<1>9. LoopInv'
  BY <1>7 DEF LoopInv
<1>10. LookInv'
  <2>1. SUFFICES ASSUME ~ Pending("rx")'
                 PROVE  /\ poll'.pc = "loop" => RxLooked'
                        /\ poll'.pc = "end" /\ poll'.done < Budget => Drained("rx")'
    BY <1>3, <1>7 DEF LookInv, Pending
  <2>2. ~ Pending("rx")
    BY <1>1, <2>1 DEF Pending, poll_frame
  <2>3. RxLooked
    BY <1>1, <1>3, <2>2 DEF WorkInv, LookInv
  <2>4. ASSUME poll'.pc = "loop" PROVE RxLooked'
    <3> SUFFICES ASSUME poll'.q = 1, ~ poll'.did PROVE work'[<<"rx", 0>>] = 0
      BY DEF RxLooked
    <3>1. poll.q = 0 /\ ~ got
      BY <1>6, <1>7, <2>4
    <3> QED
      BY <3>1, <1>5
  <2>5. ASSUME poll'.pc = "end", poll'.done < Budget PROVE Drained("rx")'
    <3>1. ~ got /\ ~ poll.did /\ ~ (RxQs = 2 /\ poll.q = 0)
      BY <1>6, <1>7, <2>5
    <3>2. \A k \in 0 .. RxQs - 1 : work'[<<"rx", k>>] = 0
      <4>1. CASE RxQs = 1
        <5>1. poll.q = 0 /\ \A k \in 0 .. RxQs - 1 : k = 0
          BY <4>1, <1>2
        <5> QED
          BY <5>1, <3>1, <1>5
      <4>2. CASE RxQs = 2
        <5>1. poll.q = 1 /\ \A k \in 0 .. RxQs - 1 : k = 0 \/ k = 1
          BY <4>2, <1>2, <3>1
        <5>2. work[<<"rx", 0>>] = 0
          BY <5>1, <3>1, <2>3 DEF RxLooked
        <5>3. <<"rx", 0>> \in Queues /\ <<"rx", 0>> # q
          BY <5>1, QueueForm, QueueAssumption
        <5>4. work'[<<"rx", 0>>] = 0
          BY <5>2, <5>3, <1>5
        <5> QED
          BY <5>1, <5>4, <3>1, <1>5
      <4> QED
        BY <4>1, <4>2, QueueAssumption
    <3>3. \A r \in Queues : r[1] = "rx" => work'[r] = 0
      BY <3>2, QueueForm
    <3> QED
      BY <3>3 DEF Drained
  <2> QED
    BY <2>4, <2>5
<1> QED
  BY <1>8, <1>9, <1>10

-----------------------------------------------------------------------------
(* The TX poll.                                                            *)

\* The remainder of a sum of two queue numbers.
LEMMA QueueMod ==
  ASSUME NEW x \in Nat
  PROVE  /\ x % TxQs \in 0 .. TxQs - 1
         /\ x < TxQs => x % TxQs = x
         /\ TxQs <= x /\ x < TxQs + TxQs => x % TxQs = x - TxQs
BY QueueAssumption

\* A round over the queues meets every one of them.
LEMMA RoundMeets ==
  ASSUME NEW q \in 0 .. TxQs - 1, NEW k \in 0 .. TxQs - 1
  PROVE  \E j \in 0 .. TxQs - 1 : (q + j) % TxQs = k
<1>1. CASE q <= k
  <2>1. k - q \in 0 .. TxQs - 1 /\ q + (k - q) = k /\ k \in Nat /\ k < TxQs
    BY <1>1, QueueAssumption
  <2>2. (q + (k - q)) % TxQs = k
    BY <2>1, QueueMod
  <2> QED
    BY <2>1, <2>2
<1>2. CASE k < q
  <2>1. /\ k - q + TxQs \in 0 .. TxQs - 1 /\ q + (k - q + TxQs) = k + TxQs
        /\ k + TxQs \in Nat /\ TxQs <= k + TxQs /\ k + TxQs < TxQs + TxQs
        /\ (k + TxQs) - TxQs = k
    BY <1>2, QueueAssumption
  <2>2. (q + (k - q + TxQs)) % TxQs = k
    BY <2>1, QueueMod
  <2> QED
    BY <2>1, <2>2
<1> QED
  BY <1>1, <1>2

\* The poll cleans nothing from a queue only if there is nothing.
LEMMA LeastFacts ==
  ASSUME NEW w \in 0 .. MaxWork, NEW d \in 0 .. Budget, d < Budget
  PROVE  LET n == Least(w, Least(Quantum, Budget - d)) IN
         /\ n \in 0 .. w /\ d + n \in 0 .. Budget
         /\ n = 0 => w = 0
BY BudgetAssumption DEF Least

\* One look of the TX poll at a queue.
LEMMA TxPollStep ==
  ASSUME ControlInv, WorkInv, tx_poll
  PROVE  LoopStep /\ LoopInv' /\ LookInv'
<1> DEFINE k == (poll.q + poll.i) % TxQs
           q == <<"tx", k>>
           n == Least(work[q], Least(Quantum, Budget - poll.done))
           p == [poll EXCEPT !.i = @ + 1, !.done = @ + n, !.did = @ \/ n > 0]
           r == (poll.q + 1) % TxQs
<1>1. /\ poll.d = "tx" /\ poll.pc = "loop" /\ poll \in Polls
      /\ work' = [work EXCEPT ![q] = @ - n]
      /\ poll' = IF p.i < TxQs /\ p.done < Budget THEN p ELSE tx_round(p)
      /\ tx_poll_next' = IF poll'.pc = "end" THEN poll'.q ELSE tx_poll_next
      /\ UNCHANGED poll_frame
  BY DEF tx_poll, ControlInv, TypeOK
<1>2. /\ poll.q \in 0 .. TxQs - 1 /\ poll.i \in 0 .. TxQs - 1
      /\ poll.done \in 0 .. Budget /\ poll.done < Budget /\ poll.did \in BOOLEAN
  BY <1>1, PollFields DEF WorkInv, LoopInv
<1>3. /\ k \in 0 .. TxQs - 1 /\ r \in 0 .. TxQs - 1
      /\ poll.q \in 0 .. TxQs + RxQs /\ r \in 0 .. TxQs + RxQs
      /\ 0 \in 0 .. TxQs - 1 /\ 0 \in 0 .. TxQs
      /\ poll.i + 1 \in 0 .. TxQs /\ (poll.i + 1 < TxQs => poll.i + 1 \in 0 .. TxQs - 1)
  <2>1. poll.q + poll.i \in Nat /\ poll.q + 1 \in Nat
    BY <1>2, QueueAssumption
  <2>2. k \in 0 .. TxQs - 1 /\ r \in 0 .. TxQs - 1
    BY <2>1, QueueMod
  <2> HIDE DEF k, r
  <2> QED
    BY <1>2, <2>2, QueueAssumption
<1>4. /\ q \in Queues /\ work \in [Queues -> 0 .. MaxWork] /\ work[q] \in 0 .. MaxWork
  BY <1>3, QueueForm DEF ControlInv, TypeOK
<1>5. /\ n \in 0 .. work[q] /\ poll.done + n \in 0 .. Budget
      /\ n = 0 => work[q] = 0
  BY <1>2, <1>4, LeastFacts
<1> HIDE DEF k, n, r
<1>6. /\ work' \in [Queues -> 0 .. MaxWork]
      /\ \A s \in Queues : work'[s] <= work[s]
      /\ \A s \in Queues : s # q => work'[s] = work[s]
      /\ n = 0 => work'[q] = 0
  <2>1. /\ work[q] - n \in 0 .. MaxWork /\ work[q] - n <= work[q]
        /\ n = 0 => work[q] - n = 0
    BY <1>4, <1>5, BudgetAssumption
  <2>2. \A s \in Queues : work'[s] = IF s = q THEN work[q] - n ELSE work[s]
    BY <1>1, <1>4
  <2>3. work' \in [Queues -> 0 .. MaxWork]
    BY <1>1, <1>4, <2>1
  <2>4. \A s \in Queues : work[s] <= work[s]
    BY <1>4, BudgetAssumption
  <2> QED
    BY <1>4, <2>1, <2>2, <2>3, <2>4
<1>7. /\ p \in Polls /\ p.d = "tx" /\ p.pc = "loop" /\ p.q = poll.q /\ p.i = poll.i + 1
      /\ p.done \in 0 .. Budget /\ p.did \in BOOLEAN
      /\ ~ p.did => ~ poll.did /\ n = 0
  <2>1. p = [poll EXCEPT !.i = poll.i + 1, !.done = poll.done + n, !.did = (poll.did \/ n > 0)]
    OBVIOUS
  <2>2. (poll.did \/ n > 0) \in BOOLEAN
    OBVIOUS
  <2> HIDE DEF p
  <2>3. p \in Polls
    BY <1>1, <1>3, <1>5, <2>1, <2>2, PollUpdates
  <2>4. /\ p.d = poll.d /\ p.pc = poll.pc /\ p.q = poll.q /\ p.i = poll.i + 1
        /\ p.did = (poll.did \/ n > 0)
    BY <1>1, <2>1 DEF Polls
  <2>5. n > 0 \/ n = 0
    BY <1>4, <1>5, BudgetAssumption
  <2> QED
    BY <1>1, <2>3, <2>4, <2>5, PollFields
<1> HIDE DEF p
\* Where the poll goes.
<1>8. /\ poll' \in Polls /\ poll'.d = "tx" /\ poll'.pc \in {"loop", "end"}
      /\ poll'.q \in 0 .. TxQs - 1
      /\ poll'.pc = "loop" =>
           /\ poll'.done < Budget /\ poll'.i \in 0 .. TxQs - 1
           /\ \/ poll'.i = 0
              \/ poll'.q = poll.q /\ poll'.i = poll.i + 1 /\ poll'.did = p.did
      /\ poll'.pc = "end" /\ poll'.done < Budget => ~ p.did /\ poll.i + 1 = TxQs
  <2>1. CASE p.i < TxQs /\ p.done < Budget
    BY <1>1, <1>2, <1>3, <1>7, <2>1
  <2>2. CASE ~ (p.i < TxQs /\ p.done < Budget) /\ p.did /\ p.done < Budget
    <3>1. poll' = [p EXCEPT !.q = r, !.i = 0, !.did = FALSE]
      BY <1>1, <1>7, <2>2 DEF tx_round, r
    <3>2. poll' \in Polls
      BY <1>3, <1>7, <3>1, PollUpdates
    <3>3. /\ poll'.d = p.d /\ poll'.pc = p.pc /\ poll'.done = p.done
          /\ poll'.q = r /\ poll'.i = 0
      BY <1>7, <3>1 DEF Polls
    <3> QED
      BY <1>3, <1>7, <2>2, <3>2, <3>3
  <2>3. CASE ~ (p.i < TxQs /\ p.done < Budget) /\ ~ (p.did /\ p.done < Budget)
    <3>1. poll' = [p EXCEPT !.q = r, !.pc = "end"]
      BY <1>1, <1>7, <2>3 DEF tx_round, r
    <3>2. poll' \in Polls
      BY <1>3, <1>7, <3>1, PollUpdates
    <3>3. poll'.d = p.d /\ poll'.pc = "end" /\ poll'.done = p.done /\ poll'.q = r
      BY <1>7, <3>1 DEF Polls
    <3>4. p.done < Budget => poll.i + 1 = TxQs
      BY <1>2, <1>7, <2>3, QueueAssumption
    <3> QED
      BY <1>3, <1>7, <2>3, <3>2, <3>3, <3>4
  <2> QED
    BY <2>1, <2>2, <2>3
<1>9. LoopStep
  <2>1. tx_poll_next' \in 0 .. TxQs - 1
    BY <1>1, <1>8 DEF ControlInv, TypeOK
  <2>2. poll.d \in Dirs
    BY <1>1 DEF Dirs
  <2> QED
    BY <1>1, <1>6, <1>8, <2>1, <2>2 DEF LoopStep
<1>10. LoopInv'
  BY <1>8 DEF LoopInv
<1>11. LookInv'
  <2>1. SUFFICES ASSUME ~ Pending("tx")'
                 PROVE  /\ poll'.pc = "loop" => TxLooked'
                        /\ poll'.pc = "end" /\ poll'.done < Budget => Drained("tx")'
    BY <1>8 DEF LookInv, Pending
  <2>2. ~ Pending("tx") /\ poll.d \in Dirs
    BY <1>1, <2>1 DEF Pending, poll_frame, Dirs
  <2>3. ~ poll.did => \A j \in 0 .. poll.i - 1 : work[<<"tx", (poll.q + j) % TxQs>>] = 0
    BY <1>1, <2>2 DEF WorkInv, LookInv, TxLooked
  \* The queue that was just looked at joins those found empty.
  <2>4. ~ p.did => \A j \in 0 .. poll.i : work'[<<"tx", (poll.q + j) % TxQs>>] = 0
    <3> SUFFICES ASSUME ~ p.did, NEW j \in 0 .. poll.i
                 PROVE  work'[<<"tx", (poll.q + j) % TxQs>>] = 0
      OBVIOUS
    <3> DEFINE s == <<"tx", (poll.q + j) % TxQs>>
    <3>1. ~ poll.did /\ n = 0
      BY <1>7
    <3>2. CASE s = q
      BY <3>1, <3>2, <1>6
    <3>3. CASE s # q
      <4>1. j # poll.i
        BY <3>3 DEF k
      <4>2. j \in 0 .. poll.i - 1
        BY <4>1, <1>2
      <4>3. poll.q + j \in Nat
        BY <4>2, <1>2
      <4>4. s \in Queues
        BY <4>3, QueueMod, QueueForm
      <4>5. work[s] = 0
        BY <3>1, <4>2, <2>3
      <4> QED
        BY <3>3, <4>4, <4>5, <1>6
    <3> QED
      BY <3>2, <3>3
  <2>5. ASSUME poll'.pc = "loop" PROVE TxLooked'
    <3> SUFFICES ASSUME ~ poll'.did, NEW j \in 0 .. poll'.i - 1
                 PROVE  work'[<<"tx", (poll'.q + j) % TxQs>>] = 0
      BY DEF TxLooked
    <3>1. poll'.q = poll.q /\ poll'.i = poll.i + 1 /\ ~ p.did
      BY <1>8, <2>5
    <3>2. j \in 0 .. poll.i
      BY <3>1, <1>2
    <3> QED
      BY <3>1, <3>2, <2>4
  <2>6. ASSUME poll'.pc = "end", poll'.done < Budget PROVE Drained("tx")'
    <3>1. ~ p.did /\ poll.i + 1 = TxQs
      BY <1>8, <2>6
    <3>2. \A j \in 0 .. TxQs - 1 : work'[<<"tx", (poll.q + j) % TxQs>>] = 0
      <4>1. \A j \in 0 .. TxQs - 1 : j \in 0 .. poll.i
        BY <3>1, <1>2
      <4> QED
        BY <3>1, <4>1, <2>4
    <3>3. \A m \in 0 .. TxQs - 1 : work'[<<"tx", m>>] = 0
      BY <3>2, <1>2, RoundMeets
    <3>4. \A s \in Queues : s[1] = "tx" => work'[s] = 0
      BY <3>3, QueueForm
    <3> QED
      BY <3>4 DEF Drained
  <2> QED
    BY <2>5, <2>6
<1> QED
  BY <1>9, <1>10, <1>11

-----------------------------------------------------------------------------
(* Begin and end of a poll.                                                *)

LEMMA BeginKeeps ==
  ASSUME IrqIInv, NEW d \in Dirs, poll_begin(d)
  PROVE  IrqIInv'
<1>1. /\ poll = NoPoll /\ napi[d] = "sched"
      /\ poll' = [d |-> d, pc |-> "loop", q |-> IF d = "tx" THEN tx_poll_next ELSE 0,
                  i |-> 0, done |-> 0, did |-> FALSE]
      /\ UNCHANGED <<irq_mask, int_enable, int_status, delayed, work, napi, disabling,
                     tx_poll_next, dma, ctl, line, late>>
  BY DEF poll_begin, poll_frame, line_vars
<1>2. /\ poll'.d = d /\ poll'.pc = "loop" /\ poll'.i = 0 /\ poll'.done = 0 /\ poll'.did = FALSE
      /\ poll'.q = IF d = "tx" THEN tx_poll_next ELSE 0
  BY <1>1
<1>3. /\ tx_poll_next \in 0 .. TxQs - 1 /\ tx_poll_next \in 0 .. TxQs + RxQs
      /\ 0 \in 0 .. TxQs + RxQs /\ 0 \in 0 .. TxQs /\ 0 \in 0 .. Budget /\ 0 < Budget
      /\ 0 \in 0 .. RxQs - 1 /\ 0 \in 0 .. TxQs - 1
  <2>1. tx_poll_next \in 0 .. TxQs - 1
    BY DEF IrqIInv, ControlInv, TypeOK
  <2> QED
    BY <2>1, QueueAssumption, BudgetAssumption
<1>4. poll' \in Polls
  BY <1>1, <1>3 DEF Polls
<1>5. TypeOK'
  BY <1>1, <1>4 DEF IrqIInv, ControlInv, TypeOK
<1>6. EnableInv' /\ MaskedWhilePolled'
  BY <1>1, <1>2 DEF IrqIInv, ControlInv, EnableInv, MaskedWhilePolled
<1>7. PollInv'
  BY <1>1, <1>2 DEF PollInv
<1>8. NapiInv'
  <2>1. ctl \notin {"down", "opening", "release"}
    BY <1>1 DEF IrqIInv, ControlInv, NapiInv, Off, Dirs
  <2> QED
    BY <1>1, <2>1 DEF IrqIInv, ControlInv, NapiInv, Off, Awaited
<1>9. DownInv' /\ EventInv'
  BY <1>1 DEF IrqIInv, WorkInv, DownInv, EventInv, Pending
<1>10. EnabledInv'
  <2>1. poll.d \notin Dirs
    BY <1>1, NoPollFacts
  <2> QED
    BY <1>1, <2>1 DEF IrqIInv, WorkInv, EnabledInv
<1>11. LoopInv'
  BY <1>2, <1>3 DEF LoopInv
<1>12. LookInv'
  <2>1. poll'.d = "rx" => RxLooked'
    BY <1>2 DEF RxLooked
  <2>2. TxLooked'
    <3>1. \A j \in 0 .. poll'.i - 1 : FALSE
      BY <1>2
    <3> QED
      BY <3>1 DEF TxLooked
  <2> QED
    BY <1>2, <2>1, <2>2 DEF LookInv
<1> QED
  BY <1>5, <1>6, <1>7, <1>8, <1>9, <1>10, <1>11, <1>12 DEF IrqIInv, ControlInv, WorkInv

\* One step of a polling loop.
LEMMA LoopKeeps ==
  ASSUME IrqIInv, rx_poll \/ tx_poll
  PROVE  IrqIInv'
<1>1. LoopStep /\ LoopInv' /\ LookInv'
  BY RxPollStep, TxPollStep DEF IrqIInv
<1> QED
  BY <1>1, LoopStepControl, LoopStepWork DEF IrqIInv, WorkInv

\* The budget is used up.
LEMMA AgainKeeps ==
  ASSUME IrqIInv, poll_again
  PROVE  IrqIInv'
<1>1. /\ poll.pc = "end" /\ poll' = NoPoll
      /\ napi' = [napi EXCEPT ![poll.d] = IF poll.d \in disabling THEN "idle" ELSE "sched"]
      /\ UNCHANGED <<irq_mask, int_enable, int_status, delayed, work, disabling,
                     tx_poll_next, dma, ctl, line, late>>
  BY DEF poll_again, line_vars
<1>2. /\ poll.d \in Dirs /\ poll # NoPoll /\ napi[poll.d] = "sched"
      /\ poll.d \notin irq_mask
  BY <1>1, NoPollFacts DEF IrqIInv, ControlInv, PollInv, MaskedWhilePolled
<1>3. napi \in [Dirs -> {"off", "idle", "sched"}] /\ napi' \in [Dirs -> {"off", "idle", "sched"}]
  BY <1>1, <1>2 DEF IrqIInv, ControlInv, TypeOK
<1>4. /\ \A d \in Dirs : d # poll.d => napi'[d] = napi[d]
      /\ napi'[poll.d] \in {"idle", "sched"}
      /\ poll.d \notin disabling => napi'[poll.d] = "sched"
  BY <1>1, <1>2, <1>3
<1>5. poll'.d \notin Dirs
  BY <1>1, NoPollFacts
<1>6. TypeOK'
  BY <1>1, <1>3, NoPollFacts DEF IrqIInv, ControlInv, TypeOK
<1>7. EnableInv'
  BY <1>1 DEF IrqIInv, ControlInv, EnableInv
<1>8. MaskedWhilePolled'
  BY <1>1, <1>2, <1>4, <1>5 DEF IrqIInv, ControlInv, MaskedWhilePolled
<1>9. PollInv'
  BY <1>1 DEF PollInv
<1>10. NapiInv'
  <2>1. ctl \notin {"down", "opening", "release"} /\ ~ Off(poll.d)
    BY <1>2 DEF IrqIInv, ControlInv, NapiInv
  <2> QED
    BY <1>1, <1>2, <1>4, <2>1 DEF IrqIInv, ControlInv, NapiInv, Off, Awaited
<1>11. DownInv'
  BY <1>1 DEF IrqIInv, WorkInv, DownInv
<1>12. LoopInv' /\ LookInv'
  <2>1. poll'.d \notin Dirs /\ poll'.pc = "idle"
    BY <1>1, NoPollFacts
  <2> QED
    BY <2>1 DEF LoopInv, LookInv
<1>13. EventInv' /\ EnabledInv'
  <2>1. ctl = "up" => poll.d \notin disabling
    BY DEF IrqIInv, ControlInv, NapiInv, Awaited
  <2>2. ctl # "opening"
    BY <1>2 DEF IrqIInv, ControlInv, NapiInv
  <2>3. ctl = "up" => \A d \in Dirs : napi[d] = "sched" => napi'[d] = "sched"
    BY <2>1, <1>4
  <2>4. EventInv'
    BY <1>1, <2>2, <2>3, QueueForm DEF IrqIInv, WorkInv, EventInv, Pending
  <2>5. EnabledInv'
    BY <1>1, <1>4, <2>1, <2>3 DEF IrqIInv, WorkInv, EnabledInv
  <2> QED
    BY <2>4, <2>5
<1> QED
  BY <1>6, <1>7, <1>8, <1>9, <1>10, <1>11, <1>12, <1>13 DEF IrqIInv, ControlInv, WorkInv

\* All queues were found empty: what has come since then is pending.
LEMMA CompleteKeeps ==
  ASSUME IrqIInv, poll_complete
  PROVE  IrqIInv'
<1>1. /\ poll.pc = "end" /\ poll.done < Budget
      /\ napi' = [napi EXCEPT ![poll.d] = "idle"]
      /\ poll' = [poll EXCEPT !.pc = "unmask"]
      /\ UNCHANGED <<irq_mask, int_enable, int_status, delayed, work, disabling,
                     tx_poll_next, dma, ctl, line, late>>
  BY DEF poll_complete, line_vars
<1>2. /\ poll.d \in Dirs /\ poll # NoPoll /\ napi[poll.d] = "sched" /\ poll \in Polls
  BY <1>1, NoPollFacts DEF IrqIInv, ControlInv, PollInv, TypeOK
<1>3. napi \in [Dirs -> {"off", "idle", "sched"}] /\ napi' \in [Dirs -> {"off", "idle", "sched"}]
  BY <1>1, <1>2 DEF IrqIInv, ControlInv, TypeOK
<1>4. napi'[poll.d] = "idle" /\ \A d \in Dirs : d # poll.d => napi'[d] = napi[d]
  BY <1>1, <1>2, <1>3
<1>5. poll' \in Polls /\ poll'.d = poll.d /\ poll'.pc = "unmask"
  <2>1. poll' \in Polls
    BY <1>1, <1>2, PollUpdates
  <2> QED
    BY <2>1, <1>1, <1>2 DEF Polls
<1>6. TypeOK'
  BY <1>1, <1>3, <1>5 DEF IrqIInv, ControlInv, TypeOK
<1>7. EnableInv'
  BY <1>1 DEF IrqIInv, ControlInv, EnableInv
<1>8. MaskedWhilePolled'
  BY <1>1, <1>2, <1>4, <1>5 DEF IrqIInv, ControlInv, MaskedWhilePolled
<1>9. PollInv'
  BY <1>2, <1>4, <1>5 DEF PollInv
<1>10. NapiInv'
  <2>1. ctl \notin {"down", "opening", "release"} /\ ~ Off(poll.d)
    BY <1>2 DEF IrqIInv, ControlInv, NapiInv
  <2> QED
    BY <1>1, <1>2, <1>4, <2>1 DEF IrqIInv, ControlInv, NapiInv, Off, Awaited
<1>11. DownInv'
  BY <1>1 DEF IrqIInv, WorkInv, DownInv
<1>12. LoopInv' /\ LookInv'
  BY <1>5 DEF LoopInv, LookInv
<1>13. EventInv'
  <2> SUFFICES ASSUME ctl \in {"opening", "up"}, NEW q \in Queues, work[q] > 0
               PROVE  napi'[q[1]] = "sched" \/ Pending(q[1])
    BY <1>1 DEF EventInv, Pending
  <2>1. napi[q[1]] = "sched" \/ Pending(q[1])
    BY DEF IrqIInv, WorkInv, EventInv
  <2>2. CASE q[1] # poll.d
    BY <2>1, <2>2, <1>4, QueueForm
  <2>3. CASE q[1] = poll.d
    <3>1. work[q] # 0
      OBVIOUS
    <3>2. ~ Drained(poll.d)
      BY <3>1, <2>3 DEF Drained
    <3>3. Pending(poll.d)
      BY <3>2, <1>1, <1>2 DEF IrqIInv, WorkInv, LookInv
    <3> QED
      BY <3>3, <2>3
  <2> QED
    BY <2>2, <2>3
<1>14. EnabledInv'
  BY <1>1, <1>4, <1>5 DEF IrqIInv, WorkInv, EnabledInv
<1> QED
  BY <1>6, <1>7, <1>8, <1>9, <1>10, <1>11, <1>12, <1>13, <1>14 DEF IrqIInv, ControlInv, WorkInv

\* The direction's interrupt comes back.
LEMMA UnmaskKeeps ==
  ASSUME IrqIInv, poll_unmask
  PROVE  IrqIInv'
<1>1. /\ poll.pc = "unmask" /\ poll' = NoPoll
      /\ irq_mask' = irq_mask \cup {poll.d} /\ int_enable' = irq_mask \cup {poll.d}
      /\ late' = (late \/ ctl # "up")
      /\ UNCHANGED <<int_status, delayed, work, napi, disabling, tx_poll_next, dma, ctl, line>>
  BY DEF poll_unmask, irq_enable
<1>2. /\ poll.d \in Dirs /\ poll # NoPoll /\ napi[poll.d] = "idle"
  BY <1>1, NoPollFacts DEF IrqIInv, ControlInv, PollInv
<1>3. ctl \notin {"down", "opening", "release"}
  BY <1>2 DEF IrqIInv, ControlInv, NapiInv
<1>4. poll'.d \notin Dirs /\ poll'.pc = "idle"
  BY <1>1, NoPollFacts
<1>5. TypeOK'
  <2>1. irq_mask' \in SUBSET Dirs /\ int_enable' \in SUBSET Dirs
    BY <1>1, <1>2 DEF IrqIInv, ControlInv, TypeOK
  <2>2. late' \in BOOLEAN
    BY <1>1
  <2> QED
    BY <1>1, <2>1, <2>2, NoPollFacts DEF IrqIInv, ControlInv, TypeOK
<1>6. EnableInv'
  BY <1>1, <1>3 DEF IrqIInv, ControlInv, EnableInv
<1>7. MaskedWhilePolled'
  BY <1>1, <1>2, <1>4 DEF IrqIInv, ControlInv, MaskedWhilePolled
<1>8. PollInv'
  BY <1>1 DEF PollInv
<1>9. NapiInv'
  BY <1>1, <1>3 DEF IrqIInv, ControlInv, NapiInv, Off, Awaited
<1>10. DownInv' /\ EventInv'
  BY <1>1 DEF IrqIInv, WorkInv, DownInv, EventInv, Pending
<1>11. LoopInv' /\ LookInv'
  BY <1>4 DEF LoopInv, LookInv
<1>12. EnabledInv'
  <2>1. ctl = "up" => int_enable = irq_mask
    BY DEF IrqIInv, ControlInv, EnableInv
  <2> QED
    BY <1>1, <2>1 DEF IrqIInv, WorkInv, EnabledInv
<1> QED
  BY <1>5, <1>6, <1>7, <1>8, <1>9, <1>10, <1>11, <1>12 DEF IrqIInv, ControlInv, WorkInv

-----------------------------------------------------------------------------
(* The hardware and the handler.                                           *)

\* A packet is completed: its event is pending.
LEMMA DoneKeeps ==
  ASSUME IrqIInv, NEW q \in Queues, HwDone(q)
  PROVE  IrqIInv'
<1>1. /\ dma /\ work[q] < MaxWork
      /\ work' = [work EXCEPT ![q] = work[q] + 1]
      /\ delayed' = delayed \cup {q[1]}
      /\ UNCHANGED <<irq_mask, int_enable, int_status, napi, disabling, poll,
                     tx_poll_next, dma, ctl, line, late>>
  BY DEF HwDone, line_vars
<1>2. work \in [Queues -> 0 .. MaxWork] /\ q[1] \in Dirs
  BY QueueForm DEF IrqIInv, ControlInv, TypeOK
<1>3. /\ work' \in [Queues -> 0 .. MaxWork]
      /\ \A r \in Queues : r # q => work'[r] = work[r]
  <2>1. work[q] + 1 \in 0 .. MaxWork
    BY <1>1, <1>2, BudgetAssumption
  <2> QED
    BY <1>1, <1>2, <2>1
<1>4. \A r \in Queues : ~ Pending(r[1])' => ~ Pending(r[1]) /\ r # q
  BY <1>1 DEF Pending
<1>5. TypeOK'
  <2>1. delayed' \in SUBSET Dirs
    BY <1>1, <1>2 DEF IrqIInv, ControlInv, TypeOK
  <2> QED
    BY <1>1, <1>3, <2>1 DEF IrqIInv, ControlInv, TypeOK
<1>6. EnableInv' /\ MaskedWhilePolled'
  BY <1>1 DEF IrqIInv, ControlInv, EnableInv, MaskedWhilePolled
<1>7. PollInv' /\ NapiInv'
  BY <1>1 DEF IrqIInv, ControlInv, PollInv, NapiInv, Off, Awaited
<1>8. DownInv' /\ LoopInv' /\ EnabledInv'
  BY <1>1 DEF IrqIInv, WorkInv, DownInv, LoopInv, EnabledInv
<1>9. EventInv'
  <2> SUFFICES ASSUME ctl \in {"opening", "up"}, NEW r \in Queues, work'[r] > 0,
                      ~ Pending(r[1])'
               PROVE  napi[r[1]] = "sched"
    BY <1>1 DEF EventInv
  <2>1. ~ Pending(r[1]) /\ work[r] > 0
    BY <1>3, <1>4
  <2> QED
    BY <2>1 DEF IrqIInv, WorkInv, EventInv
<1>10. LookInv'
  <2> SUFFICES ASSUME poll.d \in Dirs, ~ Pending(poll.d)'
               PROVE  /\ poll.pc = "loop" /\ poll.d = "rx" => RxLooked'
                      /\ poll.pc = "loop" /\ poll.d = "tx" => TxLooked'
                      /\ poll.pc = "end" /\ poll.done < Budget => Drained(poll.d)'
    BY <1>1 DEF LookInv, Pending
  <2>1. ~ Pending(poll.d) /\ \A r \in Queues : r[1] = poll.d => work'[r] = work[r]
    <3>1. q[1] # poll.d /\ ~ Pending(poll.d)
      BY <1>1 DEF Pending
    <3> QED
      BY <3>1, <1>3
  <2>2. /\ poll.pc = "loop" /\ poll.d = "rx" => RxLooked
        /\ poll.pc = "loop" /\ poll.d = "tx" => TxLooked
        /\ poll.pc = "end" /\ poll.done < Budget => Drained(poll.d)
    BY <2>1 DEF IrqIInv, WorkInv, LookInv
  <2>3. poll.pc = "loop" /\ poll.d = "rx" => RxLooked'
    <3>1. <<"rx", 0>> \in Queues /\ <<"rx", 0>>[1] = "rx"
      BY QueueForm, QueueAssumption
    <3> QED
      BY <1>1, <2>1, <2>2, <3>1 DEF RxLooked
  <2>4. ASSUME poll.pc = "loop", poll.d = "tx" PROVE TxLooked'
    <3> SUFFICES ASSUME ~ poll.did, NEW j \in 0 .. poll.i - 1
                 PROVE  work'[<<"tx", (poll.q + j) % TxQs>>] = 0
      BY <1>1 DEF TxLooked
    <3>1. work[<<"tx", (poll.q + j) % TxQs>>] = 0
      BY <2>2, <2>4 DEF TxLooked
    <3>2. poll.q + j \in Nat
      BY <2>4, QueueAssumption DEF IrqIInv, WorkInv, LoopInv
    <3>3. <<"tx", (poll.q + j) % TxQs>> \in Queues
      BY <3>2, QueueMod, QueueForm
    <3>4. <<"tx", (poll.q + j) % TxQs>>[1] = poll.d
      BY <2>4
    <3> QED
      BY <2>1, <3>1, <3>3, <3>4
  <2>5. poll.pc = "end" /\ poll.done < Budget => Drained(poll.d)'
    BY <1>1, <2>1, <2>2 DEF Drained
  <2> QED
    BY <2>3, <2>4, <2>5
<1> QED
  BY <1>5, <1>6, <1>7, <1>8, <1>9, <1>10 DEF IrqIInv, ControlInv, WorkInv

\* Steps that keep packets, polls and what is pending.
LEMMA WorkFrame ==
  ASSUME IrqIInv, UNCHANGED <<work, poll, napi, ctl, dma>>,
         \A d \in Dirs : Pending(d)' <=> Pending(d)
  PROVE  DownInv' /\ LoopInv' /\ LookInv' /\ EventInv'
<1>1. DownInv' /\ LoopInv'
  BY DEF IrqIInv, WorkInv, DownInv, LoopInv
<1>2. LookInv'
  <2>1. poll.d \in Dirs => (Pending(poll.d)' <=> Pending(poll.d))
    OBVIOUS
  <2> QED
    BY <2>1 DEF IrqIInv, WorkInv, LookInv, RxLooked, TxLooked, Drained, Pending
<1>3. EventInv'
  <2>1. \A q \in Queues : Pending(q[1])' <=> Pending(q[1])
    BY QueueForm
  <2> QED
    BY <2>1 DEF IrqIInv, WorkInv, EventInv, Pending
<1> QED
  BY <1>1, <1>2, <1>3

\* The delay timer, and the line the kernel gives up.
LEMMA RaiseKeeps ==
  ASSUME IrqIInv, irq_none \/ \E d \in Dirs : HwRaise(d)
  PROVE  IrqIInv'
<1>1. /\ UNCHANGED <<irq_mask, int_enable, work, napi, disabling, poll, tx_poll_next, dma, ctl, late>>
      /\ line' \in {"live", "dead"}
      /\ delayed' \in SUBSET Dirs /\ int_status' \in SUBSET Dirs
      /\ \A d \in Dirs : Pending(d)' <=> Pending(d)
  <2>1. CASE irq_none
    BY <2>1 DEF irq_none, Pending, IrqIInv, ControlInv, TypeOK
  <2>2. ASSUME NEW d \in Dirs, HwRaise(d)
        PROVE  /\ UNCHANGED <<irq_mask, int_enable, work, napi, disabling, poll, tx_poll_next, dma, ctl, late>>
               /\ line' \in {"live", "dead"}
               /\ delayed' \in SUBSET Dirs /\ int_status' \in SUBSET Dirs
               /\ \A e \in Dirs : Pending(e)' <=> Pending(e)
    <3>1. /\ d \in delayed /\ delayed' = delayed \ {d} /\ int_status' = int_status \cup {d}
          /\ UNCHANGED <<irq_mask, int_enable, work, napi, disabling, poll, tx_poll_next, dma, ctl, line, late>>
      BY <2>2 DEF HwRaise, line_vars
    <3>2. line \in {"live", "dead"} /\ delayed \in SUBSET Dirs /\ int_status \in SUBSET Dirs
      BY DEF IrqIInv, ControlInv, TypeOK
    <3>3. \A e \in Dirs : Pending(e)' <=> Pending(e)
      BY <3>1 DEF Pending
    <3> QED
      BY <3>1, <3>2, <3>3
  <2> QED
    BY <2>1, <2>2
<1>2. TypeOK'
  BY <1>1 DEF IrqIInv, ControlInv, TypeOK
<1>3. EnableInv' /\ MaskedWhilePolled'
  BY <1>1 DEF IrqIInv, ControlInv, EnableInv, MaskedWhilePolled
<1>4. PollInv' /\ NapiInv'
  BY <1>1 DEF IrqIInv, ControlInv, PollInv, NapiInv, Off, Awaited
<1>5. DownInv' /\ LoopInv' /\ LookInv' /\ EventInv'
  BY <1>1, WorkFrame
<1>6. EnabledInv'
  BY <1>1 DEF IrqIInv, WorkInv, EnabledInv
<1> QED
  BY <1>2, <1>3, <1>4, <1>5, <1>6 DEF IrqIInv, ControlInv, WorkInv

\* The handler: what it acknowledges it schedules; what it cannot schedule is
\* being stopped.
LEMMA HandlerKeeps ==
  ASSUME IrqIInv, irq
  PROVE  IrqIInv'
<1> DEFINE st == int_status \cap irq_mask
<1>1. /\ st # {} /\ irq_mask' = irq_mask \ st /\ int_enable' = irq_mask \ st
      /\ int_status' = int_status \ st
      /\ napi' = [d \in Dirs |-> IF d \in st /\ napi[d] = "idle" /\ d \notin disabling
                                    THEN "sched" ELSE napi[d]]
      /\ UNCHANGED <<delayed, work, disabling, poll, tx_poll_next, dma, ctl, line, late>>
  BY DEF irq, irq_disable, napi_schedule, Ack, line_vars
<1>2. /\ irq_mask = int_enable /\ irq_mask # {} /\ irq_mask \in SUBSET Dirs
      /\ ctl # "opening"
  BY <1>1 DEF IrqIInv, ControlInv, EnableInv, NapiInv, TypeOK
<1>3. \A d \in Dirs : d \in st => napi[d] # "sched" /\ poll.d # d
  BY DEF IrqIInv, ControlInv, MaskedWhilePolled
<1>4. /\ \A d \in Dirs : d \notin st => napi'[d] = napi[d]
      /\ \A d \in Dirs : napi'[d] = napi[d] \/ (napi[d] = "idle" /\ napi'[d] = "sched")
      /\ \A d \in Dirs : ctl = "up" /\ d \in st => napi'[d] = "sched"
  <2>1. \A d \in Dirs : napi'[d] = IF d \in st /\ napi[d] = "idle" /\ d \notin disabling
                                      THEN "sched" ELSE napi[d]
    BY <1>1
  <2>2. ctl = "up" => disabling = {} /\ \A d \in Dirs : napi[d] # "off"
    BY DEF IrqIInv, ControlInv, NapiInv, Off, Awaited
  <2>3. \A d \in Dirs : napi[d] \in {"off", "idle", "sched"}
    BY DEF IrqIInv, ControlInv, TypeOK
  <2> HIDE DEF st
  <2>4. \A d \in Dirs : ctl = "up" /\ d \in st => napi[d] = "idle" /\ d \notin disabling
    BY <2>2, <2>3, <1>3
  <2> QED
    BY <2>1, <2>4
<1>5. TypeOK'
  <2>1. napi' \in [Dirs -> {"off", "idle", "sched"}]
    BY <1>1 DEF IrqIInv, ControlInv, TypeOK
  <2> QED
    BY <1>1, <2>1 DEF IrqIInv, ControlInv, TypeOK
<1>6. EnableInv'
  BY <1>1, <1>2 DEF IrqIInv, ControlInv, EnableInv
<1>7. MaskedWhilePolled'
  <2>1. ASSUME NEW d \in Dirs, napi'[d] = "sched" \/ poll.d = d PROVE d \notin irq_mask'
    <3>1. CASE d \in st
      BY <3>1, <1>1
    <3>2. CASE d \notin st
      BY <3>2, <2>1, <1>1, <1>4 DEF IrqIInv, ControlInv, MaskedWhilePolled
    <3> QED
      BY <3>1, <3>2
  <2> QED
    BY <2>1, <1>1 DEF MaskedWhilePolled
<1>8. PollInv'
  <2>1. poll.d \in Dirs => napi'[poll.d] = napi[poll.d]
    BY <1>3, <1>4
  <2> QED
    BY <2>1, <1>1 DEF IrqIInv, ControlInv, PollInv
<1>9. NapiInv'
  BY <1>1, <1>2, <1>4 DEF IrqIInv, ControlInv, NapiInv, Off, Awaited
<1>10. DownInv' /\ LoopInv'
  BY <1>1 DEF IrqIInv, WorkInv, DownInv, LoopInv
<1>11. \A d \in Dirs : d \notin st => (Pending(d)' <=> Pending(d))
  BY <1>1 DEF Pending
<1>12. LookInv'
  <2>1. poll.d \in Dirs => (Pending(poll.d)' <=> Pending(poll.d))
    <3> HIDE DEF st
    <3>1. poll.d \in Dirs => poll.d \notin st
      BY <1>3
    <3>2. poll' = poll
      BY <1>1
    <3> QED
      BY <3>1, <3>2, <1>11 DEF Pending
  <2>2. work' = work /\ poll' = poll
    BY <1>1
  <2> QED
    BY <2>1, <2>2 DEF IrqIInv, WorkInv, LookInv, RxLooked, TxLooked, Drained, Pending
<1>13. EventInv'
  <2> SUFFICES ASSUME ctl = "up", NEW q \in Queues, work[q] > 0
               PROVE  napi'[q[1]] = "sched" \/ Pending(q[1])'
    BY <1>1, <1>2 DEF EventInv
  <2>1. q[1] \in Dirs
    BY QueueForm
  <2>2. napi[q[1]] = "sched" \/ Pending(q[1])
    BY DEF IrqIInv, WorkInv, EventInv
  <2> HIDE DEF st
  <2> QED
    BY <2>1, <2>2, <1>4, <1>11
<1>14. EnabledInv'
  <2> SUFFICES ASSUME ctl = "up", NEW d \in Dirs
               PROVE  napi'[d] = "sched" \/ poll.d = d \/ d \in int_enable'
    BY <1>1 DEF EnabledInv
  <2>1. napi[d] = "sched" \/ poll.d = d \/ d \in int_enable
    BY DEF IrqIInv, WorkInv, EnabledInv
  <2> HIDE DEF st
  <2> QED
    BY <2>1, <1>1, <1>2, <1>4
<1> QED
  BY <1>5, <1>6, <1>7, <1>8, <1>9, <1>10, <1>12, <1>13, <1>14 DEF IrqIInv, ControlInv, WorkInv

-----------------------------------------------------------------------------
(* ndo_open and ndo_stop.                                                  *)

\* Without a poll: what is left of the invariant to show.
LEMMA QuietKeeps ==
  ASSUME IrqIInv, poll = NoPoll, poll' = NoPoll
  PROVE  PollInv' /\ LoopInv' /\ LookInv'
BY NoPollFacts DEF PollInv, LoopInv, LookInv

\* The shadow is zeroed and NAPI enabled; the rings are empty.
LEMMA OpenKeeps ==
  ASSUME IrqIInv, open
  PROVE  IrqIInv'
<1>1. /\ ctl = "down" /\ irq_mask' = {} /\ napi' = [d \in Dirs |-> "idle"]
      /\ int_status' = {} /\ dma' = TRUE /\ ctl' = "opening"
      /\ UNCHANGED <<delayed, poll, tx_poll_next, line, late, int_enable, work, disabling>>
  BY DEF open, ctl_frame
<1>2. /\ poll = NoPoll /\ poll' = NoPoll /\ poll'.d \notin Dirs
      /\ \A q \in Queues : work[q] = 0
  BY <1>1, NoPollFacts DEF IrqIInv, ControlInv, NapiInv, WorkInv, DownInv
<1>3. TypeOK'
  BY <1>1 DEF IrqIInv, ControlInv, TypeOK
<1>4. EnableInv' /\ MaskedWhilePolled'
  BY <1>1 DEF IrqIInv, ControlInv, EnableInv, MaskedWhilePolled
<1>5. NapiInv'
  BY <1>1, <1>2 DEF IrqIInv, ControlInv, NapiInv, Off, Awaited
<1>6. DownInv' /\ EnabledInv'
  BY <1>1 DEF DownInv, EnabledInv
<1>7. EventInv'
  <2>1. \A q \in Queues : ~ (work'[q] > 0)
    BY <1>1, <1>2
  <2> QED
    BY <2>1 DEF EventInv
<1> QED
  BY <1>2, <1>3, <1>4, <1>5, <1>6, <1>7, QuietKeeps DEF IrqIInv, ControlInv, WorkInv

\* Steps of process context that leave packets and events alone.
LEMMA CtlWork ==
  ASSUME IrqIInv, poll = NoPoll, UNCHANGED <<delayed, int_status, poll, work, dma>>,
         ctl' # "down", \A d \in Dirs : napi[d] = "sched" => napi'[d] = "sched",
         ctl' \in {"opening", "up"} => ctl \in {"opening", "up"}
  PROVE  DownInv' /\ LoopInv' /\ LookInv' /\ EventInv'
<1>1. DownInv'
  BY DEF DownInv
<1>2. EventInv'
  BY QueueForm DEF IrqIInv, WorkInv, EventInv, Pending
<1> QED
  BY <1>1, <1>2, QuietKeeps

\* Both directions are unmasked, none is scheduled.
LEMMA OpenDoneKeeps ==
  ASSUME IrqIInv, open_done
  PROVE  IrqIInv'
<1>1. /\ ctl = "opening" /\ ctl' = "up" /\ late' = FALSE
      /\ irq_mask' = irq_mask \cup Dirs /\ int_enable' = irq_mask \cup Dirs
      /\ UNCHANGED <<delayed, poll, tx_poll_next, line, int_status, work, napi, disabling, dma>>
  BY DEF open_done, ctl_frame, irq_enable
<1>2. /\ poll = NoPoll /\ poll' = NoPoll /\ poll.d \notin Dirs
      /\ \A d \in Dirs : napi[d] = "idle"
  BY <1>1, NoPollFacts DEF IrqIInv, ControlInv, NapiInv
<1>3. TypeOK'
  BY <1>1 DEF IrqIInv, ControlInv, TypeOK
<1>4. EnableInv' /\ MaskedWhilePolled'
  BY <1>1, <1>2 DEF EnableInv, MaskedWhilePolled
<1>5. NapiInv'
  BY <1>1 DEF IrqIInv, ControlInv, NapiInv, Off, Awaited
<1>6. EnabledInv'
  BY <1>1 DEF EnabledInv
<1>7. DownInv' /\ LoopInv' /\ LookInv' /\ EventInv'
  BY <1>1, <1>2, CtlWork
<1> QED
  BY <1>2, <1>3, <1>4, <1>5, <1>6, <1>7, QuietKeeps DEF IrqIInv, ControlInv, WorkInv

\* The interface is down: rings empty, NAPI off.
LEMMA DownKeeps ==
  ASSUME IrqIInv, open_fails \/ release
  PROVE  IrqIInv'
<1>1. /\ ctl \in {"opening", "release"} /\ ctl' = "down" /\ dma' = FALSE
      /\ work' = [q \in Queues |-> 0]
      /\ UNCHANGED <<delayed, poll, tx_poll_next, line, late, irq_mask, int_enable, int_status, disabling>>
  BY DEF open_fails, release, ctl_frame
<1>2. \A d \in Dirs : napi'[d] = "off"
  <2>1. CASE open_fails
    BY <2>1 DEF open_fails
  <2>2. CASE release
    BY <2>2 DEF release, IrqIInv, ControlInv, NapiInv, Off
  <2> QED
    BY <2>1, <2>2
<1>3. napi' \in [Dirs -> {"off", "idle", "sched"}]
  BY DEF open_fails, release, IrqIInv, ControlInv, TypeOK
<1>4. poll = NoPoll /\ poll' = NoPoll /\ poll'.d \notin Dirs
  BY <1>1, NoPollFacts DEF IrqIInv, ControlInv, NapiInv
<1>5. TypeOK'
  <2>1. work' \in [Queues -> 0 .. MaxWork]
    <3>1. 0 \in 0 .. MaxWork
      BY BudgetAssumption
    <3> QED
      BY <1>1, <3>1
  <2> QED
    BY <1>1, <1>3, <2>1 DEF IrqIInv, ControlInv, TypeOK
<1>6. EnableInv'
  BY <1>1 DEF IrqIInv, ControlInv, EnableInv
<1>7. MaskedWhilePolled'
  BY <1>2, <1>4 DEF MaskedWhilePolled
<1>8. NapiInv'
  BY <1>1, <1>2, <1>4 DEF IrqIInv, ControlInv, NapiInv, Off, Awaited
<1>9. DownInv' /\ EventInv' /\ EnabledInv'
  BY <1>1 DEF DownInv, EventInv, EnabledInv
<1> QED
  BY <1>4, <1>5, <1>6, <1>7, <1>8, <1>9, QuietKeeps DEF IrqIInv, ControlInv, WorkInv

\* ndo_stop masks everything.
LEMMA StopKeeps ==
  ASSUME IrqIInv, stop
  PROVE  IrqIInv'
<1>1. /\ ctl = "up" /\ poll = NoPoll /\ poll' = NoPoll /\ ctl' = "stop tx"
      /\ irq_mask' = irq_mask \ Dirs /\ int_enable' = irq_mask \ Dirs
      /\ UNCHANGED <<delayed, poll, tx_poll_next, line, late, int_status, work, napi, disabling, dma>>
  BY DEF stop, ctl_frame, irq_disable
<1>2. irq_mask' = {} /\ int_enable' = {}
  BY <1>1 DEF IrqIInv, ControlInv, TypeOK
<1>3. TypeOK'
  BY <1>1, <1>2 DEF IrqIInv, ControlInv, TypeOK
<1>4. EnableInv' /\ MaskedWhilePolled'
  BY <1>2 DEF EnableInv, MaskedWhilePolled
<1>5. NapiInv'
  BY <1>1 DEF IrqIInv, ControlInv, NapiInv, Off, Awaited
<1>6. EnabledInv'
  BY <1>1 DEF EnabledInv
<1>7. DownInv' /\ LoopInv' /\ LookInv' /\ EventInv'
  BY <1>1, CtlWork
<1> QED
  BY <1>1, <1>3, <1>4, <1>5, <1>6, <1>7, QuietKeeps DEF IrqIInv, ControlInv, WorkInv

\* napi_disable begins to wait.
LEMMA DisableKeeps ==
  ASSUME IrqIInv, NEW d \in Dirs, napi_disable(d)
  PROVE  IrqIInv'
<1>1. /\ poll = NoPoll /\ poll' = NoPoll
      /\ \/ ctl = "stop tx" /\ d = "tx" /\ ctl' = "wait tx"
         \/ ctl = "stop rx" /\ d = "rx" /\ ctl' = "wait rx"
      /\ disabling' = disabling \cup {d}
      /\ UNCHANGED <<delayed, poll, tx_poll_next, line, late, irq_mask, int_enable, int_status,
                     work, napi, dma>>
  BY DEF napi_disable, ctl_frame
<1>2. TypeOK'
  BY <1>1 DEF IrqIInv, ControlInv, TypeOK
<1>3. EnableInv' /\ MaskedWhilePolled'
  BY <1>1 DEF IrqIInv, ControlInv, EnableInv, MaskedWhilePolled
<1>4. NapiInv'
  BY <1>1 DEF IrqIInv, ControlInv, NapiInv, Off, Awaited
<1>5. EnabledInv'
  BY <1>1 DEF EnabledInv
<1>6. DownInv' /\ LoopInv' /\ LookInv' /\ EventInv'
  BY <1>1, CtlWork
<1> QED
  BY <1>1, <1>2, <1>3, <1>4, <1>5, <1>6, QuietKeeps DEF IrqIInv, ControlInv, WorkInv

\* napi_disable returns: the instance was idle and is off.
LEMMA DisabledKeeps ==
  ASSUME IrqIInv, NEW d \in Dirs, napi_disabled(d)
  PROVE  IrqIInv'
<1>1. /\ poll = NoPoll /\ poll' = NoPoll /\ napi[d] = "idle"
      /\ \/ ctl = "wait tx" /\ d = "tx" /\ ctl' = "stop rx"
         \/ ctl = "wait rx" /\ d = "rx" /\ ctl' = "release"
      /\ napi' = [napi EXCEPT ![d] = "off"]
      /\ disabling' = disabling \ {d}
      /\ UNCHANGED <<delayed, poll, tx_poll_next, line, late, irq_mask, int_enable, int_status,
                     work, dma>>
  BY DEF napi_disabled, ctl_frame, napi_quiet
<1>2. napi \in [Dirs -> {"off", "idle", "sched"}]
  BY DEF IrqIInv, ControlInv, TypeOK
<1>3. /\ napi' \in [Dirs -> {"off", "idle", "sched"}]
      /\ \A e \in Dirs : napi'[e] = IF e = d THEN "off" ELSE napi[e]
  BY <1>1, <1>2
<1>4. TypeOK'
  BY <1>1, <1>3 DEF IrqIInv, ControlInv, TypeOK
<1>5. EnableInv'
  BY <1>1 DEF IrqIInv, ControlInv, EnableInv
<1>6. MaskedWhilePolled'
  BY <1>1, <1>3, NoPollFacts DEF IrqIInv, ControlInv, MaskedWhilePolled
<1>7. NapiInv'
  <2>1. \A e \in Dirs : napi[e] = "off" <=> Off(e)
    BY DEF IrqIInv, ControlInv, NapiInv
  <2>2. \A e \in Dirs : napi'[e] = "off" <=> Off(e)'
    BY <1>1, <1>3, <2>1 DEF Off, Dirs
  <2>3. disabling' = Awaited'
    BY <1>1 DEF IrqIInv, ControlInv, NapiInv, Awaited
  <2> QED
    BY <1>1, <2>2, <2>3 DEF NapiInv
<1>8. EnabledInv'
  BY <1>1 DEF EnabledInv
<1>9. DownInv' /\ EventInv'
  BY <1>1 DEF DownInv, EventInv
<1> QED
  BY <1>1, <1>4, <1>5, <1>6, <1>7, <1>8, <1>9, QuietKeeps DEF IrqIInv, ControlInv, WorkInv

LEMMA InitHolds ==
  ASSUME Init
  PROVE  IrqIInv
<1>1. /\ 0 \in 0 .. MaxWork /\ 0 \in 0 .. TxQs - 1
  BY QueueAssumption, BudgetAssumption
<1>2. TypeOK
  BY <1>1, NoPollFacts DEF Init, TypeOK
<1>3. EnableInv /\ MaskedWhilePolled /\ PollInv
  BY DEF Init, EnableInv, MaskedWhilePolled, PollInv
<1>4. NapiInv
  BY DEF Init, NapiInv, Off, Awaited
<1>5. DownInv /\ EventInv /\ EnabledInv
  BY DEF Init, DownInv, EventInv, EnabledInv
<1>6. LoopInv /\ LookInv
  BY NoPollFacts DEF Init, LoopInv, LookInv
<1> QED
  BY <1>2, <1>3, <1>4, <1>5, <1>6 DEF IrqIInv, ControlInv, WorkInv

LEMMA StutterKeeps ==
  ASSUME IrqIInv, UNCHANGED vars
  PROVE  IrqIInv'
<1>1. UNCHANGED <<irq_mask, int_enable, int_status, delayed, work, napi, disabling,
                  poll, tx_poll_next, dma, ctl, line, late>>
  BY DEF vars
<1>2. TypeOK' /\ EnableInv' /\ MaskedWhilePolled'
  BY <1>1 DEF IrqIInv, ControlInv, TypeOK, EnableInv, MaskedWhilePolled
<1>3. PollInv' /\ NapiInv'
  BY <1>1 DEF IrqIInv, ControlInv, PollInv, NapiInv, Off, Awaited
<1>4. DownInv' /\ LoopInv' /\ LookInv' /\ EventInv'
  BY <1>1, WorkFrame DEF Pending
<1>5. EnabledInv'
  BY <1>1 DEF IrqIInv, WorkInv, EnabledInv
<1> QED
  BY <1>2, <1>3, <1>4, <1>5 DEF IrqIInv, ControlInv, WorkInv

-----------------------------------------------------------------------------
(* Theorems.                                                               *)

\* The invariant is inductive: the handler, the polls, the hardware, ndo_open
\* and ndo_stop keep it.
THEOREM IrqInvariance == Spec => []IrqIInv
<1>1. Init => IrqIInv
  BY InitHolds
<1>2. IrqIInv /\ [Next]_vars => IrqIInv'
  <2> SUFFICES ASSUME IrqIInv, [Next]_vars PROVE IrqIInv'
    OBVIOUS
  <2>1. ASSUME NEW q \in Queues, HwDone(q) PROVE IrqIInv'
    BY <2>1, DoneKeeps
  <2>2. CASE irq_none \/ \E d \in Dirs : HwRaise(d)
    BY <2>2, RaiseKeeps
  <2>3. ASSUME NEW d \in Dirs, poll_begin(d) PROVE IrqIInv'
    BY <2>3, BeginKeeps
  <2>4. CASE irq
    BY <2>4, HandlerKeeps
  <2>5. CASE PollStep
    <3>1. CASE rx_poll \/ tx_poll
      BY <3>1, LoopKeeps
    <3>2. CASE poll_again
      BY <3>2, AgainKeeps
    <3>3. CASE poll_complete
      BY <3>3, CompleteKeeps
    <3>4. CASE poll_unmask
      BY <3>4, UnmaskKeeps
    <3> QED
      BY <2>5, <3>1, <3>2, <3>3, <3>4 DEF PollStep
  <2>6. CASE open
    BY <2>6, OpenKeeps
  <2>7. CASE open_done
    BY <2>7, OpenDoneKeeps
  <2>8. CASE open_fails \/ release
    BY <2>8, DownKeeps
  <2>9. CASE stop
    BY <2>9, StopKeeps
  <2>10. ASSUME NEW d \in Dirs, napi_disable(d) \/ napi_disabled(d) PROVE IrqIInv'
    BY <2>10, DisableKeeps, DisabledKeeps
  <2>11. CASE UNCHANGED vars
    BY <2>11, StutterKeeps
  <2> QED
    BY <2>1, <2>2, <2>3, <2>4, <2>5, <2>6, <2>7, <2>8, <2>9, <2>10, <2>11 DEF Next, StopStep
<1> QED
  BY <1>1, <1>2, PTL DEF Spec

\* While a direction is scheduled or polled its interrupt is masked.
THEOREM MaskedWhilePolledAlways == Spec => []MaskedWhilePolled
<1>1. IrqIInv => MaskedWhilePolled
  BY DEF IrqIInv, ControlInv
<1> QED
  BY <1>1, IrqInvariance, PTL

\* A completed packet has a scheduled poll, or an event that is pending and
\* whose interrupt is enabled or about to be, however handler, polls and the
\* delay timer interleave.
THEOREM NoLostEventAlways == Spec => []NoLostEvent
<1>1. IrqIInv => NoLostEvent
  <2> SUFFICES ASSUME IrqIInv, ctl = "up", NEW q \in Queues, work[q] > 0,
                      napi[q[1]] # "sched"
               PROVE  /\ q[1] \in delayed \cup int_status
                      /\ q[1] \in int_enable \/ poll.d = q[1]
    BY DEF NoLostEvent
  <2>1. q[1] \in delayed \cup int_status
    BY DEF IrqIInv, WorkInv, EventInv, Pending
  <2>2. q[1] \in int_enable \/ poll.d = q[1]
    BY QueueForm DEF IrqIInv, WorkInv, EnabledInv
  <2> QED
    BY <2>1, <2>2
<1> QED
  BY <1>1, IrqInvariance, PTL

\* The rings are released only when no poll runs or can be scheduled.
THEOREM NoPollAfterReleaseAlways == Spec => []NoPollAfterRelease
<1>1. IrqIInv => NoPollAfterRelease
  BY DEF IrqIInv, ControlInv, NapiInv, Off, NoPollAfterRelease
<1> QED
  BY <1>1, IrqInvariance, PTL

\* Only a poll that unmasked after ndo_stop had masked can cost the line.
THEOREM LineLostByLateUnmaskOnlyAlways == Spec => LineLostByLateUnmaskOnly
<1>1. IrqIInv /\ [Next]_vars => [line' # line => late]_vars
  <2> SUFFICES ASSUME IrqIInv, Next, line' # line PROVE late
    BY DEF vars
  <2>1. irq_none
    BY DEF Next, StopStep, PollStep, HwDone, HwRaise, poll_begin, irq, rx_poll, tx_poll,
           poll_again, poll_complete, poll_unmask, open, open_done, open_fails, stop,
           napi_disable, napi_disabled, release, poll_frame, line_vars, ctl_frame
  <2>2. int_enable # {} /\ int_enable # irq_mask
    BY <2>1 DEF irq_none, Asserted
  <2> QED
    BY <2>2 DEF IrqIInv, ControlInv, EnableInv
<1> QED
  BY <1>1, IrqInvariance, PTL DEF Spec, LineLostByLateUnmaskOnly
=============================================================================
