-------------------------- MODULE LifecycleProofs --------------------------
(***************************************************************************)
(* Proofs about Lifecycle, Mdio and FlowBlock: for every set of boards,    *)
(* callers on the MDIO bus, flow blocks and ports. What is held is a       *)
(* function of where the running operation is; what runs is confined to    *)
(* the operations' steps that hold what it uses.                           *)
(***************************************************************************)
EXTENDS Lifecycle, FiniteSetTheorems, TLAPS

-----------------------------------------------------------------------------
(* The inductive invariant.                                                *)

\* The callback of a block is counted once per port.
RefcntInv ==
  \A b \in Blocks :
    /\ refcnt[b] = Cardinality(bound[b])
    /\ b \in block_cb <=> bound[b] # {}
BlockInv == BlockTypeOK /\ RefcntInv

\* One call at a time. Until its command is triggered it is unperformed and
\* the register knows nothing of it; the trigger is good for one performance.
CallInv(u) ==
  /\ mdio_pc[u] # "idle" <=> mdio_lock = u
  /\ mdio_pc[u] # "idle" => ret[u].status = "none"
  /\ mdio_pc[u] \in {"wait", "program"} =>
       performed[u] = 0 /\ access.cmd # Cmd(u) /\ access.data # Cmd(u)
  /\ mdio_pc[u] = "trigger" => performed[u] = 0 /\ ~ access.trg /\ access.data # Cmd(u)
  /\ mdio_pc[u] = "wait done" /\ hw =>
       /\ access.cmd = Cmd(u)
       /\ ~ access.trg => access.data = Cmd(u) /\ performed[u] = 1
  /\ access.trg /\ access.cmd = Cmd(u) => performed[u] = 0
  /\ ret[u].status = "busy" => access.cmd # Cmd(u)

\* A dead engine's register is empty.
DeadInv == ~ hw => access = [trg |-> FALSE, cmd |-> Garbage, data |-> Garbage]

MdioInv == MdioTypeOK /\ (\A u \in Users : CallInv(u)) /\ DeadInv /\ MdioAnswersOwn

\* What has been acquired before step n of probe, and what steps n and later
\* of a list and the managed resources release.
Acquired(n) == {Acquire[i] : i \in {j \in 1 .. n - 1 : Wanted(Acquire[j])}}
Left(list, n) == {list[i] : i \in n .. Len(list)}
ManagedSet == {"irq", "mdio", "desc"}

\* A list of releases ends with "hw"; phylink is on the bus.
Releasing(list) ==
  /\ pos <= 6
  /\ held \subseteq Left(list, pos) \cup ManagedSet
  /\ "hw" \in held
  /\ "phylink" \in held /\ board.bus => "mdio" \in held

\* Where metadata for the poll may be there.
MetaPcs == RunPcs \ {"open meta", "err dma", "err napi"}

HeldInv ==
  /\ pc = "probe" => held = Acquired(pos)
  /\ pc = "unwind" => Releasing(Unwind)
  /\ pc = "remove" => Releasing(Remove)
  /\ pc = "devres" => pos <= 3 /\ held \subseteq Left(Devres, pos)
  /\ pc = "unbound" => pos = 1 /\ held = {}
  /\ pc = "bound" => pos = 1 /\ held = ProbeHolds
  /\ pc \in RunPcs => pos = 1 /\ held \ {"meta"} = ProbeHolds \cup {"rings"}
  /\ "meta" \in held => pc \in MetaPcs

\* NAPI and the engine's interrupt: no poll is scheduled before ndo_open has
\* enabled the interrupt.
QuietPcs == {"open ppe", "open irq", "err meta", "err dma", "err napi"}
PollPcs == {"up", "stop irq", "stop napi"}
NapiInv ==
  /\ napi # "off" <=> pc \in QuietPcs \cup PollPcs
  /\ pc \in QuietPcs => ~ irq_on /\ napi = "idle"
  /\ tx_on <=> pc = "up"
  /\ dim_work => pc \in PollPcs \cup {"stop work"}

\* The engine's DMA.
DmaPcs == {"open ppe", "open irq", "up", "err meta", "err dma",
           "stop irq", "stop napi", "stop work", "stop dma"}
DmaInv ==
  /\ dma = "on" => pc \in DmaPcs
  /\ dma = "boot" => pc \in {"unwind", "devres", "unbound"} \/ (pc = "probe" /\ pos <= 8)
  /\ board.rst /\ (pc \in {"devres", "unbound"} \/ (pc = "probe" /\ pos = 1)) =>
       ~ hw /\ dma \in {"off", "boot"}

\* The PPE, its callbacks, and whether it believes in DSA: ralink_dsa outlives
\* an ndo_open only where no ndo_open can succeed.
SteerPcs == {"open irq", "up", "stop irq", "stop napi", "stop work", "stop dma", "stop ppe"}
Refused == board.ppe = "v1" /\ ~ board.start_ok
PpeInv ==
  /\ ppe_on => {"hw", "ppe"} \subseteq held
  /\ block_cb # {} => pc \in {"bound"} \cup RunPcs /\ board.ppe # "none"
  /\ pc = "probe" => (ppe_on <=> board.ppe = "v2" /\ pos > 10)
  /\ pc \in {"bound"} \cup RunPcs =>
       (ppe_on <=> board.ppe = "v2" \/ (board.ppe = "v1" /\ pc \in SteerPcs))
DsaInv ==
  /\ pc = "probe" => ~ ralink_dsa
  /\ pc \in {"bound", "open meta"} => (ralink_dsa => Refused)
  /\ pc \in {"open dma", "open ppe"} =>
       /\ ralink_dsa => Refused \/ ("meta" \in held /\ board.ppe # "none")
       /\ "meta" \in held /\ board.ppe # "none" => ralink_dsa
  /\ pc \in SteerPcs => ~ Refused /\ (ralink_dsa <=> "meta" \in held /\ board.ppe # "none")
  /\ pc \in {"err meta", "err dma", "err napi"} => Refused
  /\ pc = "stop rings" => ~ ralink_dsa

\* Calls on the bus need it, and the engine until managed resources go.
BusInv ==
  (\E u \in Users : mdio_pc[u] # "idle") =>
    "mdio" \in held /\ (pc # "devres" => "hw" \in held)

LifeInv == LifeTypeOK /\ HeldInv /\ NapiInv /\ DmaInv /\ PpeInv /\ DsaInv /\ BusInv
LifeIInv == LifeInv /\ MdioInv /\ BlockInv

-----------------------------------------------------------------------------
(* Flow blocks.                                                            *)

LEMMA BoundFinite ==
  ASSUME NEW S, S \subseteq Ports
  PROVE  IsFiniteSet(S) /\ Cardinality(S) \in 0 .. Cardinality(Ports)
<1>1. IsFiniteSet(S) /\ Cardinality(S) <= Cardinality(Ports)
  BY PortsAssumption, FS_Subset
<1>2. Cardinality(S) \in Nat /\ Cardinality(Ports) \in Nat
  BY <1>1, PortsAssumption, FS_CardinalityType
<1>3. QED
  BY <1>1, <1>2

LEMMA BlockInitially == BlockInit => BlockInv
<1> SUFFICES ASSUME BlockInit PROVE BlockInv
  OBVIOUS
<1>1. Cardinality({}) = 0 /\ Cardinality({}) \in 0 .. Cardinality(Ports)
  BY FS_EmptySet, BoundFinite
<1>2. QED
  BY <1>1 DEF BlockInit, BlockInv, BlockTypeOK, RefcntInv

\* A binding or its end moves the count with the set of ports.
LEMMA BlockStep ==
  ASSUME BlockInv, NEW b \in Blocks, NEW p \in Ports, block_bind(b, p) \/ block_unbind(b, p)
  PROVE  BlockInv'
<1> USE DEF BlockInv, BlockTypeOK
<1>1. IsFiniteSet(bound[b]) /\ Cardinality(bound[b]) \in Nat /\ refcnt[b] = Cardinality(bound[b])
      /\ (b \in block_cb <=> bound[b] # {}) /\ (Cardinality(bound[b]) = 0 <=> bound[b] = {})
  BY BoundFinite, FS_EmptySet DEF RefcntInv
<1>2. CASE block_bind(b, p)
  <2>1. bound'[b] = bound[b] \cup {p} /\ bound' \in [Blocks -> SUBSET Ports]
        /\ \A c \in Blocks \ {b} : bound'[c] = bound[c]
    BY <1>2 DEF block_bind
  <2>2. Cardinality(bound[b] \cup {p}) = Cardinality(bound[b]) + 1
    BY <1>1, <1>2, FS_AddElement DEF block_bind
  <2>3. refcnt'[b] = Cardinality(bound'[b]) /\ b \in block_cb'
    BY <1>1, <1>2, <2>1, <2>2 DEF block_bind, bind_found
  <2>4. \A c \in Blocks \ {b} : refcnt'[c] = refcnt[c] /\ (c \in block_cb' <=> c \in block_cb)
    BY <1>2 DEF block_bind, bind_found
  <2>5. RefcntInv'
    BY <2>1, <2>3, <2>4 DEF RefcntInv
  <2>6. \A c \in Blocks : Cardinality(bound'[c]) \in 0 .. Cardinality(Ports)
    BY <2>1, BoundFinite
  <2>7. DOMAIN refcnt' = Blocks /\ refcnt' = [c \in Blocks |-> refcnt'[c]] /\ block_cb' \subseteq Blocks
    BY <1>2 DEF block_bind, bind_found
  <2>8. QED
    BY <2>1, <2>5, <2>6, <2>7 DEF RefcntInv
<1>3. CASE block_unbind(b, p)
  <2>1. bound'[b] = bound[b] \ {p} /\ bound' \in [Blocks -> SUBSET Ports]
        /\ \A c \in Blocks \ {b} : bound'[c] = bound[c]
    BY <1>3 DEF block_unbind
  <2>2. /\ Cardinality(bound[b] \ {p}) = Cardinality(bound[b]) - 1
        /\ IsFiniteSet(bound[b] \ {p}) /\ (Cardinality(bound[b] \ {p}) = 0 <=> bound[b] \ {p} = {})
    BY <1>1, <1>3, FS_RemoveElement, FS_EmptySet DEF block_unbind
  <2>3. refcnt'[b] = Cardinality(bound'[b]) /\ (b \in block_cb' <=> bound'[b] # {})
    BY <1>1, <1>3, <2>1, <2>2 DEF block_unbind
  <2>4. \A c \in Blocks \ {b} : refcnt'[c] = refcnt[c] /\ (c \in block_cb' <=> c \in block_cb)
    BY <1>3 DEF block_unbind
  <2>5. RefcntInv'
    BY <2>1, <2>3, <2>4 DEF RefcntInv
  <2>6. \A c \in Blocks : Cardinality(bound'[c]) \in 0 .. Cardinality(Ports)
    BY <2>1, BoundFinite
  <2>7. DOMAIN refcnt' = Blocks /\ refcnt' = [c \in Blocks |-> refcnt'[c]] /\ block_cb' \subseteq Blocks
    BY <1>3 DEF block_unbind
  <2>8. QED
    BY <2>1, <2>5, <2>6, <2>7 DEF RefcntInv
<1>4. QED
  BY <1>2, <1>3

-----------------------------------------------------------------------------
(* The MDIO bus.                                                           *)

LEMMA CmdsDiffer ==
  ASSUME MdioTypeOK, NEW u \in Users, NEW w \in Users
  PROVE  /\ Cmd(u) \in Cmds /\ Cmd(u) # Garbage
         /\ u # w => Cmd(u) # Cmd(w)
  BY MdioAssumption DEF MdioTypeOK, Cmd, Cmds, Garbage

LEMMA MdioInitially == MdioInit /\ hw = FALSE => MdioInv
<1> SUFFICES ASSUME MdioInit, hw = FALSE PROVE MdioInv
  OBVIOUS
<1>1. Garbage \in Cmds
  BY DEF Cmds
<1>2. access \in Registers /\ ret \in [Users -> Answers]
  BY <1>1 DEF MdioInit, Registers, Answers, NoAnswer
<1>3. call \in [Users -> 0 .. 2] /\ performed \in [Users -> 0 .. 2]
  BY DEF MdioInit
<1>4. MdioTypeOK
  BY <1>2, <1>3 DEF MdioInit, MdioTypeOK
<1>5. ASSUME NEW u \in Users PROVE CallInv(u)
  BY MdioAssumption, CmdsDiffer, <1>4 DEF MdioInit, CallInv, NoAnswer
<1>6. DeadInv /\ MdioAnswersOwn
  BY DEF MdioInit, DeadInv, MdioAnswersOwn, NoAnswer
<1>7. QED
  BY <1>4, <1>5, <1>6 DEF MdioInv

\* The engine performs a command at most once.
LEMMA PerformKeeps ==
  ASSUME MdioInv, MdioPerform
  PROVE  MdioInv'
<1> USE DEF MdioInv
<1>1. /\ access' \in Registers
      /\ ~ access'.trg /\ access'.cmd = access.cmd /\ access'.data = access.cmd
  BY DEF MdioPerform, MdioTypeOK, Registers
<1>2. /\ performed \in [Users -> 0 .. 2]
      /\ performed' = [u \in Users |-> IF access.cmd = Cmd(u) /\ performed[u] < 2
                                         THEN performed[u] + 1 ELSE performed[u]]
  BY DEF MdioPerform, MdioTypeOK
<1>3. performed' \in [Users -> 0 .. 2]
  BY <1>2
<1>4. MdioTypeOK'
  BY <1>1, <1>3 DEF MdioPerform, MdioTypeOK
<1>5. ASSUME NEW u \in Users
      PROVE  /\ access.cmd = Cmd(u) => performed[u] = 0 /\ performed'[u] = 1
             /\ access.cmd # Cmd(u) => performed'[u] = performed[u]
  <2>1. access.cmd = Cmd(u) => performed[u] = 0
    BY DEF MdioPerform, CallInv
  <2>2. QED
    BY <1>2, <2>1
<1>6. ASSUME NEW u \in Users PROVE CallInv(u)'
  <2>1. CallInv(u)
     OBVIOUS
  <2>2. UNCHANGED <<hw, mdio_lock, mdio_pc, call, ret>> /\ hw /\ access.trg
     BY DEF MdioPerform
  <2>3. QED
   BY <1>1, <1>5, <2>1, <2>2 DEF CallInv, Cmd
<1>7. MdioAnswersOwn'
  <2> SUFFICES ASSUME NEW u \in Users
               PROVE  /\ performed'[u] < 2
                      /\ ret[u].status = "busy" => performed'[u] = 0
                      /\ ret[u].status = "ok" /\ ret[u].data # Garbage =>
                           ret[u].data = Cmd(u) /\ performed'[u] = 1
    BY DEF MdioPerform, MdioAnswersOwn, Cmd
  <2>1. CallInv(u) /\ performed[u] \in 0 .. 2
    BY <1>2
  <2>2. CASE access.cmd = Cmd(u)
    <3>1. performed[u] = 0 /\ performed'[u] = 1
      BY <1>5, <2>2
    <3>2. ret[u].status # "busy"
      BY <2>1, <2>2 DEF CallInv
    <3>3. ~ (ret[u].status = "ok" /\ ret[u].data # Garbage)
      BY <3>1 DEF MdioAnswersOwn
    <3>4. QED
      BY <3>1, <3>2, <3>3
  <2>3. CASE access.cmd # Cmd(u)
    BY <1>5, <2>3 DEF MdioAnswersOwn
  <2>4. QED
    BY <2>2, <2>3
<1>8. DeadInv'
  BY DEF MdioPerform, DeadInv
<1>9. QED
  BY <1>4, <1>6, <1>7, <1>8

\* A call's number is new to the register.
LEMMA EnterKeeps ==
  ASSUME MdioInv, NEW u \in Users, mdio_enter(u)
  PROVE  MdioInv'
<1> USE DEF MdioInv
<1>1. PICK c \in 0 .. 2 : /\ <<u, c>> \notin {access.cmd, access.data}
                          /\ call' = [call EXCEPT ![u] = c]
  <2> DEFINE c == CHOOSE c \in 0 .. 2 : <<u, c>> \notin {access.cmd, access.data}
  <2>1. \E x \in 0 .. 2 : <<u, x>> \notin {access.cmd, access.data}
    <3>1. ~ (<<u, 0>> \in {access.cmd, access.data} /\ <<u, 1>> \in {access.cmd, access.data}
             /\ <<u, 2>> \in {access.cmd, access.data})
      OBVIOUS
    <3>2. QED
      BY <3>1
  <2>2. c \in 0 .. 2 /\ <<u, c>> \notin {access.cmd, access.data}
    BY <2>1
  <2>3. QED
    BY <2>2 DEF mdio_enter
<1>2. NoAnswer("none") \in Answers /\ NoAnswer("none").status = "none"
  BY DEF NoAnswer, Answers, Cmds
<1>3. /\ call' \in [Users -> 0 .. 2] /\ call'[u] = c
      /\ \A w \in Users : w # u => call'[w] = call[w]
  BY <1>1 DEF MdioTypeOK
<1>4. /\ ret' \in [Users -> Answers] /\ ret'[u].status = "none"
      /\ \A w \in Users : w # u => ret'[w] = ret[w]
  BY <1>2 DEF mdio_enter, MdioTypeOK
<1>5. /\ performed' \in [Users -> 0 .. 2] /\ performed'[u] = 0
      /\ \A w \in Users : w # u => performed'[w] = performed[w]
  <2>1. performed \in [Users -> 0 .. 2] /\ performed' = [performed EXCEPT ![u] = 0]
    BY DEF mdio_enter, MdioTypeOK
  <2>2. QED
    BY <2>1
<1>6. MdioTypeOK'
  BY <1>3, <1>4, <1>5 DEF mdio_enter, MdioTypeOK
<1>7. /\ mdio_pc'[u] = "wait" /\ mdio_lock' = u /\ mdio_lock = NoUser
      /\ \A w \in Users : w # u => mdio_pc'[w] = mdio_pc[w]
      /\ UNCHANGED <<hw, access>>
  BY DEF mdio_enter, mdio_lock_free, MdioTypeOK
<1>8. ASSUME NEW w \in Users PROVE CallInv(w)'
  <2>1. CASE w = u
    BY <1>1, <1>3, <1>4, <1>5, <1>7, <2>1 DEF CallInv, Cmd
  <2>2. CASE w # u
    BY <1>3, <1>4, <1>5, <1>7, <2>2, MdioAssumption DEF CallInv, Cmd
  <2>3. QED
    BY <2>1, <2>2
<1>9. MdioAnswersOwn'
  BY <1>3, <1>4, <1>5 DEF MdioAnswersOwn, Cmd
<1>10. DeadInv'
  BY <1>7 DEF DeadInv
<1>11. QED
  BY <1>6, <1>8, <1>9, <1>10

\* The two writes of the command, which a dead engine loses.
LEMMA CommandKeeps ==
  ASSUME MdioInv, NEW u \in Users, mdio_program(u) \/ mdio_trigger(u)
  PROVE  MdioInv'
<1> USE DEF MdioInv
<1>1. Cmd(u) \in Cmds /\ \A w \in Users : w # u => Cmd(w) # Cmd(u)
  BY CmdsDiffer
<1>2. /\ access' \in Registers
      /\ hw => /\ access'.trg <=> mdio_pc[u] = "trigger"
               /\ access'.cmd = Cmd(u) /\ access'.data = access.data
      /\ ~ hw => access' = access
  <2>1. access \in Registers
    BY DEF MdioTypeOK
  <2>2. CASE mdio_program(u)
    BY <1>1, <2>1, <2>2 DEF mdio_program, Registers
  <2>3. CASE mdio_trigger(u)
    BY <1>1, <2>1, <2>3 DEF mdio_trigger, Registers
  <2>4. QED
    BY <2>2, <2>3
<1>3. /\ mdio_pc[u] \in {"program", "trigger"}
      /\ mdio_pc'[u] = IF mdio_pc[u] = "program" THEN "trigger" ELSE "wait done"
      /\ \A w \in Users : w # u => mdio_pc'[w] = mdio_pc[w]
      /\ mdio_pc' \in [Users -> {"idle", "wait", "program", "trigger", "wait done"}]
      /\ UNCHANGED <<hw, mdio_lock, call, performed, ret>>
  BY DEF mdio_program, mdio_trigger, MdioTypeOK
<1>4. MdioTypeOK'
  BY <1>2, <1>3 DEF MdioTypeOK
<1>5. ~ hw => ~ access.trg /\ access.cmd = Garbage /\ access.data = Garbage /\ Cmd(u) # Garbage
  BY CmdsDiffer DEF DeadInv
<1>6. ASSUME NEW w \in Users PROVE CallInv(w)'
  <2>1. CASE w = u
    BY <1>2, <1>3, <1>5, <2>1 DEF CallInv, Cmd
  <2>2. CASE w # u
    <3>1. mdio_lock = u
      BY <1>3 DEF CallInv
    <3>2. QED
      BY <1>1, <1>2, <1>3, <2>2, <3>1 DEF CallInv, Cmd
  <2>3. QED
    BY <2>1, <2>2
<1>7. MdioAnswersOwn'
  BY <1>3 DEF MdioAnswersOwn, Cmd
<1>8. DeadInv'
  BY <1>2, <1>3 DEF DeadInv
<1>9. QED
  BY <1>4, <1>6, <1>7, <1>8

\* The waits and the returns leave the register alone.
LEMMA WaitKeeps ==
  ASSUME MdioInv, NEW u \in Users, mdio_wait_first(u)
  PROVE  MdioInv'
<1> USE DEF MdioInv
<1>1. /\ mdio_pc[u] = "wait" /\ mdio_pc'[u] = "program"
      /\ \A w \in Users : w # u => mdio_pc'[w] = mdio_pc[w]
      /\ UNCHANGED <<hw, mdio_lock, call, access, performed, ret>>
  BY DEF mdio_wait_first, MdioTypeOK
<1>2. MdioTypeOK'
  BY DEF mdio_wait_first, MdioTypeOK
<1>3. ASSUME NEW w \in Users PROVE CallInv(w)'
  BY <1>1 DEF CallInv, Cmd
<1>4. MdioAnswersOwn' /\ DeadInv'
  BY <1>1 DEF MdioAnswersOwn, DeadInv, Cmd
<1>5. QED
  BY <1>2, <1>3, <1>4

LEMMA LeaveKeeps ==
  ASSUME MdioInv, NEW u \in Users, NEW r \in Answers, mdio_leave(u, r),
         mdio_pc[u] # "idle", r.status # "none",
         r.status = "busy" => mdio_pc[u] = "wait",
         r.status = "ok" /\ r.data # Garbage => r.data = Cmd(u) /\ performed[u] = 1
  PROVE  MdioInv'
<1> USE DEF MdioInv
<1>1. /\ mdio_pc'[u] = "idle" /\ mdio_lock' = NoUser /\ mdio_lock = u
      /\ \A w \in Users : w # u => mdio_pc'[w] = mdio_pc[w]
      /\ UNCHANGED <<hw, call, access, performed>>
  BY DEF mdio_leave, MdioTypeOK, CallInv
<1>2. ret' \in [Users -> Answers] /\ ret'[u] = r /\ \A w \in Users : w # u => ret'[w] = ret[w]
  BY DEF mdio_leave, MdioTypeOK
<1>3. MdioTypeOK'
  BY <1>2 DEF mdio_leave, MdioTypeOK
<1>4. ASSUME NEW w \in Users PROVE CallInv(w)'
  <2>1. CASE w = u
    BY <1>1, <1>2, <2>1, MdioAssumption DEF CallInv, Cmd
  <2>2. CASE w # u
    BY <1>1, <1>2, <2>2, MdioAssumption DEF CallInv, Cmd
  <2>3. QED
    BY <2>1, <2>2
<1>5. MdioAnswersOwn'
  <2>1. r.status = "busy" => performed[u] = 0
    BY DEF CallInv
  <2>2. QED
    BY <1>1, <1>2, <2>1 DEF MdioAnswersOwn, Cmd
<1>6. DeadInv'
  BY <1>1 DEF DeadInv
<1>7. QED
  BY <1>3, <1>4, <1>5, <1>6

LEMMA ReturnKeeps ==
  ASSUME MdioInv, NEW u \in Users,
         mdio_timeout_first(u) \/ mdio_done(u) \/ mdio_timeout_done(u)
  PROVE  MdioInv'
<1>1. Garbage \in Cmds /\ access.data \in Cmds
  BY DEF MdioInv, MdioTypeOK, Cmds, Registers
<1>2. CASE mdio_timeout_first(u)
  <2>1. NoAnswer("busy") \in Answers /\ NoAnswer("busy").status = "busy"
    BY <1>1 DEF NoAnswer, Answers
  <2>2. QED
    BY <1>2, <2>1, LeaveKeeps DEF mdio_timeout_first
<1>3. CASE mdio_timeout_done(u)
  <2>1. NoAnswer("timeout") \in Answers /\ NoAnswer("timeout").status = "timeout"
    BY <1>1 DEF NoAnswer, Answers
  <2>2. QED
    BY <1>3, <2>1, LeaveKeeps DEF mdio_timeout_done
<1>4. CASE mdio_done(u)
  <2> DEFINE r == [status |-> "ok", data |-> IF hw THEN access.data ELSE Garbage]
  <2>1. r \in Answers /\ r.status = "ok" /\ r.data = IF hw THEN access.data ELSE Garbage
    BY <1>1 DEF Answers
  <2>2. mdio_leave(u, r) /\ mdio_pc[u] = "wait done" /\ (hw => ~ access.trg)
    BY <1>4 DEF mdio_done, mdio_wait
  <2> HIDE DEF r
  <2>3. r.data # Garbage => r.data = Cmd(u) /\ performed[u] = 1
    BY <2>1, <2>2 DEF MdioInv, CallInv
  <2>4. QED
    BY <2>1, <2>2, <2>3, LeaveKeeps
<1>5. QED
  BY <1>2, <1>3, <1>4

\* The engine comes to life while no call runs, or is reset.
LEMMA PowerKeeps ==
  ASSUME MdioInv, hw' \in BOOLEAN,
         UNCHANGED <<mdio_lock, mdio_pc, call, performed, ret>>,
         \/ hw' = hw /\ access' = access
         \/ hw' /\ access' = access /\ \A u \in Users : mdio_pc[u] = "idle"
         \/ ~ hw' /\ access' = [trg |-> FALSE, cmd |-> Garbage, data |-> Garbage]
  PROVE  MdioInv'
<1> USE DEF MdioInv
<1> DEFINE empty == [trg |-> FALSE, cmd |-> Garbage, data |-> Garbage]
<1>1. empty \in Registers /\ ~ empty.trg /\ empty.cmd = Garbage /\ empty.data = Garbage
  BY DEF Registers, Cmds
<1>2. access' = access \/ access' = empty
  OBVIOUS
<1>3. \A w \in Users : Cmd(w) # Garbage
  BY CmdsDiffer
<1>4. MdioTypeOK'
  BY <1>1, <1>2 DEF MdioTypeOK
<1>5. DeadInv'
  BY DEF DeadInv
<1> HIDE DEF empty
<1>6. ASSUME NEW w \in Users PROVE CallInv(w)'
  <2>1. CASE access' = access /\ (hw' = hw \/ mdio_pc[w] = "idle")
    BY <2>1 DEF CallInv, Cmd
  <2>2. CASE ~ hw' /\ access' = empty
    BY <1>1, <1>3, <2>2 DEF CallInv, Cmd
  <2>3. QED
    BY <2>1, <2>2 DEF empty
<1>7. MdioAnswersOwn'
  BY DEF MdioAnswersOwn, Cmd
<1>8. QED
  BY <1>4, <1>5, <1>6, <1>7

-----------------------------------------------------------------------------
(* The lists of probe, its unwinding and remove, entry by entry.           *)

LEMMA AcquireAt ==
  ASSUME NEW i \in 1 .. 11
  PROVE  /\ Acquire[i] = "hw" <=> i = 1
         /\ Acquire[i] = "desc" <=> i = 2
         /\ Acquire[i] = "napi" <=> i = 3
         /\ Acquire[i] = "pp" <=> i = 4
         /\ Acquire[i] = "moder" <=> i = 5
         /\ Acquire[i] = "mdio" <=> i = 6
         /\ Acquire[i] = "phylink" <=> i = 7
         /\ Acquire[i] = "quiet" <=> i = 8
         /\ Acquire[i] = "irq" <=> i = 9
         /\ Acquire[i] = "ppe" <=> i = 10
         /\ Acquire[i] = "ndev" <=> i = 11
         /\ Acquire[i] \in {"hw", "desc", "napi", "pp", "moder", "mdio", "phylink", "quiet", "irq", "ppe", "ndev"}
<1>1. i = 1 \/ i = 2 \/ i = 3 \/ i = 4 \/ i = 5 \/ i = 6 \/ i = 7 \/ i = 8 \/ i = 9 \/ i = 10 \/ i = 11
  OBVIOUS
<1>2. QED
  BY <1>1 DEF Acquire

LEMMA AcquireDomain == DOMAIN Acquire = 1 .. 11
  BY DEF Acquire

LEMMA WantedIs ==
  /\ Wanted("mdio") = board.bus /\ Wanted("phylink") = board.port
  /\ Wanted("ppe") <=> board.ppe # "none"
  /\ ~ Wanted("quiet")
  /\ \A r \in {"hw", "desc", "napi", "pp", "moder", "irq", "ndev"} : Wanted(r)
  BY DEF Wanted

\* r has been acquired before step n of probe.
Has(r, n) ==
  \/ r = "hw" /\ n > 1
  \/ r = "desc" /\ n > 2
  \/ r = "napi" /\ n > 3
  \/ r = "pp" /\ n > 4
  \/ r = "moder" /\ n > 5
  \/ r = "mdio" /\ n > 6 /\ board.bus
  \/ r = "phylink" /\ n > 7 /\ board.port
  \/ r = "irq" /\ n > 9
  \/ r = "ppe" /\ n > 10 /\ board.ppe # "none"
  \/ r = "ndev" /\ n > 11

LEMMA AcquiredHas ==
  ASSUME NEW n \in 1 .. 12, NEW r
  PROVE  r \in Acquired(n) <=> Has(r, n)
<1>1. r \in Acquired(n) <=> \E i \in 1 .. n - 1 : Wanted(Acquire[i]) /\ Acquire[i] = r
  BY DEF Acquired
<1>2. ASSUME NEW i \in 1 .. n - 1, Wanted(Acquire[i]), Acquire[i] = r PROVE Has(r, n)
  <2>1. i \in 1 .. 11
    OBVIOUS
  <2>2. QED
    BY <1>2, <2>1, AcquireAt, WantedIs DEF Has
<1>3. ASSUME Has(r, n) PROVE \E i \in 1 .. n - 1 : Wanted(Acquire[i]) /\ Acquire[i] = r
  BY <1>3, AcquireAt, WantedIs DEF Has
<1>4. QED
  BY <1>1, <1>2, <1>3

LEMMA ProbeHoldsHas ==
  ASSUME NEW r
  PROVE  r \in ProbeHolds <=> Has(r, 12)
  BY AcquireDomain, AcquireAt, WantedIs DEF ProbeHolds, Has

LEMMA UnwindAt ==
  ASSUME NEW i \in 1 .. 6
  PROVE  /\ Unwind[i] = "ppe" <=> i = 1
         /\ Unwind[i] = "phylink" <=> i = 2
         /\ Unwind[i] = "moder" <=> i = 3
         /\ Unwind[i] = "pp" <=> i = 4
         /\ Unwind[i] = "napi" <=> i = 5
         /\ Unwind[i] = "hw" <=> i = 6
         /\ Unwind[i] \in {"ppe", "phylink", "moder", "pp", "napi", "hw"}
<1>1. i = 1 \/ i = 2 \/ i = 3 \/ i = 4 \/ i = 5 \/ i = 6
  OBVIOUS
<1>2. QED
  BY <1>1 DEF Unwind

LEMMA RemoveAt ==
  ASSUME NEW i \in 1 .. 6
  PROVE  /\ Remove[i] = "moder" <=> i = 1
         /\ Remove[i] = "ppe" <=> i = 2
         /\ Remove[i] = "phylink" <=> i = 3
         /\ Remove[i] = "pp" <=> i = 4
         /\ Remove[i] = "napi" <=> i = 5
         /\ Remove[i] = "hw" <=> i = 6
         /\ Remove[i] \in {"ppe", "phylink", "moder", "pp", "napi", "hw"}
<1>1. i = 1 \/ i = 2 \/ i = 3 \/ i = 4 \/ i = 5 \/ i = 6
  OBVIOUS
<1>2. QED
  BY <1>1 DEF Remove

LEMMA DevresAt ==
  ASSUME NEW i \in 1 .. 3
  PROVE  /\ Devres[i] = "irq" <=> i = 1
         /\ Devres[i] = "mdio" <=> i = 2
         /\ Devres[i] = "desc" <=> i = 3
         /\ Devres[i] \in ManagedSet
<1>1. i = 1 \/ i = 2 \/ i = 3
  OBVIOUS
<1>2. QED
  BY <1>1 DEF Devres, ManagedSet

LEMMA ListLengths == Len(Unwind) = 6 /\ Len(Remove) = 6 /\ Len(Devres) = 3
                     /\ DOMAIN Unwind = 1 .. 6
  BY DEF Unwind, Remove, Devres

\* Releasing one resource of a list leaves those behind it.
LEMMA LeftShrinks ==
  ASSUME NEW list, NEW n \in Nat, Len(list) \in Nat, n <= Len(list)
  PROVE  /\ Left(list, n) \ {list[n]} \subseteq Left(list, n + 1)
         /\ n = Len(list) => Left(list, n) = {list[n]}
  BY DEF Left

LEMMA DevresLeft ==
  /\ ManagedSet = Left(Devres, 1)
  /\ \A r \in Left(Devres, 3) : r = "desc"
  BY DevresAt, ListLengths DEF Left, ManagedSet

LEMMA ProbeHoldsSame == ASSUME board' = board PROVE ProbeHolds' = ProbeHolds
  BY DEF ProbeHolds, Wanted

-----------------------------------------------------------------------------
(* ndo_open and ndo_stop.                                                  *)

RunStep ==
  \/ open_rings \/ open_meta \/ open_dma \/ open_ppe \/ open_irq
  \/ open_err_meta \/ open_err_dma \/ open_err_napi
  \/ stop \/ stop_irq \/ stop_napi \/ stop_work \/ stop_dma \/ stop_ppe \/ stop_rings

LEMMA RunStepHolds ==
  ASSUME LifeInv, RunStep
  PROVE  /\ ProbeHolds' = ProbeHolds
         /\ UNCHANGED <<board, leaving, dsa, hw, pos>>
         /\ UNCHANGED mdio_vars /\ UNCHANGED block_vars
         /\ board.ppe \in {"none", "v1", "v2"} /\ board.rst \in BOOLEAN
         /\ "hw" \in held /\ (board.ppe # "none" => "ppe" \in held)
         /\ HeldInv' /\ DmaInv' /\ BusInv'
<1> USE DEF LifeInv
<1>1. ProbeHolds' = ProbeHolds /\ UNCHANGED <<board, leaving, dsa, hw, pos>>
      /\ UNCHANGED mdio_vars /\ UNCHANGED block_vars
  BY ProbeHoldsSame DEF RunStep, open_frame, others,
     open_rings, open_meta, open_dma, open_ppe, open_irq, open_err_meta, open_err_dma,
     open_err_napi, stop, stop_irq, stop_napi, stop_work, stop_dma, stop_ppe, stop_rings
<1>2. \A r : r \in ProbeHolds <=> Has(r, 12)
  BY ProbeHoldsHas
<1>3. board.ppe \in {"none", "v1", "v2"} /\ board.rst \in BOOLEAN
  BY BoardAssumption DEF LifeTypeOK
<1>9. "hw" \in ProbeHolds /\ (board.ppe # "none" => "ppe" \in ProbeHolds)
  BY ProbeHoldsHas DEF Has
<1> USE DEF RunStep, RunPcs, run_vars, LifeTypeOK,
     open_rings, open_meta, open_dma, open_ppe, open_irq, open_err_meta, open_err_dma,
     open_err_napi, stop, stop_irq, stop_napi, stop_work, stop_dma, stop_ppe, stop_rings
<1>4. "hw" \in held /\ (board.ppe # "none" => "ppe" \in held)
  <2>1. "hw" \in ProbeHolds /\ (board.ppe # "none" => "ppe" \in ProbeHolds)
    BY <1>9
  <2>2. pc \in {"bound"} \cup RunPcs
    OBVIOUS
  <2>3. QED
    BY <2>1, <2>2 DEF HeldInv
<1>5. HeldInv'
  BY <1>1, <1>2 DEF HeldInv, MetaPcs, Has
<1>6. DmaInv'
  BY <1>1 DEF DmaInv, DmaPcs, dma_disable
<1>7. BusInv'
  BY <1>1, <1>2 DEF BusInv, mdio_vars
<1>8. QED
  BY <1>1, <1>3, <1>4, <1>5, <1>6, <1>7

LEMMA RunStepKeeps ==
  ASSUME LifeInv, RunStep
  PROVE  LifeInv'
<1> USE DEF LifeInv
<1>1. /\ ProbeHolds' = ProbeHolds /\ UNCHANGED <<board, leaving, dsa, hw, pos>>
      /\ UNCHANGED block_vars /\ board.ppe \in {"none", "v1", "v2"}
      /\ "hw" \in held /\ (board.ppe # "none" => "ppe" \in held)
  BY RunStepHolds
<1>2. HeldInv' /\ DmaInv' /\ BusInv'
  BY RunStepHolds
<1> USE DEF run_vars, LifeTypeOK, RunPcs
<1>3. CASE open_rings
  <2>1. LifeTypeOK' /\ NapiInv'
    BY <1>1, <1>3, AcquireDomain DEF open_rings, Pcs, NapiInv, QuietPcs, PollPcs
  <2>2. PpeInv'
    BY <1>1, <1>3 DEF open_rings, PpeInv, HeldInv, SteerPcs, DsaInv, Refused, block_vars
  <2>3. DsaInv'
    BY <1>1, <1>3 DEF open_rings, DsaInv, HeldInv, SteerPcs, MetaPcs, Refused
  <2>4. QED
    BY <1>2, <2>1, <2>2, <2>3
<1>4. CASE open_meta
  <2>1. LifeTypeOK' /\ NapiInv'
    BY <1>1, <1>4, AcquireDomain DEF open_meta, Pcs, NapiInv, QuietPcs, PollPcs
  <2>2. PpeInv'
    BY <1>1, <1>4 DEF open_meta, PpeInv, HeldInv, SteerPcs, DsaInv, Refused, block_vars
  <2>3. DsaInv'
    <3>1. /\ pc = "open meta" /\ ralink_dsa \in BOOLEAN
          /\ "meta" \notin held /\ (ralink_dsa => Refused)
      BY <1>4 DEF open_meta, HeldInv, MetaPcs, DsaInv
    <3>2. CASE pc' = "bound" /\ ralink_dsa' = ralink_dsa
      BY <1>1, <3>1, <3>2 DEF DsaInv, SteerPcs, Refused
    <3>3. CASE pc' = "open dma" /\ "meta" \in held' /\ ralink_dsa' = (board.ppe # "none")
      BY <1>1, <3>1, <3>3 DEF DsaInv, SteerPcs, Refused
    <3>4. CASE pc' = "open dma" /\ ralink_dsa' = ralink_dsa /\ held' = held
      BY <1>1, <3>1, <3>4 DEF DsaInv, SteerPcs, Refused
    <3>5. QED
      BY <1>4, <3>2, <3>3, <3>4 DEF open_meta
  <2>4. QED
    BY <1>2, <2>1, <2>2, <2>3
<1>5. CASE open_dma
  <2>1. LifeTypeOK' /\ NapiInv'
    BY <1>1, <1>5, AcquireDomain DEF open_dma, Pcs, NapiInv, QuietPcs, PollPcs
  <2>2. PpeInv'
    BY <1>1, <1>5 DEF open_dma, PpeInv, HeldInv, SteerPcs, DsaInv, Refused, block_vars
  <2>3. DsaInv'
    BY <1>1, <1>5 DEF open_dma, DsaInv, HeldInv, SteerPcs, MetaPcs, Refused
  <2>4. QED
    BY <1>2, <2>1, <2>2, <2>3
<1>6. CASE open_ppe
  <2>1. LifeTypeOK' /\ NapiInv'
    BY <1>1, <1>6, AcquireDomain DEF open_ppe, Pcs, NapiInv, QuietPcs, PollPcs
  <2>2. PpeInv'
    <3>1. CASE pc' = "err meta" /\ ppe_on' = ppe_on
      BY <1>1, <1>6, <3>1 DEF open_ppe, PpeInv, SteerPcs, block_vars
    <3>2. CASE pc' = "open irq" /\ ppe_on' = (board.ppe # "none")
      BY <1>1, <1>6, <3>2 DEF open_ppe, PpeInv, SteerPcs, block_vars
    <3>3. QED
      BY <1>6, <3>1, <3>2 DEF open_ppe
  <2>3. DsaInv'
    BY <1>1, <1>6 DEF open_ppe, DsaInv, HeldInv, SteerPcs, MetaPcs, Refused
  <2>4. QED
    BY <1>2, <2>1, <2>2, <2>3
<1>7. CASE open_irq
  <2>1. LifeTypeOK' /\ NapiInv'
    BY <1>1, <1>7, AcquireDomain DEF open_irq, Pcs, NapiInv, QuietPcs, PollPcs
  <2>2. PpeInv'
    BY <1>1, <1>7 DEF open_irq, PpeInv, HeldInv, SteerPcs, DsaInv, Refused, block_vars
  <2>3. DsaInv'
    BY <1>1, <1>7 DEF open_irq, DsaInv, HeldInv, SteerPcs, MetaPcs, Refused
  <2>4. QED
    BY <1>2, <2>1, <2>2, <2>3
<1>8. CASE open_err_meta
  <2>1. LifeTypeOK' /\ NapiInv'
    BY <1>1, <1>8, AcquireDomain DEF open_err_meta, Pcs, NapiInv, QuietPcs, PollPcs
  <2>2. PpeInv'
    BY <1>1, <1>8 DEF open_err_meta, PpeInv, HeldInv, SteerPcs, DsaInv, Refused, block_vars
  <2>3. DsaInv'
    BY <1>1, <1>8 DEF open_err_meta, DsaInv, HeldInv, SteerPcs, MetaPcs, Refused
  <2>4. QED
    BY <1>2, <2>1, <2>2, <2>3
<1>9. CASE open_err_dma
  <2>1. LifeTypeOK' /\ NapiInv'
    BY <1>1, <1>9, AcquireDomain DEF open_err_dma, dma_disable, Pcs, NapiInv, QuietPcs, PollPcs
  <2>2. PpeInv'
    BY <1>1, <1>9 DEF open_err_dma, PpeInv, HeldInv, SteerPcs, DsaInv, Refused, block_vars
  <2>3. DsaInv'
    BY <1>1, <1>9 DEF open_err_dma, DsaInv, HeldInv, SteerPcs, MetaPcs, Refused
  <2>4. QED
    BY <1>2, <2>1, <2>2, <2>3
<1>10. CASE open_err_napi
  <2>1. LifeTypeOK' /\ NapiInv'
    BY <1>1, <1>10, AcquireDomain DEF open_err_napi, Pcs, NapiInv, QuietPcs, PollPcs
  <2>2. PpeInv'
    BY <1>1, <1>10 DEF open_err_napi, PpeInv, HeldInv, SteerPcs, DsaInv, Refused, block_vars
  <2>3. DsaInv'
    BY <1>1, <1>10 DEF open_err_napi, DsaInv, HeldInv, SteerPcs, MetaPcs, Refused
  <2>4. QED
    BY <1>2, <2>1, <2>2, <2>3
<1>11. CASE stop
  <2>1. LifeTypeOK' /\ NapiInv'
    BY <1>1, <1>11, AcquireDomain DEF stop, Pcs, NapiInv, QuietPcs, PollPcs
  <2>2. PpeInv'
    BY <1>1, <1>11 DEF stop, PpeInv, HeldInv, SteerPcs, DsaInv, Refused, block_vars
  <2>3. DsaInv'
    BY <1>1, <1>11 DEF stop, DsaInv, HeldInv, SteerPcs, MetaPcs, Refused
  <2>4. QED
    BY <1>2, <2>1, <2>2, <2>3
<1>12. CASE stop_irq
  <2>1. LifeTypeOK' /\ NapiInv'
    BY <1>1, <1>12, AcquireDomain DEF stop_irq, Pcs, NapiInv, QuietPcs, PollPcs
  <2>2. PpeInv'
    BY <1>1, <1>12 DEF stop_irq, PpeInv, HeldInv, SteerPcs, DsaInv, Refused, block_vars
  <2>3. DsaInv'
    BY <1>1, <1>12 DEF stop_irq, DsaInv, HeldInv, SteerPcs, MetaPcs, Refused
  <2>4. QED
    BY <1>2, <2>1, <2>2, <2>3
<1>13. CASE stop_napi
  <2>1. LifeTypeOK' /\ NapiInv'
    BY <1>1, <1>13, AcquireDomain DEF stop_napi, Pcs, NapiInv, QuietPcs, PollPcs
  <2>2. PpeInv'
    BY <1>1, <1>13 DEF stop_napi, PpeInv, HeldInv, SteerPcs, DsaInv, Refused, block_vars
  <2>3. DsaInv'
    BY <1>1, <1>13 DEF stop_napi, DsaInv, HeldInv, SteerPcs, MetaPcs, Refused
  <2>4. QED
    BY <1>2, <2>1, <2>2, <2>3
<1>14. CASE stop_work
  <2>1. LifeTypeOK' /\ NapiInv'
    BY <1>1, <1>14, AcquireDomain DEF stop_work, cancel_work_sync, Pcs, NapiInv, QuietPcs, PollPcs
  <2>2. PpeInv'
    BY <1>1, <1>14 DEF stop_work, PpeInv, HeldInv, SteerPcs, DsaInv, Refused, block_vars
  <2>3. DsaInv'
    BY <1>1, <1>14 DEF stop_work, DsaInv, HeldInv, SteerPcs, MetaPcs, Refused
  <2>4. QED
    BY <1>2, <2>1, <2>2, <2>3
<1>15. CASE stop_dma
  <2>1. LifeTypeOK' /\ NapiInv'
    BY <1>1, <1>15, AcquireDomain DEF stop_dma, dma_disable, Pcs, NapiInv, QuietPcs, PollPcs
  <2>2. PpeInv'
    BY <1>1, <1>15 DEF stop_dma, PpeInv, HeldInv, SteerPcs, DsaInv, Refused, block_vars
  <2>3. DsaInv'
    BY <1>1, <1>15 DEF stop_dma, DsaInv, HeldInv, SteerPcs, MetaPcs, Refused
  <2>4. QED
    BY <1>2, <2>1, <2>2, <2>3
<1>16. CASE stop_ppe
  <2>1. LifeTypeOK' /\ NapiInv'
    BY <1>1, <1>16, AcquireDomain DEF stop_ppe, Pcs, NapiInv, QuietPcs, PollPcs
  <2>2. PpeInv'
    BY <1>1, <1>16 DEF stop_ppe, PpeInv, HeldInv, SteerPcs, DsaInv, Refused, block_vars
  <2>3. DsaInv'
    BY <1>1, <1>16 DEF stop_ppe, DsaInv, HeldInv, SteerPcs, MetaPcs, Refused
  <2>4. QED
    BY <1>2, <2>1, <2>2, <2>3
<1>17. CASE stop_rings
  <2>1. LifeTypeOK' /\ NapiInv'
    BY <1>1, <1>17, AcquireDomain DEF stop_rings, Pcs, NapiInv, QuietPcs, PollPcs
  <2>2. PpeInv'
    BY <1>1, <1>17 DEF stop_rings, PpeInv, HeldInv, SteerPcs, DsaInv, Refused, block_vars
  <2>3. DsaInv'
    BY <1>1, <1>17 DEF stop_rings, DsaInv, HeldInv, SteerPcs, MetaPcs, Refused
  <2>4. QED
    BY <1>2, <2>1, <2>2, <2>3
<1>18. QED
  BY <1>3, <1>4, <1>5, <1>6, <1>7, <1>8, <1>9, <1>10, <1>11, <1>12, <1>13, <1>14, <1>15,
     <1>16, <1>17 DEF RunStep

-----------------------------------------------------------------------------
(* What runs beside the operations.                                        *)

BesideStep == irq \/ poll_end \/ dim_run \/ dma_drains \/ dsa_changes \/ remove_begin

LEMMA BesideKeeps ==
  ASSUME LifeInv, BesideStep
  PROVE  LifeInv'
<1> USE DEF LifeInv
<1>1. /\ UNCHANGED <<board, pc, pos, held, tx_on, ppe_on, ralink_dsa, hw>>
      /\ UNCHANGED mdio_vars /\ UNCHANGED block_vars
  BY DEF BesideStep, irq, poll_end, dim_run, dma_drains, dsa_changes, remove_begin, life_frame,
         run_vars
<1>2. ProbeHolds' = ProbeHolds /\ \A n : Acquired(n)' = Acquired(n)
  BY <1>1, ProbeHoldsSame DEF Acquired, Wanted
<1>3. \/ /\ irq_on /\ irq_on' = FALSE /\ napi' = (IF napi = "idle" THEN "sched" ELSE napi)
         /\ UNCHANGED <<dma, dim_work>>
      \/ /\ napi = "sched" /\ napi' = "idle" /\ irq_on' = TRUE
         /\ dim_work' = dim_work \/ dim_work' = TRUE
         /\ UNCHANGED dma
      \/ dim_work' = FALSE /\ UNCHANGED <<dma, napi, irq_on>>
      \/ dma = "stuck" /\ dma' = "off" /\ UNCHANGED <<napi, irq_on, dim_work>>
      \/ UNCHANGED <<dma, napi, irq_on, dim_work>>
  BY DEF BesideStep, irq, poll_end, dim_run, dma_drains, dsa_changes, remove_begin, life_frame,
         run_vars
<1>4. dsa' \in BOOLEAN /\ leaving' \in BOOLEAN
  BY DEF BesideStep, irq, poll_end, dim_run, dma_drains, dsa_changes, remove_begin, life_frame,
         LifeTypeOK
<1>5. /\ irq_on' \in BOOLEAN /\ dim_work' \in BOOLEAN
      /\ napi' \in {"off", "idle", "sched"} /\ dma' \in {"off", "boot", "on", "stuck"}
  BY <1>3, Zenon DEF LifeTypeOK
<1>6. LifeTypeOK'
  BY <1>1, <1>2, <1>4, <1>5 DEF LifeTypeOK
<1>7. HeldInv'
  BY <1>1, <1>2 DEF HeldInv, Releasing, Acquired, Wanted
<1>8. NapiInv'
  <2>1. napi = "sched" => pc \in PollPcs
    BY DEF NapiInv
  <2>2. dim_work' => dim_work \/ pc \in PollPcs
    BY <1>3, <2>1, Zenon
  <2>3. napi' # "off" <=> napi # "off"
    BY <1>3
  <2>4. pc \in QuietPcs => ~ irq_on' /\ napi' = "idle"
    BY <1>3 DEF NapiInv
  <2>5. QED
    BY <1>1, <2>2, <2>3, <2>4 DEF NapiInv
<1>9. DmaInv'
  BY <1>1, <1>3 DEF DmaInv
<1>10. PpeInv' /\ DsaInv' /\ BusInv'
  BY <1>1 DEF PpeInv, DsaInv, BusInv, Refused, mdio_vars, block_vars
<1>11. QED
  BY <1>6, <1>7, <1>8, <1>9, <1>10

-----------------------------------------------------------------------------
(* Flow blocks and the bus, seen from the life of the driver.              *)

LEMMA SetupTcKeeps ==
  ASSUME LifeInv, NEW b \in Blocks, NEW p \in Ports, setup_tc(b, p)
  PROVE  LifeInv'
<1> USE DEF LifeInv
<1>1. /\ UNCHANGED <<board, pc, pos, held, leaving, dsa, ralink_dsa, hw>>
      /\ UNCHANGED mdio_vars /\ UNCHANGED run_vars
  BY DEF setup_tc, life_frame
<1>2. ProbeHolds' = ProbeHolds
  BY <1>1, ProbeHoldsSame
<1>3. LifeTypeOK'
  BY <1>1, <1>2 DEF LifeTypeOK, run_vars
<1>4. HeldInv'
  BY <1>1, <1>2 DEF HeldInv, Releasing, Acquired, Wanted
<1>5. NapiInv' /\ DmaInv' /\ DsaInv' /\ BusInv'
  <2>1. NapiInv'
    BY <1>1 DEF NapiInv, run_vars
  <2>2. DmaInv'
    BY <1>1 DEF DmaInv, run_vars
  <2>3. DsaInv' /\ BusInv'
    BY <1>1 DEF DsaInv, BusInv, Refused, mdio_vars
  <2>4. QED
    BY <2>1, <2>2, <2>3
<1>6. "ndev" \in held => pc \in {"bound"} \cup RunPcs
  <2>1. SUFFICES ASSUME "ndev" \in held PROVE pc \in {"bound"} \cup RunPcs
    OBVIOUS
  <2>2. pos \in 1 .. 11
    BY AcquireDomain DEF LifeTypeOK
  <2>3. pc # "probe"
    BY <2>1, <2>2, AcquiredHas DEF HeldInv, Has
  <2>4. pc # "unwind"
    BY <2>1, <2>2, UnwindAt, ListLengths DEF HeldInv, Releasing, Left, ManagedSet
  <2>5. pc # "remove"
    BY <2>1, <2>2, RemoveAt, ListLengths DEF HeldInv, Releasing, Left, ManagedSet
  <2>6. pc # "devres"
    BY <2>1, <2>2, DevresAt, ListLengths DEF HeldInv, Left, ManagedSet
  <2>7. QED
    BY <2>1, <2>3, <2>4, <2>5, <2>6 DEF HeldInv, LifeTypeOK, Pcs
<1>7. "ndev" \in held /\ board.ppe # "none"
  BY DEF setup_tc
<1>8. PpeInv'
  BY <1>1, <1>6, <1>7 DEF PpeInv, run_vars
<1>9. QED
  BY <1>3, <1>4, <1>5, <1>8

LEMMA MdioKeeps ==
  ASSUME LifeInv, mdio_hw \/ \E u \in Users : mdio(u)
  PROVE  LifeInv'
<1> USE DEF LifeInv
<1>1. UNCHANGED life_vars /\ UNCHANGED block_vars /\ hw' = hw
  BY DEF mdio_hw, mdio, MdioPerform, mdio_enter, mdio_step, mdio_wait_first, mdio_timeout_first,
     mdio_program, mdio_trigger, mdio_done, mdio_timeout_done, mdio_leave
<1>2. UNCHANGED <<board, pc, pos, held, leaving, dsa, ralink_dsa>> /\ UNCHANGED run_vars
  BY <1>1 DEF life_vars
<1>3. ProbeHolds' = ProbeHolds
  BY <1>2, ProbeHoldsSame
<1>4. LifeTypeOK'
  BY <1>2, <1>3 DEF LifeTypeOK, run_vars
<1>5. HeldInv'
  BY <1>2, <1>3 DEF HeldInv, Releasing, Acquired, Wanted
<1>6. NapiInv' /\ DmaInv' /\ PpeInv' /\ DsaInv'
  <2>1. NapiInv'
    BY <1>2 DEF NapiInv, run_vars
  <2>2. DmaInv'
    BY <1>1, <1>2 DEF DmaInv, run_vars
  <2>3. PpeInv' /\ DsaInv'
    BY <1>1, <1>2 DEF PpeInv, DsaInv, Refused, run_vars, block_vars
  <2>4. QED
    BY <2>1, <2>2, <2>3
<1>7. BusInv'
  <2>1. CASE mdio_hw
    BY <1>2, <2>1 DEF mdio_hw, MdioPerform, BusInv
  <2>2. CASE \E u \in Users : mdio(u)
    <3>1. "mdio" \in held
      BY <2>2 DEF mdio
    <3>2. pc # "devres" => "hw" \in held
      <4>1. pos \in 1 .. 11 /\ pc \in Pcs
        BY AcquireDomain DEF LifeTypeOK
      <4>2. pc = "probe" => "hw" \in held
        BY <3>1, <4>1, AcquiredHas DEF HeldInv, Has
      <4>3. pc \in {"bound"} \cup RunPcs => "hw" \in held
        BY ProbeHoldsHas DEF HeldInv, Has
      <4>4. QED
        BY <3>1, <4>1, <4>2, <4>3 DEF HeldInv, Releasing, Pcs
    <3>3. QED
      BY <1>2, <3>1, <3>2 DEF BusInv
  <2>3. QED
    BY <2>1, <2>2
<1>8. QED
  BY <1>4, <1>5, <1>6, <1>7

-----------------------------------------------------------------------------
(* Probe, its unwinding, and remove.                                       *)

LEMMA AcquiredGrows ==
  ASSUME NEW n \in 1 .. 11
  PROVE  Acquired(n + 1) = IF Wanted(Acquire[n]) THEN Acquired(n) \cup {Acquire[n]} ELSE Acquired(n)
  BY DEF Acquired

LEMMA AcquiredSame == ASSUME board' = board PROVE \A n : Acquired(n)' = Acquired(n)
  BY DEF Acquired, Wanted

\* Outside NetPcs neither NAPI nor the stack nor DIM work runs.
LEMMA OutsideQuiet ==
  ASSUME LifeInv, pc \notin {"bound"} \cup RunPcs
  PROVE  napi = "off" /\ tx_on = FALSE /\ dim_work = FALSE /\ block_cb = {} /\ dma # "on"
  BY DEF LifeInv, LifeTypeOK, NapiInv, DmaInv, PpeInv, RunPcs, QuietPcs, PollPcs, DmaPcs

LEMMA ProbeStepKeeps ==
  ASSUME LifeInv, NEW r, probe_step(r)
  PROVE  LifeInv'
<1> USE DEF LifeInv
<1>1. /\ pc = "probe" /\ pos \in 1 .. 11 /\ r = Acquire[pos] /\ r # "quiet" /\ pos # 8
      /\ held = Acquired(pos) /\ (r = "ndev" <=> pos = 11) /\ (r = "ppe" <=> pos = 10)
  BY AcquireDomain, AcquireAt DEF probe_step, LifeTypeOK, HeldInv
<1>2. /\ UNCHANGED <<board, leaving, dsa, dma, napi, irq_on, tx_on, dim_work, ralink_dsa>>
      /\ UNCHANGED mdio_vars /\ UNCHANGED block_vars
      /\ IF pos = 11 THEN pc' = "bound" /\ pos' = 1 ELSE pc' = "probe" /\ pos' = pos + 1
  BY <1>1 DEF probe_step, others
<1>3. held' = Acquired(pos + 1) /\ held \subseteq held'
  BY <1>1, AcquiredGrows DEF probe_step
<1>4. /\ ProbeHolds' = ProbeHolds /\ \A n : Acquired(n)' = Acquired(n)
      /\ Acquired(12) = ProbeHolds
  BY <1>2, ProbeHoldsSame, AcquiredSame, AcquiredHas, ProbeHoldsHas
<1>5. napi = "off" /\ tx_on = FALSE /\ dim_work = FALSE /\ block_cb = {} /\ dma # "on"
  BY <1>1, OutsideQuiet DEF RunPcs
<1>6. board.ppe \in {"none", "v1", "v2"}
  BY BoardAssumption DEF LifeTypeOK
<1>7. ppe_on' \in BOOLEAN /\ (ppe_on' <=> board.ppe = "v2" /\ pos >= 10)
  <2>1. ppe_on \in BOOLEAN /\ (ppe_on <=> board.ppe = "v2" /\ pos > 10)
    BY <1>1 DEF LifeTypeOK, PpeInv
  <2>2. ppe_on' = (ppe_on \/ (r = "ppe" /\ board.ppe = "v2"))
    BY DEF probe_step
  <2>3. pos >= 10 <=> pos > 10 \/ r = "ppe"
    BY <1>1
  <2>4. QED
    BY <2>1, <2>2, <2>3, Zenon
<1>8. LifeTypeOK'
  <2>1. held' \subseteq ProbeHolds
    BY <1>1, <1>3, AcquiredHas, ProbeHoldsHas DEF Has
  <2>2. pc' \in Pcs /\ pos' \in DOMAIN Acquire
    BY <1>1, <1>2, AcquireDomain DEF Pcs
  <2>3. QED
    BY <1>2, <1>4, <1>7, <2>1, <2>2 DEF LifeTypeOK
<1>9. HeldInv'
  <2>1. "meta" \notin held'
    BY <1>1, <1>3, AcquiredHas DEF Has
  <2>2. pc' = "probe" => held' = Acquired(pos)'
    BY <1>1, <1>2, <1>3 DEF Acquired, Wanted
  <2>3. pc' = "bound" => pos' = 1 /\ held' = ProbeHolds'
    BY <1>1, <1>2, <1>3, <1>4
  <2>4. pc' \in {"probe", "bound"}
    BY <1>2
  <2>5. QED
    BY <2>1, <2>2, <2>3, <2>4 DEF HeldInv, RunPcs
<1>10. NapiInv' /\ DsaInv'
  BY <1>1, <1>2, <1>5 DEF NapiInv, DsaInv, RunPcs, QuietPcs, PollPcs, SteerPcs
<1>11. DmaInv'
  BY <1>1, <1>2, <1>5 DEF DmaInv
<1>12. PpeInv'
  <2>1. ppe_on' => {"hw", "ppe"} \subseteq held'
    BY <1>1, <1>3, <1>7, AcquiredHas DEF Has
  <2>2. block_cb' = {}
    BY <1>2, <1>5 DEF block_vars
  <2>3. QED
    <3>1. pc' = "probe" => (pos' > 10 <=> pos >= 10)
      BY <1>1, <1>2
    <3>2. pc' = "bound" => pos >= 10
      BY <1>1, <1>2
    <3>3. pc' \in {"probe", "bound"} /\ board' = board
      BY <1>2
    <3>4. QED
      BY <1>7, <2>1, <2>2, <3>1, <3>2, <3>3 DEF PpeInv, RunPcs, SteerPcs
<1>13. BusInv'
  BY <1>1, <1>2, <1>3 DEF BusInv, mdio_vars
<1>14. QED
  BY <1>8, <1>9, <1>10, <1>11, <1>12, <1>13

LEMMA ProbeQuietKeeps ==
  ASSUME LifeInv, probe_quiet
  PROVE  LifeInv'
<1> USE DEF LifeInv
<1>1. /\ pc = "probe" /\ pos = 8 /\ held = Acquired(8)
  BY AcquireDomain, AcquireAt DEF probe_quiet, LifeTypeOK, HeldInv
<1>2. /\ UNCHANGED <<board, leaving, dsa, hw, pc, held, napi, tx_on, dim_work, ppe_on, ralink_dsa>>
      /\ UNCHANGED mdio_vars /\ UNCHANGED block_vars
      /\ pos' = 9 /\ irq_on' = FALSE /\ dma' \in {"off", "stuck"}
  BY <1>1 DEF probe_quiet, others, dma_disable
<1>3. /\ ProbeHolds' = ProbeHolds /\ \A n : Acquired(n)' = Acquired(n)
      /\ Acquired(9) = Acquired(8)
  BY <1>2, ProbeHoldsSame, AcquiredSame, AcquiredGrows, AcquireAt, WantedIs
<1>4. LifeTypeOK'
  <2>1. pos' \in DOMAIN Acquire /\ irq_on' \in BOOLEAN /\ dma' \in {"off", "boot", "on", "stuck"}
    <3>1. pos' \in DOMAIN Acquire
      BY <1>2, AcquireDomain
    <3>2. irq_on' \in BOOLEAN /\ dma' \in {"off", "boot", "on", "stuck"}
      BY <1>2, Zenon
    <3>3. QED
      BY <3>1, <3>2
  <2>2. QED
    BY <1>2, <1>3, <2>1 DEF LifeTypeOK
<1>5. HeldInv'
  BY <1>1, <1>2, <1>3 DEF HeldInv, RunPcs
<1>6. NapiInv'
  BY <1>1, <1>2 DEF NapiInv, QuietPcs, PollPcs
<1>7. DmaInv'
  BY <1>1, <1>2 DEF DmaInv
<1>8. PpeInv' /\ DsaInv' /\ BusInv'
  BY <1>1, <1>2 DEF PpeInv, DsaInv, BusInv, RunPcs, SteerPcs, mdio_vars, block_vars
<1>9. QED
  BY <1>4, <1>5, <1>6, <1>7, <1>8

\* The label a failing step jumps to: everything acquired before it is behind
\* the label or managed.
LEMMA LabelCovers ==
  ASSUME NEW n \in 2 .. 11, n # 8
  PROVE  LET i == CHOOSE i \in DOMAIN Unwind : Unwind[i] = ErrLabel[Acquire[n]]
         IN  i \in 1 .. 6 /\ Acquired(n) \subseteq Left(Unwind, i) \cup ManagedSet
<1> DEFINE P(i) == Unwind[i] = ErrLabel[Acquire[n]]
           c == CHOOSE i \in DOMAIN Unwind : P(i)
           at == IF n <= 3 THEN 6 ELSE IF n = 4 THEN 5 ELSE IF n = 5 THEN 4
                 ELSE IF n <= 7 THEN 3 ELSE IF n <= 10 THEN 2 ELSE 1
<1>1. ErrLabel[Acquire[n]] = IF n <= 3 THEN "hw" ELSE IF n = 4 THEN "napi" ELSE IF n = 5 THEN "pp"
                             ELSE IF n <= 7 THEN "moder" ELSE IF n <= 10 THEN "phylink" ELSE "ppe"
  BY AcquireAt DEF ErrLabel
<1>2. at \in 1 .. 6 /\ P(at)
  BY <1>1 DEF Unwind
<1>3. c \in 1 .. 6 /\ P(c)
  BY <1>2, ListLengths
<1>4. c = at
  BY <1>1, <1>3, UnwindAt
<1> HIDE DEF c
<1>5. ASSUME NEW r \in Acquired(n) PROVE r \in Left(Unwind, c) \cup ManagedSet
  <2>1. Has(r, n)
    BY AcquiredHas
  <2>2. \A j \in c .. 6 : Unwind[j] \in Left(Unwind, c)
    BY ListLengths DEF Left
  <2>3. r \in ManagedSet \/ \E j \in c .. 6 : r = Unwind[j]
    BY <1>4, <2>1 DEF Has, ManagedSet, Unwind
  <2>4. QED
    BY <2>2, <2>3
<1>6. QED
  BY <1>3, <1>5 DEF c

LEMMA ProbeFailsKeeps ==
  ASSUME LifeInv, NEW r, probe_fails(r)
  PROVE  LifeInv'
<1> USE DEF LifeInv
<1>1. /\ pc = "probe" /\ pos \in 1 .. 11 /\ r = Acquire[pos] /\ pos # 8
      /\ held = Acquired(pos) /\ (r = "hw" <=> pos = 1)
  BY AcquireDomain, AcquireAt, WantedIs DEF probe_fails, LifeTypeOK, HeldInv
<1>2. /\ UNCHANGED <<board, leaving, dsa, held, ralink_dsa, hw>>
      /\ UNCHANGED run_vars /\ UNCHANGED mdio_vars /\ UNCHANGED block_vars
  BY DEF probe_fails, others
<1>3. \/ pos = 1 /\ pc' = "devres" /\ pos' = 1
      \/ pos # 1 /\ pc' = "unwind" /\ pos' = CHOOSE i \in DOMAIN Unwind : Unwind[i] = ErrLabel[r]
  BY <1>1 DEF probe_fails
<1>4. ProbeHolds' = ProbeHolds
  BY <1>2, ProbeHoldsSame
<1>5. pos' \in 1 .. 6 /\ pc' \in {"devres", "unwind"}
  <2>1. CASE pos = 1
    BY <1>3, <2>1
  <2>2. CASE pos # 1
    <3>1. pos \in 2 .. 11
      BY <1>1, <2>2
    <3>2. QED
      BY <1>1, <1>3, <2>2, <3>1, LabelCovers
  <2>3. QED
    BY <2>1, <2>2
<1>6. LifeTypeOK'
  BY <1>2, <1>4, <1>5, AcquireDomain DEF LifeTypeOK, run_vars, Pcs
<1>7. HeldInv'
  <2>1. "meta" \notin held
    BY <1>1, AcquiredHas DEF Has
  <2>2. CASE pos = 1
    <3>1. held = {}
      BY <1>1, <2>2, AcquiredHas DEF Has
    <3>2. QED
      BY <1>1, <1>2, <1>3, <2>2, <3>1 DEF HeldInv, RunPcs, Left
  <2>3. CASE pos # 1
    <3>1. held \subseteq Left(Unwind, pos') \cup ManagedSet
      BY <1>1, <1>3, <2>3, LabelCovers
    <3>2. "hw" \in held /\ ("phylink" \in held /\ board.bus => "mdio" \in held)
      BY <1>1, <2>3, AcquiredHas DEF Has
    <3>3. Releasing(Unwind)'
      BY <1>2, <1>5, <3>1, <3>2 DEF Releasing, Left
    <3>4. QED
      BY <1>2, <1>3, <2>1, <2>3, <3>3 DEF HeldInv, RunPcs
  <2>4. QED
    BY <2>2, <2>3
<1>8. NapiInv' /\ DsaInv'
  <2>1. napi = "off" /\ tx_on = FALSE /\ dim_work = FALSE
    BY <1>1, OutsideQuiet DEF RunPcs
  <2>2. QED
    BY <1>2, <1>5, <2>1 DEF NapiInv, DsaInv, RunPcs, QuietPcs, PollPcs, SteerPcs, run_vars
<1>9. DmaInv'
  BY <1>1, <1>2, <1>3 DEF DmaInv, DmaPcs, run_vars
<1>10. PpeInv'
  BY <1>1, <1>2, <1>5 DEF PpeInv, RunPcs, run_vars, block_vars
<1>11. BusInv'
  BY <1>1, <1>2, <1>3 DEF BusInv, mdio_vars
<1>12. QED
  BY <1>6, <1>7, <1>8, <1>9, <1>10, <1>11

\* One release of a list that ends with "hw".
LEMMA ReleaseHolds ==
  ASSUME LifeInv, NEW op \in {"unwind", "remove"}, NEW list, Len(list) = 6,
         \A i \in 1 .. 6 : /\ list[i] \notin ManagedSet
                           /\ list[i] = "hw" <=> i = 6,
         pc = op, Releasing(list), release_step(op, list)
  PROVE  /\ held' = held \ {list[pos]} /\ pos \in 1 .. 6
         /\ IF pos = 6 THEN pc' = "devres" /\ pos' = 1 /\ held' \subseteq Left(Devres, 1)
                       ELSE pc' = op /\ pos' = pos + 1 /\ Releasing(list)'
         /\ LifeTypeOK' /\ NapiInv' /\ DmaInv' /\ PpeInv' /\ DsaInv' /\ BusInv'
<1> USE DEF LifeInv
<1>1. pos \in 1 .. 6
  BY AcquireDomain DEF Releasing, LifeTypeOK
<1>2. /\ held' = held \ {list[pos]}
      /\ UNCHANGED <<board, leaving, dsa, mdio_pc, napi, tx_on, dim_work, ralink_dsa>>
      /\ UNCHANGED block_vars
      /\ IF pos < 6 THEN pos' = pos + 1 /\ pc' = op ELSE pos' = 1 /\ pc' = "devres"
  BY <1>1 DEF release_step, release
<1>3. /\ ppe_on' = (ppe_on /\ list[pos] # "ppe")
      /\ pos = 6 /\ board.rst => hw' = FALSE /\ dma' = "off" /\ irq_on' = FALSE
      /\ ~ (pos = 6 /\ board.rst) => dma' = dma /\ irq_on' = irq_on /\ (hw' <=> hw)
  <2>1. list[pos] = "hw" <=> pos = 6
    BY <1>1
  <2>2. board.rst \in BOOLEAN
    BY BoardAssumption DEF LifeTypeOK
  <2>3. QED
    <3>1. CASE pos = 6 /\ board.rst
      BY <2>1, <3>1 DEF release_step, release
    <3>2. CASE ~ (pos = 6 /\ board.rst)
      <4>1. ~ (list[pos] = "hw" /\ board.rst)
        BY <2>1, <3>2
      <4>2. ppe_on' = (ppe_on /\ list[pos] # "ppe") /\ dma' = dma
            /\ irq_on' = (irq_on /\ ~ FALSE) /\ hw' = (hw /\ ~ FALSE)
        BY <4>1, Zenon DEF release_step, release
      <4>3. irq_on \in BOOLEAN
        BY DEF LifeTypeOK
      <4>4. QED
        BY <3>2, <4>2, <4>3
    <3>3. QED
      BY <3>1, <3>2
<1>4. ProbeHolds' = ProbeHolds
  BY <1>2, ProbeHoldsSame
<1>5. pc \notin {"bound"} \cup RunPcs /\ pc' \notin {"bound", "probe", "unbound"} \cup RunPcs
  BY <1>2 DEF RunPcs
<1>6. napi = "off" /\ tx_on = FALSE /\ dim_work = FALSE /\ block_cb = {} /\ dma # "on"
  BY <1>5, OutsideQuiet
<1>7. pos = 6 => held' \subseteq Left(Devres, 1)
  BY <1>2, DevresLeft DEF Releasing, Left
<1>8. pos # 6 => Releasing(list)'
  <2> SUFFICES ASSUME pos # 6 PROVE Releasing(list)'
    OBVIOUS
  <2>1. list[pos] \notin ManagedSet /\ list[pos] # "hw"
    BY <1>1
  <2>2. pos' = pos + 1 /\ pos' <= 6
    BY <1>1, <1>2
  <2>3. held' \subseteq Left(list, pos') \cup ManagedSet
    <3>1. Left(list, pos) \ {list[pos]} \subseteq Left(list, pos + 1)
      BY <1>1, LeftShrinks
    <3>2. QED
      BY <1>2, <2>2, <3>1 DEF Releasing
  <2>4. "hw" \in held' /\ ("phylink" \in held' /\ board.bus => "mdio" \in held')
    BY <1>2, <2>1 DEF Releasing, ManagedSet
  <2>5. QED
    BY <1>2, <2>2, <2>3, <2>4 DEF Releasing, Left
<1>9. LifeTypeOK'
  <2>1. ppe_on' \in BOOLEAN
    BY <1>3
  <2>2. irq_on' \in BOOLEAN /\ dma' \in {"off", "boot", "on", "stuck"}
    BY <1>3, Zenon DEF LifeTypeOK
  <2>3. pc' \in Pcs /\ pos' \in DOMAIN Acquire
    BY <1>1, <1>2, AcquireDomain DEF Pcs
  <2>4. QED
    BY <1>2, <1>4, <2>1, <2>2, <2>3 DEF LifeTypeOK
<1>10. NapiInv' /\ DsaInv'
  BY <1>2, <1>5, <1>6 DEF NapiInv, DsaInv, RunPcs, QuietPcs, PollPcs, SteerPcs
<1>11. DmaInv'
  <2>1. pc' \in {"devres", op} /\ pc' \notin {"probe", "unbound"} /\ board' = board
    BY <1>2
  <2>2. dma' \in {dma, "off"}
    BY <1>3, Zenon
  <2>3. pc' = "devres" /\ board.rst => ~ hw' /\ dma' \in {"off", "boot"}
    BY <1>1, <1>2, <1>3
  <2>4. QED
    BY <1>5, <1>6, <2>1, <2>2, <2>3 DEF DmaInv
<1>12. PpeInv'
  <2>1. ppe_on' => {"hw", "ppe"} \subseteq held'
    <3>1. pos # 6 => "hw" # list[pos]
      BY <1>1
    <3>2. pos = 6 => ~ ppe_on
      <4>1. pos = 6 => list[6] = "hw" /\ Left(list, 6) = {list[6]}
        BY LeftShrinks
      <4>2. QED
        BY <4>1 DEF Releasing, PpeInv, ManagedSet
    <3>3. QED
      BY <1>2, <1>3, <3>1, <3>2 DEF PpeInv
  <2>2. QED
    BY <1>2, <1>5, <1>6, <2>1 DEF PpeInv, block_vars
<1>13. BusInv'
  <2>1. "mdio" \in held => "mdio" \in held'
    BY <1>1, <1>2 DEF ManagedSet
  <2>2. pc' # "devres" => "hw" \in held'
    BY <1>2, <1>8 DEF Releasing
  <2>3. QED
    BY <1>2, <2>1, <2>2 DEF BusInv
<1>14. QED
  BY <1>1, <1>2, <1>7, <1>8, <1>9, <1>10, <1>11, <1>12, <1>13

LEMMA UnwindKeeps ==
  ASSUME LifeInv, unwind
  PROVE  LifeInv'
<1>1. Len(Unwind) = 6 /\ \A i \in 1 .. 6 : Unwind[i] \notin ManagedSet /\ (Unwind[i] = "hw" <=> i = 6)
  BY UnwindAt, ListLengths DEF ManagedSet
<1>2. pc = "unwind" /\ release_step("unwind", Unwind) /\ Releasing(Unwind)
  BY DEF unwind, release_step, LifeInv, HeldInv
<1>3. /\ held' \subseteq held
      /\ \/ pc' = "devres" /\ pos' = 1 /\ held' \subseteq Left(Devres, 1)
         \/ pc' = "unwind" /\ Releasing(Unwind)'
      /\ LifeTypeOK' /\ NapiInv' /\ DmaInv' /\ PpeInv' /\ DsaInv' /\ BusInv'
  BY <1>1, <1>2, ReleaseHolds
<1>4. "meta" \notin held
  BY <1>2 DEF LifeInv, HeldInv, MetaPcs, RunPcs
<1>5. HeldInv'
  <2>1. pc' = "devres" => pos' <= 3 /\ held' \subseteq Left(Devres, pos)'
    BY <1>3 DEF Left
  <2>2. QED
    BY <1>3, <1>4, <2>1 DEF HeldInv, RunPcs
<1>6. QED
  BY <1>3, <1>5 DEF LifeInv

LEMMA RemoveKeeps ==
  ASSUME LifeInv, remove
  PROVE  LifeInv'
<1>1. Len(Remove) = 6 /\ \A i \in 1 .. 6 : Remove[i] \notin ManagedSet /\ (Remove[i] = "hw" <=> i = 6)
  BY RemoveAt, ListLengths DEF ManagedSet
<1>2. pc = "remove" /\ release_step("remove", Remove) /\ Releasing(Remove)
  BY DEF remove, release_step, LifeInv, HeldInv
<1>3. /\ held' \subseteq held
      /\ \/ pc' = "devres" /\ pos' = 1 /\ held' \subseteq Left(Devres, 1)
         \/ pc' = "remove" /\ Releasing(Remove)'
      /\ LifeTypeOK' /\ NapiInv' /\ DmaInv' /\ PpeInv' /\ DsaInv' /\ BusInv'
  BY <1>1, <1>2, ReleaseHolds
<1>4. "meta" \notin held
  BY <1>2 DEF LifeInv, HeldInv, MetaPcs, RunPcs
<1>5. HeldInv'
  <2>1. pc' = "devres" => pos' <= 3 /\ held' \subseteq Left(Devres, pos)'
    BY <1>3 DEF Left
  <2>2. QED
    BY <1>3, <1>4, <2>1 DEF HeldInv, RunPcs
<1>6. QED
  BY <1>3, <1>5 DEF LifeInv

LEMMA UnregisterKeeps ==
  ASSUME LifeInv, BlockInv, unregister_netdev
  PROVE  LifeInv'
<1> USE DEF LifeInv
<1>1. /\ pc = "bound" /\ pos = 1 /\ held = ProbeHolds /\ held' = held \ {"ndev"}
      /\ pc' = "remove" /\ pos' = 1
      /\ UNCHANGED <<board, leaving, dsa, ralink_dsa, hw>>
      /\ UNCHANGED run_vars /\ UNCHANGED mdio_vars /\ UNCHANGED block_vars
  BY DEF unregister_netdev, others, HeldInv
<1>2. block_cb = {}
  BY DEF unregister_netdev, BlockInv, BlockTypeOK, RefcntInv
<1>3. ProbeHolds' = ProbeHolds
  BY <1>1, ProbeHoldsSame
<1>4. LifeTypeOK'
  BY <1>1, <1>3, AcquireDomain DEF LifeTypeOK, run_vars, Pcs
<1>5. HeldInv'
  <2>1. held' \subseteq Left(Remove, 1) \cup ManagedSet
    <3>1. \A j \in 1 .. 6 : Remove[j] \in Left(Remove, 1)
      BY ListLengths DEF Left
    <3>2. ASSUME NEW r \in held' PROVE r \in ManagedSet \/ \E j \in 1 .. 6 : r = Remove[j]
      <4>1. Has(r, 12) /\ r # "ndev"
        BY <1>1, ProbeHoldsHas
      <4>2. QED
        BY <4>1 DEF Has, ManagedSet, Remove
    <3>3. QED
      BY <3>1, <3>2
  <2>2. "hw" \in held' /\ ("phylink" \in held' /\ board.bus => "mdio" \in held') /\ "meta" \notin held'
    BY <1>1, ProbeHoldsHas DEF Has
  <2>3. Releasing(Remove)'
    BY <1>1, <2>1, <2>2 DEF Releasing, Left
  <2>4. QED
    BY <1>1, <2>2, <2>3 DEF HeldInv, RunPcs
<1>6. NapiInv' /\ DsaInv'
  BY <1>1 DEF NapiInv, DsaInv, RunPcs, QuietPcs, PollPcs, SteerPcs, run_vars
<1>7. DmaInv'
  BY <1>1 DEF DmaInv, DmaPcs, run_vars
<1>8. PpeInv'
  BY <1>1, <1>2 DEF PpeInv, RunPcs, run_vars, block_vars
<1>9. BusInv'
  BY <1>1 DEF BusInv, mdio_vars
<1>10. QED
  BY <1>4, <1>5, <1>6, <1>7, <1>8, <1>9

LEMMA DevresKeeps ==
  ASSUME LifeInv, devres
  PROVE  LifeInv'
<1> USE DEF LifeInv
<1>1. /\ pc = "devres" /\ pos \in 1 .. 3 /\ held \subseteq Left(Devres, pos)
      /\ held' = held \ {Devres[pos]}
      /\ UNCHANGED <<board, leaving, dsa, ralink_dsa, hw>>
      /\ UNCHANGED run_vars /\ UNCHANGED mdio_vars /\ UNCHANGED block_vars
      /\ IF pos < 3 THEN pos' = pos + 1 /\ pc' = "devres" ELSE pos' = 1 /\ pc' = "unbound"
  BY AcquireDomain, ListLengths DEF devres, others, HeldInv, LifeTypeOK
<1>2. ProbeHolds' = ProbeHolds
  BY <1>1, ProbeHoldsSame
<1>3. Left(Devres, pos) \subseteq ManagedSet
  BY <1>1, DevresAt, ListLengths DEF Left
<1>4. LifeTypeOK'
  <2>1. pc' \in Pcs /\ pos' \in DOMAIN Acquire
    BY <1>1, AcquireDomain DEF Pcs
  <2>2. QED
    BY <1>1, <1>2, <2>1 DEF LifeTypeOK, run_vars
<1>5. HeldInv'
  <2>1. pos < 3 => held' \subseteq Left(Devres, pos + 1)
    BY <1>1, LeftShrinks, ListLengths
  <2>2. pos = 3 => held' = {}
    <3>1. Left(Devres, 3) = {Devres[3]}
      BY LeftShrinks, ListLengths
    <3>2. QED
      BY <1>1, <3>1
  <2>3. "meta" \notin held'
    BY <1>1, <1>3 DEF ManagedSet
  <2>4. pc' = "devres" => pos' <= 3 /\ held' \subseteq Left(Devres, pos)'
    BY <1>1, <2>1 DEF Left
  <2>5. pc' = "unbound" => pos' = 1 /\ held' = {}
    BY <1>1, <2>2
  <2>6. QED
    BY <1>1, <2>3, <2>4, <2>5 DEF HeldInv, RunPcs
<1>6. NapiInv' /\ DsaInv'
  BY <1>1 DEF NapiInv, DsaInv, RunPcs, QuietPcs, PollPcs, SteerPcs, run_vars
<1>7. DmaInv'
  BY <1>1 DEF DmaInv, DmaPcs, run_vars
<1>8. PpeInv'
  <2>1. ~ ppe_on /\ block_cb = {}
    BY <1>1, <1>3 DEF PpeInv, ManagedSet, RunPcs
  <2>2. QED
    BY <1>1, <2>1 DEF PpeInv, RunPcs, run_vars, block_vars
<1>9. BusInv'
  <2> SUFFICES ASSUME NEW u \in Users, mdio_pc[u] # "idle"
               PROVE  "mdio" \in held' /\ pc' = "devres"
    BY <1>1 DEF BusInv, mdio_vars
  <2>1. "mdio" \in held /\ Devres[pos] # "mdio"
    BY DEF BusInv, devres
  <2>2. pos # 3
    BY <1>1, <2>1, DevresLeft
  <2>3. QED
    BY <1>1, <2>1, <2>2
<1>10. QED
  BY <1>4, <1>5, <1>6, <1>7, <1>8, <1>9

LEMMA RebindKeeps ==
  ASSUME LifeInv, rebind
  PROVE  LifeInv'
<1> USE DEF LifeInv
<1>1. /\ pc = "unbound" /\ pc' = "probe" /\ pos = 1 /\ held = {} /\ ralink_dsa' = FALSE
      /\ leaving' = FALSE /\ irq_on' = FALSE
      /\ UNCHANGED <<board, pos, held, dma, napi, tx_on, dim_work, ppe_on, dsa, hw>>
      /\ UNCHANGED mdio_vars /\ UNCHANGED block_vars
  BY DEF rebind, HeldInv
<1>2. ProbeHolds' = ProbeHolds
  BY <1>1, ProbeHoldsSame
<1>3. LifeTypeOK'
  <2>1. ralink_dsa' \in BOOLEAN /\ leaving' \in BOOLEAN /\ irq_on' \in BOOLEAN /\ pc' \in Pcs
    BY <1>1 DEF Pcs
  <2>2. QED
    BY <1>1, <1>2, <2>1 DEF LifeTypeOK
<1>4. HeldInv'
  BY <1>1 DEF HeldInv, RunPcs, Acquired
<1>5. NapiInv' /\ DsaInv'
  BY <1>1 DEF NapiInv, DsaInv, RunPcs, QuietPcs, PollPcs, SteerPcs
<1>6. DmaInv'
  BY <1>1 DEF DmaInv, DmaPcs
<1>7. PpeInv'
  BY <1>1 DEF PpeInv, RunPcs, block_vars
<1>8. BusInv'
  BY <1>1 DEF BusInv, mdio_vars
<1>9. QED
  BY <1>3, <1>4, <1>5, <1>6, <1>7, <1>8

-----------------------------------------------------------------------------
(* The three invariants together.                                          *)

LEMMA LifeInitially == Init => LifeIInv
<1> SUFFICES ASSUME Init PROVE LifeIInv
  OBVIOUS
<1>1. MdioInv /\ BlockInv
  BY MdioInitially, BlockInitially DEF Init
<1>2. board \in Boards /\ pc = "probe" /\ pos = 1 /\ held = {} /\ block_cb = {}
      /\ napi = "off" /\ tx_on = FALSE /\ dim_work = FALSE /\ ppe_on = FALSE /\ dma \in {"off", "boot"}
      /\ hw = FALSE /\ irq_on = FALSE /\ ralink_dsa = FALSE
  BY DEF Init, BlockInit
<1>3. leaving = FALSE /\ dsa = FALSE /\ (\A u \in Users : mdio_pc[u] = "idle")
  BY DEF Init, MdioInit
<1>4. LifeTypeOK
  <2>1. leaving \in BOOLEAN /\ irq_on \in BOOLEAN /\ tx_on \in BOOLEAN /\ dim_work \in BOOLEAN
        /\ ppe_on \in BOOLEAN /\ dsa \in BOOLEAN /\ ralink_dsa \in BOOLEAN
    BY <1>2, <1>3
  <2>2. pc \in Pcs /\ pos \in DOMAIN Acquire
    BY <1>2, AcquireDomain DEF Pcs
  <2>3. QED
    BY <1>2, <2>1, <2>2 DEF LifeTypeOK
<1>5. HeldInv
  BY <1>2 DEF HeldInv, RunPcs, Acquired
<1>6. NapiInv /\ DmaInv /\ DsaInv
  BY <1>2 DEF NapiInv, DmaInv, DsaInv, RunPcs, QuietPcs, PollPcs, SteerPcs
<1>7. PpeInv /\ BusInv
  BY <1>2, <1>3 DEF PpeInv, BusInv, RunPcs
<1>8. QED
  BY <1>1, <1>4, <1>5, <1>6, <1>7 DEF LifeIInv, LifeInv

LEMMA LifeKeeps ==
  ASSUME LifeIInv, [Next]_vars
  PROVE  LifeInv'
<1> USE DEF LifeIInv
<1>1. CASE UNCHANGED vars
  <2>1. UNCHANGED <<board, pc, pos, held, leaving, hw, dsa, ralink_dsa>> /\ UNCHANGED run_vars
        /\ UNCHANGED mdio_vars /\ UNCHANGED block_vars
    BY <1>1 DEF vars, life_vars
  <2>2. ProbeHolds' = ProbeHolds
    BY <2>1, ProbeHoldsSame
  <2>3. LifeTypeOK' /\ NapiInv' /\ DmaInv'
    <3>1. LifeTypeOK'
      BY <2>1, <2>2 DEF LifeInv, LifeTypeOK, run_vars
    <3>2. NapiInv' /\ DmaInv'
      BY <2>1 DEF LifeInv, NapiInv, DmaInv, run_vars
    <3>3. QED
      BY <3>1, <3>2
  <2>4. HeldInv'
    BY <2>1, <2>2 DEF LifeInv, HeldInv, Releasing, Acquired, Wanted
  <2>5. PpeInv' /\ DsaInv' /\ BusInv'
    BY <2>1 DEF LifeInv, PpeInv, DsaInv, BusInv, Refused, run_vars, mdio_vars, block_vars
  <2>6. QED
    BY <2>3, <2>4, <2>5 DEF LifeInv
<1>2. CASE \E i \in DOMAIN Acquire : probe_step(Acquire[i]) \/ probe_fails(Acquire[i])
  BY <1>2, ProbeStepKeeps, ProbeFailsKeeps
<1>3. CASE RunStep
  BY <1>3, RunStepKeeps
<1>4. CASE BesideStep
  BY <1>4, BesideKeeps
<1>5. CASE probe_quiet \/ unwind \/ remove \/ unregister_netdev \/ devres \/ rebind
  BY <1>5, ProbeQuietKeeps, UnwindKeeps, RemoveKeeps, UnregisterKeeps, DevresKeeps, RebindKeeps
<1>6. CASE \E b \in Blocks, p \in Ports : setup_tc(b, p)
  BY <1>6, SetupTcKeeps
<1>7. CASE mdio_hw \/ \E u \in Users : mdio(u)
  BY <1>7, MdioKeeps
<1>8. QED
  BY <1>1, <1>2, <1>3, <1>4, <1>5, <1>6, <1>7 DEF Next, RunStep, BesideStep

\* Only the bus's own steps, probe's clock and the final reset touch the bus.
LEMMA BusKeeps ==
  ASSUME LifeIInv, [Next]_vars
  PROVE  MdioInv'
<1> USE DEF LifeIInv
<1>1. CASE \E u \in Users : mdio(u)
  BY <1>1, EnterKeeps, CommandKeeps, WaitKeeps, ReturnKeeps DEF mdio, mdio_step
<1>2. CASE mdio_hw
  BY <1>2, PerformKeeps DEF mdio_hw
<1>3. ASSUME NEW i \in DOMAIN Acquire, probe_step(Acquire[i]) PROVE MdioInv'
  <2>1. pc = "probe" /\ pos \in 1 .. 11 /\ Acquire[i] = Acquire[pos] /\ held = Acquired(pos)
    BY <1>3, AcquireDomain DEF probe_step, LifeInv, LifeTypeOK, HeldInv
  <2>2. UNCHANGED mdio_vars /\ hw' = (hw \/ Acquire[i] = "hw") /\ hw \in BOOLEAN
    BY <1>3 DEF probe_step, others, MdioInv, MdioTypeOK
  <2>3. Acquire[i] = "hw" => \A u \in Users : mdio_pc[u] = "idle"
    <3>1. Acquire[i] = "hw" => "mdio" \notin held
      <4>1. Acquire[i] = "hw" => pos = 1
        BY <2>1, AcquireAt
      <4>2. "mdio" \notin Acquired(1)
        BY AcquiredHas DEF Has
      <4>3. QED
        BY <2>1, <4>1, <4>2
    <3>2. QED
      BY <3>1 DEF LifeInv, BusInv
  <2>4. CASE Acquire[i] = "hw"
    BY <2>2, <2>3, <2>4, PowerKeeps DEF mdio_vars
  <2>5. CASE Acquire[i] # "hw"
    <3>1. hw' = hw
      BY <2>2, <2>5
    <3>2. QED
      BY <2>2, <3>1, PowerKeeps DEF mdio_vars
  <2>6. QED
    BY <2>4, <2>5
<1>4. ASSUME NEW r, release(r) PROVE MdioInv'
  <2>1. UNCHANGED <<mdio_lock, mdio_pc, call, performed, ret>> /\ hw \in BOOLEAN
    BY <1>4 DEF release, MdioInv, MdioTypeOK
  <2>2. CASE r = "hw" /\ board.rst
    <3>1. hw' = FALSE /\ access' = [trg |-> FALSE, cmd |-> Garbage, data |-> Garbage]
      BY <1>4, <2>2 DEF release
    <3>2. QED
      BY <2>1, <3>1, PowerKeeps
  <2>3. CASE ~ (r = "hw" /\ board.rst)
    <3>1. hw' = hw /\ access' = access
      <4>1. hw' = (hw /\ ~ (r = "hw" /\ board.rst)) /\ access' = access
        BY <1>4, <2>3, Zenon DEF release
      <4>2. QED
        BY <2>1, <2>3, <4>1
    <3>2. QED
      BY <2>1, <3>1, PowerKeeps
  <2>4. QED
    BY <2>2, <2>3
<1>5. CASE unwind \/ remove
  BY <1>4, <1>5 DEF unwind, remove, release_step
<1>6. ASSUME UNCHANGED hw, UNCHANGED mdio_vars PROVE MdioInv'
  <2>1. hw \in BOOLEAN
    BY DEF MdioInv, MdioTypeOK
  <2>2. QED
    BY <1>6, <2>1, PowerKeeps DEF mdio_vars
<1>7. ASSUME NEW i \in DOMAIN Acquire, probe_fails(Acquire[i]) PROVE MdioInv'
  BY <1>6, <1>7 DEF probe_fails, others
<1>8. CASE probe_quiet \/ remove_begin \/ unregister_netdev \/ devres \/ rebind \/ UNCHANGED vars
  BY <1>6, <1>8 DEF probe_quiet, remove_begin, unregister_netdev, devres, rebind, others, vars
<1>9. CASE RunStep
  BY <1>6, <1>9, RunStepHolds
<1>10. CASE BesideStep
  BY <1>6, <1>10 DEF BesideStep, irq, poll_end, dim_run, dma_drains, dsa_changes, remove_begin, life_frame
<1>11. CASE \E b \in Blocks, p \in Ports : setup_tc(b, p)
  BY <1>6, <1>11 DEF setup_tc, life_frame
<1>12. QED
  BY <1>1, <1>2, <1>3, <1>5, <1>7, <1>8, <1>9, <1>10, <1>11 DEF Next, RunStep, BesideStep

LEMMA BlocksKeep ==
  ASSUME LifeIInv, [Next]_vars
  PROVE  BlockInv'
<1> USE DEF LifeIInv
<1>1. CASE \E b \in Blocks, p \in Ports : setup_tc(b, p)
  BY <1>1, BlockStep DEF setup_tc
<1>2. ASSUME UNCHANGED block_vars PROVE BlockInv'
  BY <1>2 DEF BlockInv, BlockTypeOK, RefcntInv, block_vars
<1>3. ASSUME NEW i \in DOMAIN Acquire, probe_step(Acquire[i]) \/ probe_fails(Acquire[i])
      PROVE  BlockInv'
  BY <1>2, <1>3 DEF probe_step, probe_fails, others
<1>4. CASE probe_quiet \/ unwind \/ remove \/ remove_begin \/ unregister_netdev \/ devres \/ rebind
           \/ UNCHANGED vars
  BY <1>2, <1>4 DEF probe_quiet, unwind, remove, release_step, release, remove_begin,
     unregister_netdev, devres, rebind, others, vars
<1>5. CASE RunStep
  BY <1>2, <1>5, RunStepHolds
<1>6. CASE BesideStep
  BY <1>2, <1>6 DEF BesideStep, irq, poll_end, dim_run, dma_drains, dsa_changes, remove_begin
<1>7. CASE mdio_hw \/ \E u \in Users : mdio(u)
  BY <1>2, <1>7 DEF mdio_hw, mdio
<1>8. QED
  BY <1>1, <1>3, <1>4, <1>5, <1>6, <1>7 DEF Next, RunStep, BesideStep

-----------------------------------------------------------------------------
(* The theorems.                                                           *)

\* LifeIInv is an invariant of probe, open, stop and remove
\* (ralink_fe_probe and its labels, ralink_fe_open, ralink_fe_stop,
\* ralink_fe_remove) beside polls, work, DMA, MDIO calls and flow blocks.
THEOREM LifeInvariance == Spec => []LifeIInv
<1>1. LifeIInv /\ [Next]_vars => LifeIInv'
  BY LifeKeeps, BusKeeps, BlocksKeep DEF LifeIInv
<1>2. QED
  BY <1>1, LifeInitially, PTL DEF Spec

\* Whatever runs has what it uses, on every board, at every step of every
\* operation: the order of the releases in ralink_fe_remove, in the labels of
\* ralink_fe_probe and in the error path of ralink_fe_open is a right one.
THEOREM UsedIsHeldAlways == Spec => []UsedIsHeld
<1>1. LifeIInv => UsedIsHeld
  <2> SUFFICES ASSUME LifeInv PROVE UsedIsHeld
    BY DEF LifeIInv
  <2> USE DEF LifeInv
  <2> DEFINE ppe == When(board.ppe # "none", {"ppe"})
             calls == \E u \in Users : mdio_pc[u] # "idle"
             sPoll == When(napi = "sched", {"hw", "desc", "napi", "pp", "irq", "ndev", "rings"} \cup ppe)
             sMeta == When(napi = "sched" /\ ralink_dsa, {"meta"})
             sNapi == When(napi # "off", {"napi", "ndev"})
             sXmit == When(tx_on, {"hw", "desc", "ndev", "rings"})
             sWork == When(dim_work, {"hw", "moder"})
             sDma == When(dma = "on", {"hw", "desc", "pp", "rings"})
             sPpe == When(ppe_on \/ block_cb # {}, {"hw", "ppe"})
             sPhy == When("phylink" \in held, {"hw"} \cup When(board.bus, {"mdio"}))
             sCall == When(calls, {"mdio"} \cup When(pc # "devres", {"hw"}))
  <2>1. pc \in Pcs /\ pos \in 1 .. 11 /\ napi \in {"off", "idle", "sched"}
    BY AcquireDomain DEF LifeTypeOK
  <2>2. \A r : Has(r, 12) => r \in ProbeHolds
    BY ProbeHoldsHas
  <2>3. pc \in RunPcs =>
          /\ {"hw", "desc", "napi", "pp", "moder", "irq", "ndev", "rings"} \subseteq held
          /\ board.ppe # "none" => "ppe" \in held
    <3>1. {"hw", "desc", "napi", "pp", "moder", "irq", "ndev"} \subseteq ProbeHolds
          /\ (board.ppe # "none" => "ppe" \in ProbeHolds)
      BY <2>2 DEF Has
    <3>2. QED
      BY <3>1 DEF HeldInv
  <2>4. napi = "sched" => pc \in {"up", "stop irq", "stop napi"}
    BY DEF NapiInv, PollPcs
  <2>5. sPoll \subseteq held
    BY <2>3, <2>4 DEF When, RunPcs
  <2>6. sMeta \subseteq held
    BY <2>4 DEF When, DsaInv, SteerPcs
  <2>7. sNapi \subseteq held
    BY <2>3 DEF When, NapiInv, QuietPcs, PollPcs, RunPcs
  <2>8. sXmit \subseteq held
    BY <2>3 DEF When, NapiInv, RunPcs
  <2>9. sWork \subseteq held
    BY <2>3 DEF When, NapiInv, PollPcs, RunPcs
  <2>10. sDma \subseteq held
    BY <2>3 DEF When, DmaInv, DmaPcs, RunPcs
  <2>11. sPpe \subseteq held
    <3>1. pc = "bound" => "hw" \in held /\ (board.ppe # "none" => "ppe" \in held)
      BY <2>2 DEF HeldInv, Has
    <3>2. QED
      BY <2>3, <3>1 DEF When, PpeInv
  <2>12. sPhy \subseteq held
    <3> SUFFICES ASSUME "phylink" \in held
                 PROVE  "hw" \in held /\ (board.bus => "mdio" \in held)
      BY DEF When
    <3>1. pc # "devres" /\ pc # "unbound"
      BY <2>1, DevresAt, ListLengths DEF HeldInv, Left, ManagedSet
    <3>2. pc = "probe" => "hw" \in held /\ (board.bus => "mdio" \in held)
      BY <2>1, AcquiredHas DEF HeldInv, Has
    <3>3. pc \in {"bound"} \cup RunPcs => "hw" \in held /\ (board.bus => "mdio" \in held)
      BY <2>2 DEF HeldInv, Has
    <3>4. QED
      BY <2>1, <3>1, <3>2, <3>3 DEF HeldInv, Releasing, Pcs
  <2>13. sCall \subseteq held
    BY DEF When, BusInv
  <2>14. InUse = UNION {sPoll, sMeta, sNapi, sXmit, sWork, sDma, sPpe, sPhy, sCall}
    BY DEF InUse
  <2> HIDE DEF sPoll, sMeta, sNapi, sXmit, sWork, sDma, sPpe, sPhy, sCall, LifeInv
  <2>15. QED
    BY <2>5, <2>6, <2>7, <2>8, <2>9, <2>10, <2>11, <2>12, <2>13, <2>14 DEF UsedIsHeld
<1>2. QED
  BY <1>1, LifeInvariance, PTL

\* After a failed probe and after remove nothing is left, after a failed open
\* or a stop what probe left, and in an open interface the PPE believes in DSA
\* exactly if there is metadata.
THEOREM IdleIsCleanAlways == Spec => []IdleIsClean
<1>1. LifeIInv => IdleIsClean
  <2> SUFFICES ASSUME LifeInv PROVE IdleIsClean
    BY DEF LifeIInv
  <2> USE DEF LifeInv
  <2>1. CASE pc = "unbound"
    <3>1. napi = "off" /\ tx_on = FALSE /\ dim_work = FALSE /\ block_cb = {}
      BY <2>1, OutsideQuiet DEF RunPcs
    <3>2. held = {} /\ ~ ppe_on
      BY <2>1 DEF HeldInv, PpeInv
    <3>3. board.rst => dma \in {"off", "boot"} /\ ~ hw
      BY <2>1 DEF DmaInv
    <3>4. QED
      BY <2>1, <3>1, <3>2, <3>3 DEF IdleIsClean
  <2>2. CASE pc = "bound"
    <3>1. held = ProbeHolds /\ napi = "off" /\ ~ tx_on /\ ~ dim_work
      BY <2>2 DEF HeldInv, NapiInv, LifeTypeOK, QuietPcs, PollPcs
    <3>2. dma \in {"off", "stuck"}
      BY <2>2 DEF DmaInv, LifeTypeOK, DmaPcs
    <3>3. (ppe_on <=> board.ppe = "v2") /\ (ralink_dsa => ~ board.start_ok)
      BY <2>2 DEF PpeInv, DsaInv, SteerPcs, Refused
    <3>4. QED
      BY <2>2, <3>1, <3>2, <3>3 DEF IdleIsClean
  <2>3. CASE pc = "up"
    BY <2>3 DEF IdleIsClean, DsaInv, SteerPcs
  <2>4. CASE pc \notin {"unbound", "bound", "up"}
    BY <2>4 DEF IdleIsClean
  <2>5. QED
    BY <2>1, <2>2, <2>3, <2>4
<1>2. QED
  BY <1>1, LifeInvariance, PTL

\* What an MDIO call returns is its own, whoever timed out before it and
\* whatever happens to the driver meanwhile (ralink_fe_mdio_read,
\* ralink_fe_mdio_write).
THEOREM MdioAnswersOwnAlways == Spec => []MdioAnswersOwn
<1>1. LifeIInv => MdioAnswersOwn
  BY DEF LifeIInv, MdioInv
<1>2. QED
  BY <1>1, LifeInvariance, PTL

\* A block has its callback exactly while a port is bound to it
\* (ra_ppe_setup_tc_block), for any number of ports.
THEOREM CallbackWhileBoundAlways == Spec => []CallbackWhileBound
<1>1. LifeIInv => CallbackWhileBound
  BY DEF LifeIInv, BlockInv, RefcntInv, CallbackWhileBound
<1>2. QED
  BY <1>1, LifeInvariance, PTL
============================================================================
