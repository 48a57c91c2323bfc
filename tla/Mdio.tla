-------------------------------- MODULE Mdio --------------------------------
(***************************************************************************)
(* The MDIO bus of the frame engine (ralink_fe.c): one access register,    *)
(* polled with a timeout before a command is written and after it was      *)
(* triggered, under mdio_lock.                                             *)
(*                                                                         *)
(* A command is known by its caller and a number that no earlier call of   *)
(* this caller in the register has, so that a late answer to an earlier    *)
(* call is told from the answer to this one. An engine without clock or in *)
(* reset (hw, which module Lifecycle changes) loses what is written and    *)
(* reads as anything.                                                      *)
(***************************************************************************)
EXTENDS Naturals

CONSTANTS Users, NoUser

ASSUME MdioAssumption == NoUser \notin Users

VARIABLES
  hw,        \* the engine is clocked and out of reset
  mdio_lock, \* the holder of priv->mdio_lock
  mdio_pc,   \* per caller: where in mdio_read or mdio_write
  call,      \* per caller: the number of its running or last call
  access,    \* FE_MDIO_ACCESS: CMD_TRG, the command, and whose data it holds
  performed, \* per caller: how often the running or last call was performed
  ret        \* per caller: what the last call returned

mdio_vars == <<mdio_lock, mdio_pc, call, access, performed, ret>>

Garbage == <<NoUser, 0>>
Cmds == (Users \X (0 .. 2)) \cup {Garbage}
Cmd(u) == <<u, call[u]>>
Registers == [trg : BOOLEAN, cmd : Cmds, data : Cmds]
Answers == [status : {"none", "busy", "timeout", "ok"}, data : Cmds]

MdioTypeOK ==
  /\ hw \in BOOLEAN
  /\ mdio_lock \in Users \cup {NoUser}
  /\ mdio_pc \in [Users -> {"idle", "wait", "program", "trigger", "wait done"}]
  /\ call \in [Users -> 0 .. 2]
  /\ access \in Registers
  /\ performed \in [Users -> 0 .. 2]
  /\ ret \in [Users -> Answers]

NoAnswer(s) == [status |-> s, data |-> Garbage]

MdioInit ==
  /\ mdio_lock = NoUser
  /\ mdio_pc = [u \in Users |-> "idle"]
  /\ call = [u \in Users |-> 0]
  /\ access = [trg |-> FALSE, cmd |-> Garbage, data |-> Garbage]
  /\ performed = [u \in Users |-> 0]
  /\ ret = [u \in Users |-> NoAnswer("none")]

-----------------------------------------------------------------------------
\* The engine performs the command (external), at any time, also long after
\* the caller has given up. Performing is counted for the call it belongs to.
MdioPerform ==
  /\ hw /\ access.trg
  /\ access' = [access EXCEPT !.trg = FALSE, !.data = access.cmd]
  /\ performed' = [u \in Users |-> IF access.cmd = Cmd(u) /\ performed[u] < 2
                                     THEN performed[u] + 1 ELSE performed[u]]
  /\ UNCHANGED <<hw, mdio_lock, mdio_pc, call, ret>>

mdio_lock_free == mdio_lock = NoUser

\* ralink_fe_mdio_read and ralink_fe_mdio_write, up to the first wait.
mdio_enter(u) ==
  /\ mdio_pc[u] = "idle" /\ mdio_lock_free
  /\ mdio_lock' = u
  /\ mdio_pc' = [mdio_pc EXCEPT ![u] = "wait"]
  /\ call' = [call EXCEPT ![u] = CHOOSE c \in 0 .. 2 : <<u, c>> \notin {access.cmd, access.data}]
  /\ performed' = [performed EXCEPT ![u] = 0]
  /\ ret' = [ret EXCEPT ![u] = NoAnswer("none")]
  /\ UNCHANGED <<hw, access>>

mdio_leave(u, r) ==
  /\ mdio_lock' = NoUser
  /\ mdio_pc' = [mdio_pc EXCEPT ![u] = "idle"]
  /\ ret' = [ret EXCEPT ![u] = r]
  /\ UNCHANGED <<hw, call, access, performed>>

\* Fault: a busy register is written all the same.
mdio_wait_ignored(busy) == TRUE

\* ralink_fe_mdio_wait succeeds if the last look finds the register idle.
mdio_wait(busy) == ~ busy \/ ~ hw

mdio_wait_first(u) ==
  /\ mdio_pc[u] = "wait"
  /\ mdio_wait(access.trg)
  /\ mdio_pc' = [mdio_pc EXCEPT ![u] = "program"]
  /\ UNCHANGED <<hw, mdio_lock, call, access, performed, ret>>

mdio_timeout_first(u) ==
  /\ mdio_pc[u] = "wait"
  /\ access.trg \/ ~ hw
  /\ mdio_leave(u, NoAnswer("busy"))

\* The command is programmed first and CMD_TRG asserted by a second write.
mdio_program(u) ==
  /\ mdio_pc[u] = "program"
  /\ access' = IF hw THEN [access EXCEPT !.trg = FALSE, !.cmd = Cmd(u)] ELSE access
  /\ mdio_pc' = [mdio_pc EXCEPT ![u] = "trigger"]
  /\ UNCHANGED <<hw, mdio_lock, call, performed, ret>>

mdio_trigger(u) ==
  /\ mdio_pc[u] = "trigger"
  /\ access' = IF hw THEN [access EXCEPT !.trg = TRUE, !.cmd = Cmd(u)] ELSE access
  /\ mdio_pc' = [mdio_pc EXCEPT ![u] = "wait done"]
  /\ UNCHANGED <<hw, mdio_lock, call, performed, ret>>

\* A read returns the data field of the value that ended the wait.
mdio_done(u) ==
  /\ mdio_pc[u] = "wait done"
  /\ mdio_wait(access.trg)
  /\ mdio_leave(u, [status |-> "ok", data |-> IF hw THEN access.data ELSE Garbage])

mdio_timeout_done(u) ==
  /\ mdio_pc[u] = "wait done"
  /\ access.trg \/ ~ hw
  /\ mdio_leave(u, NoAnswer("timeout"))

mdio_step(u) ==
  \/ mdio_wait_first(u) \/ mdio_timeout_first(u) \/ mdio_program(u)
  \/ mdio_trigger(u) \/ mdio_done(u) \/ mdio_timeout_done(u)

-----------------------------------------------------------------------------
(* Properties.                                                             *)

\* What a call returns is true of the bus although earlier calls may have
\* timed out and be performed late: a call that succeeds was performed exactly
\* once and its data is its own, a call that found the register busy is never
\* performed, and no call is performed twice. (A call that reached an engine
\* without clock returns garbage.)
MdioAnswersOwn ==
  \A u \in Users :
    /\ performed[u] < 2
    /\ ret[u].status = "busy" => performed[u] = 0
    /\ ret[u].status = "ok" /\ ret[u].data # Garbage => ret[u].data = Cmd(u) /\ performed[u] = 1
=============================================================================
