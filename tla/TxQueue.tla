------------------------------ MODULE TxQueue ------------------------------
(***************************************************************************)
(* What a TX queue promises to the stack, with no ring, descriptors or     *)
(* indices: an accepted packet stays with the driver until the engine has  *)
(* sent it or the interface goes down, the engine sends what it was shown, *)
(* and packets are sent and freed in the order they were accepted in.      *)
(***************************************************************************)
CONSTANT Packets

VARIABLES link,    \* "down", "up" or "stopping"
          held,    \* packets accepted and not freed
          shown,   \* those the engine was told of
          sent,    \* those it has sent
          before   \* the order: pairs of a packet and a later one

qvars == <<link, held, shown, sent, before>>

QTypeOK ==
  /\ link \in {"down", "up", "stopping"}
  /\ held \subseteq Packets /\ shown \subseteq held /\ sent \subseteq shown
  /\ before \subseteq held \X held

QInit ==
  /\ link = "down"
  /\ held = {} /\ shown = {} /\ sent = {}
  /\ before = {}

\* A packet is accepted behind those held; the engine is told of all, or not yet.
Accept(p) ==
  /\ link = "up" /\ p \notin held
  /\ held' = held \cup {p}
  /\ shown' \in {shown, held'}
  /\ before' = before \cup (held \X {p})
  /\ UNCHANGED <<link, sent>>

\* The engine sends the first packet it has not sent.
Send(p) ==
  /\ p \in shown \ sent
  /\ \A q \in held : <<q, p>> \in before => q \in sent
  /\ sent' = sent \cup {p}
  /\ UNCHANGED <<link, held, shown, before>>

\* The driver frees the first of the packets that were sent.
Complete(F) ==
  /\ F \subseteq sent
  /\ \A p \in F, q \in held \ F : <<q, p>> \notin before
  /\ held' = held \ F
  /\ shown' = shown \ F
  /\ sent' = sent \ F
  /\ before' = before \cap (held' \X held')
  /\ UNCHANGED link

Open == link = "down" /\ link' = "up" /\ UNCHANGED <<held, shown, sent, before>>

Stop == link = "up" /\ link' = "stopping" /\ UNCHANGED <<held, shown, sent, before>>

\* The interface is down: nothing is held any more.
Flush ==
  /\ link = "stopping" /\ link' = "down"
  /\ held' = {} /\ shown' = {} /\ sent' = {}
  /\ before' = {}

QNext ==
  \/ \E p \in Packets : Accept(p) \/ Send(p)
  \/ \E F \in SUBSET held : Complete(F)
  \/ Open \/ Stop \/ Flush

QSpec == QInit /\ [][QNext]_qvars
=============================================================================
