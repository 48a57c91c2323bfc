---------------------------- MODULE MCLifecycle ----------------------------
EXTENDS Lifecycle

\* An RT2880 with an external PHY on the engine's own bus, one whose FOE table
\* is refused, an MT7620 behind its switch, and a board without PPE whose reset
\* and clock are not managed.
MCBoards ==
  {[rst |-> TRUE, bus |-> TRUE, port |-> TRUE, ppe |-> "v1", start_ok |-> TRUE],
   [rst |-> TRUE, bus |-> FALSE, port |-> FALSE, ppe |-> "v1", start_ok |-> FALSE],
   [rst |-> TRUE, bus |-> FALSE, port |-> FALSE, ppe |-> "v2", start_ok |-> TRUE],
   [rst |-> FALSE, bus |-> FALSE, port |-> TRUE, ppe |-> "none", start_ok |-> TRUE]}
=============================================================================
