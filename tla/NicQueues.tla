----------------------------- MODULE NicQueues -----------------------------
(***************************************************************************)
(* How the receive queues of the ports are handed out to the parsers       *)
(* (DeviceConfig::assign_queue_to_parser).                                 *)
(***************************************************************************)
EXTENDS Integers, Sequences

\* The queues <<port, i>> in the order in which they are handed out: queue 0 of
\* every port, then queue 1, and so on.
que_to_use(ports, number_rx_queue) ==
  [n \in 1 .. number_rx_queue * Len(ports) |->
     <<ports[((n - 1) % Len(ports)) + 1], (n - 1) \div Len(ports)>>]

\* Mutant: the queues that do not divide evenly are forgotten.
SharePlain(k, total, parsers) == total \div parsers

\* num_rx_queues_percore, and one more for the first parsers.
Share(k, total, parsers) ==
  total \div parsers + IF k <= total % parsers THEN 1 ELSE 0

\* What each parser gets; ite_to_assign moves on through que_to_use.
Assignment(ports, number_rx_queue, parsers) ==
  LET queues == que_to_use(ports, number_rx_queue)
      total == Len(queues)
      ite[k \in 1 .. parsers + 1] ==
        IF k = 1 THEN 0 ELSE ite[k - 1] + Share(k - 1, total, parsers)
  IN [k \in 1 .. parsers |-> SubSeq(queues, ite[k] + 1, ite[k + 1])]
=============================================================================
