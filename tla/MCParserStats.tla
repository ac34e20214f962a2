--------------------------- MODULE MCParserStats ---------------------------
(* Configuration files of one and two pipelines, right ones and wrong ones.  *)
EXTENDS ParserStats

File(n, lists, master, ports, rx) ==
  [dpdk |-> [number_rx_queue |-> rx, number_tx_queue |-> n, core_num |-> (4 * n) + 1,
             dpdk_port_vec |-> ports, master_core |-> master],
   core_num_for |-> [r \in Roles |-> n], core_list |-> lists, sections |-> Sections]

\* One pipeline on any cores, valid or not.
OneEach == {File(1, [r \in Roles |-> <<cores[r]>>], 1, <<0>>, 2) : cores \in [Roles -> 0 .. 5]}

Two == [analyzer |-> <<1, 2>>, buffer |-> <<8, 7>>, parser |-> <<6, 5>>, pool |-> <<3, 4>>]

TwoEach == {File(2, Two, 0, ports, rx) :
              ports \in {<<0>>, <<1>>, <<0, 1>>, <<1, 0>>, <<0, 0>>, <<7>>, << >>}, rx \in 1 .. 3}

Good == File(2, Two, 0, <<0>>, 2)
Without(f, S) == [x \in DOMAIN f \ S |-> f[x]]

Wrong ==
  {[Good EXCEPT !.sections = @ \ {s}] : s \in Sections}
    \union {[Good EXCEPT !.core_list = Without(@, {r})] : r \in Roles}
    \union {[Good EXCEPT !.core_num_for[r] = 1, !.dpdk.core_num = 8] : r \in Roles}
    \union {[Good EXCEPT !.core_num_for[r] = 1, !.core_list[r] = <<@[1]>>, !.dpdk.core_num = 8] :
              r \in Roles}
    \union {[Good EXCEPT !.dpdk.number_tx_queue = 1], [Good EXCEPT !.dpdk.core_num = 33],
            [Good EXCEPT !.dpdk = Without(@, {"master_core"})],
            [Good EXCEPT !.dpdk = Without(@, {"number_tx_queue"})],
            [Good EXCEPT !.core_num_for = << >>],
            File(0, [r \in Roles |-> << >>], 0, <<0>>, 2)}

MCJson == OneEach \union TwoEach \union Wrong
MCNic == [p \in {0, 1} |-> [rx |-> 2, tx |-> 4]]
=============================================================================
