---------------------------- MODULE MCLifecycle ----------------------------
(* One pipeline and a second parser; batches of zero, one and two items.     *)
EXTENDS Lifecycle
CONSTANTS f1, f2, p1, p2, b1, e1, e2, e3
MCBatch == {<< >>, <<f1>>, <<f1, f2>>}
MCParser == <<p1, p2>>
MCBuffer == <<b1>>
MCDevices == {[dpdk_port_vec |-> <<e1>>, number_rx_queue |-> 1],
              [dpdk_port_vec |-> <<e1, e2, e3>>, number_rx_queue |-> 3]}
=============================================================================
