# Brain-on-Switch in TLA+

Brain-on-Switch (BoS) classifies network traffic with a recurrent network in the
pipeline of a programmable switch and sends the flows it is unsure about to a
server, the IMIS, where a transformer classifies them. This directory holds
TLA+ models of both halves, TLC configurations that check them, and proofs for
TLAPS. Paths below are relative to `src/`; `commune/` is
`src/IMIS/system/commune/`, `p4/` is `src/p4/testbed_version/` unless said
otherwise.

## 1. The system

### 1.1 The IMIS server (`commune/`)

A pipeline is four threads, each pinned to a core, polling in a loop:

```
            metadata ring              batch (two volatile flags)
   parser ----------------> pool <===============================> analyzer
     |                                                                |
     | packet ring                                        result ring |
     +----------------------------> buffer <--------------------------+
                                      |
                                      v  NIC
```

| component | state | operations | must hold |
|---|---|---|---|
| `my_ring` (`dpdkCommon.hpp`) | `head`, `tail` (volatile), slots | `enqueue`, `enqueue_bulk`, `dequeue`, `count`, `full` | no torn, lost, repeated or reordered element with one producer and one consumer and no lock |
| parser (`parserWorker.cpp`) | `m_parser_seq`, `flow_packet_num`, counters | number a packet, enqueue its metadata if it is among the first 5 of its flow, enqueue the packet or free it; a tracing thread and `stop()` collect the counters | every mbuf is handed on or freed, once; no packet is counted twice or for another port |
| pool (`poolWorker.cpp`) | `flow_record`, `flow_priority`, `metadata_num_in_pool`, `call_by_analyzer`, `ready_for_analyzer` | `fetch_from_parser`, `in_pool`, `out_pool` | record and priority queue agree; no flow is forgotten or handed over twice; what has waited longest goes first |
| analyzer (`analyzerWorker.cpp`) | `input_vec_c`, `input_item_c`, `input_num_c` (written by the pool) | `inference` | classifies the batch it asked for, whole; never waits for ever; stops when told to |
| buffer (`bufferWorker.cpp`) | `flow_buffer`, `pkt_num_in_buffer` | `fetch_pkt_from_parser`, `fetch_result_from_analyzer`, `flush_buffer_with_new_result`, `send` | flows stay in order; a packet waits only for a result that has not come; a class was computed for the flow it is written on |
| set-up (`deviceConfig.cpp`) | configuration, workers, start and stop barriers | `configure_via_json`, `do_init` (validation, NIC queues, binding of workers, placement on cores), `interrupt_callback` | every worker runs where the file puts it, bound to its pipeline; every NIC queue is polled by one thread; every thread reaches both barriers |

What is hard here: no locks anywhere, so every guarantee rests on the order of a
few volatile accesses; a packet and its metadata travel separate ways and race
(packet before result, or result before packet); rings that are full drop
metadata, packets or results silently; a flow is handed to the analyzer before
it is complete and must come back; shutdown meets threads that spin on each
other; the parser's counters are changed by three threads. `assert` is live: `common.hpp:21` has `#define NDEBUG` commented out.

### 1.2 The switch (`p4/`)

| component | state (registers, per flow-table entry unless said) | operations | must hold |
|---|---|---|---|
| flow table (`flow_manager.p4`) | `r_flow_info` (id, timestamp) | hit, collision, time-out with or without change of hands | an owner keeps its entry while it is active, across the wrap of the clock |
| sliding window (`pkt_cnt.p4`, `mem_and_swap.p4`) | `r_pkt_cnt_initial_8`, `r_pkt_cnt_mod_7`, `r_bin0..6` | collect an embedding, rotate the seven registers into order | the network sees the last 8 packets of one flow, oldest first |
| probabilities (`classify.p4`) | `r_intermediate_result_cnt`, `r_cpr0..5` | accumulate, restart every 128 results, compare with thresholds | the threshold is the one for as many results as were summed |
| escalation (`ambiguous_cnt.p4`, `ig_stored_escalation_flag.p4`) | `r_ambiguous_cnt`, `r_stored_escalation_flag` | count ambiguous packets, mirror, recirculate, set the flag | the flag is earned by the flow that carries it |
| collision budget (`ig_global_cnt.p4`) | `r_ig_global_pkt_cnt`, `r_global_collision_escalation_cnt` (one each for the switch) | count, escalate a colliding packet | at most the configured share goes to the server |
| statistics (`aux_*`, `runtime/packet_monitor.py`) | counters | count; dump, register by register while packets flow | the sums agree; what is shown has an order although it never was true at one moment |
| control plane (`setup/`, `translate/`, `runtime/cleanup.py`) | table entries | install, clean up between experiments | entries match what the model was trained for; what the clean-up leaves behind does no harm |

What is hard here: registers outlive the flow they were written for, so every
one must be restarted in the stage that owns it when the entry changes hands;
a mirrored packet comes back after any number of others, to an entry that may
have another owner; 8-, 7- and 32-bit arithmetic wraps or saturates; in the
testbed version a recirculated packet carries an old timestamp.

### 1.3 Left aside

Training (`src/model`, `src/IMIS/YaTC`, `src/PerPacket`) and the datasets are
numerical code without protocol or concurrency. The network's tables
(`ig_gru.p4`, `eg_gru.p4`, `embedding.p4`, `per_packet.p4`) are look-ups of
trained weights. `json.hpp` is third-party.

## 2. The modules

| module | models | |
|---|---|---|
| `BoundedFifo` | what a ring promises: a queue of `Cap` elements, inserted and removed in blocks | abstract |
| `MyRing` | `my_ring<T>`, every shared access a step | implements `BoundedFifo` |
| `MyRingProofs` | its invariant and the refinement | proofs |
| `PoolAnalyzer` | the exchange of batches over two flags, and the `m_stop` of both threads | |
| `NicQueues` | how the receive queues of the ports are handed out to the parsers | |
| `Lifecycle` | start and stop of all workers: barriers, interrupt, parsers without a queue | extends `PoolAnalyzer`, `NicQueues` |
| `Setup` | from the configuration file to threads on cores: defaults, validation, NIC, queues, binding, placement | extends `NicQueues` |
| `ParserStats` | the packet counters of one of the launched parsers, changed by three threads, and the report at the end | extends `Setup` |
| `ServerProofs` | the exchange is safe and the server keeps to it; the stop barrier waits for all; workers placed and bound, queues handed out once, counters exact, the report covers the run | proofs |
| `FlowPool` | the pool worker; what comes in and when the analyzer calls are parameters | |
| `FlowPoolEnv` | `FlowPool` with every stream of metadata a parser can produce | composition |
| `FlowPoolProofs` | no flow is forgotten or handed over twice, what has waited longest goes first, the counter is right | proofs |
| `FlowBuffer` | the buffer worker; what it dequeues is a parameter | |
| `Forwarder` | what the IMIS promises the switch, without threads and rings | abstract |
| `Imis` | parser, `FlowPool`, `PoolAnalyzer`, `FlowBuffer` and three rings that fill up | composition, implements `Forwarder` |
| `ForwarderProofs` | the promise means order within a flow and one place for each packet | proofs |
| `ImisProofs` | the pipeline implements `Forwarder`; a packet waits only for a result that has not come; a class never goes back; the buffer's counter is right | proofs |
| `FlowManager` | one entry of `r_flow_info` | |
| `Escalation` | `FlowManager`, count of packets, egress counters, mirror, recirculation, flag, clean-up; both versions of the program | extends `FlowManager` |
| `SlidingWindow` | `Escalation` with the ring of seven registers added to each of its steps | extends `Escalation` |
| `FlowEntryProofs` | the flag is earned, the counters are the owner's, an escalation holds; the window is the latest of one flow, owners keep their entries | proofs |
| `ArgmaxTables` | the three ternary tables `tab_cmp*` as sequences of entries, for any number of bits | |
| `Aggregator` | how `model/aggregator.py` sums up a flow's results | abstract |
| `Aggregation` | the egress from intermediate result to class and confidence | implements `Aggregator` |
| `AggregationProofs` | the sums are the aggregator's and fit the tables; the tables compute `np.argmax`; the thresholds round as stated | proofs |
| `MetadataLayout` | which byte of a packet lands where in the transformer's input, and where it lands in training | |
| `CollisionBudget` | the share of colliding packets that go to the server | |
| `Statistics` | the way of packets and mirrored copies through the two pipes, every counter on it, the ports | extends `CollisionBudget` |
| `PacketMonitor` | `packet_monitor.py` reading those counters one by one meanwhile | extends `Statistics` |
| `StatisticsProofs` | the share is kept, alone and in the pipes; every packet is counted once; the load is not understated; what the monitor shows is sound | proofs |
| `MC*` | the instances TLC checks | |

How state and actions correspond to the code:

- **`MyRing`.** `head`, `tail`, `q` are the members of the class. `prod`, `ele`,
  `written` are the position of the enqueueing thread inside `enqueue` or
  `enqueue_bulk` and its argument; `cons`, `cnt`, `out` those of the dequeueing
  thread. `Enqueue`/`EnqueueBulk` are the check for room, `Write` is the copy of
  one element, `Publish` the store of `tail`; `Ask` is the caller's
  `min(count(), limit)`, `Dequeue` the second look at `count()`, `Copy` and
  `Advance` the rest. Indices are masked as `& sz` does it.
- **`PoolAnalyzer`.** One action per access to a flag or to the shared input
  fields; `hand` and `analyzer` are the program counters. `BeginAnalyzer` and
  `BeginPool` are the `m_stop = false` with which the two `run()` begin,
  `StopAnalyzer` and `StopPool` the two `stop()`. A pool that left its loop never
  answers again, an analyzer that was stopped gives up its spin.
- **`Lifecycle`.** `at` says where in `run()` a worker is, `m_stop` is that of the
  parsers and buffers (the other two have theirs in `PoolAnalyzer`). `main` is
  `do_init` from the registration of the callback on; `stopping` counts through
  `interrupt_callback`, which runs on the main thread (Linux delivers a signal of
  the process there) and so keeps it from arriving at the start barrier. A
  barrier opens when as many have arrived as it was initialised for. A parser
  whose `nic_queue_list` is empty returns after the start barrier and never comes
  to the other. Only one exchange is detailed; the loops of parsers and buffers
  wait for nobody and are a single place.
- **`Setup`.** `setup` is how far `do_init` is; every step is one of the functions
  it calls, and leads to `fatal` where the code calls `FATAL_ERROR`.
  `p_configure_param` is the file merged into `Default`. `Check` is
  `_f_check_device_configure_param`, `OpenNic` asks the NIC (external, the
  constant `Nic`), `CreateWorkers` binds workers by index (`At` is an index that
  may lie behind the end of the vector), `Launch` builds `thread_vec_all` from
  core masks and pairs it with the cores in ascending order as PcapPlusPlus does.
  `AssignQueues` divides by the number of parsers, unsigned, and so ends the
  process (`crashed`) when the file asks for none. `Filled` is the merge of a
  section of the file with the defaults.
- **`ParserStats`.** The parser's `++parsed_pkt_num[dev_id]` is `LoadCount` and
  `StoreCount`; `sum += parsed; parsed = 0` of the tracing thread and of `stop()`
  is `LoadSum`, `StoreSum` and `Clear`, since the semaphore the parser takes is
  taken by nobody else. `devices` is the order in which a map keyed by pointers
  lists the ports: any. `overlap` (history) says that two threads were between
  load and store of one counter at once.
- **`FlowPool`.** `flow_record`, `flow_priority`, `metadata_num_in_pool`,
  `metadata_from_parser` and `input_item` have the source's names. One step per
  metadata taken in and per flow taken out. `priority_queue` is the set of its
  entries and `Top` its smallest; `parser_seq |= 0x7000...` adds `Mark`, which
  is above every `parser_seq`. The bytes of the metadata are left out. `Requeued` is
  the push with which the next metadata of a paused flow queues it again. In
  `FlowPoolEnv` `reported` (history) is what the analyzer was last told of a flow;
  what it has not seen of it, `Unseen`, are the metadata that came later.
  `CountExact` compares the counter with the size of a set, the metadata `Kept`
  of the flows that are not closed; `BufferCountExact` in `Imis` does the same
  with the packets `Waiting` in the queues.
- **`FlowBuffer`.** `flow_buffer` maps a flow to its `FlowBuffer`: queue,
  `analyzed_parser_seq`, type, the time record and `time_record_idx`. `leaving`
  is a history of what was sent, with the type written on it and the number of
  the analysis it is `by` (0: none). `Asserting` is the build without `NDEBUG`; `aborted` is the line
  of the assert that ended the process. `IdxAtBirth` is what the member
  `time_record_idx`, which the constructor forgets, can hold.
- **`Imis`.** The three rings are bounded queues (justified by `RingIsFifo`);
  a fetch takes between one and all of what its limit allows, since the count is
  read while the producer goes on. `Parse` and `PassOn` are the two enqueues of
  the parser, apart, so that the result may overtake the packet. `verdicts` and
  `refused` are history: what the model ever said, and whether a ring refused
  metadata or a result.
- **`Forwarder`.** `held[f]` is the set of a flow's packets inside; only the
  smallest number may leave. In `Imis` it is `Held(f)`: what a flow has in the
  buffer's queue, in the block the buffer fetched, in the ring and in the
  parser's hand. That the packets wait in four places, and
  that analyses come late, early or never, is what it does not know.
- **`FlowManager`.** `Predicate` returns the 1, 2, 4, 8 that `ra_flow_info`
  returns; `Expired` is the unsigned difference modulo `Wrap` = 2^32.
- **`Escalation`.** Ingress and egress of one packet are one step. A mirrored
  packet sits in `recirculating` until it comes round or is lost. `headerTime`,
  chosen at the start, tells the testbed version (timestamp from the packet's
  header) from the normal version (`src/p4/normal_version`, time of arrival).
  `CleanUp` is `runtime/cleanup.py`, which only the testbed version has and which
  leaves the flag and the counters of the egress alone. `era` (history) counts
  what the owner did since its entry was started.
- **`SlidingWindow`.** Each action is one of `Escalation` together with what it
  does to the ring: `Collect` for a packet of the owner, `Skip` for a collision and
  for a copy that comes round, which passes the flow table (`BoS_testbed.p4:143`)
  but neither counts nor ring (line 147). `bin` are the seven registers,
  `pkt_cnt_mod_7` the ring position, which no change of owner resets, `window` the
  input of the network. `ClearRing` is `runtime/cleanup.py`, which clears the ring
  position with the entry and its count but no `r_bin`. `collected` and `arrived`
  (history) are the embeddings of the owner since it got the entry and the true
  time of its last packet; `seen` of `Escalation` is that of the entry's timestamp,
  which the copies move.
- **`ArgmaxTables`, `Aggregation`.** With `KeyBits = 11` the sequences
  `tab_cmp012`, `tab_cmp345` and `tab_cmp012345` are the 363, 363 and 22 entries
  of the three files, in the same order with the same bits (compared by a script
  when the module was written, for both versions). `Weight[b]` is 2^b, written
  as a recursive function because the prover knows nothing of `^`. `RnnPacket` is a packet with
  `use_rnn = 1`: count, six sums, tables, thresholds; `SkippedPacket` one of the
  first packets of a flow, which restarts the count and leaves the sums to the
  next result. A colliding packet touches none of these registers. `segs`
  (history) counts the results of the flow. `Aggregator` is the loop of
  `aggregator.py:115-149`; its sums are mapped to the `cpr` registers.
- **`MetadataLayout`.** A cell is a packet and an offset in it. `MetadataVector`
  is the constructor of `PacketMetadata` and the vector `in_pool` builds of it,
  `OutPool` the concatenation and padding of `out_pool`, `Trained` is
  `flow_pre_processing` of `YaTC/dataset.py`.
- **`CollisionBudget`.** `Threshold(i)` is what `setup_threshold.py` installs
  for `global_pkt_cnt = i`. `escalated` and `cycle` are history.
- **`Statistics`.** One action per control block and kind of packet. The wires
  between the blocks are queues (`toEgress`, `toAuxIngress`), where the contents
  matter, and numbers where only the count does. What the flow table says of a
  packet is free, except that the first packets of a flow have no flag
  (`FlagEarned`). `Forward` is the table `setup_forward.py` fills, `Counted` the
  nested conditions of `AuxIngress`, with `code` as named bits. `sent` is history.
- **`PacketMonitor`.** One action per `dump()`, in the order of the script, with any
  number of packets between two of them; `asserting` is the line of the assert it
  ended with. With classes left out the confusion matrix of a category is its
  number of packets, which is why the ground truth and the matrix are read from
  the same variable, at different times.

## 3. The checks

| run | what it shows | instance |
|---|---|---|
| `ring` | no slot is written while it is read or waits to be read; the ring implements `BoundedFifo` (`NoSlotRace`, `RingInv`, `RefinesFifo`) | 4 slots, 2 values, blocks of any size: both indices wrap inside a block |
| `lifecycle` | no torn, mixed or lost batch; every call is answered; no summary before every thread left its loop; an interrupt of a running server ends it (`NoInputRace`, `BatchWhole`, `LoopsOverBeforeReport`, `NoBatchLost`, `EveryCallAnswered`, `InterruptEnds`) | one pipeline and a second parser, batches of 0, 1 and 2 flows, one queue (none for the second parser) or nine of three ports, interrupt at any moment |
| `monitor` | every worker is where the file puts it and bound to its own pipeline; every NIC queue is polled by one thread; the parser's counters are exact unless two threads were in one of them; the figure reported at the end misses at most one round of polls (`PlacedAsConfigured`, `PipelinesComplete`, `QueuesPolledOnce`, `CountersExact`, `ReportCoversRun`) | files of one and two pipelines, right and wrong: any cores, lists too short, sections missing, ports missing or twice; 9 cores, two ports, 3 packets |
| `pool` | records and priority queue agree; nothing stranded or handed over twice; of all the metadata the analyzer has not seen the one that has waited longest goes first; counters exact (`PriorityExact`, `NothingStranded`, `CountExact`, `ReportsAdvance`, `LongestWaitingFirst`) | 2 flows, complete with 3 metadata, 6 packets, gaps where a full ring refused |
| `imis` | the pipeline implements `Forwarder`; no packet waits for a result that is there; a flow's class never goes back; every packet leaves unless metadata or a result was refused (`WaitsForResult`, `BufferCountExact`, `ImplementsForwarder`, `AnalyzedAdvances`, `EveryPacketLeaves`) | 2 flows, 3 packets, rings of 1 and 2 elements so that all three overflow, a queue of 2 |
| `window` | the network's input is the latest window of one flow, from the W+1st packet on, whatever copies come round meanwhile; owners keep their entries (`WindowInv`, `WindowIsLatest`, `ClassifiedFromWindow`, `OwnerKeepsEntry`) | both versions, 2 flows, 2 embeddings, W = 2, a clock that wraps at 6 twice over, a copy takes up to one tick, a flow escalates with its first ambiguous packet, clean-up when no copy is under way |
| `escalation` | the flag is earned; counters are the owner's; thresholds match sums; an escalation holds (`FlagEarned`, `CountsOfOwner`, `ThresholdMatchesSum`, `EscalationHolds`) | both versions, 2 flows, bytes of 0..3, sums restart after 2, clean-up when no copy is under way |
| `aggregation` | the sums are those of `aggregator.py` whatever flow had the entry before; they fit the bits the tables look at; the class is `np.argmax`, ties included; a packet is ambiguous only if its average is below `t_conf`, and always if it is a unit below (`SumsFitKey`, `ClassIsArgMax`, `LowIsBelowThreshold`, `ImplementsAggregator`) | probabilities 0, 1 or 2 of 3, sums restart after 3, three key bits, the count wraps at 6, a flow has up to 7 results |
| `statistics` | the share of escalated collisions is kept at every point of a cycle and in what the monitor shows; every packet is counted once, copies that come round never; the report does not understate the load of the IMIS, and what it shows has an order although it was read at eleven different times (`WithinBudget`, `EveryPacketCounted`, `LoadNotUnderstated`, `ReportSound`) | a cycle of 8, ratio 1/2, 10 packets, 2 under way, a report that is over before the 5th packet |

What TLC shows besides, when a premise is taken away:

- `InterruptEnds` is claimed for a server whose workers are all in their loops.
  Without that, an interrupt between `deviceConfig.cpp:591`, which registers the
  callback, and the `m_stop = false` behind the start barrier is lost for the
  worker and the process hangs; so does one with a parser that got no queue.
  `m_stop` is already false when a worker is created: the late assignment does
  nothing but this.
- `CountersExact` is claimed while no two threads are between load and store of
  one counter. With an overlap a packet is counted twice or lost. It is claimed,
  too, only where the number of each port is its position: `dev_id` indexes a
  vector that has one element per port in use.
- `LoadNotUnderstated` is an inequality. A colliding packet that is judged on the
  switch but finds the flag of the entry's owner goes to the normal port and is
  counted for the IMIS (`BoS_testbed.p4:402`), so the report may overstate it.
- `ReportSound` is about the figures the monitor shows, not about its asserts: both
  of them (`packet_monitor.py:61` and `:84`) fail when a packet is counted between
  the two dumps. With copies under way, Ig Total less Ig Recir may lie below the
  total printed beside it, since the first was read before the second.
- `CleanUp` waits in `Escalation`, and `ClearRing` with it, until no copy is under
  way. Otherwise a copy comes to a cleared entry: it can set the flag of its flow,
  whose counts are those of the old era, and in the testbed version take the entry
  back from a new owner, whose timestamp is younger than the copy's, and whose
  counts and embeddings it then has. Nothing in the script waits for the copies;
  that it is run by hand between two experiments is an assumption (section 5).
- `OwnerKeepsEntry` allows for the time a copy takes. In the normal version a copy
  refreshes the timestamp of its flow's entry when it passes `tab_flow_info`, so an
  owner may keep its entry up to `Delay` longer than `TIMEOUT`; in the testbed
  version it writes back the time of its first pass, so an owner may lose it that
  much earlier.

Three runs are expected to find a violation. Each states what a line of the
repository says:

| run | says | what happens |
|---|---|---|
| `assert_184` | `bufferWorker.cpp:184` (`TimeRecordMatches`) | a result overtakes the packet it was computed for; the packet then passes without advancing `time_record_idx`, and the assert fails for the next packet of the flow that waits |
| `header_time` | `BoS_testbed.p4:169` "should be normal packet (i.e., not recirculated)" (`TimeoutIsNormalPacket`) | a recirculated packet carries the time of its first pass; if its flow sent another packet meanwhile the unsigned difference is huge and it is taken for a time-out |
| `layout` | `YaTC/opts.py:4-5`, `dataset.py:27-88`: 80 header and 240 payload bytes per packet (`InputAsTrained`) | `in_pool` cuts the 320 values of a packet to 240, so that the last 80 bytes of its payload are missing, and the parser takes a TCP data offset for 16-byte units, so that header and payload are split in the wrong place |

**Bounds and why they are enough.** The hazards of the ring are the wrap of an
index inside a block and the two looks at `count()`: four slots reach both, and
the proof covers every size. Two flows are what a race between flows needs, and
the pool, the buffer and the flow table treat flows alike (`SYMMETRY` is used
in `pool`, where only safety is checked). Three packets of two flows let a flow be
handed over incomplete, come back, be completed and have a packet pushed out. In
`monitor` two pipelines are what a wrong pairing of cores and workers needs, two
ports what a wrong index needs, and three packets and `MaxBurst` = 1 let both
collectors come between any two accesses of the parser. `W`, the byte and the
restart period are small so that saturation, wrap and restart all happen within a
run; the properties are stated in these constants. `MaxIdle` is below `Wrap`: an
entry idle for longer than the clock's period (2^32 ticks of 65.5 us, 78 hours)
would look young again, which `Expired` cannot see. `MaxSeq`, `MaxClock`, `MaxEra`,
`MaxCount`, `MaxPackets`, `MaxUnderWay` and `MaxWatched` only make the runs finite;
with 10 packets a cycle of 8 is left and the budget carried over, and `MaxWatched`
is 4 because a report that starts late differs from an early one only in what the
counters began with.

**Fairness.** Every thread runs on a core of its own in a polling loop that takes
no lock and waits without end only at the two barriers (an analyzer without a
batch sleeps 5 ms, `analyzerWorker.cpp:103`, and goes on), so each has weak fairness: in
`Imis` `AnalyzerStep`, `PoolStep`, `BufferStep` and `PassOn`, in `Lifecycle`
`MainStep`, `AnalyzerWorks`, `PoolWorks` and for each worker `Frame` and `Leave`.
Once an interrupt has come its handler runs through (`Handler`). Packets may stop
arriving and an interrupt need not come: `Parse` and `Interrupt` have none.
`EveryPacketLeaves` is claimed of behaviours in which no ring ever refuses metadata
or a result; it is false otherwise, because these are dropped for good. Nothing is
claimed to happen in `ParserStats`: the tracing thread sleeps and has no core of
its own.

**Deadlock** is checked except in `lifecycle`, where the program ends (or hangs
after a lost stop, see above), in `monitor`, where a wrong file ends it, in
`statistics`, where the script is over when it has read its registers, and in the
violation runs.

## 4. The proofs

All proofs hold for every value of the constants that the named assumptions
allow.

- **`MyRingProofs`** (`RingAssumption`: the size is 2^k - 1, there is an
  element). `RingInvariant`: a block being written lies in free slots and holds
  what was stored so far; a block being copied is still what the ring holds;
  what the producer has and what the ring holds never exceed `Sz`. The last
  conjunct is needed because the check for room is made before the writes while
  the consumer moves on: it can only make more room. `NoTornElement` follows by
  counting all slots from `head` (`SlotFromHead`). `RingIsFifo`: a `Publish` is
  the insertion of the very block the producer was given and an `Advance` a
  removal in `BoundedFifo`, everything else is invisible; `RingImplementsFifo`
  draws `Spec => Fifo!Spec` from it.
- **`ServerProofs`** (`LifecycleAssumption`: there are finitely many threads;
  `JsonAssumption`, `StatsAssumption`: see section 5).
  *Exchange.* `HandInvariant`, of `HandSpec`, wherever the two threads are first
  looked at: call and answer are never both raised, and each value of the two
  flags belongs to one phase of the exchange. `LifecycleRunsExchange` is a
  refinement, `Spec => HandSpec`: start, barriers and interrupt touch the exchange
  only where a thread begins and where it is told to stop, so
  `ServerStoresWhileWaiting`, `ServerAnalyzesWholeBatch` and `ServerLosesNoBatch`
  hold of the whole server, lost stops included. `NoUserAfterStop`: as many
  arrivals as workers and the main thread can only be all of them
  (`OpenWhenAllLeft`, counting finite sets), hence behind the stop barrier no
  thread is in its loop.
  *Set-up.* `SetupInvariant` adds to the three properties `Established`, what each
  check of `_f_check_device_configure_param` leaves true for the steps behind it:
  the core lists are complete, balanced and without repetition, so that the
  sorted list of all cores and the list of workers have the same length and the
  same core at each position (`WorkersPlaced`), every index of `At` is inside its
  vector (`PipelinesBound`), and cutting the list of queues into consecutive
  pieces neither loses nor repeats one (`QueuesHandedOutOnce`), which needs that
  the ports differ, as `OpenNic` sees to.
  *Counters.* `CountersInvariant`: as long as no two threads were in one counter,
  what each holds of it in a register is what it is, and port by port sum and
  counter together are what was received, a sum that was stored and not yet
  cleared counted once. *Report.* `ReportBounded` needs `LastRound`: what the
  counters `stop()` has already passed hold again is at most what the present round
  of polls can have brought, since the parser looks at its stop flag between
  rounds. The total is a sum over a
  function; `Sums` gives it by its values on subsets, and the lemmas about it show
  that it does not depend on the order the fold takes.
- **`FlowPoolProofs`** (`PoolAssumption`). `PoolInvariant`: what is still to be
  taken in is newer than all that was; an entry of the queue bears the number its
  flow had when it was queued, and no two entries share a number or a flow; what
  the analyzer was told of a flow is below the flow's number while it is queued
  and equal to it once it is paused or closed. That a handed-over number grows
  (`HandsOverMore`) needs the last part; `QueueAgrees` and `PoolForgetsNothing`
  are parts of it. `HandsOverLongestWaiting` (`WaitInv`): the entry of a flow bears
  the smallest number of those of its metadata that were not handed over, and a
  flow without an entry has none such; both because a flow is queued again by the
  first metadata after a hand-over, under that metadata's number. That the
  queue has a smallest entry at all (`SmallestExists`) follows from the pigeonhole
  theorem for finite sets. `CountsMetadata` (`CountInv`): the metadata of the open
  flows are a finite set, to which a metadata taken in adds one element and from
  which a flow that is complete takes as many as it has; so the unsigned
  `metadata_num_in_pool` never passes below zero.
- **`ForwarderProofs`**. `ForwarderKeepsOrder` and `ForwarderKeepsPlace`: numbers
  are given out once, a flow holds its packets in order behind those that left,
  and only the newest can be dropped.
- **`ImisProofs`** (`PoolAssumption`). `ImisInv` puts the four threads and three
  rings together: numbers of a flow rise along each way, metadata ring, batch and
  result ring on one, packet ring, fetched block and queue on the other, wherever
  losses leave gaps; every number in a result or in `analyzed_parser_seq` has a
  verdict of its own flow behind it (`Judged`), and the flags say which thread
  may touch the batch. `ClassesAdvance` is its consequence: results of a flow come
  in order, so a later one never brings an older class. `PacketsWaitForResults`
  (`WaitsInv`): outside the loop that flushes its flow, the first packet of a queue
  is newer than the flow's newest result, in particular after a result overtook
  its packet. `CountsPackets` (`PlacesInv`) counts the occupied places of all
  queues.
  `PipelineForwards`, `Spec => ImplementsForwarder`, is the refinement: every step
  of a thread receives a packet, drops it, judges a flow as of a packet that has
  come, lets the oldest of a flow leave, or is invisible. Its own invariant,
  `SeenInv`, says that each number under way on the side of the metadata was
  received in a packet of that flow; it is lost only by the assert of line 184,
  which ends the process with a packet in the buffer's hand and which the
  refinement names as its only exception. `PipelineKeepsOrder` and
  `PipelineKeepsPlace` carry the two theorems of `ForwarderProofs` over, that last
  step included.
- **`FlowEntryProofs`**, escalation (`EscalationAssumption`, in particular `2 * Delay
  <= Timeout`). `EscalationInvariant`: a copy under way was mirrored by the owner of
  the entry in this era and not long after the entry's timestamp, so the entry
  cannot have timed out before the copy is back, whichever time it carries; this
  is what makes the flag earned (`EscalationIsEarned`). `OwnCounts` and `ThresholdIndex` need that the
  low bits of an 8-bit count go on where it wraps (`ByteIndex`).
  `EscalationLasts` is the action property.
  *The window* (`FlowManagerAssumption`, `WindowAssumption`).
  `WindowRefinesEntry`, `WindowSpec => Spec`, brings the escalation invariant in:
  a copy that comes round belongs to the present owner and finds its entry alive,
  so it changes neither owner nor count. On top of it `WindowInvariant`: read
  backwards from the ring position, the registers hold the owner's embeddings as
  far as they go, and the count says how far. It is stated relative to the ring
  position because that is reset with no change of owner.
  `WindowCorrect` follows with `SwapOldestFirst`: the seven hand-written
  rotations list the registers oldest first; `ClassifiedInTime` from what the
  count says. `OwnersKeepTheirEntries` needs that the unsigned difference of two
  readings of the wrapping clock is the time between them, which holds as long as
  no entry is idle for a whole period, and `Refreshed`: copies leave the entry's
  timestamp within `Delay` of the owner's last packet, after it in one version and
  before it in the other.
- **`StatisticsProofs`** (`BudgetAssumption`). `BudgetInvariant`: whatever the
  counter was left at by the last cycle, what was escalated in this one is at most
  the threshold of the position, since the counter is above zero only if it was
  counted or lowered to a threshold; `ThresholdGrows` and `ThresholdShare` are
  the arithmetic of `(i * Num) \div Den`. From it `BudgetKept` and
  `BudgetCountBounded`. `PipesKeepBudgetSpec`, `Spec => BudgetSpec`, carries these
  over to the two pipes (`PipesKeepBudget`). `StatisticsSound` is
  `EveryPacketCounted`, which is inductive with the types of the wires.
  `LoadCovered`: a packet on its way to the escalation port carries the bits by
  which the statistics count it for the IMIS. `MonitorReportSound` needs two things
  more. The share printed is one of all cycles, while `WithinBudget` speaks of the
  present one: `CyclesInv` adds up what the finished ones may have used and what is
  still under way. And figures are read one after the other: every register only
  grows, so a figure that was read is at most what its register holds now, and
  two figures compare as their registers did when the later one was read.
- **`AggregationProofs`** (`AggregationAssumption`, `KeyAssumption`:
  keys have a bit). `SumsInvariant`: a sum is at most the largest probability times
  the number of results the next index says are in it. It needs the 8-bit count to
  agree with the flow's number of results modulo the period (`CountStep`, since the
  period divides 256). From it `SumsFit`, and `SumsAreReference`, which is a
  refinement: `Spec => Reference!Spec`.
  `ClassIsReference`: the ternary tables are built along the bits of their keys,
  the highest first. By induction on the number of bits looked at (`Low` is what
  these bits leave, `Above` compares two of them), each part of a table is either
  `Silent` on a key or `Decides` for the class the comparison of those bits gives
  (`LevelDecides`, `HalfDecides`); the third table picks the better half, and ties
  go to the lower class as in `np.argmax`. `AmbiguityBounded`: a threshold is
  `int(index * t_conf)`, so an integer sum is below it only if it is below the
  product, and if it is a unit below the product it is (`ThresholdRounds`).

How induction over data is done. The provers take no theorem with an operator
parameter, so every induction is one over a set of numbers: `NatSet` says that a
set that holds 0 and with each number the next one holds every number, and follows
from the library's theorem that `<` on `Nat` is well-founded. A recursive function
is given by the existence of one that satisfies its equation, shown with `NatSet`
on the length or the size of a set; that is how `FlattenSeq`, `FoldFunction` and
`Weight` are unfolded.

Only model-checked: liveness (`EveryCallAnswered`, `InterruptEnds`,
`EveryPacketLeaves`), which the prover does not support under fairness. Every other
property of a passing run is a theorem. The violation runs show what a single
instance shows; nothing is proved about `MetadataLayout`.

## 5. Assumptions of the models

- Stores to `head`, `tail` and the two flags become visible in program order, as
  on the x86 server the code is built for: it uses `volatile` and no fence. The
  mutant `PublishEarly` shows what reordering would do to the ring.
- A ring has one producer and one consumer, as `create_worker_threads` wires it
  (`PipelinesComplete`).
- A counter of the parser is loaded and stored as a whole; the compiler keeps each
  `++` a load and a store.
- The file gives every list of cores and the master core. Otherwise `main` returns:
  the defaults `DeviceConfigParam` has for them (core 29 is in one of them twice)
  are never used. A section that is missing lets `deviceConfig.cpp:745-755` print
  "use default" and leaves its pointer null; with `DISP_PARAM` and verbose mode
  `create_worker_threads` reads it and the process ends (`crashed`). So it does for
  a file without parsers, by the division at `deviceConfig.cpp:37` that shares the
  queues out. Numbers are read into unsigned types and lists hold numbers
  (`JsonAssumption`); a burst is a number (`StatsAssumption`).
- `number_rx_queue` is not checked against the number of parsers, which is why
  `Lifecycle` has a parser without a queue. `core_id` of the DPDK section is only
  printed and is left out.
- No flow hashes to the id 0 that a cleared entry holds.
- Registers of the switch are read and written atomically, each in one stage,
  and packets do not overtake each other between ingress and egress. A packet
  the traffic manager drops between them is not modelled. The monitor reads a
  register array as a whole, and the 32-bit counters do not wrap before a report.
- A mirrored packet is back within half of `TIMEOUT` (256 ms). Beyond that,
  `FlagEarned` is false in the testbed version: the flag of a flow whose entry was
  restarted meanwhile is set by its old packet.
- `runtime/cleanup.py` is run between two experiments, when no mirrored packet is
  under way. It does not check this itself.
- What the networks answer is free. `int((i+1)*t)` is computed exactly; the
  script does it in floating point.
- In `MetadataLayout` an IP header has no options, and the values of the bytes,
  the masking of addresses (`dataset.py:55-64`, which the server does not do) and
  the normalisation of the images are left out: only places are compared.
- An `assert(false)` (`bufferWorker.cpp:93`) sits in the path of a flow whose
  queue is full; the models of the buffer cover the build with asserts
  (`Asserting`) and the one without.

## 6. Not modelled

- `json.hpp` is a vendored library of 25447 lines, most of the C++ in the
  repository. Of the other lines of the sources the models name, about two in five
  stand behind a definition; the rest are includes, declarations, printing, logs,
  byte counters and time records that only go to a log.
- `stop()` of the buffer (`bufferWorker.hpp:218`) walks an `unordered_map` on the
  main thread while the worker inserts into it. That has no defined outcome to
  enumerate, and what it computes only goes to a log.
- That the template's combination of `TRACING` without `DATA_FLOW` never sums before
  `stop()` is modelled (`tracing_sums` in `ParserStats`), the figures logged
  meanwhile are not.
- A packet that is not TCP or UDP over IPv4, or that the filter `TEST_BURST` (on,
  `dpdkCommon.hpp:46`) does not want, is freed before it is numbered or counted
  (`parserWorker.cpp:111-144`): it touches nothing the models keep. `Parse` and
  `Receive` are about the others. The parser is therefore listed as modelled in
  part.
- The networks on the switch (`ig_gru.p4`, `eg_gru.p4`, `embedding.p4`,
  `per_packet.p4`) are look-ups of trained weights without state; the parsers are
  stateless; `setup/` and `translate/` install tables in a straight line, and what
  they install is modelled where something depends on it (thresholds, forwarding,
  ternary tables).
- Training, and the transformer itself.

## 7. Plan

Written so far: everything in section 2, with a theorem for every property that is
not about liveness. What could come next:

1. sharper forms of what is proved: for `ReportCoversRun` the exact difference, as
   a sum over the polls that come after the last collection; for `Imis` a theorem
   that packet and metadata losses alone decide which packets leave without a class;
2. the premises of `InterruptEnds` and `EveryPacketLeaves` split into a safety part
   that can be proved (which thread can be where when a stop arrives) and a small
   liveness part for TLC;
3. `MetadataLayout`: for every length of the two headers, which cells of the input
   differ from training.
