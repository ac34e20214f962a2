----------------------------- MODULE ParserStats -----------------------------
(***************************************************************************)
(* The packet counters of one parser (parserWorker.cpp).  The parser       *)
(* counts what it receives; its tracing thread, detached and on no core of *)
(* its own, and stop(), on the main thread, add the counters to the sums   *)
(* and clear them.  The semaphore the parser takes is taken by nobody      *)
(* else: a counter is loaded, changed and stored by three threads with     *)
(* nothing between them.  The parser indexes its counters by the number of *)
(* the port, the other two by the position of the port in nic_queue_list.  *)
(*                                                                         *)
(* The parser is one of those module Setup has launched.  The counters of  *)
(* bytes, which are kept the same way, are left out.                       *)
(***************************************************************************)
EXTENDS Setup

CONSTANTS MaxBurst,       \* max_receive_burst
          MaxPackets      \* bound: packets received

ASSUME StatsAssumption == MaxBurst \in Nat /\ MaxPackets \in Nat

VARIABLES devices,          \* the ports in the order of nic_queue_list
          polls,            \* the ports in the order one round polls their queues
          tracing_sums,     \* verbose_mode: TRACING without DATA_FLOW does not sum
          parser,           \* where the parser is: at, the poll, packets left, register
          collector,        \* "tracer", "main" -> where it is: at, index, register
          parser_stop,
          parsed_pkt_num, sum_parsed_pkt_num,
          strayed,          \* the parser wrote behind the end of its counters
          counted,          \* history: port -> packets received
          overlap,          \* history: two threads were between load and store
          reported          \* what get_overall_performance returned, or -1

threadVars == <<devices, polls, tracing_sums>>
counterVars == <<parsed_pkt_num, sum_parsed_pkt_num>>
statsVars == <<threadVars, parser, collector, parser_stop, counterVars,
               strayed, counted, overlap, reported>>
allVars == <<setupVars, statsVars>>

StatsInit ==
  /\ InitSetup
  /\ devices = << >> /\ polls = << >> /\ tracing_sums \in BOOLEAN
  /\ parser = [at |-> "idle", poll |-> 1, burst |-> 0, reg |-> 0]
  /\ collector = [c \in {"tracer", "main"} |-> [at |-> "idle", index |-> 1, reg |-> 0]]
  /\ parser_stop = FALSE
  /\ parsed_pkt_num = << >> /\ sum_parsed_pkt_num = << >>
  /\ strayed = FALSE /\ counted = Nobody /\ overlap = FALSE /\ reported = -1

\* Parser k runs.  nic_queue_list is a map from pointers: the order of its ports
\* is that of the addresses the devices happen to have.
Run(k) ==
  LET ports == {nic_queue_list[k][i][1] : i \in DOMAIN nic_queue_list[k]}
      Queues(p) == Cardinality({q \in Range(nic_queue_list[k]) : q[1] = p})
  IN
  /\ setup = "launched" /\ devices = << >>
  /\ ports # {}
  /\ devices' \in {d \in [1 .. Cardinality(ports) -> ports] : IsInjective(d)}
  /\ polls' = FlattenSeq([d \in DOMAIN devices' |-> [i \in 1 .. Queues(devices'[d]) |-> devices'[d]]])
  /\ parser' = [parser EXCEPT !.at = "round"]
  /\ collector' = [tracer |-> [collector["tracer"] EXCEPT !.at = "sleeping"],
                   main |-> [collector["main"] EXCEPT !.at = "running"]]
  /\ parsed_pkt_num' = [d \in DOMAIN devices' |-> 0]
  /\ sum_parsed_pkt_num' = [d \in DOMAIN devices' |-> 0]
  /\ counted' = [p \in ports |-> 0]
  /\ UNCHANGED <<tracing_sums, parser_stop, strayed, reported>>
-----------------------------------------------------------------------------
(* The parser.                                                             *)

Packets == FoldFunction(+, 0, counted)

Slot == polls[parser.poll] + 1

\* The poll is done: on to the next queue, or to the next round.
NextPoll ==
  IF parser.poll < Len(polls) THEN [parser EXCEPT !.at = "poll", !.poll = @ + 1, !.burst = 0]
                              ELSE [parser EXCEPT !.at = "round", !.poll = 1, !.burst = 0]

\* while (!m_stop), looked at between two rounds only.
BeginRound ==
  /\ parser.at = "round"
  /\ parser' = [parser EXCEPT !.at = IF parser_stop THEN "left" ELSE "poll"]
  /\ UNCHANGED <<threadVars, collector, parser_stop, counterVars, strayed, counted, reported>>

Receive(n) ==
  /\ parser.at = "poll" /\ Packets + n <= MaxPackets
  /\ parser' = IF n = 0 THEN NextPoll ELSE [parser EXCEPT !.at = "load", !.burst = n]
  /\ UNCHANGED <<threadVars, collector, parser_stop, counterVars, strayed, counted, reported>>

\* ++parsed_pkt_num[dev_id]: what is behind the end of the vector is not ours.
LoadCount ==
  /\ parser.at = "load"
  /\ IF Slot \in DOMAIN parsed_pkt_num
     THEN /\ parser' = [parser EXCEPT !.at = "store", !.reg = parsed_pkt_num[Slot]]
          /\ UNCHANGED strayed
     ELSE /\ strayed' = TRUE
          /\ parser' = [parser EXCEPT !.at = "undefined"]
  /\ UNCHANGED <<threadVars, collector, parser_stop, counterVars, counted, reported>>

StoreCount ==
  /\ parser.at = "store"
  /\ parsed_pkt_num' = [parsed_pkt_num EXCEPT ![Slot] = parser.reg + 1]
  /\ counted' = [counted EXCEPT ![polls[parser.poll]] = @ + 1]
  /\ parser' = IF parser.burst > 1 THEN [parser EXCEPT !.at = "load", !.burst = @ - 1, !.reg = 0]
                                   ELSE [NextPoll EXCEPT !.reg = 0]
  /\ UNCHANGED <<threadVars, collector, parser_stop, sum_parsed_pkt_num, strayed, reported>>

ParserStep == BeginRound \/ (\E n \in 0 .. MaxBurst : Receive(n)) \/ LoadCount \/ StoreCount
-----------------------------------------------------------------------------
(* The tracing thread and stop(): sum += parsed; parsed = 0, port by port.  *)

Goes(c, place) == collector' = [collector EXCEPT ![c] = place]

\* while (!m_stop) of the tracing thread, after a sleep of any length.
WakeTracer ==
  LET t == collector["tracer"] IN
  /\ t.at = "sleeping"
  /\ parser_stop \/ tracing_sums
  /\ Goes("tracer", [t EXCEPT !.at = IF parser_stop THEN "ended" ELSE "read"])
  /\ UNCHANGED <<threadVars, parser, parser_stop, counterVars, strayed, counted, reported>>

\* Mutant: stop() leaves what was counted since the last round of tracing.
StopUncollected ==
  /\ collector["main"].at = "running"
  /\ parser_stop' = TRUE
  /\ Goes("main", [collector["main"] EXCEPT !.at = "barrier"])
  /\ UNCHANGED <<threadVars, parser, counterVars, strayed, counted, reported>>

Stop ==
  /\ collector["main"].at = "running"
  /\ parser_stop' = TRUE
  /\ Goes("main", [collector["main"] EXCEPT !.at = "read"])
  /\ UNCHANGED <<threadVars, parser, counterVars, strayed, counted, reported>>

LoadSum(c) ==
  LET t == collector[c] IN
  /\ t.at = "read"
  /\ Goes(c, [t EXCEPT !.at = "write",
                       !.reg = sum_parsed_pkt_num[t.index] + parsed_pkt_num[t.index]])
  /\ UNCHANGED <<threadVars, parser, parser_stop, counterVars, strayed, counted, reported>>

StoreSum(c) ==
  LET t == collector[c] IN
  /\ t.at = "write"
  /\ sum_parsed_pkt_num' = [sum_parsed_pkt_num EXCEPT ![t.index] = t.reg]
  /\ Goes(c, [t EXCEPT !.at = "clear", !.reg = 0])
  /\ UNCHANGED <<threadVars, parser, parser_stop, parsed_pkt_num, strayed, counted, reported>>

AfterClear(c) ==
  LET t == collector[c] IN
  IF t.index < Len(devices) THEN [t EXCEPT !.at = "read", !.index = @ + 1]
  ELSE [t EXCEPT !.at = IF c = "main" THEN "barrier" ELSE "sleeping", !.index = 1]

\* Mutant: only the first port's counter is cleared.
ClearFirst(c) ==
  LET t == collector[c] IN
  /\ t.at = "clear"
  /\ parsed_pkt_num' = [parsed_pkt_num EXCEPT ![1] = 0]
  /\ Goes(c, AfterClear(c))
  /\ UNCHANGED <<threadVars, parser, parser_stop, sum_parsed_pkt_num, strayed, counted, reported>>

Clear(c) ==
  LET t == collector[c] IN
  /\ t.at = "clear"
  /\ parsed_pkt_num' = [parsed_pkt_num EXCEPT ![t.index] = 0]
  /\ Goes(c, AfterClear(c))
  /\ UNCHANGED <<threadVars, parser, parser_stop, sum_parsed_pkt_num, strayed, counted, reported>>

\* get_overall_performance, behind the stop barrier: the parser has left its loop,
\* the tracing thread need not have.
OverallPerformance ==
  /\ collector["main"].at = "barrier" /\ parser.at = "left"
  /\ reported' = FoldFunction(+, 0, sum_parsed_pkt_num)
  /\ Goes("main", [collector["main"] EXCEPT !.at = "ended"])
  /\ UNCHANGED <<threadVars, parser, parser_stop, counterVars, strayed, counted>>

Collect(c) == LoadSum(c) \/ StoreSum(c) \/ Clear(c)
-----------------------------------------------------------------------------
\* The counters a thread has loaded and not yet stored or cleared.
Holds(c) == IF collector[c].at \in {"write", "clear"} THEN {collector[c].index} ELSE {}
ParserHolds == IF parser.at = "store" THEN {Slot} ELSE {}

Overlapping ==
  Holds("tracer") \cap Holds("main") # {} \/ (Holds("tracer") \union Holds("main")) \cap ParserHolds # {}

StatsStep ==
  \/ \E k \in DOMAIN nic_queue_list : Run(k)
  \/ devices # << >> /\ (ParserStep \/ WakeTracer \/ Stop \/ OverallPerformance)
  \/ \E c \in {"tracer", "main"} : Collect(c)

StatsNext ==
  \/ SetupStep /\ UNCHANGED statsVars
  \/ StatsStep /\ overlap' = (overlap \/ Overlapping') /\ UNCHANGED setupVars

StatsSpec == StatsInit /\ [][StatsNext]_allVars
-----------------------------------------------------------------------------
\* The number of every port is its position, as with the one port 0 of
\* configTemplate.json.  Nothing ensures it for other configurations.
PortsInPlace == \A d \in DOMAIN devices : devices[d] = d - 1

\* Where the numbers of the ports are their positions, no packet is counted for
\* another port, behind the end of the counters, twice or not at all, whichever
\* thread collects when, unless two of them were between load and store at once.
CountersExact ==
  PortsInPlace =>
    /\ ~strayed
    /\ ~overlap =>
         \A d \in DOMAIN devices :
           counted[devices[d]] =
             sum_parsed_pkt_num[d]
               + IF \E c \in {"tracer", "main"} : collector[c].at = "clear" /\ collector[c].index = d
                 THEN 0 ELSE parsed_pkt_num[d]

\* The overall performance the program prints misses at most the packets of one
\* round: those the parser received after stop() had collected its counters.
ReportCoversRun ==
  reported >= 0 /\ PortsInPlace /\ ~overlap =>
    Packets - reported \in 0 .. Len(polls) * MaxBurst
=============================================================================
