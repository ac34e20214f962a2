----------------------------- MODULE FlowBuffer -----------------------------
(***************************************************************************)
(* The buffer worker (bufferWorker.cpp).  A packet waits in the queue of   *)
(* its flow until a result covers its parser_seq; later packets of a flow  *)
(* that is covered already pass straight through.  With FLOW_TIME_RECORD   *)
(* (on in the source) it also matches the packets it releases with the     *)
(* time record that comes with the result.                                 *)
(*                                                                         *)
(* One step per packet fetched, per result applied and per packet flushed. *)
(* leaving is the sequence of packets that left, with the type written     *)
(* into the header and the analysis it is from: the parser_seq of that     *)
(* result, or 0.                                                           *)
(***************************************************************************)
EXTENDS Integers, Sequences, FiniteSets

CONSTANTS Flow,
          PktType,            \* classes the analyzer can answer
          BufferSizePerFlow,  \* buffer_size_per_flow
          IdxAtBirth,         \* what the uninitialised time_record_idx can hold
          Asserting           \* built without NDEBUG, as common.hpp has it

VARIABLES flow_buffer,
          pkt_from_parser,        \* fetched, not yet handled
          result_from_analyzer,   \* fetched, not yet applied
          pkt_num_in_buffer,
          buffer,                 \* where the buffer thread is in its loop
          leaving,
          aborted                 \* the line of the assert that ended the process, or 0

bufferVars == <<flow_buffer, pkt_from_parser, result_from_analyzer,
                pkt_num_in_buffer, buffer, leaving, aborted>>

Known == DOMAIN flow_buffer

\* FlowBuffer(): everything is set but time_record_idx.
NewBuffer(idx) == [queue |-> << >>, analyzed |-> 0, type |-> 0, times |-> << >>, idx |-> idx]

WithBuffer(f, b) == [g \in Known \union {f} |-> IF g = f THEN b ELSE flow_buffer[g]]

InitBuffer ==
  /\ flow_buffer = [f \in {} |-> 0]
  /\ pkt_from_parser = << >> /\ result_from_analyzer = << >>
  /\ pkt_num_in_buffer = 0
  /\ buffer = "fetch"
  /\ leaving = << >>
  /\ aborted = 0

\* send: the mbuf goes to the NIC, or is freed if the NIC does not take it;
\* either way the buffer is done with it.
Send(pkt, type, by) ==
  leaving' = Append(leaving, [id |-> pkt.id, seq |-> pkt.seq, type |-> type, by |-> by])
-----------------------------------------------------------------------------
FetchPkts(block) ==
  /\ buffer = "fetch" /\ aborted = 0
  /\ pkt_from_parser' = block
  /\ buffer' = "pkts"
  /\ UNCHANGED <<flow_buffer, result_from_analyzer, pkt_num_in_buffer, leaving, aborted>>

Pkt == Head(pkt_from_parser)

Handling == buffer = "pkts" /\ aborted = 0 /\ pkt_from_parser # << >>

\* First packet of a flow.
PktNewFlow ==
  /\ Handling
  /\ Pkt.id \notin Known
  /\ \E idx \in IdxAtBirth :
       flow_buffer' = WithBuffer(Pkt.id, [NewBuffer(idx) EXCEPT !.queue = <<Pkt>>])
  /\ pkt_num_in_buffer' = pkt_num_in_buffer + 1
  /\ pkt_from_parser' = Tail(pkt_from_parser)
  /\ UNCHANGED <<result_from_analyzer, buffer, leaving, aborted>>

\* Mutant: passes without looking at what the result covers.
PktPassUnchecked ==
  /\ Handling
  /\ Pkt.id \in Known
  /\ flow_buffer[Pkt.id].queue = << >>
  /\ Send(Pkt, flow_buffer[Pkt.id].type, flow_buffer[Pkt.id].analyzed)
  /\ pkt_from_parser' = Tail(pkt_from_parser)
  /\ UNCHANGED <<flow_buffer, result_from_analyzer, pkt_num_in_buffer, buffer, aborted>>

\* Nothing waits and the result at hand covers the packet: it passes.
PktPass ==
  /\ Handling
  /\ Pkt.id \in Known
  /\ flow_buffer[Pkt.id].queue = << >> /\ Pkt.seq <= flow_buffer[Pkt.id].analyzed
  /\ Send(Pkt, flow_buffer[Pkt.id].type, flow_buffer[Pkt.id].analyzed)
  /\ pkt_from_parser' = Tail(pkt_from_parser)
  /\ UNCHANGED <<flow_buffer, result_from_analyzer, pkt_num_in_buffer, buffer, aborted>>

\* The packet waits behind the others of its flow, or for a newer result.
PktWait ==
  LET b == flow_buffer[Pkt.id] IN
  /\ Handling
  /\ Pkt.id \in Known
  /\ IF b.queue = << >> THEN Pkt.seq > b.analyzed ELSE Len(b.queue) # BufferSizePerFlow
  /\ flow_buffer' = [flow_buffer EXCEPT ![Pkt.id].queue = Append(@, Pkt)]
  /\ pkt_num_in_buffer' = pkt_num_in_buffer + 1
  /\ pkt_from_parser' = Tail(pkt_from_parser)
  /\ UNCHANGED <<result_from_analyzer, buffer, leaving, aborted>>

\* Mutant: the packet pushed out is still counted.
PktOverflowCounted ==
  /\ Handling
  /\ Pkt.id \in Known
  /\ Len(flow_buffer[Pkt.id].queue) = BufferSizePerFlow
  /\ Send(Head(flow_buffer[Pkt.id].queue), 0, 0)
  /\ flow_buffer' = [flow_buffer EXCEPT ![Pkt.id].queue = Append(Tail(@), Pkt)]
  /\ pkt_num_in_buffer' = pkt_num_in_buffer + 1
  /\ pkt_from_parser' = Tail(pkt_from_parser)
  /\ UNCHANGED <<result_from_analyzer, buffer, aborted>>

\* The queue of the flow is full: its oldest packet leaves unclassified, with
\* the type of service it came with; assert(false) follows.
PktOverflow ==
  LET b == flow_buffer[Pkt.id] IN
  /\ Handling
  /\ Pkt.id \in Known
  /\ b.queue # << >> /\ Len(b.queue) = BufferSizePerFlow
  /\ Send(Head(b.queue), 0, 0)
  /\ IF Asserting
     THEN /\ aborted' = 93
          /\ flow_buffer' = [flow_buffer EXCEPT ![Pkt.id].queue = Tail(@)]
          /\ pkt_num_in_buffer' = pkt_num_in_buffer - 1
          /\ UNCHANGED pkt_from_parser
     ELSE /\ flow_buffer' = [flow_buffer EXCEPT ![Pkt.id].queue = Append(Tail(@), Pkt)]
          /\ pkt_from_parser' = Tail(pkt_from_parser)
          /\ UNCHANGED <<pkt_num_in_buffer, aborted>>
  /\ UNCHANGED <<result_from_analyzer, buffer>>

HandlePkt == PktNewFlow \/ PktPass \/ PktWait \/ PktOverflow
-----------------------------------------------------------------------------
\* All packets are handled; fetch_result_from_analyzer, and flush if any came.
FetchResults(block) ==
  /\ buffer = "pkts" /\ pkt_from_parser = << >> /\ aborted = 0
  /\ result_from_analyzer' = block
  /\ buffer' = IF block = << >> THEN "fetch" ELSE "apply"
  /\ UNCHANGED <<flow_buffer, pkt_from_parser, pkt_num_in_buffer, leaving, aborted>>

Result == Head(result_from_analyzer)

\* FlowTimeRecordComplex::update copies the entries it does not have yet.
UpdateTimes(times, new) ==
  IF Len(new) <= Len(times) THEN SubSeq(times, 1, Len(new))
                            ELSE times \o SubSeq(new, Len(times) + 1, Len(new))

\* The result of a flow without a packet so far opens its buffer.
ResultNewFlow ==
  /\ buffer = "apply" /\ aborted = 0
  /\ Result.id \notin Known
  /\ \E idx \in IdxAtBirth :
       flow_buffer' = WithBuffer(Result.id,
         [NewBuffer(idx) EXCEPT !.analyzed = Result.seq, !.type = Result.type,
                                !.times = UpdateTimes(<< >>, Result.times)])
  /\ result_from_analyzer' = Tail(result_from_analyzer)
  /\ buffer' = IF Len(result_from_analyzer) = 1 THEN "fetch" ELSE "apply"
  /\ UNCHANGED <<pkt_from_parser, pkt_num_in_buffer, leaving, aborted>>

ResultKnownFlow ==
  LET b == flow_buffer[Result.id] IN
  /\ buffer = "apply" /\ aborted = 0
  /\ Result.id \in Known
  /\ flow_buffer' = [flow_buffer EXCEPT
        ![Result.id] = [b EXCEPT !.analyzed = Result.seq, !.type = Result.type,
                                 !.times = UpdateTimes(b.times, Result.times)]]
  /\ buffer' = "flush"
  /\ UNCHANGED <<pkt_from_parser, result_from_analyzer, pkt_num_in_buffer, leaving, aborted>>

\* Mutant: off by one, the packet the result was computed for is left behind.
CoveredBefore(b) == b.queue # << >> /\ Head(b.queue).seq < b.analyzed

Covered(b) == b.queue # << >> /\ Head(b.queue).seq <= b.analyzed

\* The assert of bufferWorker.cpp:184, about the entry the packet is matched with.
TimesMatch(b) ==
  b.idx < Len(b.times) => b.times[b.idx + 1] = Head(b.queue).seq

FlushPkt ==
  LET b == flow_buffer[Result.id] IN
  /\ buffer = "flush" /\ aborted = 0
  /\ Covered(b)
  /\ IF Asserting /\ ~TimesMatch(b)
     THEN /\ aborted' = 184
          /\ flow_buffer' = [flow_buffer EXCEPT ![Result.id].queue = Tail(@)]
          /\ UNCHANGED <<pkt_num_in_buffer, leaving>>
     ELSE /\ flow_buffer' = [flow_buffer EXCEPT
                ![Result.id].queue = Tail(@),
                ![Result.id].idx = IF @ < Len(b.times) THEN @ + 1 ELSE @]
          /\ Send(Head(b.queue), b.type, b.analyzed)
          /\ pkt_num_in_buffer' = pkt_num_in_buffer - 1
          /\ UNCHANGED aborted
  /\ UNCHANGED <<pkt_from_parser, result_from_analyzer, buffer>>

\* The flow has nothing more to release: on to the next result.
FlushDone ==
  /\ buffer = "flush" /\ aborted = 0
  /\ ~Covered(flow_buffer[Result.id])
  /\ result_from_analyzer' = Tail(result_from_analyzer)
  /\ buffer' = IF Len(result_from_analyzer) = 1 THEN "fetch" ELSE "apply"
  /\ UNCHANGED <<flow_buffer, pkt_from_parser, pkt_num_in_buffer, leaving, aborted>>

ApplyResult == ResultNewFlow \/ ResultKnownFlow \/ FlushPkt \/ FlushDone
=============================================================================
