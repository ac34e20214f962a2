-------------------------------- MODULE Imis --------------------------------
(***************************************************************************)
(* One IMIS pipeline (deviceConfig.cpp starts any number of them): the     *)
(* parser, the pool, the analyzer and the buffer worker, each a thread on  *)
(* a core of its own, and the three rings between them.                    *)
(*                                                                         *)
(*   parser --metadata--> pool ==batch==> analyzer --results--> buffer     *)
(*   parser --packets-----------------------------------------> buffer     *)
(*                                                                         *)
(* A ring is the bounded queue that MyRing is shown to implement.  The     *)
(* pool, the exchange of batches and the buffer are the modules FlowPool,  *)
(* PoolAnalyzer and FlowBuffer.  A packet is known by its flow and its     *)
(* parser_seq; its metadata carry the same two.                            *)
(***************************************************************************)
EXTENDS Integers, Sequences, FiniteSets, Functions

CONSTANTS Flow, PktType, MetaNum, BatchSize, BufferSizePerFlow,
          MetadataCap, PktCap, ResultCap,           \* sizes of the rings
          MetadataFetch, PktFetch, ResultFetch,     \* the *_num_fetch_from_*
          MaxSeq, Mark,                             \* bound on parser_seq; the mark
          IdxAtBirth, Asserting                     \* see FlowBuffer

ASSUME ImisAssumption ==
  /\ {MetaNum, BatchSize, BufferSizePerFlow, MetadataCap, PktCap, ResultCap,
      MetadataFetch, PktFetch, ResultFetch} \subseteq Nat \ {0}
  /\ MaxSeq \in Nat /\ Mark \in Nat /\ Mark > MaxSeq
  /\ IdxAtBirth \in SUBSET Nat /\ IdxAtBirth # {}
  /\ Asserting \in BOOLEAN

VARIABLES parser_seq, flow_packet_num,
          parsed,                    \* the packet between the two enqueues
          freed,                     \* packets freed because the ring was full
          parser_to_pool, parser_to_buffer, analyzer_to_buffer,
          flow_record, flow_priority, metadata_num_in_pool,
          metadata_from_parser, input_item, pool,
          call_by_analyzer, ready_for_analyzer, input_item_c, input_num_c,
          hand, analyzer, emitted, pool_stop, analyzer_stop,
          flow_buffer, pkt_from_parser, result_from_analyzer,
          pkt_num_in_buffer, buffer, leaving, aborted,
          verdicts,                  \* history: what the analyzer ever said
          refused                    \* history: a ring refused metadata or a result

Pool == INSTANCE FlowPool
Hand == INSTANCE PoolAnalyzer WITH Batch <- {<< >>}
Buf  == INSTANCE FlowBuffer

parserVars == <<parser_seq, flow_packet_num, parsed, freed>>
ringVars == <<parser_to_pool, parser_to_buffer, analyzer_to_buffer>>
poolVars == <<flow_record, flow_priority, metadata_num_in_pool,
              metadata_from_parser, input_item, pool>>
flagVars == <<call_by_analyzer, ready_for_analyzer>>
handVars == <<flagVars, input_item_c, input_num_c, hand, analyzer, emitted,
              pool_stop, analyzer_stop>>
bufferVars == <<flow_buffer, pkt_from_parser, result_from_analyzer,
                pkt_num_in_buffer, buffer, leaving, aborted>>
historyVars == <<verdicts, refused>>
vars == <<parserVars, ringVars, poolVars, handVars, bufferVars, historyVars>>

Init ==
  /\ parser_seq = 0 /\ flow_packet_num = [f \in {} |-> 0]
  /\ parsed = << >> /\ freed = {}
  /\ parser_to_pool = << >> /\ parser_to_buffer = << >> /\ analyzer_to_buffer = << >>
  /\ Pool!InitPool /\ Hand!InitHand("loop", "reset") /\ Buf!InitBuffer
  /\ verdicts = {} /\ refused = FALSE

Running == aborted = 0

\* Mutant: the newest element comes out first.
EnqueueInFront(ring, cap, e) == IF Len(ring) < cap THEN <<e>> \o ring ELSE ring

\* my_ring::enqueue on a ring of capacity cap: refused when full.
Enqueue(ring, cap, e) == IF Len(ring) < cap THEN Append(ring, e) ELSE ring

\* How many elements a thread may find and take when it asks for at most limit:
\* at least one if there is one.
Taken(ring, limit) ==
  IF ring = << >> THEN {0}
  ELSE 1 .. (IF Len(ring) < limit THEN Len(ring) ELSE limit)
Rest(ring, n) == SubSeq(ring, n + 1, Len(ring))
-----------------------------------------------------------------------------
(* The parser worker.                                                      *)

Counted(f) == f \in DOMAIN flow_packet_num

\* A TCP or UDP packet of flow f: it gets the next sequence number, and its
\* metadata go to the pool if it is among the first MetaNum of its flow.  The
\* packet counts even if the ring refuses its metadata.
Parse(f) ==
  LET seq == parser_seq + 1
      metadata == [id |-> f, seq |-> seq]
  IN
  /\ Running /\ parsed = << >> /\ parser_seq < MaxSeq
  /\ parser_seq' = seq
  /\ parsed' = <<metadata>>
  /\ IF ~Counted(f) \/ flow_packet_num[f] < MetaNum
     THEN /\ flow_packet_num' =
               [g \in DOMAIN flow_packet_num \union {f} |->
                  IF g # f THEN flow_packet_num[g]
                  ELSE IF Counted(f) THEN flow_packet_num[f] + 1 ELSE 1]
          /\ parser_to_pool' = Enqueue(parser_to_pool, MetadataCap, metadata)
          /\ refused' = (refused \/ Len(parser_to_pool) = MetadataCap)
     ELSE UNCHANGED <<flow_packet_num, parser_to_pool, refused>>
  /\ UNCHANGED <<freed, parser_to_buffer, analyzer_to_buffer,
                 poolVars, handVars, bufferVars, verdicts>>

\* Then the packet itself goes to the buffer, or back to the memory pool.
PassOn ==
  /\ Running /\ parsed # << >>
  /\ parser_to_buffer' = Enqueue(parser_to_buffer, PktCap, Head(parsed))
  /\ freed' = IF Len(parser_to_buffer) < PktCap THEN freed
                                               ELSE freed \union {Head(parsed)}
  /\ parsed' = << >>
  /\ UNCHANGED <<parser_seq, flow_packet_num, parser_to_pool, analyzer_to_buffer,
                 poolVars, handVars, bufferVars, historyVars>>
-----------------------------------------------------------------------------
(* The pool worker.                                                        *)

elsePool == <<parserVars, parser_to_buffer, analyzer_to_buffer, bufferVars, historyVars>>

FetchMetadata(n) ==
  /\ Running /\ hand = "loop"
  /\ Pool!Fetch(SubSeq(parser_to_pool, 1, n))
  /\ parser_to_pool' = Rest(parser_to_pool, n)
  /\ UNCHANGED <<elsePool, handVars>>

InPool ==
  /\ Running
  /\ Pool!InPool
  /\ UNCHANGED <<elsePool, parser_to_pool, handVars>>

\* The loop reads call_by_analyzer and, if it is raised, enters out_pool.
OutPoolBegin ==
  /\ Running
  /\ Pool!OutPoolBegin(call_by_analyzer)
  /\ IF call_by_analyzer THEN Hand!EnterOutPool ELSE UNCHANGED handVars
  /\ UNCHANGED <<elsePool, parser_to_pool>>

OutPoolFlow ==
  /\ Running
  /\ Pool!OutPoolFlow
  /\ UNCHANGED <<elsePool, parser_to_pool, handVars>>

\* The batch is complete and stored into the fields of the analyzer.
OutPoolEnd ==
  /\ Running
  /\ Pool!OutPoolEnd
  /\ Hand!StoreItems(input_item)
  /\ UNCHANGED <<elsePool, parser_to_pool>>

Answer ==
  /\ Running
  /\ Hand!StoreNum \/ Hand!ClearCall \/ Hand!SetReady
  /\ UNCHANGED <<elsePool, parser_to_pool, poolVars>>

PoolStep == \/ \E n \in Taken(parser_to_pool, MetadataFetch) : FetchMetadata(n)
            \/ InPool \/ OutPoolBegin \/ OutPoolFlow \/ OutPoolEnd \/ Answer
-----------------------------------------------------------------------------
(* The analyzer worker.                                                    *)

elseAnalyzer == <<parserVars, parser_to_pool, parser_to_buffer, poolVars, bufferVars>>

Ask ==
  /\ Running
  /\ Hand!ResetReady \/ Hand!Call \/ Hand!WakeUp \/ Hand!EndInference
  /\ UNCHANGED <<elseAnalyzer, analyzer_to_buffer, historyVars>>

\* The model gives the next flow of the batch a class; a full ring loses it.
EmitResult(type) ==
  LET item == input_item_c[emitted + 1]
      verdict == [id |-> item.id, seq |-> item.seq, type |-> type]
  IN
  /\ Running
  /\ Hand!EmitResult
  /\ analyzer_to_buffer' =
       Enqueue(analyzer_to_buffer, ResultCap,
               [id |-> item.id, seq |-> item.seq, type |-> type, times |-> item.times])
  /\ verdicts' = verdicts \union {verdict}
  /\ refused' = (refused \/ Len(analyzer_to_buffer) = ResultCap)
  /\ UNCHANGED elseAnalyzer

AnalyzerStep == Ask \/ \E type \in PktType : EmitResult(type)
-----------------------------------------------------------------------------
(* The buffer worker.                                                      *)

elseBuffer == <<parserVars, parser_to_pool, poolVars, handVars, historyVars>>

FetchPkts(n) ==
  /\ Buf!FetchPkts(SubSeq(parser_to_buffer, 1, n))
  /\ parser_to_buffer' = Rest(parser_to_buffer, n)
  /\ UNCHANGED <<elseBuffer, analyzer_to_buffer>>

HandlePkt == Buf!HandlePkt /\ UNCHANGED <<elseBuffer, parser_to_buffer, analyzer_to_buffer>>

FetchResults(n) ==
  /\ Buf!FetchResults(SubSeq(analyzer_to_buffer, 1, n))
  /\ analyzer_to_buffer' = Rest(analyzer_to_buffer, n)
  /\ UNCHANGED <<elseBuffer, parser_to_buffer>>

ApplyResult == Buf!ApplyResult /\ UNCHANGED <<elseBuffer, parser_to_buffer, analyzer_to_buffer>>

BufferStep == \/ \E n \in Taken(parser_to_buffer, PktFetch) : FetchPkts(n)
              \/ HandlePkt
              \/ \E n \in Taken(analyzer_to_buffer, ResultFetch) : FetchResults(n)
              \/ ApplyResult
-----------------------------------------------------------------------------
Next == (\E f \in Flow : Parse(f)) \/ PassOn \/ PoolStep \/ AnalyzerStep \/ BufferStep

Spec == Init /\ [][Next]_vars

\* Packets may stop arriving at any time; the four threads may not stop running.
FairSpec == Spec /\ WF_vars(PassOn) /\ WF_vars(PoolStep)
                 /\ WF_vars(AnalyzerStep) /\ WF_vars(BufferStep)
-----------------------------------------------------------------------------
Queue(f) == IF f \in DOMAIN flow_buffer THEN flow_buffer[f].queue ELSE << >>

\* The numbers of the packets of flow f that have not left: in its queue, in the
\* hands of the buffer, in the ring or in the hands of the parser.
Held(f) ==
  LET waiting == Range(Queue(f)) \union Range(pkt_from_parser)
                   \union Range(parser_to_buffer) \union Range(parsed)
  IN {p.seq : p \in {q \in waiting : q.id = f}}

\* The pipeline implements Forwarder: every packet that was received is in one
\* place, an mbuf is neither leaked nor sent or freed twice, a flow's packets
\* leave in their order, and the class they leave with was computed for their
\* flow as of that packet or later, with small rings overflowing everywhere.
\* The assert of line 184 ends the process with a packet in its hands.
Promise == INSTANCE Forwarder WITH
  received <- parser_seq, held <- [f \in Flow |-> Held(f)], dropped <- freed

ImplementsForwarder ==
  Promise!Init /\ [][Promise!Next \/ aborted' = 184]_(Promise!vars)

\* A packet waits only for a result that has not come: outside the loop that
\* flushes its flow, no packet waits that the flow's newest result covers.
WaitsForResult ==
  \A f \in DOMAIN flow_buffer :
    LET b == flow_buffer[f] IN
    b.queue # << >> /\ ~(buffer = "flush" /\ Head(result_from_analyzer).id = f)
      => Head(b.queue).seq > b.analyzed

\* A flow's class never goes back to an older analysis.
AnalyzedAdvances ==
  [][\A f \in DOMAIN flow_buffer : flow_buffer'[f].analyzed >= flow_buffer[f].analyzed]_vars

\* The places of all queues that are taken.
Waiting == UNION {{f} \X DOMAIN flow_buffer[f].queue : f \in DOMAIN flow_buffer}

\* The counter the buffer reports is the number of packets that wait.
BufferCountExact == Running => pkt_num_in_buffer = Cardinality(Waiting)

\* assert(time_record.parser_seq[time_record_idx] == pkt_info.parser_seq): the
\* packet that is released is the one the time record is filled in for.
TimeRecordMatches == aborted # 184

\* Unless a ring refused metadata or a result every packet leaves in the end (or
\* was freed when the ring of packets was full): once no more arrive, nothing
\* stays behind in a ring, in the pool's pauses or in the queue of a flow.
EveryPacketLeaves ==
  []~refused => <>[](Len(leaving) + Cardinality(freed) = parser_seq)
=============================================================================
