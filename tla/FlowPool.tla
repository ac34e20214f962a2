------------------------------ MODULE FlowPool ------------------------------
(***************************************************************************)
(* The pool worker (poolWorker.cpp).  It collects the metadata of the      *)
(* first METADATA_NUM_PER_FLOW packets of every flow and hands flows to    *)
(* the analyzer oldest first.  A flow handed over before its metadata is   *)
(* complete is paused until its next packet puts it back into the          *)
(* priority queue; a complete one is closed for good.                      *)
(*                                                                         *)
(* Each metadata taken into the pool and each flow taken out of it is one  *)
(* step.  Fetch and OutPoolBegin are parameterised by what the other       *)
(* threads supply: here any legal stream, in module Imis the real ones.    *)
(***************************************************************************)
EXTENDS Integers, Sequences, FiniteSets

CONSTANTS Flow,        \* five-tuples, equal in both directions
          MetaNum,     \* METADATA_NUM_PER_FLOW
          BatchSize,   \* batch_size of the pool configuration
          MaxSeq,      \* bound: the largest parser_seq
          Mark         \* 0x7000000000000000, above every parser_seq

ASSUME PoolAssumption ==
  /\ MetaNum \in Nat \ {0} /\ BatchSize \in Nat \ {0}
  /\ MaxSeq \in Nat /\ Mark \in Nat /\ Mark > MaxSeq

VARIABLES flow_record, flow_priority, metadata_num_in_pool,
          metadata_from_parser,   \* fetched, not yet taken into the pool
          input_item,             \* the batch out_pool is building
          pool                    \* where the pool thread is in its loop

poolVars == <<flow_record, flow_priority, metadata_num_in_pool,
              metadata_from_parser, input_item, pool>>

Seqs == 1 .. MaxSeq
Metadata == [id : Flow, seq : Seqs]

\* parser_seq |= 0x7000000000000000: the bits are clear, so the mark is added.
Marked(seq) == seq + Mark

Recorded == DOMAIN flow_record

InitPool ==
  /\ flow_record = [f \in {} |-> 0]
  /\ flow_priority = {}
  /\ metadata_num_in_pool = 0
  /\ metadata_from_parser = << >>
  /\ input_item = << >>
  /\ pool = "fetch"
-----------------------------------------------------------------------------
\* fetch_from_parser hands over what it dequeued.
Fetch(block) ==
  /\ pool = "fetch"
  /\ metadata_from_parser' = block
  /\ pool' = "in"
  /\ UNCHANGED <<flow_record, flow_priority, metadata_num_in_pool, input_item>>

NextMetadata == Head(metadata_from_parser)

\* in_pool, new flow.
InPoolNew ==
  LET m == NextMetadata IN
  /\ pool = "in" /\ metadata_from_parser # << >>
  /\ m.id \notin Recorded
  /\ flow_record' = [f \in Recorded \union {m.id} |->
        IF f = m.id THEN [seq |-> m.seq, num |-> 1, closed |-> FALSE,
                          paused |-> FALSE, times |-> <<m.seq>>]
                    ELSE flow_record[f]]
  /\ flow_priority' = flow_priority \union {<<m.seq, m.id>>}
  /\ metadata_num_in_pool' = metadata_num_in_pool + 1
  /\ metadata_from_parser' = Tail(metadata_from_parser)
  /\ UNCHANGED <<input_item, pool>>

\* in_pool, known flow that is closed or complete: the metadata is passed over.
InPoolPass ==
  LET m == NextMetadata IN
  /\ pool = "in" /\ metadata_from_parser # << >>
  /\ m.id \in Recorded
  /\ flow_record[m.id].closed \/ flow_record[m.id].num = MetaNum
  /\ metadata_from_parser' = Tail(metadata_from_parser)
  /\ UNCHANGED <<flow_record, flow_priority, metadata_num_in_pool, input_item, pool>>

\* Mutant: a paused flow is queued again under the number it left with.
RequeuedAsBefore(f, seq) ==
  flow_priority \union (IF flow_record[f].paused THEN {<<flow_record[f].seq, f>>} ELSE {})

\* A paused flow is queued again, under the number of what it has collected since.
Requeued(f, seq) ==
  flow_priority \union (IF flow_record[f].paused THEN {<<seq, f>>} ELSE {})

\* Mutant: a paused flow stays paused and is not queued again.
InPoolAppendForgets ==
  LET m == NextMetadata IN
  /\ pool = "in" /\ metadata_from_parser # << >>
  /\ m.id \in Recorded
  /\ ~flow_record[m.id].closed /\ flow_record[m.id].num # MetaNum
  /\ flow_record' = [flow_record EXCEPT
        ![m.id].seq = m.seq, ![m.id].num = @ + 1, ![m.id].times = Append(@, m.seq)]
  /\ metadata_num_in_pool' = metadata_num_in_pool + 1
  /\ metadata_from_parser' = Tail(metadata_from_parser)
  /\ UNCHANGED <<flow_priority, input_item, pool>>

\* Mutant: the flow is queued again whether it was paused or not, under the
\* sequence number of its newest metadata but with the old one in the record.
InPoolAppendTwice ==
  LET m == NextMetadata IN
  /\ pool = "in" /\ metadata_from_parser # << >>
  /\ m.id \in Recorded
  /\ ~flow_record[m.id].closed /\ flow_record[m.id].num # MetaNum
  /\ flow_record' = [flow_record EXCEPT
        ![m.id].num = @ + 1, ![m.id].paused = FALSE, ![m.id].times = Append(@, m.seq)]
  /\ flow_priority' = flow_priority \union {<<m.seq, m.id>>}
  /\ metadata_num_in_pool' = metadata_num_in_pool + 1
  /\ metadata_from_parser' = Tail(metadata_from_parser)
  /\ UNCHANGED <<input_item, pool>>

\* in_pool, known flow that is still collecting.
InPoolAppend ==
  LET m == NextMetadata IN
  /\ pool = "in" /\ metadata_from_parser # << >>
  /\ m.id \in Recorded
  /\ ~flow_record[m.id].closed /\ flow_record[m.id].num # MetaNum
  /\ flow_record' = [flow_record EXCEPT
        ![m.id] = [seq |-> m.seq, num |-> @.num + 1, closed |-> FALSE,
                   paused |-> FALSE, times |-> Append(@.times, m.seq)]]
  /\ flow_priority' = Requeued(m.id, m.seq)
  /\ metadata_num_in_pool' = metadata_num_in_pool + 1
  /\ metadata_from_parser' = Tail(metadata_from_parser)
  /\ UNCHANGED <<input_item, pool>>

InPool == InPoolNew \/ InPoolPass \/ InPoolAppend

\* The loop of run() reads call_by_analyzer once all metadata is in the pool.
OutPoolBegin(call) ==
  /\ pool = "in" /\ metadata_from_parser = << >>
  /\ pool' = IF call THEN "out" ELSE "fetch"
  /\ UNCHANGED <<flow_record, flow_priority, metadata_num_in_pool,
                 metadata_from_parser, input_item>>

\* flow_priority.top(): the entry with the smallest sequence number.
Top == CHOOSE e \in flow_priority : \A other \in flow_priority : e[1] <= other[1]

\* Mutant: a paused flow leaves the count as a closed one does, and a flow one
\* metadata short counts as complete.
OutPoolFlowEarly ==
  LET f == Top[2]
      r == flow_record[f]
      full == r.num >= MetaNum - 1
  IN
  /\ pool = "out"
  /\ Len(input_item) < BatchSize /\ flow_priority # {}
  /\ flow_priority' = flow_priority \ {Top}
  /\ input_item' = Append(input_item,
        [id |-> f, seq |-> IF full THEN Marked(r.seq) ELSE r.seq, times |-> r.times])
  /\ flow_record' = IF full THEN [flow_record EXCEPT ![f].closed = TRUE]
                            ELSE [flow_record EXCEPT ![f].paused = TRUE]
  /\ metadata_num_in_pool' = metadata_num_in_pool - r.num
  /\ UNCHANGED <<metadata_from_parser, pool>>

\* out_pool takes one flow, which stays recorded.
OutPoolFlow ==
  LET f == Top[2]
      r == flow_record[f]
      full == r.num = MetaNum
  IN
  /\ pool = "out"
  /\ Len(input_item) < BatchSize /\ flow_priority # {}
  /\ flow_priority' = flow_priority \ {Top}
  /\ input_item' = Append(input_item,
        [id |-> f, seq |-> IF full THEN Marked(r.seq) ELSE r.seq, times |-> r.times])
  /\ IF full
     THEN /\ flow_record' = [flow_record EXCEPT ![f].closed = TRUE]
          /\ metadata_num_in_pool' = metadata_num_in_pool - r.num
     ELSE /\ flow_record' = [flow_record EXCEPT ![f].paused = TRUE]
          /\ UNCHANGED metadata_num_in_pool
  /\ UNCHANGED <<metadata_from_parser, pool>>

\* The batch is complete and leaves for the analyzer.
OutPoolEnd ==
  /\ pool = "out"
  /\ Len(input_item) = BatchSize \/ flow_priority = {}
  /\ input_item' = << >>
  /\ pool' = "fetch"
  /\ UNCHANGED <<flow_record, flow_priority, metadata_num_in_pool, metadata_from_parser>>
=============================================================================
