---------------------------- MODULE FlowPoolEnv ----------------------------
(***************************************************************************)
(* The pool worker among threads about which nothing is known but what     *)
(* the parser guarantees: metadata arrive with increasing sequence         *)
(* numbers, in blocks of any size, any of them may have been dropped on    *)
(* the way, and the analyzer calls whenever it likes.  reported remembers  *)
(* the sequence number each flow was last handed over with.                *)
(***************************************************************************)
EXTENDS FlowPool

CONSTANT MaxFetch      \* pkt_metadata_num_fetch_from_parser

VARIABLES parser_seq, reported

vars == <<poolVars, parser_seq, reported>>

Init == InitPool /\ parser_seq = 0 /\ reported = [f \in Flow |-> 0]

Arrive(n, skip, ids) ==
  /\ parser_seq + skip + n <= MaxSeq
  /\ Fetch([i \in 1 .. n |-> [id |-> ids[i], seq |-> parser_seq + skip + i]])
  /\ parser_seq' = parser_seq + skip + n
  /\ UNCHANGED reported

TakeIn == InPool /\ UNCHANGED <<parser_seq, reported>>

Check(call) == OutPoolBegin(call) /\ UNCHANGED <<parser_seq, reported>>

TakeOut ==
  /\ OutPoolFlow
  /\ reported' = [reported EXCEPT ![Top[2]] = input_item'[Len(input_item) + 1].seq]
  /\ UNCHANGED parser_seq

Finish == OutPoolEnd /\ UNCHANGED <<parser_seq, reported>>

Next == \/ \E n \in 0 .. MaxFetch, skip \in 0 .. 1 :
             \E ids \in [1 .. n -> Flow] : Arrive(n, skip, ids)
        \/ TakeIn
        \/ \E call \in BOOLEAN : Check(call)
        \/ TakeOut
        \/ Finish

Spec == Init /\ [][Next]_vars
-----------------------------------------------------------------------------
TypeOK ==
  /\ Recorded \subseteq Flow
  /\ flow_record \in [Recorded -> [seq : Seqs, num : 1 .. MetaNum, closed : BOOLEAN,
                                   paused : BOOLEAN, times : Seq(Seqs)]]
  /\ flow_priority \subseteq Seqs \X Flow
  /\ metadata_num_in_pool \in Nat
  /\ metadata_from_parser \in Seq(Metadata)
  /\ pool \in {"fetch", "in", "out"}
  /\ parser_seq \in 0 .. MaxSeq
  /\ reported \in [Flow -> Nat]

Entries(f) == {e \in flow_priority : e[2] = f}
Collecting(f) == f \in Recorded /\ ~flow_record[f].paused /\ ~flow_record[f].closed

\* A flow waits in the priority queue exactly while it is recorded, neither
\* paused nor closed, and then only once: poolWorker.cpp:65 would abort on an
\* entry without a record, a second entry would hand the flow over twice, and
\* a missing one would leave its packets in the buffer for ever.
PriorityExact ==
  /\ \A e \in flow_priority : Collecting(e[2])
  /\ \A f \in Recorded : Collecting(f) =>
        \E e \in flow_priority : e[2] = f /\ \A d \in flow_priority : d[2] = f => d = e

\* Nothing that entered the pool is forgotten: a flow that is not queued has
\* been handed over with its newest metadata.
NothingStranded ==
  \A f \in Recorded :
    /\ flow_record[f].paused => reported[f] = flow_record[f].seq
    /\ flow_record[f].closed => reported[f] = Marked(flow_record[f].seq)

\* The metadata of the flows that are not closed, numbered flow by flow.
Open == {f \in Recorded : ~flow_record[f].closed}
Kept == UNION {{f} \X (1 .. flow_record[f].num) : f \in Open}

\* metadata_num_in_pool, the figure the pool logs, is the number of metadata
\* of the flows not yet closed; it is unsigned and must never fall below it.
CountExact == metadata_num_in_pool = Cardinality(Kept)

\* A flow is never handed over twice with the same or an older sequence
\* number, and not at all once it was handed over complete.
ReportsAdvance ==
  [][TakeOut => LET f == Top[2] IN reported[f] < Mark /\ reported[f] < reported'[f]]_vars

\* The metadata of a flow the analyzer has not seen.
Unseen(f) ==
  {t \in {flow_record[f].times[i] : i \in DOMAIN flow_record[f].times} : t > reported[f]}

\* Of all the metadata in the pool the analyzer has not seen, the one that has
\* waited longest leaves with the next flow: a flow that comes back after a pause
\* queues behind those that have waited since, and no flow that collects on loses
\* its place, so that none is overtaken for ever.
LongestWaitingFirst ==
  [][TakeOut => \A g \in Recorded : \A t \in Unseen(g) : \E s \in Unseen(Top[2]) : s <= t]_vars
=============================================================================
