---------------------------- MODULE PoolAnalyzer ----------------------------
(***************************************************************************)
(* How the pool and the analyzer exchange a batch: two volatile flags of   *)
(* the pool worker (call_by_analyzer, ready_for_analyzer), the batch that  *)
(* out_pool stores into the analyzer's own fields without a lock, and the  *)
(* m_stop flags that end the two loops.  Each shared access is a step.     *)
(* Lifecycle says when the threads are started and stopped.                *)
(***************************************************************************)
EXTENDS Integers, Sequences

CONSTANT Batch       \* the batches out_pool can build: sequences of items

ASSUME BatchAssumption == (\A b \in Batch : Len(b) \in Nat) /\ << >> \in Batch

VARIABLES call_by_analyzer, ready_for_analyzer,
          input_item_c, input_num_c,   \* the analyzer's input fields
          hand,          \* the pool thread: outside or inside out_pool
          analyzer,      \* the analyzer thread
          emitted,       \* how many results of the batch it has enqueued
          pool_stop, analyzer_stop

flagVars == <<call_by_analyzer, ready_for_analyzer>>
inputVars == <<input_item_c, input_num_c>>
stopVars == <<pool_stop, analyzer_stop>>
handVars == <<flagVars, inputVars, hand, analyzer, emitted, stopVars>>

\* The two threads may be observed from their creation or from their loops on.
InitHand(pool_at, analyzer_at) ==
  /\ call_by_analyzer = FALSE /\ ready_for_analyzer = FALSE
  /\ input_item_c = << >> /\ input_num_c = 0
  /\ hand = pool_at /\ analyzer = analyzer_at /\ emitted = 0
  /\ pool_stop = FALSE /\ analyzer_stop = FALSE
-----------------------------------------------------------------------------
\* The first thing the pool does once it is started: m_stop = false.
BeginPool ==
  /\ hand = "start"
  /\ hand' = "loop" /\ pool_stop' = FALSE
  /\ UNCHANGED <<flagVars, inputVars, analyzer, emitted, analyzer_stop>>

\* run(): if (call_by_analyzer) out_pool();
EnterOutPool ==
  /\ hand = "loop"
  /\ call_by_analyzer
  /\ hand' = "out"
  /\ UNCHANGED <<flagVars, inputVars, analyzer, emitted, stopVars>>

StoreItems(batch) ==
  /\ hand = "out"
  /\ input_item_c' = batch
  /\ hand' = "num"
  /\ UNCHANGED <<flagVars, input_num_c, analyzer, emitted, stopVars>>

\* Mutant: an empty batch leaves the old number in place.
StoreNumIfAny ==
  /\ hand = "num"
  /\ input_num_c' = IF input_item_c = << >> THEN input_num_c ELSE Len(input_item_c)
  /\ hand' = "answer"
  /\ UNCHANGED <<flagVars, input_item_c, analyzer, emitted, stopVars>>

StoreNum ==
  /\ hand = "num"
  /\ input_num_c' = Len(input_item_c)
  /\ hand' = "answer"
  /\ UNCHANGED <<flagVars, input_item_c, analyzer, emitted, stopVars>>

\* Mutant: the call stays raised.
ClearCallForgotten ==
  /\ hand = "answer"
  /\ hand' = "signal"
  /\ UNCHANGED <<flagVars, inputVars, analyzer, emitted, stopVars>>

ClearCall ==
  /\ hand = "answer"
  /\ call_by_analyzer' = FALSE
  /\ hand' = "signal"
  /\ UNCHANGED <<ready_for_analyzer, inputVars, analyzer, emitted, stopVars>>

\* Mutant: an empty batch is not announced.
SetReadyIfAny ==
  /\ hand = "signal"
  /\ ready_for_analyzer' = (input_num_c > 0)
  /\ hand' = "loop"
  /\ UNCHANGED <<call_by_analyzer, inputVars, analyzer, emitted, stopVars>>

SetReady ==
  /\ hand = "signal"
  /\ ready_for_analyzer' = TRUE
  /\ hand' = "loop"
  /\ UNCHANGED <<call_by_analyzer, inputVars, analyzer, emitted, stopVars>>

\* The pool's loop ends between two rounds only.
LeavePool ==
  /\ hand = "loop" /\ pool_stop
  /\ hand' = "stopped"
  /\ UNCHANGED <<flagVars, inputVars, analyzer, emitted, stopVars>>
-----------------------------------------------------------------------------
\* The analyzer first warms up its model, then m_stop = false.
BeginAnalyzer ==
  /\ analyzer = "start"
  /\ analyzer' = "reset" /\ analyzer_stop' = FALSE
  /\ UNCHANGED <<flagVars, inputVars, hand, emitted, pool_stop>>

\* inference(): the analyzer resets the answer, then asks, then spins.
ResetReady ==
  /\ analyzer = "reset"
  /\ ready_for_analyzer' = FALSE
  /\ analyzer' = "call"
  /\ UNCHANGED <<call_by_analyzer, inputVars, hand, emitted, stopVars>>

Call ==
  /\ analyzer = "call"
  /\ call_by_analyzer' = TRUE
  /\ analyzer' = "wait"
  /\ UNCHANGED <<ready_for_analyzer, inputVars, hand, emitted, stopVars>>

WakeUp ==
  /\ analyzer = "wait"
  /\ ready_for_analyzer /\ ~analyzer_stop
  /\ analyzer' = "infer" /\ emitted' = 0
  /\ UNCHANGED <<flagVars, inputVars, hand, stopVars>>

\* The model has classified the batch; its results are enqueued one by one.
EmitResult ==
  /\ analyzer = "infer"
  /\ input_num_c > 0 /\ emitted < Len(input_item_c)
  /\ emitted' = emitted + 1
  /\ UNCHANGED <<flagVars, inputVars, hand, analyzer, stopVars>>

\* All results are out, or there was nothing to classify (keep warm).
EndInference ==
  /\ analyzer = "infer"
  /\ input_num_c = 0 \/ emitted = Len(input_item_c)
  /\ analyzer' = IF analyzer_stop THEN "stopped" ELSE "reset"
  /\ emitted' = 0
  /\ UNCHANGED <<flagVars, inputVars, hand, stopVars>>

\* Mutant: the spin looks at ready_for_analyzer only.
GiveUpWhenReady ==
  /\ analyzer = "wait"
  /\ analyzer_stop /\ ready_for_analyzer
  /\ analyzer' = "stopped"
  /\ UNCHANGED <<flagVars, inputVars, hand, emitted, stopVars>>

\* m_stop ends the spin and, on return, the loop.
GiveUp ==
  /\ analyzer = "wait"
  /\ analyzer_stop
  /\ analyzer' = "stopped"
  /\ UNCHANGED <<flagVars, inputVars, hand, emitted, stopVars>>
-----------------------------------------------------------------------------
\* stop() of either thread, from the thread that handles the interrupt.
StopAnalyzer ==
  /\ analyzer_stop' = TRUE
  /\ UNCHANGED <<flagVars, inputVars, hand, analyzer, emitted, pool_stop>>

StopPool ==
  /\ pool_stop' = TRUE
  /\ UNCHANGED <<flagVars, inputVars, hand, analyzer, emitted, analyzer_stop>>

PoolStep == \/ EnterOutPool \/ (\E b \in Batch : StoreItems(b)) \/ StoreNum
            \/ ClearCall \/ SetReady \/ LeavePool
AnalyzerStep == ResetReady \/ Call \/ WakeUp \/ EmitResult \/ EndInference \/ GiveUp

HandNext == \/ BeginPool \/ PoolStep \/ StopPool
            \/ BeginAnalyzer \/ AnalyzerStep \/ StopAnalyzer

HandSpec == InitHand("start", "start") /\ [][HandNext]_handVars
-----------------------------------------------------------------------------
HandTypeOK ==
  /\ call_by_analyzer \in BOOLEAN /\ ready_for_analyzer \in BOOLEAN
  /\ input_item_c \in Batch /\ input_num_c \in Nat
  /\ hand \in {"start", "loop", "out", "num", "answer", "signal", "stopped"}
  /\ analyzer \in {"start", "reset", "call", "wait", "infer", "stopped"}
  /\ emitted \in Nat
  /\ pool_stop \in BOOLEAN /\ analyzer_stop \in BOOLEAN

Storing == hand \in {"out", "num", "answer", "signal"}

\* The pool stores a batch only while the analyzer waits for it (or has given
\* up because it was told to stop): the lock-free fields input_vec_c,
\* input_item_c and input_num_c are never read half written.
NoInputRace == Storing => analyzer \in {"wait", "stopped"}

\* The analyzer classifies exactly the batch that was stored for it: number and
\* items belong together, so result[idx] stays within the batch.
BatchWhole == analyzer = "infer" => /\ input_num_c = Len(input_item_c)
                                    /\ emitted <= input_num_c

\* A batch is answered before the pool stores the next one: the flows it took
\* out of the priority queue are classified, none of them is overwritten.
NoBatchLost ==
  [][hand = "out" /\ hand' = "num" => ~ready_for_analyzer /\ analyzer # "infer"]_handVars

\* The strengthening under which NoInputRace and BatchWhole are inductive:
\* call and ready are never both raised, and each value of the two flags
\* belongs to one phase of the exchange.
HandInv ==
  /\ HandTypeOK
  /\ NoInputRace
  /\ call_by_analyzer => analyzer \in {"wait", "stopped"}
  /\ hand \in {"out", "num", "answer"} => call_by_analyzer
  /\ hand = "signal" => ~call_by_analyzer
  /\ ready_for_analyzer => ~call_by_analyzer /\ hand \in {"loop", "stopped"}
  /\ ready_for_analyzer => analyzer # "call"
  /\ hand # "num" => input_num_c = Len(input_item_c)
  /\ analyzer = "infer" => emitted <= input_num_c
=============================================================================
