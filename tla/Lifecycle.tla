----------------------------- MODULE Lifecycle -----------------------------
(***************************************************************************)
(* Start and stop of the IMIS (DeviceConfig::do_init, interrupt_callback   *)
(* and the frame of every worker's run()).  All threads and the main one   *)
(* meet at the start barrier and, once an interrupt has told each worker   *)
(* to stop, at the stop barrier, behind which the summary is printed and   *)
(* the rings are destroyed.  The interrupt is handled on the main thread,  *)
(* wherever that is.  The pool and the analyzer of one pipeline exchange   *)
(* batches as in PoolAnalyzer, the other workers' loops wait for nobody.   *)
(***************************************************************************)
EXTENDS PoolAnalyzer, NicQueues, FiniteSets, Functions

CONSTANTS Parser, Buffer,      \* sequences of threads
          Devices              \* configurations: ports, number_rx_queue

Plain == Range(Parser) \union Range(Buffer)
Worker == {"analyzer", "pool"} \union Plain

ASSUME LifecycleAssumption ==
  /\ Parser \in Seq(Plain) /\ Buffer \in Seq(Plain) /\ IsFiniteSet(Plain)
  /\ {"analyzer", "pool"} \cap Plain = {}
  /\ Len(Parser) > 0
  /\ \A d \in Devices : Len(d.dpdk_port_vec) \in Nat /\ d.number_rx_queue \in Nat

VARIABLES device,         \* the configuration the program was given
          at,            \* where in run() a worker is
          m_stop,        \* of the parsers and the buffers
          main,          \* the main thread, in do_init
          stopping,      \* where interrupt_callback is; 0: no interrupt yet
          stop           \* ThreadStateManagement::stop

lifeVars == <<at, m_stop, main, stopping, stop>>
vars == <<device, lifeVars, handVars>>

\* The order of the four loops in interrupt_callback.
StopOrder == <<"analyzer", "pool">> \o Parser \o Buffer
AtStopBarrier == Len(StopOrder) + 1
Stopped == Len(StopOrder) + 2

\* The queues each parser polls.
queue_assign == Assignment(device.dpdk_port_vec, device.number_rx_queue, Len(Parser))

Init ==
  /\ device \in Devices
  /\ at = [w \in Worker |-> "created"]
  /\ m_stop = [w \in Plain |-> FALSE]
  /\ main = "launched" /\ stopping = 0 /\ stop = FALSE
  /\ InitHand("start", "start")
-----------------------------------------------------------------------------
(* pthread_barrier_t: opens when as many threads have arrived as it was     *)
(* initialised for.                                                        *)

\* Mutant: the main thread is not counted.
PartiesWorkers == Cardinality(Worker)

Parties == Cardinality(Worker) + 1

StartOpen ==
  Cardinality({w \in Worker : at[w] # "created"})
    + (IF main \in {"launched", "registered"} THEN 0 ELSE 1) >= Parties

StopOpen ==
  Cardinality({w \in Worker : at[w] \in {"left", "gone"}})
    + (IF stopping >= AtStopBarrier THEN 1 ELSE 0) >= Parties
-----------------------------------------------------------------------------
(* The main thread, and the interrupt on top of it.                        *)

\* The handler runs on this thread, which is stuck below it.
Undisturbed == stopping \in {0, Stopped}

\* The callback is registered, then the main thread arrives at the barrier.
Register ==
  /\ main = "launched"
  /\ main' = "registered"
  /\ UNCHANGED <<device, at, m_stop, stopping, stop, handVars>>

MainWait ==
  /\ main = "registered" /\ Undisturbed
  /\ main' = "waiting"
  /\ UNCHANGED <<device, at, m_stop, stopping, stop, handVars>>

MainLoop ==
  /\ main = "waiting" /\ Undisturbed /\ StartOpen
  /\ main' = "looping"
  /\ UNCHANGED <<device, at, m_stop, stopping, stop, handVars>>

MainEnd ==
  /\ main = "looping" /\ Undisturbed /\ stop
  /\ main' = "ended"
  /\ UNCHANGED <<device, at, m_stop, stopping, stop, handVars>>

\* Before the registration an interrupt just kills the process.
Interrupt ==
  /\ main \in {"registered", "waiting", "looping"} /\ stopping = 0
  /\ stopping' = 1
  /\ UNCHANGED <<device, at, m_stop, main, stop, handVars>>

\* interrupt_callback calls stop() of one worker after the other.
StopWorker ==
  /\ stopping \in 1 .. Len(StopOrder)
  /\ LET w == StopOrder[stopping] IN
       \/ w = "analyzer" /\ StopAnalyzer /\ UNCHANGED m_stop
       \/ w = "pool" /\ StopPool /\ UNCHANGED m_stop
       \/ w \in Plain /\ m_stop' = [m_stop EXCEPT ![w] = TRUE] /\ UNCHANGED handVars
  /\ stopping' = stopping + 1
  /\ UNCHANGED <<device, at, main, stop>>

\* Through the stop barrier: the summary is printed.
Report ==
  /\ stopping = AtStopBarrier /\ StopOpen
  /\ stopping' = Stopped /\ stop' = TRUE
  /\ UNCHANGED <<device, at, m_stop, main, handVars>>
-----------------------------------------------------------------------------
(* A worker.                                                               *)

Moves(w, place) ==
  /\ at' = [at EXCEPT ![w] = place]
  /\ UNCHANGED <<device, main, stopping, stop>>

Arrive(w) ==
  /\ at[w] = "created"
  /\ Moves(w, "waiting")
  /\ UNCHANGED <<m_stop, handVars>>

NoQueue(w) == \E k \in 1 .. Len(Parser) : Parser[k] = w /\ queue_assign[k] = << >>

\* A parser without a queue is done with run() after the start barrier.
ReturnEarly(w) ==
  /\ at[w] = "waiting" /\ StartOpen
  /\ NoQueue(w)
  /\ Moves(w, "returned")
  /\ UNCHANGED <<m_stop, handVars>>

\* Through the start barrier and m_stop = false.
Begin(w) ==
  /\ at[w] = "waiting" /\ StartOpen
  /\ ~NoQueue(w)
  /\ Moves(w, "loop")
  /\ \/ w = "analyzer" /\ BeginAnalyzer /\ UNCHANGED m_stop
     \/ w = "pool" /\ BeginPool /\ UNCHANGED m_stop
     \/ w \in Plain /\ m_stop' = [m_stop EXCEPT ![w] = FALSE] /\ UNCHANGED handVars

\* The analyzer and the pool at work; on stopping they arrive at the barrier.
AnalyzerWorks ==
  /\ AnalyzerStep
  /\ Moves("analyzer", IF analyzer' = "stopped" THEN "left" ELSE at["analyzer"])
  /\ UNCHANGED m_stop

PoolWorks ==
  /\ PoolStep
  /\ Moves("pool", IF hand' = "stopped" THEN "left" ELSE at["pool"])
  /\ UNCHANGED m_stop

Leave(w) ==
  /\ at[w] = "loop" /\ m_stop[w]
  /\ Moves(w, "left")
  /\ UNCHANGED <<m_stop, handVars>>

\* Through the stop barrier; a parser destroys its rings.
Finish(w) ==
  /\ at[w] = "left" /\ StopOpen
  /\ Moves(w, "gone")
  /\ UNCHANGED <<m_stop, handVars>>
-----------------------------------------------------------------------------
MainStep == Register \/ MainWait \/ MainLoop \/ MainEnd
Handler == StopWorker \/ Report
Frame(w) == Arrive(w) \/ ReturnEarly(w) \/ Begin(w) \/ Finish(w)

Next ==
  \/ MainStep \/ Interrupt \/ Handler
  \/ \E w \in Worker : Frame(w)
  \/ AnalyzerWorks \/ PoolWorks
  \/ \E w \in Plain : Leave(w)

Spec == Init /\ [][Next]_vars

\* Every thread has a core of its own and waits without end only at a barrier; what
\* sleeps, sleeps for a while (the analyzer without a batch 5 ms, the main thread
\* 3 s).  An interrupt need not come.
FairSpec ==
  /\ Spec
  /\ WF_vars(MainStep) /\ WF_vars(Handler)
  /\ \A w \in Worker : WF_vars(Frame(w))
  /\ WF_vars(AnalyzerWorks) /\ WF_vars(PoolWorks)
  /\ \A w \in Plain : WF_vars(Leave(w))
-----------------------------------------------------------------------------
MStop(w) == CASE w = "analyzer" -> analyzer_stop [] w = "pool" -> pool_stop [] OTHER -> m_stop[w]

\* Some worker was told to stop before it cleared its m_stop: it never knew.
StopLost ==
  \E i \in 1 .. Len(StopOrder) :
    LET w == StopOrder[i] IN
    stopping > i /\ (at[w] \in {"created", "waiting"} \/ ~MStop(w))

\* The summary is printed, and a ring destroyed, only when no thread is in its
\* loop any more or still on its way to it: the rings and counters have no user.
LoopsOverBeforeReport ==
  stop \/ (\E w \in Worker : at[w] = "gone") =>
    \A w \in Worker : at[w] \in {"left", "gone"}

\* Neither side of the exchange of batches waits for the other for ever: every
\* call is answered or given up, unless the analyzer did not hear of the stop.
EveryCallAnswered == (analyzer = "wait") ~> (analyzer # "wait" \/ StopLost)

\* An interrupt that comes when every worker is in its loop ends the program, with
\* its summary, whatever the threads are doing.  (One that comes earlier, or
\* with a parser that has no queue, may leave all of them waiting for ever.)
InterruptEnds ==
  (stopping = 1 /\ \A w \in Worker : at[w] = "loop") ~> (stop /\ main = "ended")
=============================================================================
