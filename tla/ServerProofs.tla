-------------------------- MODULE ServerProofs ---------------------------
(***************************************************************************)
(* The exchange of batches is safe for every set of batches; for every     *)
(* number of workers the running server keeps to it, with an interrupt at  *)
(* any moment; and nothing is reported or destroyed before every worker    *)
(* has left its loop.  For every configuration file the setup either stops *)
(* or puts every worker on a core of its own, binds every pipeline and     *)
(* hands out every receive queue once; the counters of the parsers then    *)
(* keep every packet, and the final report covers the run.                 *)
(***************************************************************************)
EXTENDS Lifecycle, ParserStats, FiniteSetTheorems, WellFoundedInduction, TLAPS

-----------------------------------------------------------------------------
(* The exchange, wherever the two threads are first looked at.             *)

\* call_by_analyzer and ready_for_analyzer start out lowered.
LEMMA InitHandInv == InitHand("start", "start") => HandInv
  BY BatchAssumption DEF InitHand, HandInv, HandTypeOK, NoInputRace, Storing

\* No step of the pool, of the analyzer or of the shutdown breaks the invariant.
LEMMA StepHandInv == HandInv /\ [HandNext]_handVars => HandInv'
  <1> SUFFICES ASSUME HandInv, [HandNext]_handVars PROVE HandInv'
    OBVIOUS
  <1> USE BatchAssumption
  <1> USE DEF HandInv, HandTypeOK, NoInputRace, Storing, flagVars, inputVars, stopVars
  <1>1. CASE EnterOutPool BY <1>1 DEF EnterOutPool
  <1>2. CASE \E b \in Batch : StoreItems(b) BY <1>2 DEF StoreItems
  <1>3. CASE StoreNum BY <1>3 DEF StoreNum
  <1>4. CASE ClearCall BY <1>4 DEF ClearCall
  <1>5. CASE SetReady BY <1>5 DEF SetReady
  <1>6. CASE LeavePool BY <1>6 DEF LeavePool
  <1>7. CASE ResetReady BY <1>7 DEF ResetReady
  <1>8. CASE Call BY <1>8 DEF Call
  <1>9. CASE WakeUp BY <1>9 DEF WakeUp
  <1>10. CASE EmitResult BY <1>10 DEF EmitResult
  <1>11. CASE EndInference BY <1>11 DEF EndInference
  <1>12. CASE GiveUp BY <1>12 DEF GiveUp
  <1>13. CASE StopAnalyzer BY <1>13 DEF StopAnalyzer
  <1>14. CASE StopPool BY <1>14 DEF StopPool
  <1>15. CASE BeginPool BY <1>15 DEF BeginPool
  <1>16. CASE BeginAnalyzer BY <1>16 DEF BeginAnalyzer
  <1>17. CASE UNCHANGED handVars BY <1>17 DEF handVars
  <1> QED BY <1>1, <1>2, <1>3, <1>4, <1>5, <1>6, <1>7, <1>8, <1>9, <1>10, <1>11,
             <1>12, <1>13, <1>14, <1>15, <1>16, <1>17 DEF HandNext, PoolStep, AnalyzerStep

\* The inductive invariant of the exchange.
THEOREM HandInvariant == HandSpec => []HandInv
  BY InitHandInv, StepHandInv, PTL DEF HandSpec

\* The flags, the batch and the two threads stay within their types, in
\* particular input_item_c is always a whole batch.
THEOREM HandTypeCorrect == HandSpec => []HandTypeOK
  <1>1. HandInv => HandTypeOK BY DEF HandInv
  <1> QED BY <1>1, HandInvariant, PTL

\* poolWorker.cpp:111-113 stores the batch without a lock; it does so only
\* while the analyzer spins on ready_for_analyzer or is gone.
THEOREM StoresWhileAnalyzerWaits == HandSpec => []NoInputRace
  <1>1. HandInv => NoInputRace BY DEF HandInv
  <1> QED BY <1>1, HandInvariant, PTL

\* The batch that inference() reads is the one that was stored, number and
\* items alike.
THEOREM AnalyzesWholeBatch == HandSpec => []BatchWhole
  <1>1. HandInv => BatchWhole BY DEF HandInv, BatchWhole, NoInputRace, Storing
  <1> QED BY <1>1, HandInvariant, PTL

\* out_pool never overwrites a batch that was announced and not yet classified.
THEOREM BatchesAnswered == HandSpec => NoBatchLost
  <1> DEFINE Safe == hand = "out" /\ hand' = "num" => ~ready_for_analyzer /\ analyzer # "infer"
  <1>1. HandInv => Safe
    BY DEF HandInv, NoInputRace, Storing
  <1>2. [][Safe]_handVars <=> NoBatchLost BY DEF NoBatchLost
  <1>3. HandSpec => [][Safe]_handVars
    BY <1>1, HandInvariant, PTL
  <1> QED BY <1>2, <1>3
-----------------------------------------------------------------------------
(* The running server.                                                      *)

\* The frame of run() and the interrupt touch the exchange only where a thread
\* begins and where it is told to stop.
LEMMA StepIsHandStep == Next => [HandNext]_handVars
  <1> SUFFICES ASSUME Next PROVE [HandNext]_handVars
    OBVIOUS
  <1>1. CASE MainStep
    BY <1>1 DEF MainStep, Register, MainWait, MainLoop, MainEnd
  <1>2. CASE Interrupt BY <1>2 DEF Interrupt
  <1>3. CASE Handler
    <2>1. CASE StopWorker BY <2>1 DEF StopWorker, HandNext
    <2>2. CASE Report BY <2>2 DEF Report
    <2> QED BY <1>3, <2>1, <2>2 DEF Handler
  <1>4. ASSUME NEW w \in Worker, Frame(w) PROVE [HandNext]_handVars
    <2>1. CASE Arrive(w) BY <2>1 DEF Arrive
    <2>2. CASE ReturnEarly(w) BY <2>2 DEF ReturnEarly
    <2>3. CASE Begin(w) BY <2>3 DEF Begin, HandNext
    <2>4. CASE Finish(w) BY <2>4 DEF Finish
    <2> QED BY <1>4, <2>1, <2>2, <2>3, <2>4 DEF Frame
  <1>5. CASE AnalyzerWorks BY <1>5 DEF AnalyzerWorks, HandNext
  <1>6. CASE PoolWorks BY <1>6 DEF PoolWorks, HandNext
  <1>7. ASSUME NEW w \in Plain, Leave(w) PROVE [HandNext]_handVars
    BY <1>7 DEF Leave
  <1> QED BY <1>1, <1>2, <1>3, <1>4, <1>5, <1>6, <1>7 DEF Next

\* Whatever is interrupted when, a stop that is lost included, pool and analyzer
\* keep to their protocol: what is proved of HandSpec above holds here.
THEOREM LifecycleRunsExchange == Spec => HandSpec
  <1>1. Init => InitHand("start", "start") BY DEF Init
  <1>2. [Next]_vars => [HandNext]_handVars BY StepIsHandStep DEF vars
  <1> QED BY <1>1, <1>2, PTL DEF Spec, HandSpec

\* In the running server, too, no batch is stored while it is read.
THEOREM ServerStoresWhileWaiting == Spec => []NoInputRace
BY LifecycleRunsExchange, StoresWhileAnalyzerWaits, PTL

\* ... every batch is classified as it was stored,
THEOREM ServerAnalyzesWholeBatch == Spec => []BatchWhole
BY LifecycleRunsExchange, AnalyzesWholeBatch, PTL

\* ... and none is overwritten before it was.
THEOREM ServerLosesNoBatch == Spec => NoBatchLost
BY LifecycleRunsExchange, BatchesAnswered, PTL
-----------------------------------------------------------------------------
Places == {"created", "waiting", "loop", "left", "gone", "returned"}

AtStop == {w \in Worker : at[w] \in {"left", "gone"}}

\* The pool and the analyzer are in run() where their own loops say they are.
LifeInv ==
  /\ at \in [Worker -> Places]
  /\ at["analyzer"] \in {"left", "gone"} <=> analyzer = "stopped"
  /\ at["analyzer"] \in {"created", "waiting", "returned"} <=> analyzer = "start"
  /\ at["pool"] \in {"left", "gone"} <=> hand = "stopped"
  /\ at["pool"] \in {"created", "waiting", "returned"} <=> hand = "start"
  /\ LoopsOverBeforeReport

\* There are finitely many threads.
LEMMA WorkersFinite == IsFiniteSet(Worker)
  <1>1. IsFiniteSet({"analyzer", "pool"})
    <2>1. {"analyzer", "pool"} = {"analyzer"} \union {"pool"} OBVIOUS
    <2>2. IsFiniteSet({"analyzer"}) /\ IsFiniteSet({"pool"}) BY FS_Singleton
    <2> QED BY <2>1, <2>2, FS_Union
  <1> QED BY <1>1, LifecycleAssumption, FS_Union DEF Worker

\* The stop barrier was initialised for every worker and the main thread: it is
\* not open before all workers are there.
LEMMA OpenWhenAllLeft == StopOpen => \A w \in Worker : at[w] \in {"left", "gone"}
  <1> SUFFICES ASSUME StopOpen PROVE AtStop = Worker
    BY DEF AtStop
  <1>1. AtStop \subseteq Worker BY DEF AtStop
  <1>2. /\ Cardinality(AtStop) \in Nat /\ Cardinality(Worker) \in Nat
        /\ AtStop # Worker => Cardinality(AtStop) < Cardinality(Worker)
    <2>1. IsFiniteSet(AtStop) BY <1>1, WorkersFinite, FS_Subset
    <2>2. Cardinality(AtStop) <= Cardinality(Worker) BY <1>1, WorkersFinite, FS_Subset
    <2>3. Cardinality(AtStop) = Cardinality(Worker) => AtStop = Worker
      BY <1>1, WorkersFinite, FS_Subset
    <2>4. Cardinality(AtStop) \in Nat /\ Cardinality(Worker) \in Nat
      BY <2>1, WorkersFinite, FS_CardinalityType
    <2> QED BY <2>2, <2>3, <2>4
  <1>3. Cardinality(AtStop) + 1 >= Cardinality(Worker) + 1
    <2> DEFINE arrived == IF stopping >= AtStopBarrier THEN 1 ELSE 0
    <2>1. Cardinality(AtStop) + arrived >= Cardinality(Worker) + 1
      BY DEF StopOpen, AtStop, Parties
    <2>2. arrived \in 0 .. 1 OBVIOUS
    <2> HIDE DEF arrived
    <2> QED BY <2>1, <2>2, <1>2
  <1> QED BY <1>2, <1>3

\* Nobody has started and nothing is reported.
LEMMA InitLifeInv == Init => LifeInv
  <1> SUFFICES ASSUME Init PROVE LifeInv
    OBVIOUS
  <1>1. "analyzer" \in Worker /\ "pool" \in Worker BY DEF Worker
  <1> QED BY <1>1 DEF Init, InitHand, LifeInv, Places, LoopsOverBeforeReport

\* One step of the main thread, of the interrupt, of a worker's frame or loop.
LEMMA StepLifeInv == LifeInv /\ [Next]_vars => LifeInv'
  <1> SUFFICES ASSUME LifeInv, [Next]_vars PROVE LifeInv'
    OBVIOUS
  <1> USE DEF LifeInv, Places, LoopsOverBeforeReport
  <1>0. "analyzer" \in Worker /\ "pool" \in Worker /\ Plain \subseteq Worker
        /\ "analyzer" \notin Plain /\ "pool" \notin Plain
    BY LifecycleAssumption DEF Worker
  <1>1. CASE MainStep
    BY <1>1 DEF MainStep, Register, MainWait, MainLoop, MainEnd, handVars
  <1>2. CASE Interrupt BY <1>2 DEF Interrupt, handVars
  <1>3. CASE StopWorker
    BY <1>3 DEF StopWorker, StopAnalyzer, StopPool, handVars
  <1>4. CASE Report BY <1>4, OpenWhenAllLeft DEF Report, handVars
  <1>5. ASSUME NEW w \in Worker, Frame(w) PROVE LifeInv'
    <2>1. CASE Arrive(w) BY <2>1, <1>0 DEF Arrive, Moves, handVars
    <2>2. CASE ReturnEarly(w)
      <3>1. w \in Plain
        BY <2>2 DEF ReturnEarly, NoQueue, Plain, Range
      <3> QED BY <2>2, <3>1, <1>0 DEF ReturnEarly, Moves, handVars
    <2>3. CASE Begin(w)
      BY <2>3, <1>0 DEF Begin, BeginAnalyzer, BeginPool, Moves, handVars
    <2>4. CASE Finish(w)
      BY <2>4, <1>0, OpenWhenAllLeft DEF Finish, Moves, handVars
    <2> QED BY <1>5, <2>1, <2>2, <2>3, <2>4 DEF Frame
  <1>6. CASE AnalyzerWorks
    <2>1. /\ analyzer \notin {"start", "stopped"} /\ analyzer' # "start"
          /\ hand' = hand
      BY <1>6 DEF AnalyzerWorks, AnalyzerStep, ResetReady, Call, WakeUp, EmitResult,
                  EndInference, GiveUp
    <2>2. at["analyzer"] = "loop" BY <2>1, <1>0
    <2> QED BY <1>6, <2>1, <2>2, <1>0 DEF AnalyzerWorks, Moves
  <1>7. CASE PoolWorks
    <2>1. /\ hand \notin {"start", "stopped"} /\ hand' # "start"
          /\ analyzer' = analyzer
      BY <1>7 DEF PoolWorks, PoolStep, EnterOutPool, StoreItems, StoreNum, ClearCall,
                  SetReady, LeavePool
    <2>2. at["pool"] = "loop" BY <2>1, <1>0
    <2> QED BY <1>7, <2>1, <2>2, <1>0 DEF PoolWorks, Moves
  <1>8. ASSUME NEW w \in Plain, Leave(w) PROVE LifeInv'
    BY <1>8, <1>0 DEF Leave, Moves, handVars
  <1>9. CASE UNCHANGED vars BY <1>9 DEF vars, lifeVars, handVars
  <1> QED BY <1>1, <1>2, <1>3, <1>4, <1>5, <1>6, <1>7, <1>8, <1>9 DEF Next, Handler

\* deviceConfig.cpp:197 waits for every worker before it prints the summary of
\* all parsers, and a parser before it destroys its rings (parserWorker.cpp:238).
THEOREM NoUserAfterStop == Spec => []LoopsOverBeforeReport
  <1>1. LifeInv => LoopsOverBeforeReport BY DEF LifeInv
  <1> QED BY <1>1, InitLifeInv, StepLifeInv, PTL DEF Spec
-----------------------------------------------------------------------------
(* Numbers.                                                                *)

\* A set that holds 0 and with each number the next one holds every number:
\* otherwise "one less" would map the missing ones up to k into themselves
\* without k.
LEMMA NatSet ==
  ASSUME NEW S, 0 \in S, \A n \in Nat : n \in S => n + 1 \in S
  PROVE  Nat \subseteq S
<1> DEFINE T == Nat \ S
           R == OpToRel(<, Nat)
<1> SUFFICES ASSUME T # {} PROVE FALSE
  OBVIOUS
<1>1. IsWellFoundedOn(R, Nat)
  BY NatLessThanWellFounded
<1>2. T \subseteq Nat
  OBVIOUS
<1>3. PICK x \in T : \A y \in T : ~(<<y, x>> \in R)
  <2> HIDE DEF R, T
  <2> QED BY <1>1, <1>2, WFMin
<1>4. x \in Nat \ {0} /\ x - 1 \in Nat /\ x - 1 < x /\ (x - 1) + 1 = x
  OBVIOUS
<1>5. x - 1 \notin T
  BY <1>3, <1>4 DEF OpToRel
<1> QED BY <1>4, <1>5

\* Quotient and remainder, and that there is only one such pair.
LEMMA Division ==
  ASSUME NEW n \in Nat, NEW p \in Nat \ {0}
  PROVE  n \div p \in Nat /\ n % p \in 0 .. p - 1 /\ n = p * (n \div p) + (n % p)
  BY SMT

LEMMA DivisionUnique ==
  ASSUME NEW p \in Nat \ {0}, NEW q \in Nat, NEW r \in 0 .. p - 1, NEW n, n = p * q + r
  PROVE  n \in Nat /\ n \div p = q /\ n % p = r
  BY SMT

\* The product grows with its factor.
LEMMA ProductGrows ==
  ASSUME NEW p \in Nat, NEW a \in Nat, NEW b \in Nat, a <= b
  PROVE  p * a \in Nat /\ p * b \in Nat /\ p * a <= p * b
  BY SMT
-----------------------------------------------------------------------------
(* The queues are handed out once each.                                    *)

\* Where ite_to_assign stands when parser k is served, in closed form.
Begins(total, parsers) ==
  [k \in 1 .. parsers + 1 |->
     ((total \div parsers) * (k - 1)) + IF k - 1 <= total % parsers THEN k - 1 ELSE total % parsers]

LEMMA BeginsStep ==
  ASSUME NEW total \in Nat, NEW parsers \in Nat \ {0}
  PROVE  /\ Begins(total, parsers) \in [1 .. parsers + 1 -> Nat]
         /\ Begins(total, parsers)[1] = 0
         /\ Begins(total, parsers)[parsers + 1] = total
         /\ \A k \in 1 .. parsers :
              /\ Begins(total, parsers)[k + 1] = Begins(total, parsers)[k] + Share(k, total, parsers)
              /\ Share(k, total, parsers) \in Nat
<1> DEFINE d == total \div parsers
           r == total % parsers
           g == Begins(total, parsers)
<1>1. d \in Nat /\ r \in 0 .. parsers - 1 /\ total = parsers * d + r
  BY Division
<1>2. g = [k \in 1 .. parsers + 1 |-> (d * (k - 1)) + IF k - 1 <= r THEN k - 1 ELSE r]
  BY DEF Begins
<1>3. \A k : Share(k, total, parsers) = d + IF k <= r THEN 1 ELSE 0
  BY DEF Share
<1> HIDE DEF d, r, g
<1>4. \A k \in 1 .. parsers + 1 : g[k] = (d * (k - 1)) + IF k - 1 <= r THEN k - 1 ELSE r
  BY <1>2
<1>5. ASSUME NEW k \in 1 .. parsers + 1 PROVE g[k] \in Nat
  <2>1. k - 1 \in Nat /\ d * (k - 1) \in Nat
    BY <1>1, ProductGrows
  <2> QED BY <1>1, <1>4, <2>1
<1>6. g[1] = 0
  <2>1. 1 \in 1 .. parsers + 1 /\ d * (1 - 1) = 0
    BY <1>1
  <2> QED BY <1>1, <1>4, <2>1
<1>7. g[parsers + 1] = total
  <2>1. parsers + 1 \in 1 .. parsers + 1 /\ (parsers + 1) - 1 = parsers /\ ~(parsers <= r)
    BY <1>1
  <2>2. g[parsers + 1] = (d * parsers) + r
    BY <1>4, <2>1
  <2> QED BY <1>1, <2>2
<1>8. ASSUME NEW k \in 1 .. parsers
      PROVE  g[k + 1] = g[k] + Share(k, total, parsers) /\ Share(k, total, parsers) \in Nat
  <2>1. k \in 1 .. parsers + 1 /\ k + 1 \in 1 .. parsers + 1 /\ (k + 1) - 1 = k
    OBVIOUS
  <2>2. d * k = (d * (k - 1)) + d
    BY <1>1
  <2>3. g[k] = (d * (k - 1)) + (IF k - 1 <= r THEN k - 1 ELSE r)
    BY <1>4, <2>1
  <2>4. g[k + 1] = (d * k) + (IF k <= r THEN k ELSE r)
    BY <1>4, <2>1
  <2>5. Share(k, total, parsers) = d + IF k <= r THEN 1 ELSE 0
    BY <1>3
  <2> DEFINE a == d * (k - 1)
             b == d * k
  <2>6. a \in Nat /\ b \in Nat
    BY <1>1, ProductGrows
  <2> HIDE DEF a, b
  <2>7. b = a + d /\ g[k] = a + (IF k - 1 <= r THEN k - 1 ELSE r)
        /\ g[k + 1] = b + (IF k <= r THEN k ELSE r)
    BY <2>2, <2>3, <2>4 DEF a, b
  <2> QED BY <1>1, <2>5, <2>6, <2>7
<1> QED BY <1>2, <1>5, <1>6, <1>7, <1>8 DEF g

\* The parsers get the queues in turn, from where the one before them stopped.
LEMMA HandedOut ==
  ASSUME NEW ports, NEW rx, NEW parsers \in Nat \ {0},
         NEW total \in Nat, total = Len(que_to_use(ports, rx))
  PROVE  Assignment(ports, rx, parsers) =
           [k \in 1 .. parsers |->
              SubSeq(que_to_use(ports, rx), Begins(total, parsers)[k] + 1,
                     Begins(total, parsers)[k + 1])]
<1> DEFINE ite[k \in 1 .. parsers + 1] ==
             IF k = 1 THEN 0 ELSE ite[k - 1] + Share(k - 1, total, parsers)
           g == Begins(total, parsers)
           queues == que_to_use(ports, rx)
<1>1. Assignment(ports, rx, parsers) = [k \in 1 .. parsers |-> SubSeq(queues, ite[k] + 1, ite[k + 1])]
  BY DEF Assignment
<1> DEFINE Follows(f) ==
             f = [k \in 1 .. parsers + 1 |-> IF k = 1 THEN 0 ELSE f[k - 1] + Share(k - 1, total, parsers)]
<1>2. ite = CHOOSE f : Follows(f)
  OBVIOUS
<1> HIDE DEF ite
<1>3. g \in [1 .. parsers + 1 -> Nat] /\ g[1] = 0
      /\ \A k \in 1 .. parsers : g[k + 1] = g[k] + Share(k, total, parsers)
  BY BeginsStep
<1> HIDE DEF g
<1>4. Follows(g)
  <2> SUFFICES ASSUME NEW k \in 1 .. parsers + 1
               PROVE  g[k] = IF k = 1 THEN 0 ELSE g[k - 1] + Share(k - 1, total, parsers)
    BY <1>3
  <2>1. CASE k = 1 BY <1>3, <2>1
  <2>2. CASE k # 1
    <3>1. k - 1 \in 1 .. parsers /\ (k - 1) + 1 = k
      BY <2>2
    <3> QED BY <1>3, <2>2, <3>1
  <2> QED BY <2>1, <2>2
<1>5. Follows(ite)
  BY <1>2, <1>4
<1>6. \A k \in 1 .. parsers + 1 : ite[k] = g[k]
  <2> DEFINE S == {m \in Nat : m + 1 \in 1 .. parsers + 1 => ite[m + 1] = g[m + 1]}
  <2>1. 0 \in S
    <3>1. ite[1] = 0
      BY <1>5
    <3> QED BY <1>3, <3>1
  <2>2. \A m \in Nat : m \in S => m + 1 \in S
    <3> SUFFICES ASSUME NEW m \in Nat, m \in S, (m + 1) + 1 \in 1 .. parsers + 1
                 PROVE  ite[(m + 1) + 1] = g[(m + 1) + 1]
      OBVIOUS
    <3> DEFINE k == m + 1
    <3>1. k \in 1 .. parsers /\ k \in 1 .. parsers + 1 /\ k + 1 # 1 /\ (k + 1) - 1 = k
      OBVIOUS
    <3>2. ite[k] = g[k]
      BY <3>1
    <3>3. k + 1 \in 1 .. parsers + 1
      OBVIOUS
    <3> HIDE DEF k, S
    <3>4. ite[k + 1] = ite[k] + Share(k, total, parsers)
      BY <1>5, <3>1, <3>3
    <3>5. ite[k + 1] = g[k + 1]
      BY <1>3, <3>1, <3>2, <3>4
    <3> QED BY <3>5 DEF k
  <2> HIDE DEF S
  <2>3. Nat \subseteq S
    BY <2>1, <2>2, NatSet
  <2> SUFFICES ASSUME NEW k \in 1 .. parsers + 1 PROVE ite[k] = g[k]
    OBVIOUS
  <2>4. k - 1 \in Nat /\ (k - 1) + 1 = k
    OBVIOUS
  <2>5. k - 1 \in S
    BY <2>3, <2>4
  <2> QED BY <2>4, <2>5 DEF S
<1>7. \A k \in 1 .. parsers : ite[k] = g[k] /\ ite[k + 1] = g[k + 1]
  BY <1>6
<1> QED BY <1>1, <1>7 DEF g

\* Every place of a sequence that is cut at rising marks lies between two marks
\* that follow each other, and only there.
LEMMA CutsCover ==
  ASSUME NEW n \in Nat, NEW g \in [1 .. n + 1 -> Nat], g[1] = 0,
         \A k \in 1 .. n : g[k] <= g[k + 1]
  PROVE  /\ \A p \in 1 .. g[n + 1] : \E k \in 1 .. n : g[k] < p /\ p <= g[k + 1]
         /\ \A k \in 1 .. n + 1 : g[k] <= g[n + 1]
         /\ \A k, l \in 1 .. n : k < l => g[k + 1] <= g[l]
<1>1. ASSUME NEW p \in 1 .. g[n + 1]
      PROVE  \E k \in 1 .. n : g[k] < p /\ p <= g[k + 1]
  <2> DEFINE S == {m \in Nat : m <= n /\ p <= g[m + 1] => \E k \in 1 .. n : g[k] < p /\ p <= g[k + 1]}
  <2>0. n + 1 \in 1 .. n + 1 /\ g[n + 1] \in Nat /\ p \in Nat /\ p # 0 /\ p <= g[n + 1]
    OBVIOUS
  <2>1. 0 \in S
    BY <2>0
  <2>2. \A m \in Nat : m \in S => m + 1 \in S
    <3> SUFFICES ASSUME NEW m \in Nat, m \in S, m + 1 <= n, p <= g[(m + 1) + 1]
                 PROVE  \E k \in 1 .. n : g[k] < p /\ p <= g[k + 1]
      OBVIOUS
    <3>1. m + 1 \in 1 .. n /\ m + 1 \in 1 .. n + 1 /\ g[m + 1] \in Nat
      OBVIOUS
    <3>2. CASE p <= g[m + 1] BY <3>1, <3>2
    <3>3. CASE ~(p <= g[m + 1]) BY <2>0, <3>1, <3>3
    <3> QED BY <3>2, <3>3
  <2> HIDE DEF S
  <2>3. n \in S
    BY <2>1, <2>2, NatSet
  <2> QED BY <2>0, <2>3 DEF S
<1>2. ASSUME NEW k \in 1 .. n + 1, NEW l \in 1 .. n + 1, k <= l PROVE g[k] <= g[l]
  <2> DEFINE S == {m \in Nat : k + m <= l => g[k] <= g[k + m]}
  <2>1. 0 \in S
    OBVIOUS
  <2>2. \A m \in Nat : m \in S => m + 1 \in S
    <3> SUFFICES ASSUME NEW m \in Nat, m \in S, k + (m + 1) <= l PROVE g[k] <= g[k + (m + 1)]
      OBVIOUS
    <3> DEFINE j == k + m
    <3>1. j \in 1 .. n /\ j \in 1 .. n + 1 /\ k + (m + 1) = j + 1 /\ j + 1 \in 1 .. n + 1 /\ k + m <= l
      OBVIOUS
    <3>2. g[k] <= g[j]
      BY <3>1
    <3> HIDE DEF j
    <3>3. g[k] \in Nat /\ g[j] \in Nat /\ g[j + 1] \in Nat /\ g[j] <= g[j + 1]
      BY <3>1
    <3>4. g[k] <= g[j + 1]
      BY <3>2, <3>3
    <3> QED BY <3>1, <3>4
  <2> HIDE DEF S
  <2>3. l - k \in Nat /\ k + (l - k) = l
    BY <1>2
  <2>4. l - k \in S
    BY <2>1, <2>2, <2>3, NatSet
  <2>5. k + (l - k) <= l => g[k] <= g[k + (l - k)]
    BY <2>4 DEF S
  <2> QED BY <2>3, <2>5
<1>3. \A k \in 1 .. n + 1 : g[k] <= g[n + 1]
  BY <1>2
<1>4. \A k, l \in 1 .. n : k < l => g[k + 1] <= g[l]
  BY <1>2
<1> QED BY <1>1, <1>3, <1>4

\* The n places of a sequence hold the elements of T, each in one place.
OnceEach(s, T, n) ==
  /\ s \in Seq(T) /\ Len(s) = n
  /\ \A a, b \in 1 .. n : s[a] = s[b] => a = b
  /\ \A e \in T : \E a \in 1 .. n : s[a] = e

\* The queues in the order in which they are handed out: each of them once.
LEMMA QueuesInTurn ==
  ASSUME NEW P, NEW ports \in Seq(P), NEW rx \in Nat, IsInjective(ports),
         NEW total \in Nat, total = rx * Len(ports)
  PROVE  OnceEach(que_to_use(ports, rx), Range(ports) \X (0 .. rx - 1), total)
<1> DEFINE w == Len(ports)
           queues == que_to_use(ports, rx)
<1>1. w \in Nat /\ ports \in [1 .. w -> P] /\ DOMAIN ports = 1 .. w
  OBVIOUS
<1>2. queues = [n \in 1 .. total |-> <<ports[((n - 1) % w) + 1], (n - 1) \div w>>]
  BY DEF que_to_use
<1> HIDE DEF queues
<1>3. \A i, j \in 1 .. w : ports[i] = ports[j] => i = j
  BY <1>1 DEF IsInjective
<1>4. Range(ports) = {ports[i] : i \in 1 .. w}
  BY <1>1 DEF Range
<1>5. total = w * rx
  OBVIOUS
<1> HIDE DEF w
<1>6. ASSUME NEW n \in 1 .. total
      PROVE  /\ w \in Nat \ {0} /\ n - 1 \in Nat
             /\ (n - 1) % w \in 0 .. w - 1 /\ (n - 1) \div w \in 0 .. rx - 1
             /\ n - 1 = (w * ((n - 1) \div w)) + ((n - 1) % w)
  <2>1. w # 0
    <3> SUFFICES ASSUME w = 0 PROVE FALSE
      OBVIOUS
    <3>1. total = 0
      BY <1>5, SMT
    <3> QED BY <3>1
  <2>2. w \in Nat \ {0} /\ n - 1 \in Nat
    BY <1>1, <2>1
  <2> DEFINE q == (n - 1) \div w
             r == (n - 1) % w
  <2>3. q \in Nat /\ r \in 0 .. w - 1 /\ n - 1 = w * q + r
    BY <2>2, Division
  <2> HIDE DEF q, r
  <2>4. q < rx
    <3> SUFFICES ASSUME rx <= q PROVE FALSE
      BY <2>3
    <3> DEFINE a == w * rx
               b == w * q
    <3>1. a \in Nat /\ b \in Nat /\ a <= b
      BY <1>1, <2>3, ProductGrows
    <3>2. n - 1 = b + r /\ total = a
      BY <1>5, <2>3
    <3> HIDE DEF a, b
    <3> QED BY <2>3, <3>1, <3>2
  <2>5. q \in 0 .. rx - 1
    BY <2>3, <2>4
  <2> QED BY <2>2, <2>3, <2>5 DEF q, r
<1>7. ASSUME NEW n \in 1 .. total PROVE queues[n] \in Range(ports) \X (0 .. rx - 1)
  <2> DEFINE r == (n - 1) % w
  <2>0. r \in 0 .. w - 1 /\ w \in Nat \ {0}
    BY <1>6
  <2> HIDE DEF r
  <2>a. r + 1 \in 1 .. w
    BY <2>0
  <2>1. ((n - 1) % w) + 1 \in 1 .. w
    BY <2>a DEF r
  <2>2. ports[((n - 1) % w) + 1] \in Range(ports)
    BY <1>4, <2>1
  <2> QED BY <1>2, <1>6, <2>2
<1>8. queues \in Seq(Range(ports) \X (0 .. rx - 1)) /\ Len(queues) = total
  <2> DEFINE T == Range(ports) \X (0 .. rx - 1)
  <2>1. \A n \in 1 .. total : queues[n] \in T
    BY <1>7
  <2> HIDE DEF T
  <2>2. queues \in [1 .. total -> T]
    BY <1>2, <2>1
  <2>3. queues \in Seq(T) /\ Len(queues) = total
    BY <2>2
  <2> QED BY <2>3 DEF T
<1>9. ASSUME NEW m \in 1 .. total, NEW n \in 1 .. total, queues[m] = queues[n] PROVE m = n
  <2> DEFINE qm == (m - 1) \div w
             rm == (m - 1) % w
             qn == (n - 1) \div w
             rn == (n - 1) % w
  <2>1. /\ w \in Nat \ {0} /\ rm \in 0 .. w - 1 /\ rn \in 0 .. w - 1
        /\ m - 1 = w * qm + rm /\ n - 1 = w * qn + rn
    BY <1>6
  <2>2. queues[m] = <<ports[rm + 1], qm>> /\ queues[n] = <<ports[rn + 1], qn>>
    BY <1>2
  <2> HIDE DEF qm, qn, rm, rn
  <2>3. qm = qn /\ ports[rm + 1] = ports[rn + 1]
    <3> DEFINE pm == ports[rm + 1]
               pn == ports[rn + 1]
    <3>1. <<pm, qm>> = <<pn, qn>>
      BY <1>9, <2>2
    <3> HIDE DEF pm, pn
    <3>2. pm = pn /\ qm = qn
      BY <3>1
    <3> QED BY <3>2 DEF pm, pn
  <2>4. rm + 1 \in 1 .. w /\ rn + 1 \in 1 .. w
    BY <2>1
  <2>5. rm + 1 = rn + 1
    BY <1>3, <2>3, <2>4
  <2>6. rm = rn
    BY <2>1, <2>5
  <2>7. m - 1 = n - 1
    BY <2>1, <2>3, <2>6
  <2> QED BY <2>7
<1>10. ASSUME NEW q \in Range(ports) \X (0 .. rx - 1)
       PROVE  \E n \in 1 .. total : queues[n] = q
  <2>1. PICK p \in Range(ports), i \in 0 .. rx - 1 : q = <<p, i>>
    OBVIOUS
  <2>2. PICK j \in 1 .. w : ports[j] = p
    BY <1>4
  <2> DEFINE a == w * i
             b == w * rx
             c == w * (i + 1)
             n == a + j
  <2>3. a \in Nat /\ b \in Nat /\ c \in Nat /\ c <= b /\ c = a + w
    <3>1. i \in Nat /\ i + 1 \in Nat /\ i + 1 <= rx
      OBVIOUS
    <3>2. w * i \in Nat /\ w * (i + 1) <= w * rx /\ w * (i + 1) \in Nat /\ w * rx \in Nat
      BY <1>1, <3>1, ProductGrows
    <3>3. w * (i + 1) = w * i + w
      BY <1>1, <3>1, SMT
    <3> QED BY <3>2, <3>3
  <2>4. w \in Nat \ {0} /\ j - 1 \in 0 .. w - 1 /\ i \in Nat
    BY <1>1
  <2>5. total = b
    BY <1>5
  <2>6. n - 1 = w * i + (j - 1)
    BY <2>3, <2>4
  <2>7. (n - 1) \div w = i /\ (n - 1) % w = j - 1
    <3> DEFINE m == n - 1
               k == j - 1
    <3>1. m = w * i + k /\ k \in 0 .. w - 1
      BY <2>4, <2>6
    <3> HIDE DEF m, k
    <3>2. m \div w = i /\ m % w = k
      BY <2>4, <3>1, DivisionUnique
    <3> QED BY <3>2 DEF m, k
  <2>8. n \in 1 .. total
    <3> HIDE DEF a, b, c
    <3> QED BY <1>1, <2>3, <2>4, <2>5
  <2>9. (j - 1) + 1 = j
    OBVIOUS
  <2> HIDE DEF n
  <2>10. queues[n] = <<ports[j], i>>
    BY <1>2, <2>7, <2>8, <2>9
  <2> QED BY <2>1, <2>2, <2>8, <2>10
<1> QED BY <1>8, <1>9, <1>10 DEF queues, OnceEach

\* Every queue of every port is handed out, once.
LEMMA HandedOutOnce ==
  ASSUME NEW P, NEW ports \in Seq(P), NEW rx \in Nat, IsInjective(ports),
         NEW parsers \in Nat \ {0}
  PROVE  LET lists == Assignment(ports, rx, parsers)
             T == Range(ports) \X (0 .. rx - 1)
         IN
         /\ lists \in [1 .. parsers -> Seq(T)]
         /\ \A q \in T : \E k \in 1 .. parsers : q \in Range(lists[k])
         /\ \A k, l \in 1 .. parsers : \A i \in DOMAIN lists[k], j \in DOMAIN lists[l] :
              lists[k][i] = lists[l][j] => k = l /\ i = j
<1> DEFINE T == Range(ports) \X (0 .. rx - 1)
           total == rx * Len(ports)
           queues == que_to_use(ports, rx)
           lists == Assignment(ports, rx, parsers)
           g == Begins(total, parsers)
<1>1. total \in Nat /\ total = rx * Len(ports)
  <2>1. Len(ports) \in Nat
    OBVIOUS
  <2> QED BY <2>1, ProductGrows
<1> HIDE DEF total
<1>2. /\ queues \in Seq(T) /\ Len(queues) = total
      /\ \A m, n \in 1 .. total : queues[m] = queues[n] => m = n
      /\ \A q \in T : \E n \in 1 .. total : queues[n] = q
  <2>1. OnceEach(queues, T, total)
    BY <1>1, QueuesInTurn
  <2> HIDE DEF queues, T
  <2> QED BY <2>1 DEF OnceEach
<1>3. lists = [k \in 1 .. parsers |-> SubSeq(queues, g[k] + 1, g[k + 1])]
  <2>1. total \in Nat /\ total = Len(que_to_use(ports, rx))
    BY <1>1, <1>2
  <2> QED BY <2>1, HandedOut
<1>4. /\ g \in [1 .. parsers + 1 -> Nat] /\ g[1] = 0 /\ g[parsers + 1] = total
      /\ \A k \in 1 .. parsers : g[k] <= g[k + 1]
  <2>1. /\ g \in [1 .. parsers + 1 -> Nat] /\ g[1] = 0 /\ g[parsers + 1] = total
        /\ \A k \in 1 .. parsers : /\ g[k + 1] = g[k] + Share(k, total, parsers)
                                   /\ Share(k, total, parsers) \in Nat
    BY <1>1, BeginsStep
  <2> HIDE DEF g
  <2>2. ASSUME NEW k \in 1 .. parsers PROVE g[k] <= g[k + 1]
    <3>1. k \in 1 .. parsers + 1 /\ k + 1 \in 1 .. parsers + 1
      OBVIOUS
    <3>2. g[k] \in Nat /\ g[k + 1] \in Nat
      BY <2>1, <3>1
    <3>3. g[k + 1] = g[k] + Share(k, total, parsers) /\ Share(k, total, parsers) \in Nat
      BY <2>1
    <3> QED BY <3>2, <3>3
  <2> QED BY <2>1, <2>2
<1> HIDE DEF T, queues, lists, g
<1>5. /\ \A p \in 1 .. total : \E k \in 1 .. parsers : g[k] < p /\ p <= g[k + 1]
      /\ \A k \in 1 .. parsers + 1 : g[k] <= total
      /\ \A k, l \in 1 .. parsers : k < l => g[k + 1] <= g[l]
  <2>1. parsers \in Nat
    OBVIOUS
  <2> QED BY <1>4, <2>1, CutsCover
<1>6. ASSUME NEW k \in 1 .. parsers
      PROVE  /\ g[k] \in Nat /\ g[k + 1] \in Nat /\ g[k] <= g[k + 1] /\ g[k + 1] <= total
             /\ lists[k] \in Seq(T) /\ DOMAIN lists[k] = 1 .. g[k + 1] - g[k]
             /\ \A i \in 1 .. g[k + 1] - g[k] : lists[k][i] = queues[g[k] + i]
  <2>1. k \in 1 .. parsers + 1 /\ k + 1 \in 1 .. parsers + 1
    OBVIOUS
  <2>2. g[k] \in Nat /\ g[k + 1] \in Nat /\ g[k] <= g[k + 1] /\ g[k + 1] <= total
    BY <1>4, <1>5, <2>1
  <2> DEFINE a == g[k]
             b == g[k + 1]
  <2>3. lists[k] = SubSeq(queues, a + 1, b)
    BY <1>3
  <2>4. a \in Nat /\ b \in Nat /\ a <= b /\ b <= total
    BY <2>2
  <2> HIDE DEF a, b
  <2>5. SubSeq(queues, a + 1, b) \in Seq(T)
    BY <1>1, <1>2, <2>4
  <2>6. Len(SubSeq(queues, a + 1, b)) = b - a
    BY <1>1, <1>2, <2>4
  <2>7. \A i \in 1 .. b - a : SubSeq(queues, a + 1, b)[i] = queues[a + i]
    BY <1>1, <1>2, <2>4
  <2>8. DOMAIN SubSeq(queues, a + 1, b) = 1 .. b - a
    BY <2>5, <2>6
  <2> QED BY <2>2, <2>3, <2>5, <2>7, <2>8 DEF a, b
<1>7. lists \in [1 .. parsers -> Seq(T)]
  BY <1>3, <1>6
<1>8. ASSUME NEW q \in T PROVE \E k \in 1 .. parsers : q \in Range(lists[k])
  <2>1. PICK p \in 1 .. total : queues[p] = q
    BY <1>2
  <2>2. PICK k \in 1 .. parsers : g[k] < p /\ p <= g[k + 1]
    BY <1>5
  <2> DEFINE i == p - g[k]
  <2>3. i \in 1 .. g[k + 1] - g[k] /\ g[k] + i = p
    BY <1>1, <1>6, <2>2
  <2> HIDE DEF i
  <2>4. i \in DOMAIN lists[k] /\ lists[k][i] = q
    BY <1>6, <2>1, <2>3
  <2> QED BY <2>4 DEF Range
<1>9. ASSUME NEW k \in 1 .. parsers, NEW l \in 1 .. parsers,
             NEW i \in DOMAIN lists[k], NEW j \in DOMAIN lists[l], lists[k][i] = lists[l][j]
      PROVE  k = l /\ i = j
  <2> DEFINE ak == g[k]
             bk == g[k + 1]
             al == g[l]
             bl == g[l + 1]
  <2>1. /\ ak \in Nat /\ bk \in Nat /\ bk <= total /\ i \in 1 .. bk - ak
        /\ al \in Nat /\ bl \in Nat /\ bl <= total /\ j \in 1 .. bl - al
        /\ k < l => bk <= al
        /\ l < k => bl <= ak
    BY <1>5, <1>6
  <2>2. lists[k][i] = queues[ak + i] /\ lists[l][j] = queues[al + j]
    BY <1>6
  <2> HIDE DEF ak, bk, al, bl
  <2>3. ak + i \in 1 .. total /\ al + j \in 1 .. total
    BY <1>1, <2>1
  <2>4. ak + i = al + j
    BY <1>2, <1>9, <2>2, <2>3
  <2>5. k = l
    BY <2>1, <2>4
  <2>6. ak = al
    BY <2>5 DEF ak, al
  <2> QED BY <2>1, <2>4, <2>5, <2>6
<1> QED BY <1>7, <1>8, <1>9 DEF lists, T

-----------------------------------------------------------------------------
(* Cores in ascending order.                                               *)

Below(S, c) == {d \in S : d < c}

\* The k-th core of a finite set is the one with k - 1 below it, and there is one
\* for every k.
LEMMA AscendingExact ==
  ASSUME NEW S \in SUBSET Nat, IsFiniteSet(S)
  PROVE  /\ Ascending(S) \in [1 .. Cardinality(S) -> S] /\ Cardinality(S) \in Nat
         /\ \A c \in S : \E k \in 1 .. Cardinality(S) : Ascending(S)[k] = c
<1> DEFINE n == Cardinality(S)
           rank == [c \in S |-> Cardinality(Below(S, c)) + 1]
<1>1. n \in Nat
  BY FS_CardinalityType
<1>2. ASSUME NEW c \in S
      PROVE  IsFiniteSet(Below(S, c)) /\ Cardinality(Below(S, c)) \in 0 .. n - 1
  <2>1. Below(S, c) \in SUBSET (S \ {c})
    BY DEF Below
  <2>2. IsFiniteSet(S \ {c}) /\ Cardinality(S \ {c}) = n - 1
    BY FS_RemoveElement
  <2>3. IsFiniteSet(Below(S, c)) /\ Cardinality(Below(S, c)) <= n - 1
    BY <2>1, <2>2, FS_Subset
  <2>4. Cardinality(Below(S, c)) \in Nat
    BY <2>3, FS_CardinalityType
  <2> QED BY <1>1, <2>3, <2>4
<1>3. ASSUME NEW c \in S, NEW d \in S, c < d
      PROVE  Cardinality(Below(S, c)) < Cardinality(Below(S, d))
  <2>0. c \in Nat /\ d \in Nat /\ \A e \in S : e \in Nat /\ (e < c => e < d /\ e # c)
    BY <1>3
  <2>1. Below(S, c) \in SUBSET (Below(S, d) \ {c}) /\ c \in Below(S, d)
    BY <1>3, <2>0 DEF Below
  <2>2. IsFiniteSet(Below(S, d) \ {c})
        /\ Cardinality(Below(S, d) \ {c}) = Cardinality(Below(S, d)) - 1
    BY <1>2, <2>1, FS_RemoveElement
  <2>3. Cardinality(Below(S, c)) <= Cardinality(Below(S, d)) - 1
    BY <2>1, <2>2, FS_Subset
  <2> QED BY <1>2, <2>3
<1>4. \A c, d \in S : Cardinality(Below(S, c)) = Cardinality(Below(S, d)) => c = d
  <2> SUFFICES ASSUME NEW c \in S, NEW d \in S,
                      Cardinality(Below(S, c)) = Cardinality(Below(S, d)), c # d
               PROVE  FALSE
    OBVIOUS
  <2>1. c \in Nat /\ d \in Nat /\ (c < d \/ d < c)
    OBVIOUS
  <2>2. Cardinality(Below(S, c)) \in Nat
    BY <1>2
  <2> QED BY <1>3, <2>1, <2>2
<1>5. \A c \in S : rank[c] = Cardinality(Below(S, c)) + 1 /\ rank[c] \in 1 .. n
  BY <1>1, <1>2
<1>6. rank \in [S -> 1 .. n]
  BY <1>5
<1>7. \A c, d \in S : rank[c] = rank[d] => c = d
  <2> SUFFICES ASSUME NEW c \in S, NEW d \in S, rank[c] = rank[d] PROVE c = d
    OBVIOUS
  <2>1. Cardinality(Below(S, c)) \in Nat /\ Cardinality(Below(S, d)) \in Nat
    BY <1>2
  <2>2. Cardinality(Below(S, c)) + 1 = Cardinality(Below(S, d)) + 1
    BY <1>5
  <2> QED BY <1>4, <2>1, <2>2
<1>8. \A k \in 1 .. n : \E c \in S : rank[c] = k
  <2> DEFINE K == 1 .. n
             f == rank
  <2>1. IsFiniteSet(K) /\ Cardinality(K) = n
    <3>1. IsFiniteSet(K) /\ Cardinality(K) = IF 1 > n THEN 0 ELSE n - 1 + 1
      BY <1>1, FS_Interval
    <3> QED BY <1>1, <3>1
  <2>2. f \in Injection(S, K)
    BY <1>6, <1>7 DEF Injection, IsInjective
  <2> HIDE DEF K, f
  <2>3. f \in Surjection(S, K)
    BY <2>1, <2>2, FS_Injection
  <2>4. \A k \in K : \E c \in S : f[c] = k
    BY <2>3 DEF Surjection, Range
  <2> QED BY <2>4 DEF K, f
<1> HIDE DEF rank, n
<1>9. ASSUME NEW k \in 1 .. n, NEW c \in S, rank[c] = k
      PROVE  c = CHOOSE e \in S : Cardinality({d \in S : d < e}) = k - 1
  <2>1. Cardinality(Below(S, c)) = k - 1
    BY <1>1, <1>2, <1>5, <1>9
  <2>2. \A e \in S : Cardinality(Below(S, e)) = k - 1 => e = c
    BY <1>4, <2>1
  <2>3. \A e : Below(S, e) = {d \in S : d < e}
    BY DEF Below
  <2>4. c = CHOOSE e \in S : Cardinality(Below(S, e)) = k - 1
    BY <2>1, <2>2
  <2> QED BY <2>3, <2>4
<1>10. Ascending(S) = [k \in 1 .. n |-> CHOOSE c \in S : Cardinality({d \in S : d < c}) = k - 1]
  BY DEF Ascending, n
<1>11. \A k \in 1 .. n : Ascending(S)[k] \in S
  <2> SUFFICES ASSUME NEW k \in 1 .. n PROVE Ascending(S)[k] \in S
    OBVIOUS
  <2>1. PICK c \in S : rank[c] = k
    BY <1>8
  <2> QED BY <1>9, <1>10, <2>1
<1>12. \A c \in S : \E k \in 1 .. n : Ascending(S)[k] = c
  <2> SUFFICES ASSUME NEW c \in S PROVE \E k \in 1 .. n : Ascending(S)[k] = c
    OBVIOUS
  <2>1. rank[c] \in 1 .. n
    BY <1>5
  <2> QED BY <1>9, <1>10, <2>1
<1> QED BY <1>1, <1>10, <1>11, <1>12 DEF n

\* A sequence has finitely many elements.
LEMMA RangeFinite ==
  ASSUME NEW S, NEW s \in Seq(S)
  PROVE  IsFiniteSet(Range(s)) /\ Range(s) \subseteq S
<1> DEFINE n == Len(s)
           K == 1 .. n
           R == Range(s)
<1>1. n \in Nat /\ s \in [K -> R] /\ R \subseteq S /\ \A x \in R : \E k \in K : s[k] = x
  BY DEF Range
<1>2. IsFiniteSet(K)
  BY <1>1, FS_Interval
<1> HIDE DEF n, K, R
<1>3. s \in Surjection(K, R)
  BY <1>1 DEF Surjection, Range
<1>4. IsFiniteSet(R)
  BY <1>2, <1>3, FS_Surjection
<1> QED BY <1>1, <1>4 DEF R

\* Where the elements of a longer list are distinct.
LEMMA ConcatDistinct ==
  ASSUME NEW S, NEW s \in Seq(S), NEW t \in Seq(S)
  PROVE  /\ s \o t \in Seq(S)
         /\ Range(s \o t) = Range(s) \union Range(t)
         /\ IsInjective(s \o t) => IsInjective(s) /\ IsInjective(t) /\ Range(s) \cap Range(t) = {}
<1> DEFINE m == Len(s)
           n == Len(t)
           st == s \o t
<1>1. /\ m \in Nat /\ n \in Nat /\ st \in Seq(S) /\ Len(st) = m + n
      /\ DOMAIN s = 1 .. m /\ DOMAIN t = 1 .. n /\ DOMAIN st = 1 .. m + n
      /\ \A i \in 1 .. m : st[i] = s[i]
      /\ \A i \in 1 .. n : st[m + i] = t[i]
  OBVIOUS
<1> HIDE DEF m, n, st
<1>2. /\ \A i \in 1 .. m : i \in 1 .. m + n
      /\ \A i \in 1 .. n : m + i \in 1 .. m + n
      /\ \A i \in 1 .. m + n : i \in 1 .. m \/ \E j \in 1 .. n : i = m + j
  <2>1. ASSUME NEW i \in 1 .. m + n, i \notin 1 .. m PROVE \E j \in 1 .. n : i = m + j
    <3>1. i - m \in 1 .. n /\ i = m + (i - m)
      BY <1>1, <2>1
    <3> QED BY <3>1
  <2> QED BY <1>1, <2>1
<1>3. Range(st) = Range(s) \union Range(t)
  <2>1. ASSUME NEW x \in Range(st) PROVE x \in Range(s) \union Range(t)
    <3>1. PICK i \in 1 .. m + n : st[i] = x
      BY <1>1 DEF Range
    <3>2. CASE i \in 1 .. m
      BY <1>1, <3>1, <3>2 DEF Range
    <3>3. CASE i \notin 1 .. m
      <4>1. PICK j \in 1 .. n : i = m + j
        BY <1>2, <3>3
      <4> QED BY <1>1, <3>1, <4>1 DEF Range
    <3> QED BY <3>2, <3>3
  <2>2. ASSUME NEW i \in 1 .. m PROVE s[i] \in Range(st)
    <3>1. i \in 1 .. m + n /\ st[i] = s[i]
      BY <1>1, <1>2
    <3> QED BY <1>1, <3>1 DEF Range
  <2>3. ASSUME NEW i \in 1 .. n PROVE t[i] \in Range(st)
    <3>1. m + i \in 1 .. m + n /\ st[m + i] = t[i]
      BY <1>1, <1>2
    <3> QED BY <1>1, <3>1 DEF Range
  <2>4. Range(s) \subseteq Range(st) /\ Range(t) \subseteq Range(st)
    BY <1>1, <2>2, <2>3 DEF Range
  <2> QED BY <2>1, <2>4
<1>4. ASSUME IsInjective(st) PROVE IsInjective(s) /\ IsInjective(t) /\ Range(s) \cap Range(t) = {}
  <2>1. \A i, j \in 1 .. m + n : st[i] = st[j] => i = j
    BY <1>1, <1>4 DEF IsInjective
  <2>2. IsInjective(s)
    BY <1>1, <1>2, <2>1 DEF IsInjective
  <2>3. IsInjective(t)
    <3> SUFFICES ASSUME NEW i \in 1 .. n, NEW j \in 1 .. n, t[i] = t[j] PROVE i = j
      BY <1>1 DEF IsInjective
    <3>1. m + i = m + j
      BY <1>1, <1>2, <2>1
    <3> QED BY <1>1, <3>1
  <2>4. ASSUME NEW x \in Range(s) \cap Range(t) PROVE FALSE
    <3>1. PICK i \in 1 .. m : s[i] = x
      BY <1>1 DEF Range
    <3>2. PICK j \in 1 .. n : t[j] = x
      BY <1>1 DEF Range
    <3>3. i = m + j
      BY <1>1, <1>2, <2>1, <3>1, <3>2
    <3> QED BY <1>1, <3>3
  <2> QED BY <2>2, <2>3, <2>4
<1> QED BY <1>1, <1>3, <1>4 DEF st

-----------------------------------------------------------------------------
(* From the configuration file to running threads.                         *)

ParamOK ==
  /\ \A r \in Roles : Param.core_num_for[r] \in Nat /\ Param.core_list[r] \in Seq(Nat)
  /\ Param.number_rx_queue \in Nat /\ Param.number_tx_queue \in Nat
  /\ Param.master_core \in Nat /\ Param.dpdk_port_vec \in Seq(Nat)

\* What do_init has established of the parameters at the place it has reached.
Established ==
  /\ setup \notin {"read", "unconfigured"} => ParamOK
  /\ setup \in {"read", "unconfigured", "configured", "checked", "opened"}
       => nic_queue_list = << >> /\ thread_vec = Nobody
  /\ setup \in {"checked", "opened", "assigned", "created", "launched"}
       => /\ CoresDistinct /\ Balanced /\ ListsComplete
          /\ Param.core_num_for["buffer"] <= Param.number_tx_queue
  /\ setup \in {"opened", "assigned"} => IsInjective(Param.dpdk_port_vec)
  /\ worker # Nobody => setup = "launched"

SetupInv ==
  SetupTypeOK /\ Established /\ PlacedAsConfigured /\ PipelinesComplete /\ QueuesPolledOnce

\* What the file does not say is taken from the defaults.
LEMMA ConfigureTyped ==
  ASSUME SetupTypeOK, Configure, setup' = "configured"
  PROVE  ParamOK'
<1> DEFINE lists == [core_num_for |-> Filled(json.core_num_for, DefaultCores), core_list |-> json.core_list]
           p == Filled(json.dpdk, Filled(lists, Default))
<1>1. Roles \subseteq DOMAIN json.core_list /\ "master_core" \in DOMAIN json.dpdk /\ Param' = p
  BY DEF Configure, Param
<1>2. /\ \A r \in DOMAIN json.core_num_for : json.core_num_for[r] \in Nat
      /\ \A r \in DOMAIN json.core_list : json.core_list[r] \in Seq(Nat)
      /\ DOMAIN json.dpdk \subseteq DOMAIN Default \union {"master_core"}
      /\ \A x \in DOMAIN json.dpdk \ {"dpdk_port_vec"} : json.dpdk[x] \in Nat
      /\ "dpdk_port_vec" \in DOMAIN json.dpdk => json.dpdk["dpdk_port_vec"] \in Seq(Nat)
  BY JsonAssumption DEF SetupTypeOK
<1>3. \A r \in Roles : Filled(json.core_num_for, DefaultCores)[r] \in Nat
  BY <1>2 DEF Filled, DefaultCores
<1>4. p.core_num_for = Filled(json.core_num_for, DefaultCores) /\ p.core_list = json.core_list
  BY <1>2 DEF Filled, Default
<1>5. p.number_rx_queue \in Nat /\ p.number_tx_queue \in Nat /\ p.master_core \in Nat
  BY <1>1, <1>2 DEF Filled, Default
<1>6. p.dpdk_port_vec \in Seq(Nat)
  <2>1. CASE "dpdk_port_vec" \in DOMAIN json.dpdk
    <3>1. p.dpdk_port_vec = json.dpdk["dpdk_port_vec"]
      BY <2>1 DEF Filled
    <3> HIDE DEF p
    <3> QED BY <1>2, <2>1, <3>1
  <2>2. CASE "dpdk_port_vec" \notin DOMAIN json.dpdk
    <3>1. p.dpdk_port_vec = Default.dpdk_port_vec
      BY <2>2 DEF Filled, Default
    <3>2. Default.dpdk_port_vec = << >>
      BY DEF Default
    <3> HIDE DEF p
    <3> QED BY <3>1, <3>2
  <2> QED BY <2>1, <2>2
<1> HIDE DEF p
<1> QED BY <1>1, <1>2, <1>3, <1>4, <1>5, <1>6 DEF ParamOK, Param

LEMMA InitSetupInv == InitSetup => SetupInv
<1> SUFFICES ASSUME InitSetup PROVE SetupInv
  OBVIOUS
<1>1. SetupTypeOK
  BY DEF InitSetup, SetupTypeOK, Nobody, Range
<1>2. Established
  BY DEF InitSetup, Established
<1>3. PlacedAsConfigured /\ PipelinesComplete /\ QueuesPolledOnce
  BY DEF InitSetup, PlacedAsConfigured, PipelinesComplete, QueuesPolledOnce
<1> QED BY <1>1, <1>2, <1>3 DEF SetupInv

\* As long as nothing is handed out, created or launched, nothing can be wrong.
LEMMA NothingYet ==
  ASSUME SetupTypeOK, UNCHANGED <<json, nic_queue_list, thread_vec, worker>>,
         nic_queue_list = << >>, thread_vec = Nobody,
         setup' \in {"unconfigured", "configured", "checked", "opened", "fatal", "crashed"}
  PROVE  SetupTypeOK' /\ PlacedAsConfigured' /\ PipelinesComplete' /\ QueuesPolledOnce'
<1>1. SetupTypeOK'
  BY DEF SetupTypeOK
<1>2. PlacedAsConfigured' /\ PipelinesComplete' /\ QueuesPolledOnce'
  BY DEF PlacedAsConfigured, PipelinesComplete, QueuesPolledOnce, Nobody
<1> QED BY <1>1, <1>2

LEMMA ConfigureInv == SetupInv /\ Configure => SetupInv'
<1> SUFFICES ASSUME SetupInv, Configure PROVE SetupInv'
  OBVIOUS
<1>1. SetupTypeOK /\ Established /\ setup = "read"
  BY DEF SetupInv, Configure
<1>2. nic_queue_list = << >> /\ thread_vec = Nobody /\ worker = Nobody
  BY <1>1 DEF Established
<1>3. setup' \in {"unconfigured", "configured"} /\ UNCHANGED <<json, nic_queue_list, thread_vec, worker>>
  BY DEF Configure
<1>4. Established'
  <2>1. setup' \notin {"read", "unconfigured"} => ParamOK'
    BY <1>1, <1>3, ConfigureTyped
  <2> QED BY <1>2, <1>3, <2>1 DEF Established
<1> QED BY <1>1, <1>2, <1>3, <1>4, NothingYet DEF SetupInv

LEMMA CheckInv == SetupInv /\ (Check \/ OpenNic) => SetupInv'
<1> SUFFICES ASSUME SetupInv, Check \/ OpenNic PROVE SetupInv'
  OBVIOUS
<1>1. /\ SetupTypeOK /\ Established /\ setup \in {"configured", "checked"}
      /\ UNCHANGED <<json, p_configure_param, nic_queue_list, thread_vec, worker>>
  BY DEF SetupInv, Check, OpenNic
<1>2. setup' \in {"checked", "opened", "fatal"}
  BY DEF Check, OpenNic
<1>3. nic_queue_list = << >> /\ thread_vec = Nobody /\ worker = Nobody
  BY <1>1 DEF Established
<1>4. ParamOK'
  <2>1. ParamOK
    BY <1>1 DEF Established
  <2> QED BY <1>1, <2>1 DEF ParamOK, Param
<1>5. ASSUME setup' \in {"checked", "opened"}
      PROVE  (CoresDistinct /\ Balanced /\ ListsComplete
              /\ Param.core_num_for["buffer"] <= Param.number_tx_queue)'
  <2>1. CoresDistinct /\ Balanced /\ ListsComplete
        /\ Param.core_num_for["buffer"] <= Param.number_tx_queue
    <3>1. CASE setup = "configured" BY <1>5, <3>1 DEF Check, OpenNic
    <3>2. CASE setup = "checked" BY <1>1, <3>2 DEF Established
    <3> QED BY <1>1, <3>1, <3>2
  <2> QED BY <1>1, <2>1 DEF CoresDistinct, Balanced, ListsComplete, Param, AllCores
<1>6. setup' = "opened" => IsInjective(Param.dpdk_port_vec)'
  <2>1. setup' = "opened" => IsInjective(Param.dpdk_port_vec)
    BY DEF Check, OpenNic
  <2> QED BY <1>1, <2>1 DEF Param
<1>7. Established'
  BY <1>1, <1>2, <1>3, <1>4, <1>5, <1>6 DEF Established
<1> QED BY <1>1, <1>2, <1>3, <1>7, NothingYet DEF SetupInv

LEMMA AssignQueuesInv == SetupInv /\ AssignQueues => SetupInv'
<1> SUFFICES ASSUME SetupInv, AssignQueues PROVE SetupInv'
  OBVIOUS
<1>1. /\ SetupTypeOK /\ Established /\ PipelinesComplete /\ setup = "opened"
      /\ UNCHANGED <<json, p_configure_param, thread_vec, worker>>
  BY DEF SetupInv, AssignQueues
<1>2. /\ ParamOK /\ IsInjective(Param.dpdk_port_vec) /\ CoresDistinct /\ Balanced /\ ListsComplete
      /\ Param.core_num_for["buffer"] <= Param.number_tx_queue /\ worker = Nobody
  BY <1>1 DEF Established
<1>3. (/\ ParamOK /\ IsInjective(Param.dpdk_port_vec) /\ CoresDistinct /\ Balanced /\ ListsComplete
       /\ Param.core_num_for["buffer"] <= Param.number_tx_queue /\ worker = Nobody)'
  BY <1>1, <1>2 DEF ParamOK, Param, CoresDistinct, Balanced, ListsComplete, AllCores
<1>4. PipelinesComplete'
  BY <1>1 DEF PipelinesComplete, Param
<1>5. Established' /\ PlacedAsConfigured'
  <2>1. setup' \in {"assigned", "crashed"}
    BY DEF AssignQueues
  <2> QED BY <1>3, <2>1 DEF Established, PlacedAsConfigured
<1>6. CASE nic_queue_list' = nic_queue_list
  <2>1. QueuesPolledOnce'
    BY <1>1, <1>6 DEF SetupInv, QueuesPolledOnce, Param
  <2>2. SetupTypeOK'
    BY <1>1, <1>6 DEF SetupTypeOK, AssignQueues
  <2> QED BY <1>4, <1>5, <2>1, <2>2 DEF SetupInv
<1>7. CASE nic_queue_list' # nic_queue_list
  <2> DEFINE ports == Param.dpdk_port_vec
             rx == Param.number_rx_queue
             parsers == Param.core_num_for["parser"]
             T == Range(ports) \X (0 .. rx - 1)
             lists == Assignment(ports, rx, parsers)
  <2>1. ports \in Seq(Nat) /\ rx \in Nat /\ parsers \in Nat \ {0} /\ IsInjective(ports)
    BY <1>2, <1>7 DEF ParamOK, AssignQueues, Roles
  <2>2. nic_queue_list' = lists /\ setup' = "assigned" /\ Param' = Param
    BY <1>1, <1>7 DEF AssignQueues, Param
  <2>3. /\ lists \in [1 .. parsers -> Seq(T)]
        /\ \A q \in T : \E k \in 1 .. parsers : q \in Range(lists[k])
        /\ \A k, l \in 1 .. parsers : \A i \in DOMAIN lists[k], j \in DOMAIN lists[l] :
             lists[k][i] = lists[l][j] => k = l /\ i = j
    <3> HIDE DEF ports, rx, parsers
    <3> QED BY <2>1, HandedOutOnce
  <2> HIDE DEF lists, T
  <2>4. DOMAIN lists = 1 .. parsers /\ \A k \in 1 .. parsers : Range(lists[k]) \subseteq T
    <3> HIDE DEF parsers
    <3>1. ASSUME NEW k \in 1 .. parsers PROVE Range(lists[k]) \subseteq T
      <4>1. lists[k] \in Seq(T)
        BY <2>3
      <4> QED BY <4>1 DEF Range
    <3> QED BY <2>3, <3>1
  <2>5. QueuesPolledOnce'
    <3>1. T = Range(Param.dpdk_port_vec') \X (0 .. Param.number_rx_queue' - 1)
      BY <2>2 DEF T
    <3> HIDE DEF parsers
    <3> QED BY <2>2, <2>3, <2>4, <3>1 DEF QueuesPolledOnce
  <2>6. SetupTypeOK'
    <3> HIDE DEF parsers
    <3>1. T \subseteq Nat \X Nat
      <4>1. Range(ports) \subseteq Nat /\ \A i \in 0 .. rx - 1 : i \in Nat
        BY <2>1 DEF Range
      <4> QED BY <4>1 DEF T
    <3>2. \A k \in DOMAIN lists : lists[k] \in Seq(Nat \X Nat)
      BY <2>3, <2>4, <3>1
    <3> QED BY <1>1, <2>2, <3>2 DEF SetupTypeOK
  <2> QED BY <1>4, <1>5, <2>5, <2>6 DEF SetupInv
<1> QED BY <1>6, <1>7

\* A vector of n workers holds an i-th one for every i up to n.
LEMMA AtItself ==
  ASSUME NEW n \in Nat, NEW f, f = [i \in 1 .. n |-> f[i]]
  PROVE  Len(f) = n /\ \A i \in 1 .. n : At(f, i) = i
<1>1. f \in Seq({f[i] : i \in 1 .. n}) /\ DOMAIN f = 1 .. n
  OBVIOUS
<1>2. Len(f) = n
  BY <1>1
<1> QED BY <1>2 DEF At

\* Each worker is bound to those of its own number: there are as many of one kind
\* as of another.
LEMMA CreateWorkersInv == SetupInv /\ CreateWorkers => SetupInv'
<1> SUFFICES ASSUME SetupInv, CreateWorkers PROVE SetupInv'
  OBVIOUS
<1>1. /\ SetupTypeOK /\ Established /\ QueuesPolledOnce /\ setup = "assigned"
      /\ UNCHANGED <<json, p_configure_param, nic_queue_list, worker>>
      /\ setup' \in {"created", "crashed"}
  BY DEF SetupInv, CreateWorkers
<1>2. ParamOK /\ CoresDistinct /\ Balanced /\ ListsComplete /\ worker = Nobody
      /\ Param.core_num_for["buffer"] <= Param.number_tx_queue
  BY <1>1 DEF Established
<1>3. (ParamOK /\ CoresDistinct /\ Balanced /\ ListsComplete /\ worker = Nobody
       /\ Param.core_num_for["buffer"] <= Param.number_tx_queue)'
  BY <1>1, <1>2 DEF ParamOK, Param, CoresDistinct, Balanced, ListsComplete, AllCores
<1>4. Established' /\ PlacedAsConfigured' /\ QueuesPolledOnce' /\ SetupTypeOK'
  <2>1. Established' /\ PlacedAsConfigured'
    BY <1>1, <1>3 DEF Established, PlacedAsConfigured
  <2>2. QueuesPolledOnce'
    BY <1>1 DEF QueuesPolledOnce, Param
  <2>3. SetupTypeOK'
    BY <1>1 DEF SetupTypeOK
  <2> QED BY <2>1, <2>2, <2>3
<1> DEFINE n == Param.core_num_for["parser"]
           Create(r, bound(_)) == [i \in 1 .. n |-> [role |-> r, bound |-> bound(i)]]
           Own(i) == <<i>>
           parsers == Create("parser", Own)
           OfParser(i) == <<At(parsers, i)>>
           pools == Create("pool", OfParser)
           OfPool(i) == <<At(pools, i)>>
           analyzers == Create("analyzer", OfPool)
           OfBoth(i) == <<At(parsers, i), At(analyzers, i)>>
           buffers == Create("buffer", OfBoth)
<1>5. n \in Nat /\ (\A r \in Roles : Param.core_num_for[r] = n) /\ n <= Param.number_tx_queue
  BY <1>2 DEF ParamOK, Balanced, Roles
<1>6. thread_vec' = [r \in Roles |-> CASE r = "parser" -> parsers
                                       [] r = "pool" -> pools
                                       [] r = "analyzer" -> analyzers
                                       [] r = "buffer" -> buffers]
  <2>1. \A r \in Roles : Param.core_num_for[r] = n
    BY <1>5
  <2>2. /\ Param.core_num_for["parser"] = n /\ Param.core_num_for["pool"] = n
        /\ Param.core_num_for["analyzer"] = n /\ Param.core_num_for["buffer"] = n
    BY <2>1 DEF Roles
  <2> HIDE DEF n
  <2> QED BY <2>2 DEF CreateWorkers
<1> HIDE DEF n
<1>7. Len(parsers) = n /\ \A i \in 1 .. n : At(parsers, i) = i
  BY <1>5, AtItself
<1>8. \A i \in 1 .. n : parsers[i].bound = <<i>>
  OBVIOUS
<1> HIDE DEF parsers
<1>9. Len(pools) = n /\ \A i \in 1 .. n : At(pools, i) = i
  BY <1>5, AtItself
<1>10. \A i \in 1 .. n : pools[i].bound = <<i>>
  BY <1>7
<1> HIDE DEF pools
<1>11. Len(analyzers) = n /\ \A i \in 1 .. n : At(analyzers, i) = i
  BY <1>5, AtItself
<1>12. \A i \in 1 .. n : analyzers[i].bound = <<i>>
  BY <1>9
<1> HIDE DEF analyzers
<1>13. Len(buffers) = n
  BY <1>5, AtItself
<1>14. \A i \in 1 .. n : buffers[i].bound = <<i, i>>
  BY <1>7, <1>11
<1> HIDE DEF buffers
<1>15. \A x : Range(<<x>>) = {x} /\ Range(<<x, x>>) = {x}
  <2> SUFFICES ASSUME NEW x PROVE Range(<<x>>) = {x} /\ Range(<<x, x>>) = {x}
    OBVIOUS
  <2>1. DOMAIN <<x>> = {1} /\ DOMAIN <<x, x>> = {1, 2}
    OBVIOUS
  <2> QED BY <2>1 DEF Range
<1>16. /\ thread_vec'["parser"] = parsers /\ thread_vec'["pool"] = pools
       /\ thread_vec'["analyzer"] = analyzers /\ thread_vec'["buffer"] = buffers
  BY <1>6 DEF Roles
<1>17. PipelinesComplete'
  <2>1. \A r \in Roles : Len(thread_vec'[r]) = n
    BY <1>7, <1>9, <1>11, <1>13, <1>16 DEF Roles
  <2>2. ASSUME NEW r \in Roles, NEW i \in 1 .. n
        PROVE  thread_vec'[r][i].bound \in {<<i>>, <<i, i>>}
    BY <1>8, <1>10, <1>12, <1>14, <1>16 DEF Roles
  <2>3. \A r \in Roles : \A i \in 1 .. n : Range(thread_vec'[r][i].bound) = {i}
    BY <1>15, <2>2
  <2>4. Len(thread_vec'["parser"]) = n /\ n <= Param.number_tx_queue'
    BY <1>1, <1>5, <2>1 DEF Roles, Param
  <2> QED BY <2>1, <2>3, <2>4 DEF PipelinesComplete
<1> QED BY <1>4, <1>17 DEF SetupInv

\* The cores are all different: each list is, no two lists share one, and none is
\* the master's.
LEMMA CoresApart ==
  ASSUME ParamOK, CoresDistinct, ListsComplete
  PROVE  /\ AllCores \in Seq(Nat)
         /\ Range(AllCores) = {Param.master_core} \union UNION {Mask(r) : r \in Roles}
         /\ \A r \in Roles : Param.master_core \notin Mask(r)
         /\ \A r \in Roles : IsInjective(Param.core_list[r])
         /\ \A r, s \in Roles : r # s => Mask(r) \cap Mask(s) = {}
<1> DEFINE m == <<Param.master_core>>
           a == Param.core_list["analyzer"]
           b == Param.core_list["buffer"]
           c == Param.core_list["parser"]
           d == Param.core_list["pool"]
<1>1. a \in Seq(Nat) /\ b \in Seq(Nat) /\ c \in Seq(Nat) /\ d \in Seq(Nat) /\ m \in Seq(Nat)
  BY DEF ParamOK, Roles
<1>2. Range(m) = {Param.master_core}
  <2>1. DOMAIN m = {1}
    OBVIOUS
  <2> QED BY <2>1 DEF Range
<1>3. AllCores = (((m \o a) \o b) \o c) \o d
  BY DEF AllCores
<1>4. IsInjective(AllCores)
  BY DEF CoresDistinct
<1>5. /\ Mask("analyzer") = Range(a) /\ Mask("buffer") = Range(b)
      /\ Mask("parser") = Range(c) /\ Mask("pool") = Range(d)
      /\ Param.core_list["analyzer"] = a /\ Param.core_list["buffer"] = b
      /\ Param.core_list["parser"] = c /\ Param.core_list["pool"] = d
  BY DEF Mask
<1> HIDE DEF m, a, b, c, d
<1> DEFINE ma == m \o a
           mb == ma \o b
           mc == mb \o c
           md == mc \o d
<1>6. ma \in Seq(Nat) /\ Range(ma) = Range(m) \union Range(a)
  BY <1>1, ConcatDistinct
<1>6i. IsInjective(ma) => IsInjective(a) /\ Range(m) \cap Range(a) = {}
  BY <1>1, ConcatDistinct
<1> HIDE DEF ma
<1>7. mb \in Seq(Nat) /\ Range(mb) = Range(ma) \union Range(b)
  BY <1>1, <1>6, ConcatDistinct
<1>7i. IsInjective(mb) => IsInjective(ma) /\ IsInjective(b) /\ Range(ma) \cap Range(b) = {}
  BY <1>1, <1>6, ConcatDistinct
<1> HIDE DEF mb
<1>8. mc \in Seq(Nat) /\ Range(mc) = Range(mb) \union Range(c)
  BY <1>1, <1>7, ConcatDistinct
<1>8i. IsInjective(mc) => IsInjective(mb) /\ IsInjective(c) /\ Range(mb) \cap Range(c) = {}
  BY <1>1, <1>7, ConcatDistinct
<1> HIDE DEF mc
<1>9. md \in Seq(Nat) /\ Range(md) = Range(mc) \union Range(d)
  BY <1>1, <1>8, ConcatDistinct
<1>9i. IsInjective(md) => IsInjective(mc) /\ IsInjective(d) /\ Range(mc) \cap Range(d) = {}
  BY <1>1, <1>8, ConcatDistinct
<1>10. AllCores = md
  BY <1>3 DEF ma, mb, mc
<1> HIDE DEF md
<1>11. /\ IsInjective(a) /\ IsInjective(b) /\ IsInjective(c) /\ IsInjective(d)
       /\ Range(m) \cap Range(a) = {} /\ Range(ma) \cap Range(b) = {}
       /\ Range(mb) \cap Range(c) = {} /\ Range(mc) \cap Range(d) = {}
  BY <1>4, <1>6i, <1>7i, <1>8i, <1>9i, <1>10
<1>12. Range(AllCores) = {Param.master_core} \union UNION {Mask(r) : r \in Roles}
  <2>1. UNION {Mask(r) : r \in Roles} = Range(a) \union Range(b) \union Range(c) \union Range(d)
    BY <1>5 DEF Roles
  <2> QED BY <1>2, <1>6, <1>7, <1>8, <1>9, <1>10, <2>1
<1>13. \A r \in Roles : Param.master_core \notin Mask(r)
  <2>1. Param.master_core \in Range(m)
    BY <1>2
  <2> QED BY <1>5, <1>6, <1>7, <1>8, <1>11, <2>1 DEF Roles
<1>14. \A r \in Roles : IsInjective(Param.core_list[r])
  BY <1>5, <1>11 DEF Roles
<1>15. \A r, s \in Roles : r # s => Mask(r) \cap Mask(s) = {}
  <2>1. /\ Range(a) \cap Range(b) = {} /\ Range(a) \cap Range(c) = {} /\ Range(a) \cap Range(d) = {}
        /\ Range(b) \cap Range(c) = {} /\ Range(b) \cap Range(d) = {} /\ Range(c) \cap Range(d) = {}
    BY <1>6, <1>7, <1>8, <1>11
  <2> QED BY <1>5, <2>1 DEF Roles
<1> QED BY <1>9, <1>10, <1>12, <1>13, <1>14, <1>15

\* *_core_to_id finds the place of a core in its list.
LEMMA CoreToId ==
  ASSUME ParamOK, CoresDistinct, ListsComplete, NEW r \in Roles,
         NEW i \in DOMAIN Param.core_list[r]
  PROVE  core_to_id(r, Param.core_list[r][i]) = i
<1> DEFINE list == Param.core_list[r]
           n == Param.core_num_for[r]
           places == {j \in 1 .. n : list[j] = list[i]}
<1>1. list \in Seq(Nat) /\ n \in Nat /\ Len(list) = n /\ IsInjective(list)
  BY CoresApart DEF ParamOK, ListsComplete
<1>2. core_to_id(r, list[i]) = IF places = {} THEN 0 ELSE CHOOSE j \in places : \A k \in places : k <= j
  BY DEF core_to_id
<1> HIDE DEF list, n
<1>3. DOMAIN list = 1 .. n /\ i \in DOMAIN list
  BY <1>1 DEF list
<1>4. places = {i}
  BY <1>1, <1>3 DEF IsInjective
<1>5. i \in Nat /\ i <= i
  BY <1>1, <1>3
<1> HIDE DEF places
<1>6. core_to_id(r, list[i]) = i
  BY <1>2, <1>4, <1>5
<1> QED BY <1>6 DEF list

\* The loop over the cores meets every core of a list with the worker that has its
\* place in that list.
LEMMA PlacedByLoop ==
  ASSUME ParamOK, CoresDistinct, ListsComplete
  PROVE  LET U == UNION {Mask(r) : r \in Roles} IN
         /\ Range(AllCores) \ {Param.master_core} = U
         /\ Param.master_core \notin U
         /\ DOMAIN Ascending(U) = 1 .. Cardinality(U)
         /\ \A k \in DOMAIN Ascending(U) : Ascending(U)[k] \in U
         /\ \A c \in U : \E k \in DOMAIN Ascending(U) : Ascending(U)[k] = c
         /\ \A k \in DOMAIN Ascending(U) : \A r \in Roles : \A i \in DOMAIN Param.core_list[r] :
              Ascending(U)[k] = Param.core_list[r][i] => thread_vec_all[k] = <<r, i>>
<1> DEFINE U == UNION {Mask(r) : r \in Roles}
           used == Ascending(U)
           RoleOf(core) == CHOOSE r \in Roles : core \in Mask(r)
<1>1. Range(AllCores) \ {Param.master_core} = U /\ Param.master_core \notin U
  BY CoresApart
<1>2. U \in SUBSET Nat /\ IsFiniteSet(U)
  <2>1. IsFiniteSet(Range(AllCores)) /\ Range(AllCores) \subseteq Nat
    BY CoresApart, RangeFinite
  <2>2. U \in SUBSET Range(AllCores)
    BY <1>1
  <2>3. IsFiniteSet(U)
    BY <2>1, <2>2, FS_Subset
  <2> QED BY <2>1, <2>2, <2>3
<1>3. thread_vec_all = [k \in DOMAIN used |-> <<RoleOf(used[k]), core_to_id(RoleOf(used[k]), used[k])>>]
  BY DEF thread_vec_all
<1>4. ASSUME NEW r \in Roles, NEW i \in DOMAIN Param.core_list[r]
      PROVE  LET c == Param.core_list[r][i] IN RoleOf(c) = r /\ core_to_id(r, c) = i
  <2> DEFINE c == Param.core_list[r][i]
  <2>1. c \in Mask(r)
    BY DEF Mask, Range
  <2>2. core_to_id(r, c) = i
    BY CoreToId
  <2> HIDE DEF c
  <2>3. \A s \in Roles : c \in Mask(s) => s = r
    BY <2>1, CoresApart
  <2>4. RoleOf(c) = r
    BY <2>1, <2>3
  <2> QED BY <2>2, <2>4 DEF c
<1> HIDE DEF U, RoleOf
<1>5. /\ used \in [1 .. Cardinality(U) -> U]
      /\ \A c \in U : \E k \in 1 .. Cardinality(U) : used[k] = c
  BY <1>2, AscendingExact
<1> HIDE DEF used
<1>6. DOMAIN used = 1 .. Cardinality(U) /\ \A k \in DOMAIN used : used[k] \in U
  BY <1>5
<1>7. ASSUME NEW k \in DOMAIN used, NEW r \in Roles, NEW i \in DOMAIN Param.core_list[r],
             used[k] = Param.core_list[r][i]
      PROVE  thread_vec_all[k] = <<r, i>>
  <2>1. RoleOf(used[k]) = r /\ core_to_id(r, used[k]) = i
    BY <1>4, <1>7
  <2> QED BY <1>3, <2>1
<1> QED BY <1>1, <1>5, <1>6, <1>7 DEF used, U

LEMMA LaunchInv == SetupInv /\ Launch => SetupInv'
<1> SUFFICES ASSUME SetupInv, Launch PROVE SetupInv'
  OBVIOUS
<1>1. /\ SetupTypeOK /\ Established /\ PipelinesComplete /\ QueuesPolledOnce /\ setup = "created"
      /\ UNCHANGED <<json, p_configure_param, nic_queue_list, thread_vec>>
      /\ setup' \in {"launched", "fatal"}
  BY DEF SetupInv, Launch
<1>2. ParamOK /\ CoresDistinct /\ Balanced /\ ListsComplete /\ worker = Nobody
      /\ Param.core_num_for["buffer"] <= Param.number_tx_queue
  BY <1>1 DEF Established
<1>3. (ParamOK /\ CoresDistinct /\ Balanced /\ ListsComplete
       /\ Param.core_num_for["buffer"] <= Param.number_tx_queue)'
  BY <1>1, <1>2 DEF ParamOK, Param, CoresDistinct, Balanced, ListsComplete, AllCores
<1>4. setup' = "fatal" => worker' = worker
  BY DEF Launch
<1>5. Established' /\ PipelinesComplete' /\ QueuesPolledOnce'
  <2>1. Nobody' = Nobody
    BY DEF Nobody
  <2>2. Established'
    BY <1>1, <1>2, <1>3, <1>4, <2>1 DEF Established
  <2>3. PipelinesComplete'
    BY <1>1 DEF PipelinesComplete, Param, Nobody
  <2>4. QueuesPolledOnce'
    BY <1>1 DEF QueuesPolledOnce, Param
  <2> QED BY <2>2, <2>3, <2>4
<1>6. CASE setup' = "fatal"
  <2>1. PlacedAsConfigured'
    BY <1>6 DEF PlacedAsConfigured
  <2>2. SetupTypeOK'
    BY <1>1, <1>4, <1>6 DEF SetupTypeOK
  <2> QED BY <1>5, <2>1, <2>2 DEF SetupInv
<1>7. CASE setup' = "launched"
  <2> DEFINE U == UNION {Mask(r) : r \in Roles}
             cores == Ascending(U)
             At_(c) == CHOOSE k \in DOMAIN cores : cores[k] = c
  <2>1. /\ Range(AllCores) \ {Param.master_core} = U /\ Param.master_core \notin U
        /\ \A k \in DOMAIN cores : cores[k] \in U
        /\ \A c \in U : \E k \in DOMAIN cores : cores[k] = c
        /\ \A k \in DOMAIN cores : \A r \in Roles : \A i \in DOMAIN Param.core_list[r] :
             cores[k] = Param.core_list[r][i] => thread_vec_all[k] = <<r, i>>
    BY <1>2, PlacedByLoop
  <2>2. worker' = [c \in Range(cores) |-> thread_vec_all[At_(c)]]
    <3> DEFINE S == Range(AllCores) \ {Param.master_core}
               by_core == Ascending(S)
    <3>1. worker' = [c \in Range(by_core) |->
                       thread_vec_all[CHOOSE k \in DOMAIN by_core : by_core[k] = c]]
      BY <1>7 DEF Launch
    <3>2. S = U
      BY <2>1
    <3> HIDE DEF S, U
    <3> QED BY <3>1, <3>2
  <2>3. \A r \in Roles : \A i \in DOMAIN Param.core_list[r] : Param.core_list[r][i] \in U
    BY DEF Mask, Range
  <2>4. \A c \in U : \E r \in Roles : \E i \in DOMAIN Param.core_list[r] : c = Param.core_list[r][i]
    BY DEF Mask, Range
  <2> HIDE DEF U, cores
  <2>5. Range(cores) = U
    BY <2>1 DEF Range
  <2>6. ASSUME NEW r \in Roles, NEW i \in DOMAIN Param.core_list[r]
        PROVE  worker'[Param.core_list[r][i]] = <<r, i>>
    <3> DEFINE c == Param.core_list[r][i]
               k == At_(c)
    <3>1. c \in U
      BY <2>3
    <3>2. k \in DOMAIN cores /\ cores[k] = c
      BY <2>1, <3>1
    <3>3. worker'[c] = thread_vec_all[k]
      BY <2>2, <2>5, <3>1
    <3> HIDE DEF k
    <3> QED BY <2>1, <3>2, <3>3
  <2>7. PlacedAsConfigured'
    <3>1. Param' = Param
      BY <1>1 DEF Param
    <3>2. Param.master_core \notin DOMAIN worker'
      BY <2>1, <2>2, <2>5
    <3> QED BY <2>6, <3>1, <3>2 DEF PlacedAsConfigured
  <2>8. Range(worker') \subseteq Roles \X Nat
    <3> SUFFICES ASSUME NEW c \in DOMAIN worker' PROVE worker'[c] \in Roles \X Nat
      BY DEF Range
    <3>1. c \in U
      BY <2>2, <2>5
    <3>2. PICK r \in Roles : \E i \in DOMAIN Param.core_list[r] : c = Param.core_list[r][i]
      BY <2>4, <3>1
    <3>3. PICK i \in DOMAIN Param.core_list[r] : c = Param.core_list[r][i]
      BY <3>2
    <3>4. i \in Nat
      <4>1. Param.core_list[r] \in Seq(Nat)
        BY <1>2 DEF ParamOK
      <4> QED BY <4>1
    <3>5. worker'[c] = <<r, i>>
      BY <2>6, <3>3
    <3> QED BY <3>4, <3>5
  <2>9. SetupTypeOK'
    BY <1>1, <2>8 DEF SetupTypeOK
  <2> QED BY <1>5, <2>7, <2>9 DEF SetupInv
<1> QED BY <1>1, <1>6, <1>7

\* No step of the set-up, and nothing the counters do, breaks it.
LEMMA StepSetupInv == SetupInv /\ [StatsNext]_allVars => SetupInv'
<1> SUFFICES ASSUME SetupInv, [StatsNext]_allVars PROVE SetupInv'
  OBVIOUS
<1>1. CASE SetupStep
  BY <1>1, ConfigureInv, CheckInv, AssignQueuesInv, CreateWorkersInv, LaunchInv DEF SetupStep
<1>2. CASE UNCHANGED setupVars
  <2>1. UNCHANGED <<json, p_configure_param, setup, nic_queue_list, thread_vec, worker>>
    BY <1>2 DEF setupVars
  <2>2. SetupTypeOK'
    BY <2>1 DEF SetupInv, SetupTypeOK
  <2>3. Established'
    BY <2>1 DEF SetupInv, Established, ParamOK, Param, CoresDistinct, Balanced, ListsComplete,
                AllCores, Nobody
  <2>4. PlacedAsConfigured'
    BY <2>1 DEF SetupInv, PlacedAsConfigured, Param
  <2>5. PipelinesComplete'
    BY <2>1 DEF SetupInv, PipelinesComplete, Param, Nobody
  <2>6. QueuesPolledOnce'
    BY <2>1 DEF SetupInv, QueuesPolledOnce, Param
  <2> QED BY <2>2, <2>3, <2>4, <2>5, <2>6 DEF SetupInv
<1> QED BY <1>1, <1>2 DEF StatsNext, allVars

\* The inductive invariant of the set-up.
THEOREM SetupInvariant == StatsSpec => []SetupInv
<1>1. StatsInit => SetupInv
  BY InitSetupInv DEF StatsInit
<1> QED BY <1>1, StepSetupInv, PTL DEF StatsSpec

\* do_init puts the i-th worker of each kind on the i-th core of its list, through
\* masks, an order of cores nobody wrote down and three arrays.
THEOREM WorkersPlaced == StatsSpec => []PlacedAsConfigured
<1>1. SetupInv => PlacedAsConfigured
  BY DEF SetupInv
<1> QED BY <1>1, SetupInvariant, PTL

\* create_worker_threads binds the workers of one number to each other, for every
\* number of pipelines the checks let through.
THEOREM PipelinesBound == StatsSpec => []PipelinesComplete
<1>1. SetupInv => PipelinesComplete
  BY DEF SetupInv
<1> QED BY <1>1, SetupInvariant, PTL

\* assign_queue_to_parser hands out every queue of every port, each to one parser.
THEOREM QueuesHandedOutOnce == StatsSpec => []QueuesPolledOnce
<1>1. SetupInv => QueuesPolledOnce
  BY DEF SetupInv
<1> QED BY <1>1, SetupInvariant, PTL

-----------------------------------------------------------------------------
(* Sums.                                                                   *)

\* g has the sum of f over every subset of S.
Sums(g, f, S) ==
  /\ g \in [SUBSET S -> Nat] /\ g[{}] = 0
  /\ \A s \in SUBSET S : \A x \in s : g[s] = f[x] + g[s \ {x}]

Total(f) == FoldFunction(+, 0, f)

\* FoldFunction takes the elements in an order of its own, which makes no difference.
LEMMA SumExists ==
  ASSUME NEW S, IsFiniteSet(S), NEW f \in [S -> Nat]
  PROVE  \E g : Sums(g, f, S) /\ g[S] = Total(f)
<1> DEFINE First(s) == CHOOSE x \in s : TRUE
           Step(g, s) == IF s = {} THEN 0 ELSE f[First(s)] + g[s \ {First(s)}]
           Follows(g) == g = [s \in SUBSET S |-> Step(g, s)]
           iter[s \in SUBSET S] == Step(iter, s)
<1>1. Total(f) = iter[S]
  BY DEF Total, FoldFunction, FoldFunctionOnSet, MapThenFoldSet
<1>2. iter = CHOOSE g : Follows(g)
  OBVIOUS
<1> HIDE DEF iter
<1>3. \A s \in SUBSET S : s # {} => First(s) \in s
  OBVIOUS
<1>4. \A s \in SUBSET S : \A x \in s : /\ s \ {x} \in SUBSET S /\ Cardinality(s) \in Nat
                                       /\ Cardinality(s \ {x}) = Cardinality(s) - 1
                                       /\ Cardinality(s) <= Cardinality(S)
  BY FS_Subset, FS_RemoveElement, FS_CardinalityType
<1>5. Cardinality(S) \in Nat /\ \A s \in SUBSET S : Cardinality(s) \in Nat /\ Cardinality(s) <= Cardinality(S)
  BY FS_Subset, FS_CardinalityType
<1> HIDE DEF First
<1>6. \E g : Follows(g)
  <2> DEFINE UpTo(g, m) == \A s \in SUBSET S : Cardinality(s) <= m => g[s] = Step(g, s)
             M == {m \in Nat : \E g : UpTo(g, m)}
  <2>1. 0 \in M
    <3> DEFINE g == [s \in SUBSET S |-> 0]
    <3>1. \A s \in SUBSET S : Cardinality(s) <= 0 => s = {}
      <4> SUFFICES ASSUME NEW s \in SUBSET S, Cardinality(s) <= 0 PROVE s = {}
        OBVIOUS
      <4>1. IsFiniteSet(s) /\ Cardinality(s) = 0
        BY <1>5, FS_Subset
      <4> QED BY <4>1, FS_EmptySet
    <3>2. UpTo(g, 0)
      BY <3>1
    <3> QED BY <3>2
  <2>2. ASSUME NEW m \in Nat, m \in M PROVE m + 1 \in M
    <3>1. PICK g : UpTo(g, m)
      BY <2>2
    <3> DEFINE h == [s \in SUBSET S |-> IF Cardinality(s) <= m THEN g[s] ELSE Step(g, s)]
    <3>2. ASSUME NEW s \in SUBSET S, Cardinality(s) <= m + 1
          PROVE  h[s] = Step(h, s)
      <4>1. h[s] = Step(g, s)
        BY <3>1
      <4>2. CASE s = {}
        BY <4>1, <4>2
      <4>3. CASE s # {}
        <5>1. First(s) \in s
          BY <1>3, <4>3
        <5>2. s \ {First(s)} \in SUBSET S /\ Cardinality(s \ {First(s)}) <= m
          BY <1>4, <1>5, <3>2, <5>1
        <5>3. h[s \ {First(s)}] = g[s \ {First(s)}]
          BY <5>2
        <5> QED BY <4>1, <5>3
      <4> QED BY <4>2, <4>3
    <3>3. UpTo(h, m + 1)
      BY <3>2
    <3> HIDE DEF h, UpTo
    <3> QED BY <3>3
  <2> HIDE DEF M
  <2>3. Cardinality(S) \in M
    BY <1>5, <2>1, <2>2, NatSet
  <2>4. PICK g : UpTo(g, Cardinality(S))
    BY <2>3 DEF M
  <2> DEFINE h == [s \in SUBSET S |-> g[s]]
  <2>5. \A s \in SUBSET S : h[s] = Step(h, s)
    <3> SUFFICES ASSUME NEW s \in SUBSET S PROVE h[s] = Step(h, s)
      OBVIOUS
    <3>1. g[s] = Step(g, s)
      BY <1>5, <2>4
    <3>2. s \ {First(s)} \in SUBSET S
      OBVIOUS
    <3> QED BY <3>1, <3>2
  <2>6. Follows(h)
    BY <2>5
  <2> QED BY <2>6
<1>7. Follows(iter)
  BY <1>2, <1>6
<1>8. \A s \in SUBSET S : iter[s] = Step(iter, s)
  BY <1>7
<1> HIDE DEF Follows
<1>9. iter[{}] = 0
  BY <1>8
<1>10. \A s \in SUBSET S : iter[s] \in Nat
  <2> DEFINE M == {m \in Nat : \A s \in SUBSET S : Cardinality(s) = m => iter[s] \in Nat}
  <2>1. 0 \in M
    <3> SUFFICES ASSUME NEW s \in SUBSET S, Cardinality(s) = 0 PROVE iter[s] \in Nat
      OBVIOUS
    <3>1. s = {}
      BY FS_Subset, FS_EmptySet
    <3> QED BY <1>9, <3>1
  <2>2. ASSUME NEW m \in Nat, m \in M PROVE m + 1 \in M
    <3> SUFFICES ASSUME NEW s \in SUBSET S, Cardinality(s) = m + 1 PROVE iter[s] \in Nat
      OBVIOUS
    <3> DEFINE x == First(s)
    <3>1. s # {}
      BY FS_EmptySet
    <3>2. x \in s
      BY <1>3, <3>1
    <3>3. s \ {x} \in SUBSET S /\ Cardinality(s \ {x}) = m
      BY <1>4, <3>2
    <3>4. iter[s \ {x}] \in Nat
      BY <2>2, <3>3
    <3>5. iter[s] = f[x] + iter[s \ {x}]
      BY <1>8, <3>1
    <3>6. f[x] \in Nat
      BY <3>2
    <3> HIDE DEF x
    <3> QED BY <3>4, <3>5, <3>6
  <2> HIDE DEF M
  <2>3. Nat \subseteq M
    BY <2>1, <2>2, NatSet
  <2>4. \A s \in SUBSET S : Cardinality(s) \in M
    BY <1>5, <2>3
  <2> QED BY <2>4 DEF M
<1>11. \A s \in SUBSET S : \A y \in s : iter[s] = f[y] + iter[s \ {y}]
  <2> DEFINE AnyFirst(s) == \A y \in s : iter[s] = f[y] + iter[s \ {y}]
             M == {m \in Nat : \A s \in SUBSET S : Cardinality(s) = m => AnyFirst(s)}
  <2>1. 0 \in M
    <3> SUFFICES ASSUME NEW s \in SUBSET S, Cardinality(s) = 0 PROVE AnyFirst(s)
      OBVIOUS
    <3>1. s = {}
      BY FS_Subset, FS_EmptySet
    <3> QED BY <3>1
  <2>2. ASSUME NEW m \in Nat, m \in M PROVE m + 1 \in M
    <3> SUFFICES ASSUME NEW s \in SUBSET S, Cardinality(s) = m + 1, NEW y \in s
                 PROVE  iter[s] = f[y] + iter[s \ {y}]
      OBVIOUS
    <3> DEFINE x == First(s)
               sx == s \ {x}
               sy == s \ {y}
               sxy == sx \ {y}
    <3>1. s # {} /\ x \in s
      BY <1>3
    <3>2. iter[s] = f[x] + iter[sx]
      BY <1>8, <3>1
    <3>3. CASE x = y
      BY <3>2, <3>3
    <3>4. CASE x # y
      <4>1. /\ sx \in SUBSET S /\ Cardinality(sx) = m /\ sy \in SUBSET S /\ Cardinality(sy) = m
        BY <1>4, <3>1
      <4>2. y \in sx /\ x \in sy /\ sy \ {x} = sxy
        BY <3>1, <3>4
      <4>3. AnyFirst(sx) /\ AnyFirst(sy)
        BY <2>2, <4>1
      <4>4. iter[sx] = f[y] + iter[sxy]
        BY <4>2, <4>3
      <4>5. iter[sy] = f[x] + iter[sxy]
        BY <4>2, <4>3
      <4>6. f[x] \in Nat /\ f[y] \in Nat /\ sxy \in SUBSET S
        BY <3>1
      <4>7. iter[sxy] \in Nat
        BY <1>10, <4>6
      <4> HIDE DEF x, sx, sy, sxy
      <4>8. iter[s] = f[y] + iter[sy]
        BY <3>2, <4>4, <4>5, <4>6, <4>7
      <4> QED BY <4>8 DEF sy
    <3> QED BY <3>3, <3>4
  <2> HIDE DEF M
  <2>3. Nat \subseteq M
    BY <2>1, <2>2, NatSet
  <2>4. \A s \in SUBSET S : Cardinality(s) \in M
    BY <1>5, <2>3
  <2> QED BY <2>4 DEF M
<1>12. iter \in [SUBSET S -> Nat]
  <2>1. iter = [s \in SUBSET S |-> Step(iter, s)]
    BY <1>7 DEF Follows
  <2>2. DOMAIN iter = SUBSET S
    BY <2>1
  <2> HIDE DEF Step
  <2> QED BY <1>10, <2>1, <2>2
<1>13. Sums(iter, f, S)
  BY <1>11, <1>12, <1>9 DEF Sums
<1> QED BY <1>1, <1>13

LEMMA SumStep ==
  ASSUME NEW f, NEW g, NEW S, Sums(g, f, S), NEW s \in SUBSET S, NEW x \in s
  PROVE  g[s] = f[x] + g[s \ {x}]
  BY DEF Sums

\* One value of f changes: by so much do the sums that contain it.
LEMMA SumUpdate ==
  ASSUME NEW S, NEW f \in [S -> Nat], NEW g, Sums(g, f, S), NEW d \in S, NEW v \in Nat
  PROVE  LET h == [s \in SUBSET S |-> IF d \in s THEN g[s \ {d}] + v ELSE g[s]]
         IN  Sums(h, [f EXCEPT ![d] = v], S)
<1> DEFINE h == [s \in SUBSET S |-> IF d \in s THEN g[s \ {d}] + v ELSE g[s]]
           e == [f EXCEPT ![d] = v]
<1>1. \A s \in SUBSET S : g[s] \in Nat /\ s \ {d} \in SUBSET S
  BY DEF Sums
<1>2. h \in [SUBSET S -> Nat]
  BY <1>1
<1>3. h[{}] = 0
  BY DEF Sums
<1>4. ASSUME NEW s \in SUBSET S, NEW x \in s
      PROVE  h[s] = e[x] + h[s \ {x}]
  <2>1. s \ {x} \in SUBSET S /\ x \in S
    OBVIOUS
  <2>2. CASE x = d
    <3>1. h[s] = g[s \ {d}] + v
      BY <2>2
    <3>2. h[s \ {x}] = g[s \ {d}] /\ e[x] = v
      BY <2>1, <2>2
    <3>3. g[s \ {d}] \in Nat
      BY <1>1
    <3> HIDE DEF h, e
    <3> QED BY <3>1, <3>2, <3>3
  <2>3. CASE x # d /\ d \in s
    <3> DEFINE sd == s \ {d}
               sx == s \ {x}
               sxd == sx \ {d}
    <3>1. h[s] = g[sd] + v /\ h[sx] = g[sxd] + v /\ e[x] = f[x]
      BY <2>1, <2>3
    <3>2. sd \in SUBSET S /\ x \in sd /\ sd \ {x} = sxd /\ sxd \in SUBSET S
      BY <2>3
    <3>3. g[sd] = f[x] + g[sxd]
      <4> HIDE DEF sd, sxd
      <4>1. g[sd] = f[x] + g[sd \ {x}]
        BY <3>2, SumStep
      <4> QED BY <3>2, <4>1
    <3>4. g[sxd] \in Nat /\ f[x] \in Nat
      BY <1>1, <2>1, <3>2
    <3>5. h[s] = e[x] + h[sx]
      <4> HIDE DEF h, e, sd, sx, sxd
      <4> QED BY <3>1, <3>3, <3>4
    <3> QED BY <3>5
  <2>4. CASE x # d /\ d \notin s
    <3>1. h[s] = g[s] /\ h[s \ {x}] = g[s \ {x}] /\ e[x] = f[x]
      BY <2>1, <2>4
    <3>2. g[s] = f[x] + g[s \ {x}]
      BY DEF Sums
    <3> QED BY <3>1, <3>2
  <2> QED BY <2>2, <2>3, <2>4
<1> QED BY <1>2, <1>3, <1>4 DEF Sums

\* The sums over the numbers from lo on.
Runs(g, f, lo, hi) == \A k \in lo .. hi : g[lo .. k] = f[k] + g[lo .. k - 1]

LEMMA SumRuns ==
  ASSUME NEW f, NEW g, NEW lo \in Int, NEW hi \in Int, Sums(g, f, lo .. hi)
  PROVE  Runs(g, f, lo, hi)
<1> SUFFICES ASSUME NEW k \in lo .. hi PROVE g[lo .. k] = f[k] + g[lo .. k - 1]
  BY DEF Runs
<1> DEFINE S == lo .. hi
           s == lo .. k
           r == lo .. k - 1
           x == k
<1>1. s \in SUBSET S /\ x \in s /\ r = s \ {x}
  OBVIOUS
<1>2. Sums(g, f, S)
  OBVIOUS
<1>3. g[s] = f[x] + g[s \ {x}]
  <2> HIDE DEF S, s, x
  <2> QED BY <1>1, <1>2, Zenon DEF Sums
<1>4. g[s] = f[x] + g[r]
  BY <1>1, <1>3, Zenon
<1> QED BY <1>4

\* A range of numbers without its last one.
LEMMA WithoutLast ==
  ASSUME NEW k \in Nat
  PROVE  (1 .. k + 1) \ {k + 1} = 1 .. k /\ (0 .. (k + 1) - 1) \ {k} = 0 .. k - 1
<1>1. ASSUME NEW x PROVE x \in (1 .. k + 1) \ {k + 1} <=> x \in 1 .. k
  OBVIOUS
<1>2. ASSUME NEW x PROVE x \in (0 .. (k + 1) - 1) \ {k} <=> x \in 0 .. k - 1
  OBVIOUS
<1> QED BY <1>1, <1>2

\* Sums, element by element not less than those of a and not more than those of a
\* and b, stay between them.
LEMMA SumBetween ==
  ASSUME NEW n \in Nat, NEW a \in [1 .. n -> Nat], NEW b \in [1 .. n -> Nat],
         NEW c \in [0 .. n - 1 -> Nat],
         \A d \in 1 .. n : c[d - 1] = a[d] \/ c[d - 1] = a[d] + b[d],
         NEW g, Sums(g, b, 1 .. n)
  PROVE  Total(c) - Total(a) \in 0 .. g[1 .. n]
<1> DEFINE S == 1 .. n
           T == 0 .. n - 1
<1>1. IsFiniteSet(S) /\ IsFiniteSet(T)
  BY FS_Interval
<1>2. PICK ga : Sums(ga, a, S) /\ ga[S] = Total(a)
  <2> HIDE DEF S, T
  <2>1. a \in [S -> Nat]
    BY DEF S
  <2> QED BY <1>1, <2>1, SumExists
<1>3. PICK gc : Sums(gc, c, T) /\ gc[T] = Total(c)
  <2> HIDE DEF S, T
  <2>1. c \in [T -> Nat]
    BY DEF T
  <2> QED BY <1>1, <2>1, SumExists
<1>4. Sums(ga, a, S) /\ Sums(gc, c, T)
  <2> HIDE DEF S, T
  <2> QED BY <1>2, <1>3, Zenon
<1>5. Runs(ga, a, 1, n) /\ Runs(g, b, 1, n) /\ Runs(gc, c, 0, n - 1)
  <2>1. 1 \in Int /\ 0 \in Int /\ n \in Int /\ n - 1 \in Int
    OBVIOUS
  <2> QED BY <1>4, <2>1, SumRuns
<1> DEFINE Between(k) == /\ ga[1 .. k] <= gc[0 .. k - 1]
                         /\ gc[0 .. k - 1] <= ga[1 .. k] + g[1 .. k]
           M == {k \in Nat : k <= n => Between(k)}
<1>6. \A k \in Nat : k <= n => /\ 1 .. k \in SUBSET S /\ 0 .. k - 1 \in SUBSET T
                               /\ ga[1 .. k] \in Nat /\ gc[0 .. k - 1] \in Nat /\ g[1 .. k] \in Nat
  <2> SUFFICES ASSUME NEW k \in Nat, k <= n
               PROVE  /\ 1 .. k \in SUBSET S /\ 0 .. k - 1 \in SUBSET T
                      /\ ga[1 .. k] \in Nat /\ gc[0 .. k - 1] \in Nat /\ g[1 .. k] \in Nat
    OBVIOUS
  <2>1. 1 .. k \in SUBSET S /\ 0 .. k - 1 \in SUBSET T
    OBVIOUS
  <2> HIDE DEF S, T
  <2>2. ga \in [SUBSET S -> Nat] /\ gc \in [SUBSET T -> Nat]
    BY <1>4 DEF Sums
  <2>3. g \in [SUBSET S -> Nat]
    BY DEF Sums, S
  <2> QED BY <2>1, <2>2, <2>3
<1>7. 0 \in M
  <2>1. 1 .. 0 = {} /\ 0 .. 0 - 1 = {}
    OBVIOUS
  <2>2. ga[{}] = 0 /\ gc[{}] = 0 /\ g[{}] = 0
    BY <1>4 DEF Sums
  <2>3. Between(0)
    BY <2>1, <2>2
  <2> QED BY <2>3
<1>8. ASSUME NEW k \in Nat, k \in M PROVE k + 1 \in M
  <2> SUFFICES ASSUME k + 1 <= n PROVE Between(k + 1)
    OBVIOUS
  <2> DEFINE s == 1 .. k + 1
             t == 0 .. (k + 1) - 1
             d == k + 1
  <2>1. Between(k) /\ k <= n
    BY <1>8
  <2>a. d \in s /\ k \in t /\ d \in 1 .. n /\ d - 1 = k
    OBVIOUS
  <2>b. s \ {d} = 1 .. k /\ t \ {k} = 0 .. k - 1
    BY WithoutLast
  <2>c. k \in T
    OBVIOUS
  <2>2. /\ d \in s /\ k \in t /\ s \ {d} = 1 .. k /\ t \ {k} = 0 .. k - 1 /\ d \in 1 .. n /\ k \in T
        /\ d - 1 = k
    BY <2>a, <2>b, <2>c
  <2>3. s \in SUBSET S /\ t \in SUBSET T
    BY <1>6
  <2>4. /\ ga[1 .. k] \in Nat /\ gc[0 .. k - 1] \in Nat /\ g[1 .. k] \in Nat
    BY <1>6, <2>1
  <2>5. a[d] \in Nat /\ b[d] \in Nat /\ c[k] \in Nat
    BY <2>2
  <2>6. ga[s] = a[d] + ga[1 .. k]
    BY <1>5, <2>2 DEF Runs
  <2>7. g[s] = b[d] + g[1 .. k]
    BY <1>5, <2>2 DEF Runs
  <2>8. gc[t] = c[k] + gc[0 .. k - 1]
    BY <1>5, <2>2 DEF Runs
  <2>9. c[k] = a[d] \/ c[k] = a[d] + b[d]
    BY <2>2
  <2> DEFINE A == ga[1 .. k]
             C == gc[0 .. k - 1]
             G == g[1 .. k]
             ad == a[d]
             bd == b[d]
             ck == c[k]
             As == ga[s]
             Cs == gc[t]
             Gs == g[s]
  <2>10. /\ A \in Nat /\ C \in Nat /\ G \in Nat /\ A <= C /\ C <= A + G
         /\ As = ad + A /\ Gs = bd + G /\ Cs = ck + C
         /\ ad \in Nat /\ bd \in Nat /\ ck \in Nat
         /\ ck = ad \/ ck = ad + bd
    BY <2>1, <2>4, <2>5, <2>6, <2>7, <2>8, <2>9
  <2>11. As <= Cs /\ Cs <= As + Gs
    <3> HIDE DEF A, C, G, ad, bd, ck, As, Cs, Gs
    <3> QED BY <2>10
  <2> QED BY <2>11
<1> HIDE DEF M
<1>9. n \in M
  BY <1>7, <1>8, NatSet
<1>10. Between(n)
  BY <1>9 DEF M
<1>11. /\ ga[S] \in Nat /\ gc[T] \in Nat /\ g[S] \in Nat
      /\ ga[S] <= gc[T] /\ gc[T] <= ga[S] + g[S]
  BY <1>6, <1>10
<1>12. gc[T] - ga[S] \in 0 .. g[S]
  <2> HIDE DEF S, T
  <2> QED BY <1>11
<1> QED BY <1>2, <1>3, <1>12

-----------------------------------------------------------------------------
(* The counters of a parser.                                               *)

\* Pieces that are not empty make a whole that is not.
LEMMA FlattenType ==
  ASSUME NEW S, NEW n \in Nat \ {0}, NEW s \in [1 .. n -> Seq(S)],
         \A i \in 1 .. n : s[i] # << >>
  PROVE  FlattenSeq(s) \in Seq(S) /\ FlattenSeq(s) # << >>
<1> DEFINE Follows(f, m) == f = [i \in 1 .. m |-> IF i = 1 THEN s[i] ELSE f[i - 1] \o s[i]]
           flatten[i \in 1 .. n] == IF i = 1 THEN s[i] ELSE flatten[i - 1] \o s[i]
<1>1. Len(s) = n /\ s \in Seq(Seq(S))
  OBVIOUS
<1>2. FlattenSeq(s) = flatten[n]
  BY <1>1 DEF FlattenSeq
<1>3. flatten = CHOOSE f : Follows(f, n)
  OBVIOUS
<1> HIDE DEF flatten
<1>4. \E f : Follows(f, n)
  <2> DEFINE M == {m \in Nat : \E f : Follows(f, m)}
  <2>1. 0 \in M
    <3> DEFINE f == [i \in 1 .. 0 |-> s[i]]
    <3>1. Follows(f, 0)
      OBVIOUS
    <3> QED BY <3>1
  <2>2. ASSUME NEW m \in Nat, m \in M PROVE m + 1 \in M
    <3>1. PICK g : Follows(g, m)
      BY <2>2
    <3> DEFINE h == [i \in 1 .. m + 1 |-> IF i = m + 1 THEN IF i = 1 THEN s[i] ELSE g[i - 1] \o s[i]
                                                      ELSE g[i]]
    <3>2. \A i \in 1 .. m : g[i] = IF i = 1 THEN s[i] ELSE g[i - 1] \o s[i]
      BY <3>1
    <3>3. ASSUME NEW i \in 1 .. m + 1 PROVE h[i] = IF i = 1 THEN s[i] ELSE h[i - 1] \o s[i]
      <4>1. CASE i = 1 BY <3>2, <4>1
      <4>2. CASE i # 1
        <5>1. i - 1 \in 1 .. m /\ i - 1 \in 1 .. m + 1 /\ i - 1 # m + 1 /\ (i # m + 1 => i \in 1 .. m)
          BY <4>2
        <5>2. h[i - 1] = g[i - 1]
          BY <5>1
        <5>3. h[i] = g[i - 1] \o s[i]
          BY <3>2, <4>2, <5>1
        <5> QED BY <4>2, <5>2, <5>3
      <4> QED BY <4>1, <4>2
    <3>4. Follows(h, m + 1)
      BY <3>3
    <3> HIDE DEF h, Follows
    <3> QED BY <3>4
  <2> HIDE DEF M
  <2>3. n \in M
    BY <2>1, <2>2, NatSet
  <2> QED BY <2>3 DEF M
<1>5. Follows(flatten, n)
  <2> HIDE DEF Follows
  <2> QED BY <1>3, <1>4
<1>6. \A i \in 1 .. n : flatten[i] = IF i = 1 THEN s[i] ELSE flatten[i - 1] \o s[i]
  BY <1>5
<1>7. flatten[n] \in Seq(S) /\ flatten[n] # << >>
  <2> DEFINE M == {m \in Nat : m + 1 <= n => flatten[m + 1] \in Seq(S) /\ flatten[m + 1] # << >>}
  <2>1. 0 \in M
    <3>1. 1 \in 1 .. n
      OBVIOUS
    <3>2. flatten[1] = s[1]
      BY <1>6, <3>1
    <3> QED BY <3>1, <3>2
  <2>2. ASSUME NEW m \in Nat, m \in M PROVE m + 1 \in M
    <3> SUFFICES ASSUME (m + 1) + 1 <= n
                 PROVE  flatten[(m + 1) + 1] \in Seq(S) /\ flatten[(m + 1) + 1] # << >>
      OBVIOUS
    <3> DEFINE k == m + 1
    <3>1. k \in 1 .. n /\ k + 1 \in 1 .. n /\ k + 1 # 1 /\ (k + 1) - 1 = k
      OBVIOUS
    <3>2. flatten[k] \in Seq(S)
      BY <2>2, <3>1
    <3> HIDE DEF k, M
    <3>3. flatten[k + 1] = flatten[k] \o s[k + 1]
      BY <1>6, <3>1
    <3>4. s[k + 1] \in Seq(S) /\ s[k + 1] # << >>
      BY <3>1
    <3> DEFINE a == flatten[k]
               b == s[k + 1]
    <3>5. a \in Seq(S) /\ b \in Seq(S) /\ b # << >>
      BY <3>2, <3>4
    <3> HIDE DEF a, b
    <3>6. a \o b \in Seq(S) /\ Len(a \o b) = Len(a) + Len(b) /\ Len(a) \in Nat /\ Len(b) \in Nat \ {0}
      BY <3>5
    <3>7. a \o b # << >>
      BY <3>6
    <3> QED BY <3>3, <3>6, <3>7 DEF a, b, k
  <2> HIDE DEF M
  <2>3. n - 1 \in M
    <3>1. n - 1 \in Nat
      OBVIOUS
    <3> QED BY <2>1, <2>2, <3>1, NatSet
  <2>4. (n - 1) + 1 = n /\ (n - 1) + 1 <= n
    OBVIOUS
  <2> QED BY <2>3, <2>4 DEF M
<1> QED BY <1>2, <1>7

Threads == {"tracer", "main"}

StatsTypeOK ==
  /\ devices = << >> => /\ parser = [at |-> "idle", poll |-> 1, burst |-> 0, reg |-> 0]
                        /\ ~strayed /\ ~overlap /\ ~parser_stop /\ reported = -1
                        /\ collector = [c \in Threads |-> [at |-> "idle", index |-> 1, reg |-> 0]]
  /\ devices # << >> =>
       /\ devices \in Seq(Nat) /\ polls \in Seq(Range(devices)) /\ polls # << >>
       /\ parser \in [at : {"round", "poll", "load", "store", "left", "undefined"},
                      poll : 1 .. Len(polls), burst : 0 .. MaxBurst, reg : Nat]
       /\ collector \in [Threads -> [at : {"sleeping", "running", "read", "write", "clear",
                                           "barrier", "ended"},
                                     index : 1 .. Len(devices), reg : Nat]]
       /\ parsed_pkt_num \in [1 .. Len(devices) -> Nat]
       /\ sum_parsed_pkt_num \in [1 .. Len(devices) -> Nat]
       /\ counted \in [Range(devices) -> Nat]

\* The queues of the parser that runs, its ports and the order it polls them in.
LEMMA RunType ==
  ASSUME SetupInv, NEW k \in DOMAIN nic_queue_list, Run(k)
  PROVE  /\ devices' \in Seq(Nat) /\ devices' # << >>
         /\ {nic_queue_list[k][i][1] : i \in DOMAIN nic_queue_list[k]} = Range(devices')
         /\ polls' \in Seq(Range(devices')) /\ polls' # << >>
<1> DEFINE queues == nic_queue_list[k]
           ports == {queues[i][1] : i \in DOMAIN queues}
           Own(p) == {q \in Range(queues) : q[1] = p}
           n == Cardinality(ports)
           dev == devices'
           blocks == [d \in 1 .. n |-> [i \in 1 .. Cardinality(Own(dev[d])) |-> dev[d]]]
<1>1. /\ ports # {} /\ dev \in [1 .. n -> ports] /\ IsInjective(dev)
      /\ polls' = FlattenSeq([d \in DOMAIN dev |-> [i \in 1 .. Cardinality(Own(dev[d])) |-> dev[d]]])
  BY DEF Run
<1>2. queues \in Seq(Nat \X Nat)
  BY DEF SetupInv, SetupTypeOK
<1> HIDE DEF queues
<1>3. IsFiniteSet(Range(queues)) /\ Range(queues) \subseteq Nat \X Nat
  BY <1>2, RangeFinite
<1>4. ports = {q[1] : q \in Range(queues)}
  BY <1>2 DEF Range
<1>5. ports \subseteq Nat
  BY <1>3, <1>4
<1>6. IsFiniteSet(ports) /\ n \in Nat \ {0}
  <2> DEFINE f == [q \in Range(queues) |-> q[1]]
             R == Range(queues)
  <2>1. f \in [R -> ports] /\ \A p \in ports : \E q \in R : f[q] = p
    BY <1>4
  <2>2. IsFiniteSet(R)
    BY <1>3
  <2> HIDE DEF f, R, ports
  <2>3. f \in Surjection(R, ports)
    BY <2>1 DEF Surjection, Range
  <2>4. IsFiniteSet(ports)
    BY <2>2, <2>3, FS_Surjection
  <2> QED BY <1>1, <2>4, FS_CardinalityType, FS_EmptySet
<1>7. ports = Range(dev)
  <2> DEFINE K == 1 .. n
  <2>1. IsFiniteSet(K) /\ Cardinality(K) = n
    <3> HIDE DEF n
    <3>1. IsFiniteSet(K) /\ Cardinality(K) = IF 1 > n THEN 0 ELSE n - 1 + 1
      BY <1>6, FS_Interval
    <3> QED BY <1>6, <3>1
  <2> HIDE DEF K, ports, dev
  <2>2. dev \in Injection(K, ports)
    BY <1>1 DEF Injection, IsInjective, K
  <2>3. dev \in Surjection(K, ports)
    BY <1>6, <2>1, <2>2, FS_Injection DEF n
  <2> QED BY <1>1, <2>3 DEF Surjection, Range, K
<1> HIDE DEF n
<1>8. dev \in Seq(Nat) /\ dev # << >> /\ Len(dev) = n /\ DOMAIN dev = 1 .. n
  <2> HIDE DEF ports, dev
  <2>1. dev \in [1 .. n -> Nat]
    BY <1>1, <1>5
  <2> QED BY <1>6, <2>1
<1>9. ASSUME NEW d \in 1 .. n
      PROVE  blocks[d] \in Seq(ports) /\ blocks[d] # << >>
  <2>1. dev[d] \in ports
    BY <1>1
  <2> DEFINE p == dev[d]
             m == Cardinality(Own(p))
  <2>2. PICK q \in Range(queues) : q[1] = p
    BY <1>4, <2>1
  <2> HIDE DEF p
  <2>3. IsFiniteSet(Own(p)) /\ Own(p) # {}
    <3>1. Own(p) \in SUBSET Range(queues)
      OBVIOUS
    <3> QED BY <1>3, <2>2, <3>1, FS_Subset
  <2>4. m \in Nat \ {0}
    BY <2>3, FS_CardinalityType, FS_EmptySet
  <2>5. blocks[d] = [i \in 1 .. m |-> p]
    BY DEF p
  <2>6. p \in ports
    BY <2>1 DEF p
  <2> HIDE DEF blocks, m, ports
  <2> QED BY <2>4, <2>5, <2>6
<1>10. polls' = FlattenSeq(blocks)
  BY <1>1, <1>8
<1>11. blocks \in [1 .. n -> Seq(ports)]
  BY <1>9
<1> HIDE DEF blocks, ports
<1>12. polls' \in Seq(ports) /\ polls' # << >>
  BY <1>6, <1>9, <1>10, <1>11, FlattenType
<1> QED BY <1>7, <1>8, <1>12 DEF ports, queues

\* Somebody has added counter d to its sum and not yet cleared it.
ClearedNext(d) == \E c \in Threads : collector[c].at = "clear" /\ collector[c].index = d

\* As long as no two threads were in one counter at once: what each holds of it is
\* what it is, and together with its sum it is what came in.
Accounted ==
  /\ ~Overlapping
  /\ parser.at = "store" => parser.reg = parsed_pkt_num[Slot]
  /\ \A c \in Threads : collector[c].at = "write" =>
       collector[c].reg = sum_parsed_pkt_num[collector[c].index] + parsed_pkt_num[collector[c].index]
  /\ \A d \in DOMAIN devices :
       counted[devices[d]] = sum_parsed_pkt_num[d] + IF ClearedNext(d) THEN 0 ELSE parsed_pkt_num[d]

CountersInv ==
  /\ StatsTypeOK
  /\ PortsInPlace => ~strayed /\ (~overlap => Accounted)

\* The counter the parser is about to change is the one of the port it polls.
LEMMA SlotOfPort ==
  ASSUME StatsTypeOK, devices # << >>, PortsInPlace
  PROVE  /\ Slot \in 1 .. Len(devices) /\ DOMAIN devices = 1 .. Len(devices)
         /\ devices[Slot] = polls[parser.poll] /\ polls[parser.poll] \in DOMAIN counted
         /\ \A d \in DOMAIN devices : devices[d] = devices[Slot] => d = Slot
<1> DEFINE p == polls[parser.poll]
           n == Len(devices)
<1>1. /\ devices \in Seq(Nat) /\ polls \in Seq(Range(devices)) /\ parser.poll \in 1 .. Len(polls)
      /\ DOMAIN counted = Range(devices)
  BY DEF StatsTypeOK
<1>2. n \in Nat /\ DOMAIN devices = 1 .. n
  BY <1>1
<1>3. p \in Range(devices)
  BY <1>1
<1>4. PICK d \in 1 .. n : devices[d] = p
  BY <1>2, <1>3 DEF Range
<1>5. p = d - 1 /\ Slot = p + 1
  BY <1>2, <1>4 DEF PortsInPlace, Slot
<1> HIDE DEF p, n
<1>6. Slot = d
  BY <1>2, <1>5
<1>7. \A e \in DOMAIN devices : devices[e] = devices[Slot] => e = Slot
  <2> SUFFICES ASSUME NEW e \in 1 .. n, devices[e] = devices[d] PROVE e = d
    BY <1>2, <1>6
  <2>1. devices[e] = e - 1 /\ devices[d] = d - 1
    BY <1>2 DEF PortsInPlace
  <2>2. n \in Nat
    BY <1>2
  <2>3. e \in Nat /\ d \in Nat
    BY <2>2
  <2>4. e - 1 = d - 1
    BY <2>1
  <2> QED BY <2>3, <2>4
<1> QED BY <1>1, <1>2, <1>3, <1>4, <1>6, <1>7 DEF p, n

LEMMA InitCountersInv == StatsInit => CountersInv
<1> SUFFICES ASSUME StatsInit PROVE CountersInv
  OBVIOUS
<1>1. StatsTypeOK
  BY DEF StatsInit, StatsTypeOK, Threads
<1>2. ~strayed /\ Accounted
  BY DEF StatsInit, Accounted, Overlapping, Holds, ParserHolds, Threads
<1> QED BY <1>1, <1>2 DEF CountersInv

\* The parser starts with nothing counted.
LEMMA RunCounters ==
  ASSUME SetupInv, CountersInv, NEW k \in DOMAIN nic_queue_list, Run(k)
  PROVE  CountersInv'
<1> DEFINE n == Len(devices')
<1>1. /\ devices' \in Seq(Nat) /\ devices' # << >> /\ polls' \in Seq(Range(devices')) /\ polls' # << >>
      /\ {nic_queue_list[k][i][1] : i \in DOMAIN nic_queue_list[k]} = Range(devices')
  BY RunType
<1>2. /\ devices = << >> /\ parser' = [parser EXCEPT !.at = "round"]
      /\ collector' = [tracer |-> [collector["tracer"] EXCEPT !.at = "sleeping"],
                       main |-> [collector["main"] EXCEPT !.at = "running"]]
      /\ parsed_pkt_num' = [d \in DOMAIN devices' |-> 0]
      /\ sum_parsed_pkt_num' = [d \in DOMAIN devices' |-> 0]
      /\ counted' = [p \in Range(devices') |-> 0] /\ strayed' = strayed
  BY <1>1 DEF Run
<1>3. /\ ~strayed /\ collector = [c \in Threads |-> [at |-> "idle", index |-> 1, reg |-> 0]]
  BY <1>2 DEF CountersInv, StatsTypeOK
<1>4. parser = [at |-> "idle", poll |-> 1, burst |-> 0, reg |-> 0]
  BY <1>2 DEF CountersInv, StatsTypeOK
<1>5. /\ parser' = [at |-> "round", poll |-> 1, burst |-> 0, reg |-> 0]
      /\ collector' = [c \in Threads |-> [at |-> IF c = "tracer" THEN "sleeping" ELSE "running",
                                        index |-> 1, reg |-> 0]]
  BY <1>2, <1>3, <1>4 DEF Threads
<1>6. n \in Nat \ {0} /\ Len(polls') \in Nat \ {0} /\ DOMAIN devices' = 1 .. n
  BY <1>1
<1>7. StatsTypeOK'
  <2>1. /\ parsed_pkt_num' \in [1 .. n -> Nat] /\ sum_parsed_pkt_num' \in [1 .. n -> Nat]
        /\ counted' \in [Range(devices') -> Nat]
    BY <1>2, <1>6
  <2>2. parser' \in [at : {"round", "poll", "load", "store", "left", "undefined"},
                     poll : 1 .. Len(polls'), burst : 0 .. MaxBurst, reg : Nat]
    BY <1>5, <1>6, StatsAssumption
  <2>3. collector' \in [Threads -> [at : {"sleeping", "running", "read", "write", "clear",
                                           "barrier", "ended"},
                                     index : 1 .. n, reg : Nat]]
    BY <1>5, <1>6
  <2> QED BY <1>1, <2>1, <2>2, <2>3 DEF StatsTypeOK
<1>8. Accounted'
  <2>1. \A c \in Threads : collector'[c].at \notin {"write", "clear"}
    BY <1>5
  <2>2. ~Overlapping'
    BY <1>5, <2>1 DEF Overlapping, Holds, ParserHolds, Threads
  <2>3. \A d \in DOMAIN devices' : counted'[devices'[d]] = 0 /\ parsed_pkt_num'[d] = 0
                                   /\ sum_parsed_pkt_num'[d] = 0
    BY <1>1, <1>2 DEF Range
  <2> QED BY <1>5, <2>1, <2>2, <2>3 DEF Accounted, ClearedNext
<1> QED BY <1>2, <1>3, <1>7, <1>8 DEF CountersInv

\* No two of the three threads are between load and store of one counter.
LEMMA Apart ==
  ~Overlapping <=>
    /\ \A b, c \in Threads :
         b # c /\ collector[b].at \in {"write", "clear"} /\ collector[c].at \in {"write", "clear"}
           => collector[b].index # collector[c].index
    /\ \A c \in Threads :
         parser.at = "store" /\ collector[c].at \in {"write", "clear"} => collector[c].index # Slot
  BY DEF Overlapping, Holds, ParserHolds, Threads

ParserPlaces ==
  [at : {"round", "poll", "load", "store", "left", "undefined"},
   poll : 1 .. Len(polls), burst : 0 .. MaxBurst, reg : Nat]
CollectorPlaces ==
  [at : {"sleeping", "running", "read", "write", "clear", "barrier", "ended"},
   index : 1 .. Len(devices), reg : Nat]

\* The types while a parser runs.
LEMMA Running ==
  ASSUME StatsTypeOK, devices # << >>
  PROVE  /\ devices \in Seq(Nat) /\ polls \in Seq(Range(devices)) /\ polls # << >>
         /\ DOMAIN devices = 1 .. Len(devices) /\ Len(devices) \in Nat \ {0}
         /\ Len(polls) \in Nat \ {0}
         /\ parser \in ParserPlaces /\ collector \in [Threads -> CollectorPlaces]
         /\ parsed_pkt_num \in [1 .. Len(devices) -> Nat]
         /\ sum_parsed_pkt_num \in [1 .. Len(devices) -> Nat]
         /\ counted \in [Range(devices) -> Nat]
<1>1. devices \in Seq(Nat) /\ polls \in Seq(Range(devices)) /\ polls # << >>
  BY DEF StatsTypeOK
<1>2. DOMAIN devices = 1 .. Len(devices) /\ Len(devices) \in Nat \ {0} /\ Len(polls) \in Nat \ {0}
  BY <1>1
<1> QED BY <1>1, <1>2 DEF StatsTypeOK, ParserPlaces, CollectorPlaces

\* Conversely, and after a step.
LEMMA StillTyped ==
  ASSUME StatsTypeOK, devices # << >>, UNCHANGED threadVars,
         parser' \in ParserPlaces, collector' \in [Threads -> CollectorPlaces],
         parsed_pkt_num' \in [1 .. Len(devices) -> Nat],
         sum_parsed_pkt_num' \in [1 .. Len(devices) -> Nat],
         counted' \in [Range(devices) -> Nat]
  PROVE  StatsTypeOK'
<1>1. devices' = devices /\ polls' = polls
  BY DEF threadVars
<1> QED BY <1>1, Running DEF StatsTypeOK, ParserPlaces, CollectorPlaces

LEMMA NextPollType ==
  ASSUME StatsTypeOK, devices # << >>
  PROVE  NextPoll \in ParserPlaces /\ NextPoll.at \in {"poll", "round"} /\ NextPoll.reg = parser.reg
<1> DEFINE m == Len(polls)
<1>1. m \in Nat \ {0} /\ parser \in ParserPlaces
  BY Running
<1>2. parser.poll \in 1 .. m /\ parser.reg \in Nat
  BY <1>1 DEF ParserPlaces
<1>3. 0 \in 0 .. MaxBurst
  BY StatsAssumption
<1> HIDE DEF m
<1>4. CASE parser.poll < m
  <2>1. parser.poll + 1 \in 1 .. m
    BY <1>1, <1>2, <1>4
  <2>2. NextPoll = [parser EXCEPT !.at = "poll", !.poll = parser.poll + 1, !.burst = 0]
    BY <1>4 DEF NextPoll, m
  <2> QED BY <1>1, <1>3, <2>1, <2>2 DEF ParserPlaces, m
<1>5. CASE ~(parser.poll < m)
  <2>1. NextPoll = [parser EXCEPT !.at = "round", !.poll = 1, !.burst = 0]
    BY <1>5 DEF NextPoll, m
  <2>2. 1 \in 1 .. m
    BY <1>1
  <2> QED BY <1>1, <1>3, <2>1, <2>2 DEF ParserPlaces, m
<1> QED BY <1>4, <1>5

\* A step that nobody was in the other's counter before or after.
LEMMA ApartBefore ==
  ASSUME CountersInv, UNCHANGED threadVars, PortsInPlace',
         overlap' = (overlap \/ Overlapping'), ~overlap'
  PROVE  Accounted /\ PortsInPlace /\ ~Overlapping'
<1>1. PortsInPlace
  BY DEF PortsInPlace, threadVars
<1>2. ~overlap /\ ~Overlapping'
  OBVIOUS
<1> QED BY <1>1, <1>2 DEF CountersInv

\* The parser looks for m_stop, or finds packets in a queue or none.
LEMMA PollCounters ==
  ASSUME CountersInv, devices # << >>, overlap' = (overlap \/ Overlapping'),
         BeginRound \/ \E n \in 0 .. MaxBurst : Receive(n)
  PROVE  CountersInv'
<1>1. /\ UNCHANGED <<threadVars, collector, parser_stop, counterVars, strayed, counted, reported>>
      /\ parser' \in ParserPlaces /\ parser.at # "store" /\ parser'.at # "store"
  <2>1. CASE BeginRound
    <3>1. parser \in ParserPlaces
      BY Running DEF CountersInv
    <3>2. /\ parser' = [parser EXCEPT !.at = IF parser_stop THEN "left" ELSE "poll"]
          /\ UNCHANGED <<threadVars, collector, parser_stop, counterVars, strayed, counted, reported>>
          /\ parser.at = "round"
      BY <2>1 DEF BeginRound
    <3> QED BY <3>1, <3>2 DEF ParserPlaces
  <2>2. ASSUME NEW n \in 0 .. MaxBurst, Receive(n)
        PROVE  /\ UNCHANGED <<threadVars, collector, parser_stop, counterVars, strayed, counted, reported>>
               /\ parser' \in ParserPlaces /\ parser.at # "store" /\ parser'.at # "store"
    <3>1. parser \in ParserPlaces
      BY Running DEF CountersInv
    <3>2. /\ parser' = IF n = 0 THEN NextPoll ELSE [parser EXCEPT !.at = "load", !.burst = n]
          /\ UNCHANGED <<threadVars, collector, parser_stop, counterVars, strayed, counted, reported>>
          /\ parser.at = "poll"
      BY <2>2 DEF Receive
    <3>3. NextPoll \in ParserPlaces /\ NextPoll.at \in {"poll", "round"}
      BY NextPollType DEF CountersInv
    <3>4. n # 0 => [parser EXCEPT !.at = "load", !.burst = n] \in ParserPlaces
      BY <3>1 DEF ParserPlaces
    <3>5. parser' \in ParserPlaces /\ parser'.at # "store"
      BY <3>1, <3>2, <3>3, <3>4 DEF ParserPlaces
    <3> QED BY <3>2, <3>5
  <2> QED BY <2>1, <2>2
<1>2. /\ devices' = devices /\ polls' = polls /\ collector' = collector /\ counted' = counted
      /\ parsed_pkt_num' = parsed_pkt_num /\ sum_parsed_pkt_num' = sum_parsed_pkt_num
      /\ strayed' = strayed
  BY <1>1 DEF threadVars, counterVars
<1>3. StatsTypeOK'
  BY <1>1, <1>2, StillTyped, Running DEF CountersInv
<1>4. ASSUME PortsInPlace', ~overlap' PROVE Accounted'
  <2>1. Accounted /\ ~Overlapping'
    BY <1>1, <1>4, ApartBefore
  <2> QED BY <1>1, <1>2, <2>1 DEF Accounted, ClearedNext
<1>5. PortsInPlace' => ~strayed'
  BY <1>2 DEF CountersInv, PortsInPlace
<1> QED BY <1>3, <1>4, <1>5 DEF CountersInv

\* The parser takes up the counter of the port it polls.
LEMMA LoadCounters ==
  ASSUME CountersInv, devices # << >>, overlap' = (overlap \/ Overlapping'), LoadCount
  PROVE  CountersInv'
<1> DEFINE n == Len(devices)
<1>1. /\ devices' = devices /\ polls' = polls /\ collector' = collector /\ counted' = counted
      /\ parsed_pkt_num' = parsed_pkt_num /\ sum_parsed_pkt_num' = sum_parsed_pkt_num
      /\ parser.at = "load" /\ UNCHANGED threadVars
  BY DEF LoadCount, threadVars, counterVars
<1>2. /\ DOMAIN devices = 1 .. n /\ parser \in ParserPlaces /\ collector \in [Threads -> CollectorPlaces]
      /\ parsed_pkt_num \in [1 .. n -> Nat] /\ sum_parsed_pkt_num \in [1 .. n -> Nat]
      /\ counted \in [Range(devices) -> Nat]
  BY Running DEF CountersInv
<1>3. CASE Slot \in DOMAIN parsed_pkt_num
  <2>1. parser' = [parser EXCEPT !.at = "store", !.reg = parsed_pkt_num[Slot]] /\ strayed' = strayed
    BY <1>3 DEF LoadCount
  <2>2. parsed_pkt_num[Slot] \in Nat
    BY <1>2, <1>3
  <2>3. /\ parser' \in ParserPlaces /\ parser'.at = "store" /\ parser'.reg = parsed_pkt_num[Slot]
        /\ parser'.poll = parser.poll
    BY <1>2, <2>1, <2>2 DEF ParserPlaces
  <2>4. StatsTypeOK'
    BY <1>1, <1>2, <2>3, StillTyped DEF CountersInv
  <2>5. Slot' = Slot
    BY <1>1, <2>3 DEF Slot
  <2>6. ASSUME PortsInPlace', ~overlap' PROVE Accounted'
    <3>1. Accounted /\ ~Overlapping'
      BY <1>1, <2>6, ApartBefore
    <3> QED BY <1>1, <2>3, <2>5, <3>1 DEF Accounted, ClearedNext
  <2>7. PortsInPlace' => ~strayed'
    BY <1>1, <2>1 DEF CountersInv, PortsInPlace
  <2> QED BY <2>4, <2>6, <2>7 DEF CountersInv
<1>4. CASE Slot \notin DOMAIN parsed_pkt_num
  <2>1. parser' = [parser EXCEPT !.at = "undefined"]
    BY <1>4 DEF LoadCount
  <2>2. parser' \in ParserPlaces
    BY <1>2, <2>1 DEF ParserPlaces
  <2>3. StatsTypeOK'
    BY <1>1, <1>2, <2>2, StillTyped DEF CountersInv
  <2>4. ~PortsInPlace
    <3> SUFFICES ASSUME PortsInPlace PROVE FALSE
      OBVIOUS
    <3>1. Slot \in 1 .. n
      BY SlotOfPort DEF CountersInv
    <3> QED BY <1>2, <1>4, <3>1
  <2>5. ~PortsInPlace'
    BY <1>1, <2>4 DEF PortsInPlace
  <2> QED BY <2>3, <2>5 DEF CountersInv
<1> QED BY <1>3, <1>4

\* The parser counts a packet: nobody else was in that counter.
LEMMA StoreCounters ==
  ASSUME CountersInv, devices # << >>, overlap' = (overlap \/ Overlapping'), StoreCount
  PROVE  CountersInv'
<1> DEFINE n == Len(devices)
           port == polls[parser.poll]
<1>1. /\ devices' = devices /\ polls' = polls /\ collector' = collector
      /\ sum_parsed_pkt_num' = sum_parsed_pkt_num /\ strayed' = strayed
      /\ parser.at = "store" /\ UNCHANGED threadVars
  BY DEF StoreCount, threadVars, counterVars
<1>2. /\ DOMAIN devices = 1 .. n /\ parser \in ParserPlaces /\ collector \in [Threads -> CollectorPlaces]
      /\ parsed_pkt_num \in [1 .. n -> Nat] /\ sum_parsed_pkt_num \in [1 .. n -> Nat]
      /\ counted \in [Range(devices) -> Nat] /\ polls \in Seq(Range(devices))
      /\ Len(polls) \in Nat
  BY Running DEF CountersInv
<1>3. /\ parsed_pkt_num' = [parsed_pkt_num EXCEPT ![Slot] = parser.reg + 1]
      /\ counted' = [counted EXCEPT ![port] = counted[port] + 1]
  BY DEF StoreCount
<1>4. port \in Range(devices) /\ parser.reg \in Nat /\ parser.burst \in 0 .. MaxBurst
  BY <1>2 DEF ParserPlaces
<1>5. /\ parsed_pkt_num' \in [1 .. n -> Nat] /\ counted' \in [Range(devices) -> Nat]
  <2>1. counted[port] + 1 \in Nat /\ parser.reg + 1 \in Nat
    BY <1>2, <1>4
  <2> HIDE DEF port, n
  <2> QED BY <1>2, <1>3, <2>1
<1>6. parser' \in ParserPlaces /\ parser'.at # "store"
  <2>1. CASE parser.burst > 1
    <3>1. parser' = [parser EXCEPT !.at = "load", !.burst = parser.burst - 1, !.reg = 0]
      BY <2>1 DEF StoreCount
    <3>2. parser.burst - 1 \in 0 .. MaxBurst
      BY <1>4, <2>1, StatsAssumption
    <3> QED BY <1>2, <3>1, <3>2 DEF ParserPlaces
  <2>2. CASE ~(parser.burst > 1)
    <3>1. parser' = [NextPoll EXCEPT !.reg = 0]
      BY <2>2 DEF StoreCount
    <3>2. NextPoll \in ParserPlaces /\ NextPoll.at \in {"poll", "round"}
      BY NextPollType DEF CountersInv
    <3> QED BY <3>1, <3>2 DEF ParserPlaces
  <2> QED BY <2>1, <2>2
<1>7. StatsTypeOK'
  BY <1>1, <1>2, <1>5, <1>6, StillTyped DEF CountersInv
<1>8. ASSUME PortsInPlace', ~overlap' PROVE Accounted'
  <2>1. Accounted /\ PortsInPlace /\ ~Overlapping'
    BY <1>1, <1>8, ApartBefore
  <2>2. /\ Slot \in 1 .. n /\ devices[Slot] = port
        /\ \A d \in 1 .. n : devices[d] = port => d = Slot
    BY <1>2, <2>1, SlotOfPort DEF CountersInv
  <2>3. parsed_pkt_num'[Slot] = parsed_pkt_num[Slot] + 1
    BY <1>1, <1>2, <1>3, <2>1, <2>2 DEF Accounted
  <2>4. \A c \in Threads : collector[c].at \in {"write", "clear"} => collector[c].index # Slot
    BY <1>1, <2>1, Apart DEF Accounted
  <2>5. \A d \in 1 .. n : d # Slot => /\ parsed_pkt_num'[d] = parsed_pkt_num[d]
                                      /\ counted'[devices[d]] = counted[devices[d]]
    BY <1>2, <1>3, <2>2 DEF Range
  <2>6. \A c \in Threads : collector[c].index \in 1 .. n
    BY <1>2 DEF CollectorPlaces
  <2>7. \A c \in Threads : collector'[c].at = "write" =>
          collector'[c].reg = sum_parsed_pkt_num'[collector'[c].index] + parsed_pkt_num'[collector'[c].index]
    BY <1>1, <2>1, <2>4, <2>5, <2>6 DEF Accounted
  <2>8. ASSUME NEW d \in 1 .. n
        PROVE  counted'[devices'[d]] =
                 sum_parsed_pkt_num'[d] + IF ClearedNext(d)' THEN 0 ELSE parsed_pkt_num'[d]
    <3>1. ClearedNext(d)' <=> ClearedNext(d)
      BY <1>1 DEF ClearedNext
    <3>2. counted[devices[d]] = sum_parsed_pkt_num[d] + IF ClearedNext(d) THEN 0 ELSE parsed_pkt_num[d]
      BY <1>2, <2>1 DEF Accounted
    <3>3. CASE d # Slot
      BY <1>1, <2>5, <3>1, <3>2, <3>3
    <3>4. CASE d = Slot
      <4>1. ~ClearedNext(d)
        BY <2>4, <3>4 DEF ClearedNext
      <4>2. counted[port] = sum_parsed_pkt_num[d] + parsed_pkt_num[d]
        BY <2>2, <3>2, <3>4, <4>1
      <4>3. counted'[port] = counted[port] + 1
        BY <1>2, <1>3, <1>4
      <4>4. parsed_pkt_num[d] \in Nat /\ sum_parsed_pkt_num[d] \in Nat
        BY <1>2
      <4>5. counted'[devices'[d]] = sum_parsed_pkt_num'[d] + parsed_pkt_num'[d]
        <5>1. devices'[d] = port /\ sum_parsed_pkt_num'[d] = sum_parsed_pkt_num[d]
          BY <1>1, <2>2, <3>4
        <5>2. parsed_pkt_num'[d] = parsed_pkt_num[d] + 1
          BY <2>3, <3>4
        <5> HIDE DEF port
        <5> QED BY <4>2, <4>3, <4>4, <5>1, <5>2
      <4> QED BY <3>1, <4>1, <4>5
    <3> QED BY <3>3, <3>4
  <2>9. DOMAIN devices' = 1 .. n /\ ~Overlapping' /\ parser'.at # "store"
    BY <1>1, <1>2, <1>6, <2>1
  <2> QED BY <2>7, <2>8, <2>9 DEF Accounted
<1>9. PortsInPlace' => ~strayed'
  BY <1>1 DEF CountersInv, PortsInPlace
<1> QED BY <1>7, <1>8, <1>9 DEF CountersInv

\* Where a thread that neither adds nor clears may go.
LEMMA Walks ==
  ASSUME CountersInv, devices # << >>, overlap' = (overlap \/ Overlapping'),
         UNCHANGED <<threadVars, parser, counterVars, strayed, counted>>,
         NEW c \in Threads, NEW place \in CollectorPlaces, Goes(c, place),
         collector[c].at # "clear", place.at \notin {"write", "clear"}
  PROVE  CountersInv'
<1>1. /\ devices' = devices /\ parser' = parser /\ polls' = polls /\ counted' = counted
      /\ parsed_pkt_num' = parsed_pkt_num /\ sum_parsed_pkt_num' = sum_parsed_pkt_num
      /\ strayed' = strayed /\ collector' = [collector EXCEPT ![c] = place] /\ UNCHANGED threadVars
  BY DEF threadVars, counterVars, Goes
<1>2. /\ parser \in ParserPlaces /\ collector \in [Threads -> CollectorPlaces]
      /\ parsed_pkt_num \in [1 .. Len(devices) -> Nat]
      /\ sum_parsed_pkt_num \in [1 .. Len(devices) -> Nat]
      /\ counted \in [Range(devices) -> Nat]
  BY Running DEF CountersInv
<1>3. StatsTypeOK'
  <2>1. collector' \in [Threads -> CollectorPlaces]
    BY <1>1, <1>2
  <2> QED BY <1>1, <1>2, <2>1, StillTyped DEF CountersInv
<1>4. ASSUME PortsInPlace', ~overlap' PROVE Accounted'
  <2>1. Accounted /\ ~Overlapping'
    BY <1>1, <1>4, ApartBefore
  <2>2. \A d : ClearedNext(d)' <=> ClearedNext(d)
    BY <1>1, <1>2 DEF ClearedNext
  <2>3. \A b \in Threads : collector'[b].at = "write" => collector'[b] = collector[b]
    BY <1>1, <1>2
  <2>4. parser.at = "store" => parser.reg = parsed_pkt_num[Slot] /\ Slot' = Slot
    BY <1>1, <2>1 DEF Accounted, Slot
  <2> QED BY <1>1, <2>1, <2>2, <2>3, <2>4 DEF Accounted
<1>5. PortsInPlace' => ~strayed'
  BY <1>1 DEF CountersInv, PortsInPlace
<1> QED BY <1>3, <1>4, <1>5 DEF CountersInv

LEMMA WalkCounters ==
  ASSUME CountersInv, devices # << >>, overlap' = (overlap \/ Overlapping'),
         WakeTracer \/ Stop \/ OverallPerformance
  PROVE  CountersInv'
<1>1. collector \in [Threads -> CollectorPlaces] /\ {"tracer", "main"} = Threads
  BY Running DEF CountersInv, Threads
<1>2. CASE WakeTracer
  <2> DEFINE place == [collector["tracer"] EXCEPT !.at = IF parser_stop THEN "ended" ELSE "read"]
  <2>1. collector["tracer"] \in CollectorPlaces
    BY <1>1
  <2>2. place \in CollectorPlaces /\ place.at \notin {"write", "clear"}
    BY <2>1 DEF CollectorPlaces
  <2>3. /\ Goes("tracer", place) /\ collector["tracer"].at = "sleeping"
        /\ UNCHANGED <<threadVars, parser, counterVars, strayed, counted>>
    BY <1>2 DEF WakeTracer
  <2> HIDE DEF place
  <2> QED BY <1>1, <2>2, <2>3, Walks
<1>3. CASE Stop
  <2> DEFINE place == [collector["main"] EXCEPT !.at = "read"]
  <2>1. collector["main"] \in CollectorPlaces
    BY <1>1
  <2>2. place \in CollectorPlaces /\ place.at \notin {"write", "clear"}
    BY <2>1 DEF CollectorPlaces
  <2>3. /\ Goes("main", place) /\ collector["main"].at = "running"
        /\ UNCHANGED <<threadVars, parser, counterVars, strayed, counted>>
    BY <1>3 DEF Stop
  <2> HIDE DEF place
  <2> QED BY <1>1, <2>2, <2>3, Walks
<1>4. CASE OverallPerformance
  <2> DEFINE place == [collector["main"] EXCEPT !.at = "ended"]
  <2>1. collector["main"] \in CollectorPlaces
    BY <1>1
  <2>2. place \in CollectorPlaces /\ place.at \notin {"write", "clear"}
    BY <2>1 DEF CollectorPlaces
  <2>3. /\ Goes("main", place) /\ collector["main"].at = "barrier"
        /\ UNCHANGED <<threadVars, parser, counterVars, strayed, counted>>
    BY <1>4 DEF OverallPerformance
  <2> HIDE DEF place
  <2> QED BY <1>1, <2>2, <2>3, Walks
<1> QED BY <1>2, <1>3, <1>4

\* A thread loads a sum and the counter it adds to it.
LEMMA LoadSumCounters ==
  ASSUME CountersInv, devices # << >>, overlap' = (overlap \/ Overlapping'),
         NEW c \in Threads, LoadSum(c)
  PROVE  CountersInv'
<1> DEFINE i == collector[c].index
           added == sum_parsed_pkt_num[i] + parsed_pkt_num[i]
           place == [collector[c] EXCEPT !.at = "write", !.reg = added]
<1>1. /\ devices' = devices /\ parser' = parser /\ polls' = polls /\ counted' = counted
      /\ parsed_pkt_num' = parsed_pkt_num /\ sum_parsed_pkt_num' = sum_parsed_pkt_num
      /\ strayed' = strayed /\ collector' = [collector EXCEPT ![c] = place] /\ UNCHANGED threadVars
      /\ collector[c].at = "read"
  BY DEF threadVars, counterVars, Goes, LoadSum
<1>2. /\ parser \in ParserPlaces /\ collector \in [Threads -> CollectorPlaces]
      /\ parsed_pkt_num \in [1 .. Len(devices) -> Nat]
      /\ sum_parsed_pkt_num \in [1 .. Len(devices) -> Nat]
      /\ counted \in [Range(devices) -> Nat]
  BY Running DEF CountersInv
<1>3. collector[c] \in CollectorPlaces /\ i \in 1 .. Len(devices)
  BY <1>2 DEF CollectorPlaces
<1>4. added \in Nat
  BY <1>2, <1>3
<1>5. place \in CollectorPlaces /\ place.at = "write" /\ place.index = i /\ place.reg = added
  <2> HIDE DEF added, i
  <2>1. place \in CollectorPlaces /\ place.at = "write" /\ place.index = collector[c].index /\ place.reg = added
    BY <1>3, <1>4 DEF CollectorPlaces
  <2> QED BY <2>1 DEF i
<1> HIDE DEF place
<1>6. StatsTypeOK'
  <2>1. collector' \in [Threads -> CollectorPlaces]
    BY <1>1, <1>2, <1>5
  <2> QED BY <1>1, <1>2, <2>1, StillTyped DEF CountersInv
<1>7. ASSUME PortsInPlace', ~overlap' PROVE Accounted'
  <2>1. Accounted /\ ~Overlapping'
    BY <1>1, <1>7, ApartBefore
  <2>2. \A d : ClearedNext(d)' <=> ClearedNext(d)
    BY <1>1, <1>2, <1>5 DEF ClearedNext
  <2>3. \A b \in Threads : b # c => collector'[b] = collector[b]
    BY <1>1, <1>2
  <2>4. collector'[c] = place
    BY <1>1, <1>2
  <2>5. parser.at = "store" => parser.reg = parsed_pkt_num[Slot] /\ Slot' = Slot
    BY <1>1, <2>1 DEF Accounted, Slot
  <2>6. \A b \in Threads : collector'[b].at = "write" =>
          collector'[b].reg = sum_parsed_pkt_num[collector'[b].index] + parsed_pkt_num[collector'[b].index]
    BY <1>5, <2>1, <2>3, <2>4 DEF Accounted
  <2> QED BY <1>1, <2>1, <2>2, <2>5, <2>6 DEF Accounted
<1>8. PortsInPlace' => ~strayed'
  BY <1>1 DEF CountersInv, PortsInPlace
<1> QED BY <1>6, <1>7, <1>8 DEF CountersInv

\* A thread stores a sum: what the counter held is counted there from now on.
LEMMA StoreSumCounters ==
  ASSUME CountersInv, devices # << >>, overlap' = (overlap \/ Overlapping'),
         NEW c \in Threads, StoreSum(c)
  PROVE  CountersInv'
<1> DEFINE i == collector[c].index
           n == Len(devices)
           place == [collector[c] EXCEPT !.at = "clear", !.reg = 0]
<1>1. /\ devices' = devices /\ parser' = parser /\ polls' = polls /\ counted' = counted
      /\ parsed_pkt_num' = parsed_pkt_num
      /\ sum_parsed_pkt_num' = [sum_parsed_pkt_num EXCEPT ![i] = collector[c].reg]
      /\ strayed' = strayed /\ collector' = [collector EXCEPT ![c] = place] /\ UNCHANGED threadVars
      /\ collector[c].at = "write"
  BY DEF threadVars, counterVars, Goes, StoreSum
<1>2. /\ parser \in ParserPlaces /\ collector \in [Threads -> CollectorPlaces]
      /\ parsed_pkt_num \in [1 .. n -> Nat] /\ sum_parsed_pkt_num \in [1 .. n -> Nat]
      /\ counted \in [Range(devices) -> Nat] /\ DOMAIN devices = 1 .. n
  BY Running DEF CountersInv
<1>3. collector[c] \in CollectorPlaces /\ i \in 1 .. n /\ collector[c].reg \in Nat
  BY <1>2 DEF CollectorPlaces
<1>4. place \in CollectorPlaces /\ place.at = "clear" /\ place.index = i
  BY <1>3 DEF CollectorPlaces
<1>5. /\ collector'[c] = place /\ \A b \in Threads : b # c => collector'[b] = collector[b]
      /\ collector' \in [Threads -> CollectorPlaces]
  <2> HIDE DEF place
  <2> QED BY <1>1, <1>2, <1>4
<1> HIDE DEF place
<1>6. sum_parsed_pkt_num' \in [1 .. n -> Nat]
  BY <1>1, <1>2, <1>3
<1>7. StatsTypeOK'
  BY <1>1, <1>2, <1>5, <1>6, StillTyped DEF CountersInv
<1>8. ASSUME PortsInPlace', ~overlap' PROVE Accounted'
  <2>1. Accounted /\ ~Overlapping'
    BY <1>1, <1>8, ApartBefore
  <2>2. \A b \in Threads : b # c /\ collector[b].at \in {"write", "clear"} => collector[b].index # i
    BY <1>1, <2>1, Apart DEF Accounted
  <2>3. \A d \in 1 .. n : d # i => sum_parsed_pkt_num'[d] = sum_parsed_pkt_num[d]
    BY <1>1, <1>2
  <2>4. sum_parsed_pkt_num'[i] = sum_parsed_pkt_num[i] + parsed_pkt_num[i]
    BY <1>1, <1>2, <1>3, <2>1 DEF Accounted
  <2>5. \A b \in Threads : collector[b].index \in 1 .. n
    BY <1>2 DEF CollectorPlaces
  <2>6. \A b \in Threads : collector'[b].at = "write" =>
          collector'[b].reg = sum_parsed_pkt_num'[collector'[b].index] + parsed_pkt_num'[collector'[b].index]
    <3> SUFFICES ASSUME NEW b \in Threads, collector'[b].at = "write"
                 PROVE  collector'[b].reg =
                          sum_parsed_pkt_num'[collector'[b].index] + parsed_pkt_num'[collector'[b].index]
      OBVIOUS
    <3>1. b # c /\ collector'[b] = collector[b]
      BY <1>4, <1>5
    <3>2. collector[b].index # i
      BY <2>2, <3>1
    <3>3. collector[b].reg = sum_parsed_pkt_num[collector[b].index] + parsed_pkt_num[collector[b].index]
      BY <2>1, <3>1 DEF Accounted
    <3> QED BY <1>1, <2>3, <2>5, <3>1, <3>2, <3>3
  <2>7. ASSUME NEW d \in 1 .. n
        PROVE  counted'[devices'[d]] =
                 sum_parsed_pkt_num'[d] + IF ClearedNext(d)' THEN 0 ELSE parsed_pkt_num'[d]
    <3>1. counted[devices[d]] = sum_parsed_pkt_num[d] + IF ClearedNext(d) THEN 0 ELSE parsed_pkt_num[d]
      BY <1>2, <2>1 DEF Accounted
    <3>2. CASE d # i
      <4>1. ClearedNext(d)' <=> ClearedNext(d)
        BY <1>1, <1>4, <1>5, <3>2 DEF ClearedNext
      <4> QED BY <1>1, <2>3, <3>1, <3>2, <4>1
    <3>3. CASE d = i
      <4>1. ~ClearedNext(d)
        BY <1>1, <2>2, <3>3 DEF ClearedNext
      <4>2. ClearedNext(d)'
        BY <1>4, <1>5, <3>3 DEF ClearedNext
      <4>3. counted[devices[d]] = sum_parsed_pkt_num'[d]
        BY <2>4, <3>1, <3>3, <4>1
      <4>4. sum_parsed_pkt_num'[d] \in Nat
        BY <1>6
      <4> QED BY <1>1, <4>2, <4>3, <4>4
    <3> QED BY <3>2, <3>3
  <2>8. parser.at = "store" => parser.reg = parsed_pkt_num[Slot] /\ Slot' = Slot
    BY <1>1, <2>1 DEF Accounted, Slot
  <2>9. DOMAIN devices' = 1 .. n
    BY <1>1, <1>2
  <2> QED BY <1>1, <2>1, <2>6, <2>7, <2>8, <2>9 DEF Accounted
<1>9. PortsInPlace' => ~strayed'
  BY <1>1 DEF CountersInv, PortsInPlace
<1> QED BY <1>7, <1>8, <1>9 DEF CountersInv

\* A thread clears a counter: what it held is in the sum by then.
LEMMA ClearCounters ==
  ASSUME CountersInv, devices # << >>, overlap' = (overlap \/ Overlapping'),
         NEW c \in Threads, Clear(c)
  PROVE  CountersInv'
<1> DEFINE i == collector[c].index
           n == Len(devices)
           place == AfterClear(c)
<1>1. /\ devices' = devices /\ parser' = parser /\ polls' = polls /\ counted' = counted
      /\ parsed_pkt_num' = [parsed_pkt_num EXCEPT ![i] = 0]
      /\ sum_parsed_pkt_num' = sum_parsed_pkt_num
      /\ strayed' = strayed /\ collector' = [collector EXCEPT ![c] = place] /\ UNCHANGED threadVars
      /\ collector[c].at = "clear"
  BY DEF threadVars, counterVars, Goes, Clear
<1>2. /\ parser \in ParserPlaces /\ collector \in [Threads -> CollectorPlaces]
      /\ parsed_pkt_num \in [1 .. n -> Nat] /\ sum_parsed_pkt_num \in [1 .. n -> Nat]
      /\ counted \in [Range(devices) -> Nat] /\ DOMAIN devices = 1 .. n /\ n \in Nat \ {0}
  BY Running DEF CountersInv
<1>3. collector[c] \in CollectorPlaces /\ i \in 1 .. n
  BY <1>2 DEF CollectorPlaces
<1>4. place \in CollectorPlaces /\ place.at \notin {"write", "clear"}
  <2>1. CASE i < n
    <3>1. place = [collector[c] EXCEPT !.at = "read", !.index = i + 1]
      BY <2>1 DEF AfterClear
    <3>2. i + 1 \in 1 .. n
      <4> HIDE DEF i, n
      <4> QED BY <1>2, <1>3, <2>1
    <3> QED BY <1>3, <3>1, <3>2 DEF CollectorPlaces
  <2>2. CASE ~(i < n)
    <3>1. place = [collector[c] EXCEPT !.at = IF c = "main" THEN "barrier" ELSE "sleeping", !.index = 1]
      BY <2>2 DEF AfterClear
    <3>2. 1 \in 1 .. n
      BY <1>2
    <3> QED BY <1>3, <3>1, <3>2 DEF CollectorPlaces
  <2> QED BY <2>1, <2>2
<1> HIDE DEF place
<1>5. /\ collector'[c] = place /\ \A b \in Threads : b # c => collector'[b] = collector[b]
      /\ collector' \in [Threads -> CollectorPlaces]
  BY <1>1, <1>2, <1>4
<1>6. parsed_pkt_num' \in [1 .. n -> Nat]
  BY <1>1, <1>2, <1>3
<1>7. StatsTypeOK'
  BY <1>1, <1>2, <1>5, <1>6, StillTyped DEF CountersInv
<1>8. ASSUME PortsInPlace', ~overlap' PROVE Accounted'
  <2>1. Accounted /\ ~Overlapping'
    BY <1>1, <1>8, ApartBefore
  <2>2. /\ \A b \in Threads : b # c /\ collector[b].at \in {"write", "clear"} => collector[b].index # i
        /\ parser.at = "store" => Slot # i
    BY <1>1, <2>1, Apart DEF Accounted
  <2>3. \A d : d # i => parsed_pkt_num'[d] = parsed_pkt_num[d]
    BY <1>1, <1>2
  <2>4. parsed_pkt_num'[i] = 0
    BY <1>1, <1>2, <1>3
  <2>5. \A b \in Threads : collector'[b].at = "write" =>
          collector'[b].reg = sum_parsed_pkt_num'[collector'[b].index] + parsed_pkt_num'[collector'[b].index]
    <3> SUFFICES ASSUME NEW b \in Threads, collector'[b].at = "write"
                 PROVE  collector'[b].reg =
                          sum_parsed_pkt_num'[collector'[b].index] + parsed_pkt_num'[collector'[b].index]
      OBVIOUS
    <3>1. b # c /\ collector'[b] = collector[b]
      BY <1>4, <1>5
    <3>2. collector[b].index # i
      BY <2>2, <3>1
    <3>3. collector[b].reg = sum_parsed_pkt_num[collector[b].index] + parsed_pkt_num[collector[b].index]
      BY <2>1, <3>1 DEF Accounted
    <3> QED BY <1>1, <2>3, <3>1, <3>2, <3>3
  <2>6. ASSUME NEW d \in 1 .. n
        PROVE  counted'[devices'[d]] =
                 sum_parsed_pkt_num'[d] + IF ClearedNext(d)' THEN 0 ELSE parsed_pkt_num'[d]
    <3>1. counted[devices[d]] = sum_parsed_pkt_num[d] + IF ClearedNext(d) THEN 0 ELSE parsed_pkt_num[d]
      BY <1>2, <2>1 DEF Accounted
    <3>2. CASE d # i
      <4>1. ClearedNext(d)' <=> ClearedNext(d)
        BY <1>1, <1>4, <1>5, <3>2 DEF ClearedNext
      <4> QED BY <1>1, <2>3, <3>1, <3>2, <4>1
    <3>3. CASE d = i
      <4>1. ClearedNext(d)
        BY <1>1, <3>3 DEF ClearedNext
      <4>2. ~ClearedNext(d)'
        BY <1>1, <1>4, <1>5, <2>2, <3>3 DEF ClearedNext
      <4>3. counted[devices[d]] = sum_parsed_pkt_num[d] + 0
        BY <3>1, <4>1
      <4>4. sum_parsed_pkt_num[d] \in Nat
        BY <1>2
      <4> QED BY <1>1, <2>4, <3>3, <4>2, <4>3, <4>4
    <3> QED BY <3>2, <3>3
  <2>7. parser.at = "store" => parser.reg = parsed_pkt_num[Slot] /\ Slot' = Slot
    BY <1>1, <2>1 DEF Accounted, Slot
  <2>8. DOMAIN devices' = 1 .. n
    BY <1>1, <1>2
  <2>9. parser'.at = "store" => parser'.reg = parsed_pkt_num'[Slot']
    BY <1>1, <2>2, <2>3, <2>7
  <2> QED BY <2>1, <2>5, <2>6, <2>8, <2>9 DEF Accounted
<1>9. PortsInPlace' => ~strayed'
  BY <1>1 DEF CountersInv, PortsInPlace
<1> QED BY <1>7, <1>8, <1>9 DEF CountersInv

LEMMA StepCountersInv == SetupInv /\ CountersInv /\ [StatsNext]_allVars => CountersInv'
<1> SUFFICES ASSUME SetupInv, CountersInv, [StatsNext]_allVars PROVE CountersInv'
  OBVIOUS
<1>1. CASE UNCHANGED statsVars
  <2>1. UNCHANGED <<devices, polls, parser, collector, parser_stop, parsed_pkt_num, sum_parsed_pkt_num,
                    strayed, counted, overlap, reported>>
    BY <1>1 DEF statsVars, threadVars, counterVars
  <2>2. StatsTypeOK'
    BY <2>1 DEF CountersInv, StatsTypeOK
  <2>3. Overlapping' <=> Overlapping
    BY <2>1 DEF Overlapping, Holds, ParserHolds, Slot
  <2>4. Accounted => Accounted'
    BY <2>1, <2>3 DEF Accounted, ClearedNext, Slot
  <2>5. PortsInPlace' => PortsInPlace
    BY <2>1 DEF PortsInPlace
  <2> QED BY <2>1, <2>2, <2>4, <2>5 DEF CountersInv
<1>2. CASE StatsStep /\ overlap' = (overlap \/ Overlapping')
  <2>1. ASSUME NEW k \in DOMAIN nic_queue_list, Run(k) PROVE CountersInv'
    BY <2>1, RunCounters
  <2>2. CASE devices # << >> /\ (ParserStep \/ WakeTracer \/ Stop \/ OverallPerformance)
    BY <1>2, <2>2, PollCounters, LoadCounters, StoreCounters, WalkCounters DEF ParserStep
  <2>3. ASSUME NEW c \in {"tracer", "main"}, Collect(c) PROVE CountersInv'
    <3>1. c \in Threads
      BY DEF Threads
    <3>2. collector[c].at # "idle"
      BY <2>3 DEF Collect, LoadSum, StoreSum, Clear
    <3>3. devices # << >>
      BY <3>1, <3>2 DEF CountersInv, StatsTypeOK
    <3> QED BY <1>2, <2>3, <3>1, <3>3, LoadSumCounters, StoreSumCounters, ClearCounters DEF Collect
  <2> QED BY <1>2, <2>1, <2>2, <2>3 DEF StatsStep
<1>3. [StatsNext]_allVars => UNCHANGED statsVars \/ (StatsStep /\ overlap' = (overlap \/ Overlapping'))
  BY DEF StatsNext, allVars
<1> QED BY <1>1, <1>2, <1>3

THEOREM CountersInvariant == StatsSpec => []CountersInv
<1>1. StatsInit => CountersInv
  BY InitCountersInv
<1> QED BY <1>1, StepCountersInv, SetupInvariant, PTL DEF StatsSpec

\* ++parsed_pkt_num, and sum += parsed; parsed = 0 of two more threads, with no lock
\* between the three: as long as no two are inside one counter, every packet is
\* counted once and for its port.
THEOREM CountersKept == StatsSpec => []CountersExact
<1>1. CountersInv => CountersExact
  BY DEF CountersInv, CountersExact, Accounted, ClearedNext, Threads
<1> QED BY <1>1, CountersInvariant, PTL

-----------------------------------------------------------------------------
(* What stop() misses: at most what the parser receives in its last round. *)

\* The counters stop() has cleared: what they hold now nobody adds for it.
Collected ==
  LET t == collector["main"] IN
  IF t.at \in {"barrier", "ended"} THEN 1 .. Len(devices) ELSE 1 .. t.index - 1

\* What the parser can have received in its round so far.
Round ==
  IF parser.at \in {"round", "left"} THEN Len(polls) * MaxBurst
  ELSE ((parser.poll - 1) * MaxBurst) + IF parser.at = "poll" THEN 0 ELSE MaxBurst - parser.burst

LastRound ==
  \E g : Sums(g, parsed_pkt_num, 1 .. Len(devices)) /\ g[Collected] \in 0 .. Round

\* How far stop() is, and what that says of the parser.
Stopping ==
  devices # << >> =>
    /\ collector["main"].at # "sleeping"
    /\ collector["main"].at = "running" => collector["main"].index = 1
    /\ collector["main"].at # "running" => parser_stop
    /\ collector["main"].at = "ended" => parser.at = "left"
    /\ reported # -1 => collector["main"].at = "ended"
    /\ parser.at \in {"load", "store"} => parser.burst # 0

ReportInv ==
  /\ Stopping /\ ReportCoversRun
  /\ devices # << >> /\ PortsInPlace /\ ~overlap => LastRound

LEMMA InitReportInv == StatsInit => ReportInv
  BY DEF StatsInit, ReportInv, Stopping, ReportCoversRun

\* Where a round of the parser is, in numbers.
LEMMA RoundType ==
  ASSUME StatsTypeOK, devices # << >>
  PROVE  /\ (parser.poll - 1) * MaxBurst \in Nat /\ parser.poll * MaxBurst \in Nat
         /\ parser.poll * MaxBurst = ((parser.poll - 1) * MaxBurst) + MaxBurst
         /\ parser.burst \in 0 .. MaxBurst /\ parser.poll \in Nat \ {0} /\ Round \in Nat
<1> DEFINE p == parser.poll
<1>1. parser \in ParserPlaces /\ Len(polls) \in Nat \ {0}
  BY Running
<1>2. p \in 1 .. Len(polls) /\ parser.burst \in 0 .. MaxBurst
  BY <1>1 DEF ParserPlaces
<1>3. p \in Nat \ {0}
  BY <1>1, <1>2
<1>4. (p - 1) * MaxBurst \in Nat /\ p * MaxBurst \in Nat /\ Len(polls) * MaxBurst \in Nat
  <2> HIDE DEF p
  <2>1. p - 1 \in Nat
    BY <1>3
  <2> QED BY <1>1, <1>3, <2>1, ProductGrows, StatsAssumption
<1>5. p * MaxBurst = ((p - 1) * MaxBurst) + MaxBurst
  <2> HIDE DEF p
  <2> QED BY <1>3, StatsAssumption
<1>6. Round \in Nat
  <2> DEFINE base == (p - 1) * MaxBurst
             all == Len(polls) * MaxBurst
             rest == MaxBurst - parser.burst
  <2>1. base \in Nat /\ all \in Nat
    BY <1>4
  <2>2. rest \in Nat
    BY <1>2, StatsAssumption
  <2>3. Round = IF parser.at \in {"round", "left"} THEN all
                ELSE base + IF parser.at = "poll" THEN 0 ELSE rest
    BY DEF Round
  <2> HIDE DEF base, all, rest
  <2> QED BY <2>1, <2>2, <2>3
<1> QED BY <1>2, <1>3, <1>4, <1>5, <1>6

\* A poll that is done, the last of the round or not.
LEMMA NextPollRound ==
  ASSUME StatsTypeOK, devices # << >>, polls' = polls,
         parser'.at = NextPoll.at, parser'.poll = NextPoll.poll
  PROVE  Round' = parser.poll * MaxBurst
<1> DEFINE p == parser.poll
           m == Len(polls)
<1>1. p \in 1 .. m /\ m \in Nat \ {0} /\ parser \in ParserPlaces
  BY Running DEF ParserPlaces
<1>2. CASE p < m
  <2>1. NextPoll = [parser EXCEPT !.at = "poll", !.poll = p + 1, !.burst = 0]
    BY <1>2 DEF NextPoll
  <2>2. NextPoll.at = "poll" /\ NextPoll.poll = p + 1
    BY <1>1, <2>1 DEF ParserPlaces
  <2>3. Round' = (((p + 1) - 1) * MaxBurst) + 0
    BY <2>2 DEF Round
  <2> HIDE DEF p
  <2>4. p \in Nat
    BY <1>1
  <2>5. (p + 1) - 1 = p
    BY <2>4
  <2>6. p * MaxBurst \in Nat
    BY <2>4, ProductGrows, StatsAssumption
  <2> QED BY <2>3, <2>5, <2>6 DEF p
<1>3. CASE ~(p < m)
  <2>1. NextPoll = [parser EXCEPT !.at = "round", !.poll = 1, !.burst = 0]
    BY <1>3 DEF NextPoll
  <2>2. NextPoll.at = "round"
    BY <1>1, <2>1 DEF ParserPlaces
  <2>3. Round' = m * MaxBurst
    BY <2>2 DEF Round
  <2>4. p = m
    <3> HIDE DEF p, m
    <3> QED BY <1>1, <1>3
  <2> QED BY <2>3, <2>4
<1> QED BY <1>2, <1>3

\* What is reported stays covered while nothing more is counted.
LEMMA ReportStays ==
  ASSUME ReportCoversRun, overlap' = (overlap \/ Overlapping'),
         devices' = devices, polls' = polls, reported' = reported, counted' = counted
  PROVE  ReportCoversRun'
<1>1. Packets' = Packets
  BY DEF Packets, FoldFunction, FoldFunctionOnSet, MapThenFoldSet
<1>2. PortsInPlace' => PortsInPlace
  BY DEF PortsInPlace
<1>3. ~overlap' => ~overlap
  OBVIOUS
<1> QED BY <1>1, <1>2, <1>3 DEF ReportCoversRun

\* The round can only get further.
LEMMA LastRoundStays ==
  ASSUME CountersInv, devices # << >>, LastRound, UNCHANGED threadVars,
         parsed_pkt_num' = parsed_pkt_num,
         \/ Collected' = Collected /\ Round' \in Nat /\ Round <= Round'
         \/ Collected' = {} /\ Round' \in Nat
  PROVE  LastRound'
<1> DEFINE S == 1 .. Len(devices)
<1>1. PICK g : Sums(g, parsed_pkt_num, S) /\ g[Collected] \in 0 .. Round
  BY DEF LastRound
<1>2. devices' = devices
  BY DEF threadVars
<1>3. g[Collected'] \in 0 .. Round'
  <2>1. g[{}] = 0
    BY <1>1 DEF Sums
  <2>2. Round \in Nat
    BY RoundType DEF CountersInv
  <2>3. CASE Collected' = Collected /\ Round' \in Nat /\ Round <= Round'
    BY <1>1, <2>2, <2>3
  <2>4. CASE Collected' = {} /\ Round' \in Nat
    BY <2>1, <2>4
  <2> QED BY <2>3, <2>4
<1>4. Sums(g, parsed_pkt_num', 1 .. Len(devices'))
  BY <1>1, <1>2
<1> QED BY <1>3, <1>4 DEF LastRound

\* Before stop(), nothing is collected.
LEMMA NothingCollected ==
  ASSUME StatsTypeOK, devices # << >>, Stopping, collector["main"].at = "running"
  PROVE  Collected = {}
<1>1. collector["main"].index = 1
  BY DEF Stopping
<1> QED BY <1>1 DEF Collected

LEMMA PollReport ==
  ASSUME CountersInv, CountersInv', ReportInv, devices # << >>, overlap' = (overlap \/ Overlapping'),
         BeginRound \/ \E n \in 0 .. MaxBurst : Receive(n)
  PROVE  ReportInv'
<1>1. /\ devices' = devices /\ polls' = polls /\ collector' = collector /\ counted' = counted
      /\ parsed_pkt_num' = parsed_pkt_num /\ reported' = reported /\ parser_stop' = parser_stop
      /\ parser.at \in {"round", "poll"} /\ UNCHANGED threadVars
  BY DEF BeginRound, Receive, threadVars, counterVars
<1>2. ReportCoversRun'
  BY <1>1, ReportStays DEF ReportInv
<1>3. Collected' = Collected
  BY <1>1 DEF Collected
<1>4. /\ (parser.poll - 1) * MaxBurst \in Nat /\ parser.poll * MaxBurst \in Nat
      /\ parser.poll * MaxBurst = ((parser.poll - 1) * MaxBurst) + MaxBurst
      /\ parser \in ParserPlaces /\ Round \in Nat /\ Round' \in Nat
  <2>1. Round' \in Nat
    <3>1. StatsTypeOK' /\ devices' # << >>
      BY <1>1 DEF CountersInv
    <3>2. (StatsTypeOK /\ devices # << >>) => Round \in Nat
      BY RoundType
    <3>3. (StatsTypeOK /\ devices # << >> => Round \in Nat)'
      BY <3>2, RoundType, PTL
    <3> QED BY <3>1, <3>3
  <2> QED BY <2>1, RoundType, Running DEF CountersInv
<1>5. CASE BeginRound
  <2>1. parser' = [parser EXCEPT !.at = IF parser_stop THEN "left" ELSE "poll"] /\ parser.at = "round"
    BY <1>5 DEF BeginRound
  <2>2. /\ parser'.at = IF parser_stop THEN "left" ELSE "poll"
    BY <1>4, <2>1 DEF ParserPlaces
  <2>3. Stopping'
    BY <1>1, <2>1, <2>2 DEF ReportInv, Stopping
  <2>4. ASSUME PortsInPlace', ~overlap' PROVE LastRound'
    <3>1. LastRound /\ Stopping
      BY <1>1, <2>4, ApartBefore DEF ReportInv, CountersInv, PortsInPlace
    <3>2. CASE parser_stop
      <4>1. Round' = Round
        BY <1>1, <2>1, <2>2, <3>2 DEF Round
      <4> QED BY <1>1, <1>3, <1>4, <3>1, <4>1, LastRoundStays
    <3>3. CASE ~parser_stop
      <4>1. collector["main"].at = "running"
        BY <3>1, <3>3 DEF Stopping
      <4>2. Collected' = {}
        BY <1>3, <3>1, <4>1, NothingCollected DEF CountersInv
      <4> QED BY <1>1, <1>4, <3>1, <4>2, LastRoundStays
    <3> QED BY <3>2, <3>3
  <2> QED BY <1>1, <1>2, <2>3, <2>4 DEF ReportInv
<1>6. ASSUME NEW n \in 0 .. MaxBurst, Receive(n) PROVE ReportInv'
  <2>1. /\ parser' = IF n = 0 THEN NextPoll ELSE [parser EXCEPT !.at = "load", !.burst = n]
        /\ parser.at = "poll"
    BY <1>6 DEF Receive
  <2>2. Round = ((parser.poll - 1) * MaxBurst) + 0
    BY <2>1 DEF Round
  <2>3. Round <= Round' /\ parser'.at \notin {"left", "store"} /\ (parser'.at = "load" => parser'.burst # 0)
    <3>1. CASE n = 0
      <4>1. parser' = NextPoll
        BY <2>1, <3>1
      <4>2. Round' = parser.poll * MaxBurst
        BY <1>1, <4>1, NextPollRound DEF CountersInv
      <4>3. Round <= Round'
        <5> DEFINE base == (parser.poll - 1) * MaxBurst
                   next == parser.poll * MaxBurst
        <5>1. base \in Nat /\ next = base + MaxBurst /\ Round = base + 0 /\ Round' = next
          BY <1>4, <2>2, <4>2
        <5> HIDE DEF base, next
        <5> QED BY <5>1, StatsAssumption
      <4>4. NextPoll.at \in {"poll", "round"}
        BY NextPollType DEF CountersInv
      <4> QED BY <4>1, <4>3, <4>4
    <3>2. CASE n # 0
      <4>1. parser' = [parser EXCEPT !.at = "load", !.burst = n]
        BY <2>1, <3>2
      <4>2. parser'.at = "load" /\ parser'.burst = n /\ parser'.poll = parser.poll
        BY <1>4, <4>1 DEF ParserPlaces
      <4>3. Round' = ((parser.poll - 1) * MaxBurst) + (MaxBurst - n)
        BY <4>2 DEF Round
      <4>4. Round <= Round'
        <5> DEFINE base == (parser.poll - 1) * MaxBurst
        <5>1. base \in Nat /\ Round = base + 0 /\ Round' = base + (MaxBurst - n)
          BY <1>4, <2>2, <4>3
        <5>2. MaxBurst - n \in Nat
          BY StatsAssumption
        <5> HIDE DEF base
        <5> QED BY <5>1, <5>2
      <4> QED BY <3>2, <4>2, <4>4
    <3> QED BY <3>1, <3>2
  <2>4. Stopping'
    BY <1>1, <2>1, <2>3 DEF ReportInv, Stopping
  <2>5. ASSUME PortsInPlace', ~overlap' PROVE LastRound'
    <3>1. LastRound
      BY <1>1, <2>5, ApartBefore DEF ReportInv, CountersInv, PortsInPlace
    <3> QED BY <1>1, <1>3, <1>4, <2>3, <3>1, LastRoundStays
  <2> QED BY <1>1, <1>2, <2>4, <2>5 DEF ReportInv
<1> QED BY <1>5, <1>6

LEMMA LoadReport ==
  ASSUME CountersInv, CountersInv', ReportInv, devices # << >>, overlap' = (overlap \/ Overlapping'),
         LoadCount
  PROVE  ReportInv'
<1>1. /\ devices' = devices /\ polls' = polls /\ collector' = collector /\ counted' = counted
      /\ parsed_pkt_num' = parsed_pkt_num /\ reported' = reported /\ parser_stop' = parser_stop
      /\ parser.at = "load" /\ UNCHANGED threadVars
  BY DEF LoadCount, threadVars, counterVars
<1>2. ReportCoversRun'
  BY <1>1, ReportStays DEF ReportInv
<1>3. Collected' = Collected
  BY <1>1 DEF Collected
<1>4. parser \in ParserPlaces /\ Round \in Nat
  BY RoundType, Running DEF CountersInv
<1>5. parser'.at \in {"store", "undefined"} /\ parser'.poll = parser.poll /\ parser'.burst = parser.burst
  BY <1>4 DEF LoadCount, ParserPlaces
<1>6. Stopping'
  BY <1>1, <1>5 DEF ReportInv, Stopping
<1>7. ASSUME PortsInPlace', ~overlap' PROVE LastRound'
  <2>1. LastRound
    BY <1>1, <1>7, ApartBefore DEF ReportInv, CountersInv, PortsInPlace
  <2>2. Round' = Round
    BY <1>1, <1>5 DEF Round
  <2> QED BY <1>1, <1>3, <1>4, <2>1, <2>2, LastRoundStays
<1> QED BY <1>1, <1>2, <1>6, <1>7 DEF ReportInv

LEMMA CollectedType ==
  ASSUME StatsTypeOK, devices # << >>
  PROVE  Collected \in SUBSET (1 .. Len(devices))
<1> DEFINE n == Len(devices)
           i == collector["main"].index
<1>1. collector \in [Threads -> CollectorPlaces] /\ n \in Nat /\ "main" \in Threads
  BY Running DEF Threads
<1>2. i \in 1 .. n
  BY <1>1 DEF CollectorPlaces
<1>3. Collected = IF collector["main"].at \in {"barrier", "ended"} THEN 1 .. n ELSE 1 .. i - 1
  BY DEF Collected
<1>4. 1 .. i - 1 \in SUBSET (1 .. n)
  <2> HIDE DEF i, n
  <2> QED BY <1>1, <1>2
<1> QED BY <1>3, <1>4

LEMMA StoreReport ==
  ASSUME CountersInv, CountersInv', ReportInv, devices # << >>, overlap' = (overlap \/ Overlapping'),
         StoreCount
  PROVE  ReportInv'
<1> DEFINE S == 1 .. Len(devices)
<1>1. /\ devices' = devices /\ polls' = polls /\ collector' = collector
      /\ reported' = reported /\ parser_stop' = parser_stop
      /\ parser.at = "store" /\ UNCHANGED threadVars
      /\ parsed_pkt_num' = [parsed_pkt_num EXCEPT ![Slot] = parser.reg + 1]
  BY DEF StoreCount, threadVars, counterVars
<1>2. /\ (parser.poll - 1) * MaxBurst \in Nat
      /\ parser.poll * MaxBurst = ((parser.poll - 1) * MaxBurst) + MaxBurst
      /\ parser \in ParserPlaces /\ Round \in Nat /\ parser.burst \in 0 .. MaxBurst
      /\ parsed_pkt_num \in [S -> Nat]
  BY RoundType, Running DEF CountersInv
<1>3. parser.burst # 0 /\ collector["main"].at # "ended" /\ reported = -1
  BY <1>1 DEF ReportInv, Stopping
<1>4. ReportCoversRun'
  BY <1>1, <1>3 DEF ReportCoversRun
<1>5. Collected' = Collected
  BY <1>1 DEF Collected
<1>6. /\ Round' \in Nat /\ Round + 1 <= Round'
      /\ parser'.at # "store" /\ (parser'.at = "load" => parser'.burst # 0)
  <2> DEFINE base == (parser.poll - 1) * MaxBurst
             next == parser.poll * MaxBurst
             b == parser.burst
  <2>1. Round = base + (MaxBurst - b)
    BY <1>1 DEF Round
  <2>2. base \in Nat /\ next = base + MaxBurst /\ b \in 1 .. MaxBurst
    BY <1>2, <1>3
  <2>3. CASE b > 1
    <3>1. parser' = [parser EXCEPT !.at = "load", !.burst = b - 1, !.reg = 0]
      BY <2>3 DEF StoreCount
    <3>2. parser'.at = "load" /\ parser'.burst = b - 1 /\ parser'.poll = parser.poll
      BY <1>2, <3>1 DEF ParserPlaces
    <3>3. Round' = base + (MaxBurst - (b - 1))
      BY <3>2 DEF Round
    <3>4. Round' \in Nat /\ Round + 1 <= Round' /\ b - 1 # 0
      <4> HIDE DEF base, b
      <4> QED BY <2>1, <2>2, <2>3, <3>3, StatsAssumption
    <3> QED BY <3>2, <3>4
  <2>4. CASE ~(b > 1)
    <3>1. parser' = [NextPoll EXCEPT !.reg = 0]
      BY <2>4 DEF StoreCount
    <3>2. NextPoll \in ParserPlaces /\ NextPoll.at \in {"poll", "round"}
      BY NextPollType DEF CountersInv
    <3>3. parser'.at = NextPoll.at /\ parser'.poll = NextPoll.poll
      BY <3>1, <3>2 DEF ParserPlaces
    <3>4. Round' = next
      BY <1>1, <3>3, NextPollRound DEF CountersInv
    <3>5. Round' \in Nat /\ Round + 1 <= Round'
      <4> HIDE DEF base, b, next
      <4> QED BY <2>1, <2>2, <2>4, <3>4, StatsAssumption
    <3> QED BY <3>2, <3>3, <3>5
  <2> QED BY <2>3, <2>4
<1>7. Stopping'
  BY <1>1, <1>3, <1>6 DEF ReportInv, Stopping
<1>8. ASSUME PortsInPlace', ~overlap' PROVE LastRound'
  <2>1. LastRound /\ Accounted /\ PortsInPlace
    BY <1>1, <1>8, ApartBefore DEF ReportInv, CountersInv, PortsInPlace
  <2>2. Slot \in S
    BY <2>1, SlotOfPort DEF CountersInv
  <2>3. PICK g : Sums(g, parsed_pkt_num, S) /\ g[Collected] \in 0 .. Round
    BY <2>1 DEF LastRound
  <2> DEFINE d == Slot
             C == Collected
             v == parsed_pkt_num[d] + 1
             h == [s \in SUBSET S |-> IF d \in s THEN g[s \ {d}] + v ELSE g[s]]
  <2>4. parsed_pkt_num' = [parsed_pkt_num EXCEPT ![d] = v]
    BY <1>1, <2>1 DEF Accounted
  <2>5. parsed_pkt_num[d] \in Nat /\ v \in Nat /\ C \in SUBSET S
    BY <1>2, <2>2, CollectedType DEF CountersInv
  <2>6. Sums(h, parsed_pkt_num', S)
    <3> HIDE DEF S, d, v
    <3>1. Sums(h, [parsed_pkt_num EXCEPT ![d] = v], S)
      BY <1>2, <2>2, <2>3, <2>5, SumUpdate DEF d
    <3> QED BY <2>4, <3>1
  <2>7. h[C] = g[C] \/ h[C] = g[C] + 1
    <3>1. CASE d \notin C
      BY <2>5, <3>1
    <3>2. CASE d \in C
      <4>1. h[C] = g[C \ {d}] + v
        BY <2>5, <3>2
      <4>2. g[C] = parsed_pkt_num[d] + g[C \ {d}]
        <5> HIDE DEF C, d, S
        <5> QED BY <2>3, <2>5, <3>2, SumStep
      <4>3. g[C \ {d}] \in Nat
        <5> HIDE DEF C, d, S
        <5>1. C \ {d} \in SUBSET S
          BY <2>5
        <5> QED BY <2>3, <5>1 DEF Sums
      <4> DEFINE low == g[C \ {d}]
                 old == parsed_pkt_num[d]
      <4>4. h[C] = low + (old + 1) /\ g[C] = old + low /\ low \in Nat /\ old \in Nat
        BY <2>5, <4>1, <4>2, <4>3
      <4> HIDE DEF low, old, h, C
      <4> QED BY <4>4
    <3> QED BY <3>1, <3>2
  <2>8. h[C] \in 0 .. Round'
    <3>1. g[C] \in 0 .. Round
      BY <2>3
    <3> HIDE DEF h, C
    <3> QED BY <1>2, <1>6, <2>7, <3>1
  <2>9. Sums(h, parsed_pkt_num', 1 .. Len(devices')) /\ h[Collected'] \in 0 .. Round'
    BY <1>1, <1>5, <2>6, <2>8
  <2> QED BY <2>9 DEF LastRound
<1> QED BY <1>1, <1>4, <1>7, <1>8 DEF ReportInv

\* The tracing thread wakes up, stop() begins, a thread loads or stores a sum.
LEMMA WalkReport ==
  ASSUME CountersInv, CountersInv', ReportInv, devices # << >>, overlap' = (overlap \/ Overlapping'),
         WakeTracer \/ Stop \/ OverallPerformance \/ \E c \in Threads : LoadSum(c) \/ StoreSum(c)
  PROVE  ReportInv'
<1>1. /\ devices' = devices /\ polls' = polls /\ counted' = counted
      /\ parsed_pkt_num' = parsed_pkt_num /\ parser' = parser /\ UNCHANGED threadVars
  BY DEF WakeTracer, Stop, OverallPerformance, LoadSum, StoreSum, threadVars, counterVars
<1>2. collector \in [Threads -> CollectorPlaces] /\ {"main", "tracer"} = Threads
  BY Running DEF CountersInv, Threads
<1>3. /\ collector'["main"].index = collector["main"].index
      /\ \/ collector'["main"].at = collector["main"].at /\ parser_stop' = parser_stop
         \/ collector["main"].at = "running" /\ collector'["main"].at = "read" /\ parser_stop'
         \/ /\ collector["main"].at = "barrier" /\ collector'["main"].at = "ended"
            /\ parser.at = "left" /\ parser_stop' = parser_stop
         \/ /\ collector["main"].at = "read" /\ collector'["main"].at = "write"
            /\ parser_stop' = parser_stop
         \/ /\ collector["main"].at = "write" /\ collector'["main"].at = "clear"
            /\ parser_stop' = parser_stop
  <2>1. collector["main"] \in CollectorPlaces
    BY <1>2
  <2>2. CASE WakeTracer
    BY <1>2, <2>1, <2>2 DEF WakeTracer, Goes, CollectorPlaces
  <2>3. CASE Stop
    BY <1>2, <2>1, <2>3 DEF Stop, Goes, CollectorPlaces
  <2>4. CASE OverallPerformance
    BY <1>2, <2>1, <2>4 DEF OverallPerformance, Goes, CollectorPlaces
  <2>5. ASSUME NEW c \in Threads, LoadSum(c)
        PROVE  /\ collector'["main"].index = collector["main"].index
               /\ \/ collector'["main"].at = collector["main"].at /\ parser_stop' = parser_stop
                  \/ collector["main"].at = "running" /\ collector'["main"].at = "read" /\ parser_stop'
                  \/ /\ collector["main"].at = "barrier" /\ collector'["main"].at = "ended"
                     /\ parser.at = "left" /\ parser_stop' = parser_stop
                  \/ /\ collector["main"].at = "read" /\ collector'["main"].at = "write"
                     /\ parser_stop' = parser_stop
                  \/ /\ collector["main"].at = "write" /\ collector'["main"].at = "clear"
                     /\ parser_stop' = parser_stop
    BY <1>2, <2>1, <2>5 DEF LoadSum, Goes, CollectorPlaces
  <2>6. ASSUME NEW c \in Threads, StoreSum(c)
        PROVE  /\ collector'["main"].index = collector["main"].index
               /\ \/ collector'["main"].at = collector["main"].at /\ parser_stop' = parser_stop
                  \/ collector["main"].at = "running" /\ collector'["main"].at = "read" /\ parser_stop'
                  \/ /\ collector["main"].at = "barrier" /\ collector'["main"].at = "ended"
                     /\ parser.at = "left" /\ parser_stop' = parser_stop
                  \/ /\ collector["main"].at = "read" /\ collector'["main"].at = "write"
                     /\ parser_stop' = parser_stop
                  \/ /\ collector["main"].at = "write" /\ collector'["main"].at = "clear"
                     /\ parser_stop' = parser_stop
    BY <1>2, <2>1, <2>6 DEF StoreSum, Goes, CollectorPlaces
  <2> QED BY <2>2, <2>3, <2>4, <2>5, <2>6
<1>4. Collected' = Collected
  BY <1>1, <1>3 DEF Collected
<1>5. ASSUME PortsInPlace', ~overlap' PROVE LastRound'
  <2>1. LastRound
    BY <1>1, <1>5, ApartBefore DEF ReportInv, CountersInv, PortsInPlace
  <2>2. Round' = Round /\ Round \in Nat
    BY <1>1, RoundType DEF Round, CountersInv
  <2> QED BY <1>1, <1>4, <2>1, <2>2, LastRoundStays
<1>6. CASE reported' = reported
  <2>1. ReportCoversRun'
    BY <1>1, <1>6, ReportStays DEF ReportInv
  <2>2. Stopping'
    BY <1>1, <1>3, <1>6 DEF ReportInv, Stopping
  <2> QED BY <1>1, <1>5, <2>1, <2>2 DEF ReportInv
<1>7. CASE OverallPerformance
  <2>1. /\ collector["main"].at = "barrier" /\ parser.at = "left" /\ collector'["main"].at = "ended"
        /\ reported' = Total(sum_parsed_pkt_num)
    <3>1. /\ collector["main"].at = "barrier" /\ parser.at = "left"
          /\ Goes("main", [collector["main"] EXCEPT !.at = "ended"])
      BY <1>7, Zenon DEF OverallPerformance
    <3>2. reported' = Total(sum_parsed_pkt_num)
      BY <1>7, Zenon DEF OverallPerformance, Total
    <3>3. collector["main"] \in CollectorPlaces
      BY <1>2
    <3>4. collector'["main"].at = "ended"
      BY <1>2, <3>1, <3>3 DEF Goes, CollectorPlaces
    <3> QED BY <3>1, <3>2, <3>4
  <2>2. Stopping'
    BY <1>1, <1>3, <2>1 DEF ReportInv, Stopping
  <2>3. ASSUME PortsInPlace', ~overlap' PROVE Packets' - reported' \in 0 .. Len(polls') * MaxBurst
    <3> DEFINE n == Len(devices)
               all == Len(polls) * MaxBurst
    <3>1. LastRound /\ Accounted /\ PortsInPlace
      BY <1>1, <2>3, ApartBefore DEF ReportInv, CountersInv, PortsInPlace
    <3>2. Collected = 1 .. n /\ Round = all
      BY <2>1 DEF Collected, Round
    <3>3. PICK g : Sums(g, parsed_pkt_num, 1 .. n) /\ g[Collected] \in 0 .. Round
      BY <3>1 DEF LastRound
    <3>4. /\ parsed_pkt_num \in [1 .. n -> Nat] /\ sum_parsed_pkt_num \in [1 .. n -> Nat]
          /\ counted \in [Range(devices) -> Nat] /\ n \in Nat /\ DOMAIN devices = 1 .. n
      BY Running DEF CountersInv
    <3>5. Range(devices) = 0 .. n - 1
      <4>1. Range(devices) = {d - 1 : d \in 1 .. n}
        BY <3>1, <3>4 DEF PortsInPlace, Range
      <4> HIDE DEF n
      <4>2. \A z \in 0 .. n - 1 : z + 1 \in 1 .. n /\ (z + 1) - 1 = z
        BY <3>4
      <4>3. \A d \in 1 .. n : d - 1 \in 0 .. n - 1
        BY <3>4
      <4>4. {d - 1 : d \in 1 .. n} = 0 .. n - 1
        BY <4>2, <4>3
      <4> QED BY <4>1, <4>4
    <3>6. \A d \in 1 .. n : \/ counted[d - 1] = sum_parsed_pkt_num[d]
                            \/ counted[d - 1] = sum_parsed_pkt_num[d] + parsed_pkt_num[d]
      <4> SUFFICES ASSUME NEW d \in 1 .. n
                   PROVE  \/ counted[d - 1] = sum_parsed_pkt_num[d]
                          \/ counted[d - 1] = sum_parsed_pkt_num[d] + parsed_pkt_num[d]
        OBVIOUS
      <4>1. devices[d] = d - 1
        BY <3>1, <3>4 DEF PortsInPlace
      <4>2. counted[devices[d]] =
              sum_parsed_pkt_num[d] + IF ClearedNext(d) THEN 0 ELSE parsed_pkt_num[d]
        BY <3>1, <3>4 DEF Accounted
      <4>3. sum_parsed_pkt_num[d] \in Nat
        BY <3>4
      <4> QED BY <4>1, <4>2, <4>3
    <3> HIDE DEF n, all
    <3>7. Total(counted) - Total(sum_parsed_pkt_num) \in 0 .. g[1 .. n]
      BY <3>3, <3>4, <3>5, <3>6, SumBetween
    <3>8. g[1 .. n] \in 0 .. all
      BY <3>2, <3>3
    <3>9. Round \in Nat
      BY RoundType DEF CountersInv
    <3>10. Packets' = Total(counted)
      BY <1>1 DEF Packets, Total, FoldFunction, FoldFunctionOnSet, MapThenFoldSet
    <3>11. Total(counted) - Total(sum_parsed_pkt_num) \in 0 .. all
      BY <3>2, <3>7, <3>8, <3>9
    <3> QED BY <1>1, <2>1, <3>10, <3>11 DEF all
  <2>4. ReportCoversRun'
    BY <2>3 DEF ReportCoversRun
  <2> QED BY <1>1, <1>5, <2>2, <2>4 DEF ReportInv
<1>8. reported' = reported \/ OverallPerformance
  BY DEF WakeTracer, Stop, LoadSum, StoreSum
<1> QED BY <1>6, <1>7, <1>8

LEMMA ClearReport ==
  ASSUME CountersInv, CountersInv', ReportInv, devices # << >>, overlap' = (overlap \/ Overlapping'),
         NEW c \in Threads, Clear(c)
  PROVE  ReportInv'
<1> DEFINE n == Len(devices)
           S == 1 .. n
           d == collector[c].index
           stopper == collector["main"]
<1>1. /\ devices' = devices /\ polls' = polls /\ counted' = counted /\ parser' = parser
      /\ reported' = reported /\ parser_stop' = parser_stop /\ UNCHANGED threadVars
      /\ parsed_pkt_num' = [parsed_pkt_num EXCEPT ![d] = 0]
      /\ collector' = [collector EXCEPT ![c] = AfterClear(c)] /\ collector[c].at = "clear"
  BY DEF Clear, Goes, threadVars, counterVars
<1>2. /\ collector \in [Threads -> CollectorPlaces] /\ {"main", "tracer"} = Threads
      /\ parsed_pkt_num \in [S -> Nat] /\ n \in Nat \ {0} /\ Round \in Nat
  BY Running, RoundType DEF CountersInv, Threads
<1>3. collector[c] \in CollectorPlaces /\ d \in S /\ stopper \in CollectorPlaces
  BY <1>2 DEF CollectorPlaces
<1>4. ReportCoversRun'
  BY <1>1, ReportStays DEF ReportInv
<1>5. CASE c # "main"
  <2>1. collector'["main"] = collector["main"]
    BY <1>1, <1>2, <1>5
  <2>2. Collected' = Collected /\ Round' = Round
    BY <1>1, <2>1 DEF Collected, Round
  <2>3. Stopping'
    BY <1>1, <2>1 DEF ReportInv, Stopping
  <2>4. ASSUME PortsInPlace', ~overlap' PROVE LastRound'
    <3>1. LastRound
      BY <1>1, <2>4, ApartBefore DEF ReportInv, CountersInv, PortsInPlace
    <3>2. PICK g : Sums(g, parsed_pkt_num, S) /\ g[Collected] \in 0 .. Round
      BY <3>1 DEF LastRound
    <3> DEFINE C == Collected
               h == [s \in SUBSET S |-> IF d \in s THEN g[s \ {d}] + 0 ELSE g[s]]
    <3>3. C \in SUBSET S
      BY CollectedType DEF CountersInv
    <3>4. Sums(h, parsed_pkt_num', S)
      <4> DEFINE v == 0
      <4>1. v \in Nat /\ parsed_pkt_num' = [parsed_pkt_num EXCEPT ![d] = v]
        BY <1>1
      <4> HIDE DEF S, d, v
      <4>2. Sums([s \in SUBSET S |-> IF d \in s THEN g[s \ {d}] + v ELSE g[s]],
                 [parsed_pkt_num EXCEPT ![d] = v], S)
        BY <1>2, <1>3, <3>2, <4>1, SumUpdate
      <4> QED BY <4>1, <4>2 DEF v
    <3>5. h[C] \in 0 .. Round
      <4>1. CASE d \notin C
        BY <3>2, <3>3, <4>1
      <4>2. CASE d \in C
        <5> DEFINE low == g[C \ {d}]
                   old == parsed_pkt_num[d]
        <5>1. h[C] = low + 0
          BY <3>3, <4>2
        <5>2. g[C] = old + low
          <6> HIDE DEF C, d, S
          <6> QED BY <3>2, <3>3, <4>2, SumStep
        <5>3. low \in Nat
          <6> HIDE DEF C, d, S
          <6>1. C \ {d} \in SUBSET S
            BY <3>3
          <6> QED BY <3>2, <6>1 DEF Sums
        <5>4. old \in Nat /\ g[C] \in 0 .. Round
          BY <1>2, <1>3, <3>2
        <5> HIDE DEF low, old, h, C
        <5> QED BY <1>2, <5>1, <5>2, <5>3, <5>4
      <4> QED BY <4>1, <4>2
    <3> HIDE DEF h
    <3>6. Sums(h, parsed_pkt_num', 1 .. Len(devices')) /\ h[Collected'] \in 0 .. Round'
      BY <1>1, <2>2, <3>4, <3>5
    <3> QED BY <3>6 DEF LastRound
  <2> QED BY <1>1, <1>4, <2>3, <2>4 DEF ReportInv
<1>6. CASE c = "main"
  <2>1. stopper.at = "clear" /\ stopper.index = d /\ collector'["main"] = AfterClear("main")
    BY <1>1, <1>2, <1>6
  <2>2. Collected = 1 .. d - 1
    BY <2>1 DEF Collected
  <2>3. /\ Collected' = 1 .. d
        /\ collector'["main"].at \in {"read", "barrier"}
    <3>1. CASE d < n
      <4>1. AfterClear("main") = [stopper EXCEPT !.at = "read", !.index = d + 1]
        BY <2>1, <3>1 DEF AfterClear
      <4>2. collector'["main"].at = "read" /\ collector'["main"].index = d + 1
        BY <1>3, <2>1, <4>1 DEF CollectorPlaces
      <4>3. Collected' = 1 .. (d + 1) - 1
        BY <4>2 DEF Collected
      <4>4. (d + 1) - 1 = d
        <5> HIDE DEF d, n
        <5> QED BY <1>2, <1>3
      <4> QED BY <4>2, <4>3, <4>4
    <3>2. CASE ~(d < n)
      <4>1. AfterClear("main") = [stopper EXCEPT !.at = "barrier", !.index = 1]
        BY <2>1, <3>2 DEF AfterClear
      <4>2. collector'["main"].at = "barrier"
        BY <1>3, <2>1, <4>1 DEF CollectorPlaces
      <4>3. Collected' = 1 .. n
        BY <1>1, <4>2 DEF Collected
      <4>4. d = n
        <5> HIDE DEF d, n
        <5> QED BY <1>2, <1>3, <3>2
      <4> QED BY <4>2, <4>3, <4>4
    <3> QED BY <3>1, <3>2
  <2>4. Stopping'
    BY <1>1, <2>1, <2>3 DEF ReportInv, Stopping
  <2>5. ASSUME PortsInPlace', ~overlap' PROVE LastRound'
    <3>1. LastRound
      BY <1>1, <2>5, ApartBefore DEF ReportInv, CountersInv, PortsInPlace
    <3>2. PICK g : Sums(g, parsed_pkt_num, S) /\ g[Collected] \in 0 .. Round
      BY <3>1 DEF LastRound
    <3> DEFINE C == 1 .. d
               low == 1 .. d - 1
               h == [s \in SUBSET S |-> IF d \in s THEN g[s \ {d}] + 0 ELSE g[s]]
    <3>3. C \in SUBSET S /\ d \in C /\ C \ {d} = low
      BY <1>2, <1>3
    <3>4. Sums(h, parsed_pkt_num', S)
      <4> DEFINE v == 0
      <4>1. v \in Nat /\ parsed_pkt_num' = [parsed_pkt_num EXCEPT ![d] = v]
        BY <1>1
      <4> HIDE DEF S, d, v
      <4>2. Sums([s \in SUBSET S |-> IF d \in s THEN g[s \ {d}] + v ELSE g[s]],
                 [parsed_pkt_num EXCEPT ![d] = v], S)
        BY <1>2, <1>3, <3>2, <4>1, SumUpdate
      <4> QED BY <4>1, <4>2 DEF v
    <3>5. h[C] = g[low] + 0
      BY <3>3
    <3>6. g[low] \in 0 .. Round
      BY <2>2, <3>2
    <3>7. Round' = Round
      BY <1>1 DEF Round
    <3>8. h[C] \in 0 .. Round'
      <4> HIDE DEF h, C, low
      <4> QED BY <1>2, <3>5, <3>6, <3>7
    <3> HIDE DEF h
    <3>9. Sums(h, parsed_pkt_num', 1 .. Len(devices')) /\ h[Collected'] \in 0 .. Round'
      BY <1>1, <2>3, <3>4, <3>8
    <3> QED BY <3>9 DEF LastRound
  <2> QED BY <1>1, <1>4, <2>4, <2>5 DEF ReportInv
<1> QED BY <1>5, <1>6

\* The parser starts with nothing to miss.
LEMMA RunReport ==
  ASSUME SetupInv, CountersInv, CountersInv', ReportInv, NEW k \in DOMAIN nic_queue_list, Run(k)
  PROVE  ReportInv'
<1>1. /\ devices = << >> /\ parser' = [parser EXCEPT !.at = "round"]
      /\ collector' = [tracer |-> [collector["tracer"] EXCEPT !.at = "sleeping"],
                       main |-> [collector["main"] EXCEPT !.at = "running"]]
      /\ parsed_pkt_num' = [d \in DOMAIN devices' |-> 0] /\ reported' = reported
  BY DEF Run
<1>2. devices' # << >> /\ devices' \in Seq(Nat)
  BY RunType
<1>3. /\ parser = [at |-> "idle", poll |-> 1, burst |-> 0, reg |-> 0]
      /\ collector = [c \in Threads |-> [at |-> "idle", index |-> 1, reg |-> 0]]
      /\ reported = -1
  BY <1>1 DEF CountersInv, StatsTypeOK
<1>4. /\ parser'.at = "round" /\ collector'["main"].at = "running"
      /\ collector'["main"].index = 1 /\ reported' = -1
  BY <1>1, <1>3 DEF Threads
<1>5. Stopping'
  BY <1>4 DEF Stopping
<1>6. ReportCoversRun'
  BY <1>4 DEF ReportCoversRun
<1>7. LastRound'
  <2> DEFINE S == 1 .. Len(devices')
             g == [s \in SUBSET S |-> 0]
  <2>1. Sums(g, parsed_pkt_num', S)
    <3>1. DOMAIN devices' = S
      BY <1>2
    <3>2. \A x \in S : parsed_pkt_num'[x] = 0
      BY <1>1, <3>1
    <3> HIDE DEF S
    <3> QED BY <3>2 DEF Sums
  <2>2. Collected' = {}
    BY <1>4 DEF Collected
  <2>3. Round' \in Nat
    <3>1. Round' = Len(polls') * MaxBurst
      BY <1>4 DEF Round
    <3>2. Len(polls') \in Nat
      BY RunType
    <3> QED BY <3>1, <3>2, ProductGrows, StatsAssumption
  <2>4. g[Collected'] \in 0 .. Round'
    BY <2>2, <2>3
  <2> HIDE DEF g
  <2> QED BY <2>1, <2>4 DEF LastRound
<1> QED BY <1>5, <1>6, <1>7 DEF ReportInv

LEMMA StepReportInv ==
  SetupInv /\ CountersInv /\ CountersInv' /\ ReportInv /\ [StatsNext]_allVars => ReportInv'
<1> SUFFICES ASSUME SetupInv, CountersInv, CountersInv', ReportInv, [StatsNext]_allVars PROVE ReportInv'
  OBVIOUS
<1>1. CASE UNCHANGED statsVars
  <2>1. UNCHANGED <<devices, polls, parser, collector, parser_stop, parsed_pkt_num, counted, overlap,
                    reported>>
    BY <1>1 DEF statsVars, threadVars, counterVars
  <2>2. Packets' = Packets
    BY <2>1 DEF Packets, FoldFunction, FoldFunctionOnSet, MapThenFoldSet
  <2>3. Stopping'
    BY <2>1 DEF ReportInv, Stopping
  <2>4. ReportCoversRun'
    BY <2>1, <2>2 DEF ReportInv, ReportCoversRun, PortsInPlace
  <2>5. Collected' = Collected /\ Round' = Round /\ PortsInPlace' = PortsInPlace
    BY <2>1 DEF Collected, Round, PortsInPlace
  <2>6. LastRound => LastRound'
    BY <2>1, <2>5 DEF LastRound
  <2> QED BY <2>1, <2>3, <2>4, <2>5, <2>6 DEF ReportInv
<1>2. CASE StatsStep /\ overlap' = (overlap \/ Overlapping')
  <2>1. ASSUME NEW k \in DOMAIN nic_queue_list, Run(k) PROVE ReportInv'
    BY <2>1, RunReport
  <2>2. CASE devices # << >> /\ (ParserStep \/ WakeTracer \/ Stop \/ OverallPerformance)
    BY <1>2, <2>2, PollReport, LoadReport, StoreReport, WalkReport DEF ParserStep
  <2>3. ASSUME NEW c \in {"tracer", "main"}, Collect(c) PROVE ReportInv'
    <3>1. c \in Threads
      BY DEF Threads
    <3>2. collector[c].at # "idle"
      BY <2>3 DEF Collect, LoadSum, StoreSum, Clear
    <3>3. devices # << >>
      BY <3>1, <3>2 DEF CountersInv, StatsTypeOK
    <3> QED BY <1>2, <2>3, <3>1, <3>3, WalkReport, ClearReport DEF Collect
  <2> QED BY <1>2, <2>1, <2>2, <2>3 DEF StatsStep
<1>3. [StatsNext]_allVars => UNCHANGED statsVars \/ (StatsStep /\ overlap' = (overlap \/ Overlapping'))
  BY DEF StatsNext, allVars
<1> QED BY <1>1, <1>2, <1>3

\* get_overall_performance: whatever the tracing thread still does, what is printed
\* misses at most what the parser received after stop() had been at its counters.
THEOREM ReportBounded == StatsSpec => []ReportCoversRun
<1>1. ReportInv => ReportCoversRun
  BY DEF ReportInv
<1> QED BY <1>1, InitReportInv, StepReportInv, CountersInvariant, SetupInvariant, PTL DEF StatsSpec
=============================================================================
