------------------------------- MODULE Setup -------------------------------
(***************************************************************************)
(* From the configuration file to running threads: configure_via_json and  *)
(* do_init of DeviceConfig, on the main thread.  The configuration is      *)
(* checked, the NIC opened, its queues are handed out, one parser, pool,   *)
(* analyzer and buffer are created and bound per pipeline, and every       *)
(* worker is launched on a core.  What is launched where is only implied:  *)
(* PcapPlusPlus takes the cores as a bit mask and the workers as a vector  *)
(* and pairs them in ascending order of the cores.                         *)
(***************************************************************************)
EXTENDS NicQueues, FiniteSets, Functions, SequencesExt

CONSTANTS Json,          \* the configuration files
          MaxCores,      \* MAX_NUM_OF_CORES
          Nic            \* port -> [rx, tx]: the queues it supports

VARIABLES json,
          p_configure_param,
          setup,            \* how far do_init is
          nic_queue_list,   \* parser -> its queues
          thread_vec,       \* role -> the workers created, with what they are bound to
          worker            \* core -> the worker launched on it

setupVars == <<json, p_configure_param, setup, nic_queue_list, thread_vec, worker>>

Roles == {"analyzer", "buffer", "parser", "pool"}
Sections == {"Analyzer", "Buffer", "Parser", "Pool"}

\* DeviceConfigParam: what the file need not say.  The lists of cores and the
\* master core it must give, their defaults are never used.
Default ==
  [number_rx_queue |-> 8, number_tx_queue |-> 8, core_num |-> 33, dpdk_port_vec |-> << >>]
DefaultCores == [r \in Roles |-> 8]

\* What the file says, and the defaults for what it does not say.
Filled(said, default) ==
  [x \in DOMAIN said \union DOMAIN default |-> IF x \in DOMAIN said THEN said[x] ELSE default[x]]

\* Every number in the file is read into an unsigned type, every list is one of
\* such numbers.
ASSUME JsonAssumption ==
  \A f \in Json :
    /\ \A r \in DOMAIN f.core_num_for : f.core_num_for[r] \in Nat
    /\ \A r \in DOMAIN f.core_list : f.core_list[r] \in Seq(Nat)
    /\ DOMAIN f.dpdk \subseteq DOMAIN Default \union {"master_core"}
    /\ \A x \in DOMAIN f.dpdk \ {"dpdk_port_vec"} : f.dpdk[x] \in Nat
    /\ "dpdk_port_vec" \in DOMAIN f.dpdk => f.dpdk["dpdk_port_vec"] \in Seq(Nat)

Nobody == [c \in {} |-> 0]

InitSetup ==
  /\ json \in Json
  /\ p_configure_param = << >> /\ setup = "read"
  /\ nic_queue_list = << >> /\ thread_vec = Nobody /\ worker = Nobody

\* configure_via_json: without the DPDK entry or one of the lists main returns.
Configure ==
  /\ setup = "read"
  /\ IF Roles \subseteq DOMAIN json.core_list /\ "master_core" \in DOMAIN json.dpdk
     THEN /\ p_configure_param' =
               Filled(json.dpdk, Filled([core_num_for |-> Filled(json.core_num_for, DefaultCores),
                                 core_list |-> json.core_list], Default))
          /\ setup' = "configured"
     ELSE setup' = "unconfigured" /\ UNCHANGED p_configure_param
  /\ UNCHANGED <<json, nic_queue_list, thread_vec, worker>>
-----------------------------------------------------------------------------
Param == p_configure_param

\* The cores in the order in which they are looked at.
AllCores ==
  <<Param.master_core>> \o Param.core_list["analyzer"] \o Param.core_list["buffer"]
    \o Param.core_list["parser"] \o Param.core_list["pool"]

CoresDistinct ==
  /\ \A i \in DOMAIN AllCores : AllCores[i] < MaxCores
  /\ IsInjective(AllCores)

\* Mutant: a parser for every analyzer, but not a pool and a buffer.
BalancedAnalyzers == Param.core_num_for["analyzer"] = Param.core_num_for["parser"]

Balanced == \A r \in Roles : Param.core_num_for[r] = Param.core_num_for["parser"]

ListsComplete ==
  /\ \A r \in Roles : Len(Param.core_list[r]) = Param.core_num_for[r]
  /\ Param.core_num_for["analyzer"] + Param.core_num_for["buffer"]
       + Param.core_num_for["parser"] + Param.core_num_for["pool"] + 1 = Param.core_num

\* _f_check_device_configure_param
Check ==
  /\ setup = "configured"
  /\ setup' = IF /\ Param.dpdk_port_vec # << >>
                 /\ CoresDistinct /\ Balanced /\ ListsComplete
                 /\ Param.core_num_for["buffer"] <= Param.number_tx_queue
              THEN "checked" ELSE "fatal"
  /\ UNCHANGED <<json, p_configure_param, nic_queue_list, thread_vec, worker>>

\* configure_dpdk_nic: the port exists and supports the queues; a port that is
\* listed twice cannot be opened again.
OpenNic ==
  LET ports == Param.dpdk_port_vec IN
  /\ setup = "checked"
  /\ setup' = IF /\ IsInjective(ports)
                 /\ \A i \in DOMAIN ports :
                      /\ ports[i] \in DOMAIN Nic
                      /\ Nic[ports[i]].rx >= Param.number_rx_queue
                      /\ Nic[ports[i]].tx >= Param.number_tx_queue
              THEN "opened" ELSE "fatal"
  /\ UNCHANGED <<json, p_configure_param, nic_queue_list, thread_vec, worker>>

\* No pipeline at all is a balanced configuration: the queues are then divided by
\* the zero parsers there are, which ends the process.
AssignQueues ==
  /\ setup = "opened"
  /\ IF Param.core_num_for["parser"] = 0 THEN setup' = "crashed" /\ UNCHANGED nic_queue_list
     ELSE /\ nic_queue_list' =
               Assignment(Param.dpdk_port_vec, Param.number_rx_queue, Param.core_num_for["parser"])
          /\ setup' = "assigned"
  /\ UNCHANGED <<json, p_configure_param, thread_vec, worker>>

\* vec[i], or whatever lies behind the end of vec.
At(vec, i) == IF i <= Len(vec) THEN i ELSE 0

\* create_worker_threads; with DISP_PARAM and verbose (the default) the
\* configuration of the first worker of each kind is printed, of which there is
\* none if its section is missing: the null pointer ends the process.
CreateWorkers ==
  LET Create(r, bound(_)) == [i \in 1 .. Param.core_num_for[r] |-> [role |-> r, bound |-> bound(i)]]
      Own(i) == <<i>>
      parsers == Create("parser", Own)
      OfParser(i) == <<At(parsers, i)>>
      pools == Create("pool", OfParser)
      OfPool(i) == <<At(pools, i)>>
      analyzers == Create("analyzer", OfPool)
      OfBoth(i) == <<At(parsers, i), At(analyzers, i)>>
  IN
  /\ setup = "assigned"
  /\ thread_vec' = [r \in Roles |-> CASE r = "parser" -> parsers
                                      [] r = "pool" -> pools
                                      [] r = "analyzer" -> analyzers
                                      [] r = "buffer" -> Create("buffer", OfBoth)]
  /\ setup' = IF json.sections = Sections THEN "created" ELSE "crashed"
  /\ UNCHANGED <<json, p_configure_param, nic_queue_list, worker>>
-----------------------------------------------------------------------------
Mask(r) == Range(Param.core_list[r])

\* *_core_to_id[core]: an index into core_list_for_*, the last one if there are
\* several, and garbage (0) for a core that none of the first core_num_for_* is.
core_to_id(r, core) ==
  LET at == {i \in 1 .. Param.core_num_for[r] : Param.core_list[r][i] = core}
  IN IF at = {} THEN 0 ELSE CHOOSE i \in at : \A j \in at : j <= i

Ascending(cores) ==
  [k \in 1 .. Cardinality(cores) |->
     CHOOSE c \in cores : Cardinality({d \in cores : d < c}) = k - 1]

\* Mutant: the workers are listed role by role and not core by core.
ThreadsByRole ==
  LET Threads(r) == [i \in DOMAIN thread_vec[r] |-> <<r, i>>]
  IN Threads("analyzer") \o Threads("buffer") \o Threads("parser") \o Threads("pool")

\* The loop over cores 0 to 63 that fills _thread_vec_all.
thread_vec_all ==
  LET used == Ascending(UNION {Mask(r) : r \in Roles})
      RoleOf(core) == CHOOSE r \in Roles : core \in Mask(r)
  IN [k \in DOMAIN used |-> <<RoleOf(used[k]), core_to_id(RoleOf(used[k]), used[k])>>]

\* startDpdkWorkerThreads, without the master core.
Launch ==
  LET cores == Ascending(Range(AllCores) \ {Param.master_core}) IN
  /\ setup = "created"
  /\ IF Len(thread_vec_all) = Len(cores)
     THEN /\ worker' = [c \in Range(cores) |->
                          thread_vec_all[CHOOSE k \in DOMAIN cores : cores[k] = c]]
          /\ setup' = "launched"
     ELSE setup' = "fatal" /\ UNCHANGED worker
  /\ UNCHANGED <<json, p_configure_param, nic_queue_list, thread_vec>>

SetupStep == Configure \/ Check \/ OpenNic \/ AssignQueues \/ CreateWorkers \/ Launch
-----------------------------------------------------------------------------
SetupTypeOK ==
  /\ json \in Json
  /\ setup \in {"read", "unconfigured", "configured", "checked", "opened", "assigned",
                "created", "launched", "fatal", "crashed"}
  /\ \A k \in DOMAIN nic_queue_list : nic_queue_list[k] \in Seq(Nat \X Nat)
  /\ Range(worker) \subseteq Roles \X Nat

\* The i-th core of each list runs the i-th worker of that kind: the configured
\* placement survives masks, sorting and the arrays from cores to indices.
PlacedAsConfigured ==
  setup = "launched" =>
    /\ Param.master_core \notin DOMAIN worker
    /\ \A r \in Roles : \A i \in DOMAIN Param.core_list[r] :
         worker[Param.core_list[r][i]] = <<r, i>>

\* The workers of one number are bound to each other: no ring has a second
\* producer or consumer, no pointer is taken from behind the end of a vector, and
\* each buffer sends on a queue of its own that the NIC has.
PipelinesComplete ==
  thread_vec # Nobody =>
    LET n == Len(thread_vec["parser"]) IN
    /\ \A r \in Roles : Len(thread_vec[r]) = n
    /\ \A r \in Roles : \A i \in 1 .. n : Range(thread_vec[r][i].bound) = {i}
    /\ n <= Param.number_tx_queue

\* Every queue of every port is polled, and by one thread: rte_eth_rx_burst takes
\* no lock, and what hashes to a queue nobody polls is never seen.
QueuesPolledOnce ==
  nic_queue_list # << >> =>
    LET queues == Range(Param.dpdk_port_vec) \X (0 .. Param.number_rx_queue - 1) IN
    /\ \A k \in DOMAIN nic_queue_list : Range(nic_queue_list[k]) \subseteq queues
    /\ \A q \in queues : \E k \in DOMAIN nic_queue_list : q \in Range(nic_queue_list[k])
    /\ \A k, l \in DOMAIN nic_queue_list :
         \A i \in DOMAIN nic_queue_list[k], j \in DOMAIN nic_queue_list[l] :
           nic_queue_list[k][i] = nic_queue_list[l][j] => k = l /\ i = j
=============================================================================
