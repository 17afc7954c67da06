----------------------------- MODULE MconfigChain ----------------------------
(***************************************************************************)
(* The chain of network configuration (components/mconfig/mconfig_chain.c, *)
(* mconfig_queue.c and the peers of components/mespnow/mespnow.c): a       *)
(* device that has the configuration shows it in its beacons, and passes   *)
(* it over ESP-NOW to the devices that ask and are on its whitelist; these *)
(* do the same.  A reply is two packets, the configuration with a new key  *)
(* and the whitelist encrypted with that key.                              *)
(*                                                                         *)
(* Every node has three tasks: the app, the slave that asks and the master *)
(* that answers.  A configuration is abstracted to its number (gen).       *)
(* ESP-NOW loses packets or their acknowledgements; an encrypted packet    *)
(* for a node without the key of the sender is acknowledged and dropped.   *)
(***************************************************************************)
EXTENDS Naturals, FiniteSets, Sequences

CONSTANTS
  Nodes, First, \* First has configuration 1 from the start
  Hears,        \* the nodes each node is near
  Gens,         \* the numbers of the configurations
  Listed,       \* the whitelist of each configuration
  Open,         \* those whose whitelist begins with the address ANY
  Keys,         \* enough numbers for the keys in use at one time
  Retry,        \* MCONFIG_CHAIN_SEND_RETRY_NUM
  Budgets       \* how the nodes are built, which take part, and what may
                \* happen: packets lost, waits that end too early, durations
                \* that expire, calls with a new configuration, configurations
                \* from BLUFI, and which these are

ASSUME MconfigChainAssumption ==
  /\ First \in Nodes /\ Hears \in [Nodes -> SUBSET Nodes]
  /\ Gens \subseteq Nat \ {0} /\ 1 \in Gens
  /\ Listed \in [Gens -> SUBSET Nodes] /\ Open \subseteq Gens
  /\ Keys \subseteq Nat /\ Retry \in Nat \ {0}
  /\ \A plan \in Budgets : "whitelist" \in DOMAIN plan

VARIABLES
  app,         \* where the app of each node stands
  config,      \* the configuration it has read, if any
  queue,       \* g_mconfig_queue
  slave,       \* where mconfig_chain_slave_task() stands, and its variables
  slave_flag,  \* g_chain_slave_flag
  slave_sem,   \* g_chain_slave_exit_sem: "none", "empty" or "given"
  master,      \* where mconfig_chain_master_task() stands, and its variables
  ending,      \* an earlier master task is at its end, line 292
  ticks,       \* g_chain_master_duration_ticks is not 0
  master_sem,  \* g_chain_master_exit_sem
  ie,          \* the beacons of the node carry the vendor element
  seen,        \* g_mconfig_scan_queue
  peers,       \* the ESP-NOW peers: "none", "plain" or "keyed"
  pipe,        \* the packets of MESPNOW_TRANS_PIPE_MCONFIG that were received
  budget

appVars    == <<app, config, queue>>
slaveVars  == <<slave, slave_flag, slave_sem, seen>>
masterVars == <<master, ending, ticks, master_sem, ie>>
radioVars  == <<peers, pipe, budget>>
vars       == <<appVars, slaveVars, masterVars, radioVars>>

NoKey    == 0
Packet   == [kind : {"request", "config", "list"}, from : Nodes, key : Keys \cup {NoKey},
             gen : {0} \cup Gens]
Config   == [gen : Gens, whole : BOOLEAN]
NoSlave  == [pc |-> "off", dest |-> First, key |-> NoKey, gen |-> 0, tries |-> 0, whole |-> FALSE]
NoMaster == [pc |-> "off", to |-> First, key |-> NoKey, gen |-> 0, tries |-> 0]

Init ==
  /\ app = [n \in Nodes |-> IF n = First THEN "master" ELSE "init"]
  /\ config = [n \in Nodes |-> IF n = First THEN {[gen |-> 1, whole |-> TRUE]} ELSE {}]
  /\ queue = [n \in Nodes |-> {}]
  /\ slave = [n \in Nodes |-> NoSlave]
  /\ slave_flag = [n \in Nodes |-> FALSE] /\ slave_sem = [n \in Nodes |-> "none"]
  /\ master = [n \in Nodes |-> NoMaster] /\ ending = [n \in Nodes |-> FALSE]
  /\ ticks = [n \in Nodes |-> FALSE] /\ master_sem = [n \in Nodes |-> "none"]
  /\ ie = [n \in Nodes |-> FALSE] /\ seen = [n \in Nodes |-> {}]
  /\ peers = [n \in Nodes |-> [m \in Nodes |-> "none"]]
  /\ pipe = [n \in Nodes |-> <<>>]
  /\ budget \in Budgets

Spend(what) ==
  /\ budget[what] > 0
  /\ budget' = [budget EXCEPT ![what] = @ - 1]

(* CONFIG_MCONFIG_WHITELIST_ENABLE, which no step changes.                 *)
WhitelistEnable == budget.whitelist

-----------------------------------------------------------------------------
(* ESP-NOW                                                                 *)

(* mespnow_add_peer(): a peer that is there already is deleted.            *)
Added(table, m, how) ==
  [table EXCEPT ![m] = IF @ = "none" THEN how ELSE "none"]
DeletedNot(table, m) == table                                     \* mutant
Deleted(table, m) == [table EXCEPT ![m] = "none"]

(* mespnow_write() from m to n, a peer.                                    *)
Sends(m, n, packet, ok) ==
  LET received == [pipe EXCEPT ![n] = Append(@, packet)]
      readable == packet.kind = "request" \/ peers[n][m] = "keyed"
  IN  \/ ok /\ pipe' = (IF readable THEN received ELSE pipe) /\ UNCHANGED budget
      \/ ~ok /\ Spend("lost") /\ pipe' \in {pipe} \cup (IF readable THEN {received} ELSE {})

Take(n) == pipe' = [pipe EXCEPT ![n] = Tail(@)]

-----------------------------------------------------------------------------
(* The slave: mconfig_chain_slave_task()                                   *)
SlaveAt(n, pc) ==
  /\ slave[n].pc = pc
  /\ UNCHANGED <<app, config, slave_flag, masterVars>>
ToScan(n) == slave' = [slave EXCEPT ![n] = [NoSlave EXCEPT !.pc = "scan"]]

(* wifi_sniffer_cb()                                                       *)
Sniff(n, m) ==
  /\ slave[n].pc # "off" /\ m \in Hears[n] /\ ie[m] /\ m \notin seen[n]
  /\ seen' = [seen EXCEPT ![n] = @ \cup {m}]
  /\ UNCHANGED <<appVars, slave, slave_flag, slave_sem, masterVars, radioVars>>

(* The times of the slave, 500 ms after a lost request, 100 ms of a scan,  *)
(* 1 s and 10 s for a reply, are longer than the master takes for a reply, *)
(* except for some that end early.                                         *)
Answers(n, m) ==
  /\ master[m].pc # "off"
  /\ \/ \E i \in DOMAIN pipe[m] : pipe[m][i].kind = "request" /\ pipe[m][i].from = n
     \/ master[m].pc \in {"config", "list"} /\ master[m].to = n

Late(n) ==
  \/ (\A m \in Nodes : ~Answers(n, m)) /\ UNCHANGED budget
  \/ Spend("early")

(* The strongest of those seen; all are taken from the queue.              *)
SlaveScan(n) ==
  /\ SlaveAt(n, "scan") /\ slave_flag[n] /\ Late(n)
  /\ \E m \in seen[n] :
       /\ slave' = [slave EXCEPT ![n].pc = "clean", ![n].dest = m]
       /\ peers' = [peers EXCEPT ![n] = Added(@, m, "plain")]
  /\ seen' = [seen EXCEPT ![n] = {}]
  /\ UNCHANGED <<queue, slave_sem, pipe>>

(* What is left of earlier rounds is read; its sender becomes dest_addr.   *)
SlaveClean(n) ==
  /\ SlaveAt(n, "clean")
  /\ IF pipe[n] = <<>>
     THEN slave' = [slave EXCEPT ![n].pc = "request"] /\ UNCHANGED pipe
     ELSE slave' = [slave EXCEPT ![n].dest = Head(pipe[n]).from] /\ Take(n)
  /\ UNCHANGED <<queue, slave_sem, seen, peers, budget>>

SlaveRequest(n) ==
  LET m == slave[n].dest
      request == [kind |-> "request", from |-> n, key |-> NoKey, gen |-> 0]
  IN  /\ SlaveAt(n, "request")
      /\ \/ peers[n][m] = "none" /\ ToScan(n) /\ UNCHANGED <<pipe, budget>>
         \/ /\ peers[n][m] # "none"
            /\ \/ /\ Sends(n, m, request, TRUE)
                  /\ slave' = [slave EXCEPT ![n].pc = "key"]
               \/ Sends(n, m, request, FALSE) /\ ToScan(n)
      /\ peers' = [peers EXCEPT ![n] = Deleted(@, m)]
      /\ UNCHANGED <<queue, slave_sem, seen>>

SlaveKey(n) ==
  /\ SlaveAt(n, "key")
  /\ slave' = [slave EXCEPT ![n].pc = "config"]
  /\ peers' = [peers EXCEPT ![n] = Added(@, slave[n].dest, "keyed")]
  /\ UNCHANGED <<queue, slave_sem, seen, pipe, budget>>

(* A packet of another size ends the round.  Without the whitelist the     *)
(* reply is this packet.                                                   *)
SlaveConfig(n) ==
  LET p    == Head(pipe[n])
      read == [NoSlave EXCEPT !.dest = p.from, !.key = p.key, !.gen = p.gen]
      drop == peers' = [peers EXCEPT ![n] = Deleted(@, p.from)]
  IN  /\ SlaveAt(n, "config") /\ pipe[n] # <<>> /\ Take(n)
      /\ \/ /\ p.kind = "config" /\ WhitelistEnable /\ UNCHANGED peers
            /\ slave' = [slave EXCEPT ![n] = [read EXCEPT !.pc = "list", !.tries = Retry]]
         \/ /\ p.kind = "config" /\ ~WhitelistEnable /\ drop
            /\ slave' = [slave EXCEPT ![n] = [read EXCEPT !.pc = "put", !.whole = TRUE]]
         \/ p.kind # "config" /\ drop /\ ToScan(n)
      /\ UNCHANGED <<queue, slave_sem, seen, budget>>

(* uncompress() checks a sum: it fails on what another key encrypted, and  *)
(* on what is no whitelist.                                                *)
Uncompress(p, key) == p.kind = "list" /\ p.key = key

(* Packets of others, and those too large for the buffer, are passed over, *)
(* Retry - 1 of them.                                                      *)
SlaveList(n) ==
  LET p == Head(pipe[n])
      s == slave[n]
      pass ==
        /\ p.from # s.dest \/ p.kind # "list"
        /\ s.tries > 1
        /\ slave' = [slave EXCEPT ![n].tries = @ - 1]
        /\ UNCHANGED peers
      end ==
        /\ p.from = s.dest \/ s.tries = 1
        /\ IF Uncompress(p, s.key)
           THEN slave' = [slave EXCEPT ![n].pc = "put", ![n].whole = (p.key = s.key)]
           ELSE ToScan(n)
        /\ peers' = [peers EXCEPT ![n] = Deleted(@, s.dest)]
  IN  /\ SlaveAt(n, "list") /\ pipe[n] # <<>> /\ Take(n)
      /\ pass \/ end
      /\ UNCHANGED <<queue, slave_sem, seen, budget>>

(* mconfig_queue_write() does not wait; one configuration has room.        *)
RoomAny(n) == TRUE                                                \* mutant
Room(n) == queue[n] = {}
Queued(n, gen, whole) ==
  /\ Room(n) /\ queue' = [queue EXCEPT ![n] = @ \cup {[gen |-> gen, whole |-> whole]}]

SlavePut(n) ==
  LET s == slave[n]
  IN  /\ SlaveAt(n, "put")
      /\ \/ Queued(n, s.gen, s.whole) /\ slave' = [slave EXCEPT ![n].pc = "end"]
         \/ ~Room(n) /\ ToScan(n) /\ UNCHANGED queue
      /\ UNCHANGED <<slave_sem, seen, radioVars>>

SlaveStops(n) ==
  /\ SlaveAt(n, "scan") /\ ~slave_flag[n]
  /\ slave' = [slave EXCEPT ![n].pc = "end"]
  /\ UNCHANGED <<queue, slave_sem, seen, radioVars>>

SlaveEnd(n) ==
  /\ SlaveAt(n, "end")
  /\ slave' = [slave EXCEPT ![n] = NoSlave] /\ seen' = [seen EXCEPT ![n] = {}]
  /\ slave_sem' = [slave_sem EXCEPT ![n] = "given"]
  /\ UNCHANGED <<queue, radioVars>>

SlaveTimeout(n) ==
  /\ SlaveAt(n, "config") \/ SlaveAt(n, "list")
  /\ pipe[n] = <<>>
  /\ Late(n)
  /\ ToScan(n) /\ peers' = [peers EXCEPT ![n] = Deleted(@, slave[n].dest)]
  /\ UNCHANGED <<queue, slave_sem, seen, pipe>>

SlaveTask(n) ==
  \/ SlaveScan(n) \/ SlaveClean(n) \/ SlaveRequest(n) \/ SlaveKey(n)
  \/ SlaveConfig(n) \/ SlaveList(n) \/ SlavePut(n) \/ SlaveStops(n)
  \/ SlaveEnd(n) \/ SlaveTimeout(n)

-----------------------------------------------------------------------------
(* The master: mconfig_chain_master_task()                                 *)
MasterAt(n, pc) ==
  /\ master[n].pc = pc
  /\ UNCHANGED <<appVars, slaveVars>>
ToLoop(n) == master' = [master EXCEPT ![n] = [NoMaster EXCEPT !.pc = "loop",
                                                    !.gen = master[n].gen]]

(* It shows itself while its duration lasts.                               *)
MasterAdvertise(n) ==
  /\ MasterAt(n, "loop") /\ ticks[n]
  /\ master' = [master EXCEPT ![n].pc = "read"]
  /\ ie' = [ie EXCEPT ![n] = TRUE]
  /\ UNCHANGED <<ending, ticks, master_sem, radioVars>>

MasterExpires(n) ==
  /\ MasterAt(n, "loop")
  /\ IF ticks[n] THEN Spend("expire") ELSE UNCHANGED budget
  /\ master' = [master EXCEPT ![n].pc = "exit"]
  /\ UNCHANGED <<ending, ticks, master_sem, ie, peers, pipe>>

MasterWaits(n) ==
  /\ MasterAt(n, "read") /\ pipe[n] = <<>> /\ ToLoop(n)
  /\ UNCHANGED <<ending, ticks, master_sem, ie, radioVars>>

(* mconfig_device_verify(); the phone names the nodes of a configuration.  *)
VerifyAny(gen, n) == TRUE                                         \* mutant
Verify(gen, n) == WhitelistEnable => gen \in Open \/ n \in Listed[gen]

(* A key no one uses stands for a random one.                              *)
Used == UNION {{pipe[n][i].key : i \in DOMAIN pipe[n]} \cup {slave[n].key, master[n].key} :
               n \in Nodes}
Fresh == {k \in Keys \ Used : \A other \in Keys \ Used : k <= other}

MasterRead(n) ==
  /\ MasterAt(n, "read") /\ pipe[n] # <<>> /\ Take(n)
  /\ LET p   == Head(pipe[n])
         gen == master[n].gen
     IN  IF p.kind # "request" THEN ToLoop(n) /\ UNCHANGED ie
         ELSE /\ ie' = [ie EXCEPT ![n] = FALSE]
              /\ IF ~Verify(gen, p.from) THEN ToLoop(n)
                 ELSE \E key \in Fresh :
                        master' = [master EXCEPT ![n] = [pc |-> "config",
                          to |-> p.from, key |-> key, gen |-> gen, tries |-> 0]]
  /\ UNCHANGED <<ending, ticks, master_sem, peers, budget>>

(* A task has the peer of its reply only while it writes, and no node that *)
(* asks was asked before, so the peer is new.  A reply comes when the      *)
(* slave has its key, except for some that are too early for it.  Without  *)
(* the whitelist this is the whole of it.                                  *)
MasterConfig(n) ==
  LET s      == master[n]
      reply  == [kind |-> "config", from |-> n, key |-> s.key, gen |-> s.gen]
      next   ==
        \/ /\ WhitelistEnable
           /\ master' = [master EXCEPT ![n].pc = "list", ![n].tries = Retry]
        \/ ~WhitelistEnable /\ ToLoop(n)
  IN  /\ MasterAt(n, "config")
      /\ \/ /\ slave[s.to].pc # "key"
            /\ \/ Sends(n, s.to, reply, TRUE) /\ next
               \/ Sends(n, s.to, reply, FALSE) /\ ToLoop(n)
         \/ /\ slave[s.to].pc = "key" /\ Spend("early")
            /\ next /\ UNCHANGED pipe
      /\ UNCHANGED <<ending, ticks, master_sem, ie, peers>>

MasterList(n) ==
  LET s     == master[n]
      reply == [kind |-> "list", from |-> n, key |-> s.key, gen |-> s.gen]
  IN  /\ MasterAt(n, "list")
      /\ \/ Sends(n, s.to, reply, TRUE) /\ ToLoop(n)
         \/ /\ Sends(n, s.to, reply, FALSE)
            /\ IF s.tries > 1 THEN master' = [master EXCEPT ![n].tries = @ - 1]
               ELSE ToLoop(n)
      /\ UNCHANGED <<ending, ticks, master_sem, ie, peers>>

MasterExit(n) ==
  /\ MasterAt(n, "exit")
  /\ master' = [master EXCEPT ![n].pc = "clear"]
  /\ ie' = [ie EXCEPT ![n] = FALSE]
  /\ UNCHANGED <<ending, ticks, master_sem, radioVars>>

MasterClear(n) ==
  /\ MasterAt(n, "clear")
  /\ master' = [master EXCEPT ![n] = NoMaster]
  /\ ticks' = [ticks EXCEPT ![n] = FALSE]
  /\ ending' = [ending EXCEPT ![n] = TRUE]
  /\ UNCHANGED <<master_sem, ie, radioVars>>

(* After the event of its end; nothing is given when nobody waits yet.     *)
MasterGiveNot(n) ==                                               \* mutant
  /\ ending[n] /\ ending' = [ending EXCEPT ![n] = FALSE]
  /\ UNCHANGED <<appVars, slaveVars, master, ticks, master_sem, ie, radioVars>>
MasterGive(n) ==
  /\ ending[n] /\ ending' = [ending EXCEPT ![n] = FALSE]
  /\ master_sem' = [master_sem EXCEPT ![n] = IF @ = "none" THEN @ ELSE "given"]
  /\ UNCHANGED <<appVars, slaveVars, master, ticks, ie, radioVars>>

MasterTask(n) ==
  \/ MasterAdvertise(n) \/ MasterExpires(n) \/ MasterWaits(n) \/ MasterRead(n)
  \/ MasterConfig(n) \/ MasterList(n) \/ MasterExit(n) \/ MasterClear(n)

-----------------------------------------------------------------------------
(* The app: slave_init, mconfig_queue_read, slave_deinit, then the node    *)
(* joins its mesh and calls mconfig_chain_master()                         *)
AppGoes(n, pc, next) == app[n] = pc /\ app' = [app EXCEPT ![n] = next]

SlaveInit(n) ==
  /\ AppGoes(n, "init", "read") /\ n \in budget.on
  /\ slave_flag' = [slave_flag EXCEPT ![n] = TRUE]
  /\ slave_sem' = [slave_sem EXCEPT ![n] = "empty"]
  /\ slave' = [slave EXCEPT ![n].pc = "scan"]
  /\ UNCHANGED <<config, queue, seen, masterVars, radioVars>>

QueueRead(n) ==
  /\ AppGoes(n, "read", "deinit")
  /\ queue[n] # {} /\ config' = [config EXCEPT ![n] = queue[n]]
  /\ queue' = [queue EXCEPT ![n] = {}]
  /\ UNCHANGED <<slaveVars, masterVars, radioVars>>

SlaveDeinit(n) ==
  /\ AppGoes(n, "deinit", "join")
  /\ slave_flag' = [slave_flag EXCEPT ![n] = FALSE]
  /\ UNCHANGED <<config, queue, slave, slave_sem, seen, masterVars, radioVars>>

SlaveJoin(n) ==
  /\ AppGoes(n, "join", "master")
  /\ slave_sem[n] = "given" /\ slave_sem' = [slave_sem EXCEPT ![n] = "none"]
  /\ UNCHANGED <<config, queue, slave, slave_flag, seen, masterVars, radioVars>>

(* mconfig_chain_master() ends the task that runs, if it finds one.        *)
MasterCall(n) ==
  /\ app[n] = "master"
  /\ app' = [app EXCEPT ![n] = IF ticks[n] THEN "sem" ELSE "start"]
  /\ UNCHANGED <<config, queue, slaveVars, masterVars, radioVars>>

MasterSem(n) ==
  /\ AppGoes(n, "sem", "stop")
  /\ master_sem' = [master_sem EXCEPT ![n] = "empty"]
  /\ UNCHANGED <<config, queue, slaveVars, master, ending, ticks, ie, radioVars>>

MasterStop(n) ==
  /\ AppGoes(n, "stop", "take")
  /\ ticks' = [ticks EXCEPT ![n] = FALSE]
  /\ UNCHANGED <<config, queue, slaveVars, master, ending, master_sem, ie, radioVars>>

MasterTake(n) ==
  /\ AppGoes(n, "take", "start")
  /\ master_sem[n] = "given" /\ master_sem' = [master_sem EXCEPT ![n] = "none"]
  /\ UNCHANGED <<config, queue, slaveVars, master, ending, ticks, ie, radioVars>>

MasterStart(n) ==
  /\ AppGoes(n, "start", "done")
  /\ ticks' = [ticks EXCEPT ![n] = TRUE]
  /\ \E c \in config[n] :
       master' = [master EXCEPT ![n] = [NoMaster EXCEPT !.pc = "loop", !.gen = c.gen]]
  /\ UNCHANGED <<config, queue, slaveVars, ending, master_sem, ie, radioVars>>

(* mlink_handle_add_device(): the phone names the devices to add.          *)
Again(n) ==
  /\ AppGoes(n, "done", "master") /\ Spend("again")
  /\ \E gen \in Gens \cap budget.gens : config' = [config EXCEPT ![n] = {[gen |-> gen, whole |-> TRUE]}]
  /\ UNCHANGED <<queue, slaveVars, masterVars, peers, pipe>>

(* BLUFI brings one that names it to a node that waits.                    *)
Blufi(n) ==
  /\ app[n] = "read" /\ Spend("blufi")
  /\ \E gen \in Gens \cap budget.gens : n \in Listed[gen] /\ Queued(n, gen, TRUE)
  /\ UNCHANGED <<app, config, slaveVars, masterVars, peers, pipe>>

AppTask(n) ==
  \/ SlaveInit(n) \/ QueueRead(n) \/ SlaveDeinit(n) \/ SlaveJoin(n)
  \/ MasterCall(n) \/ MasterSem(n) \/ MasterStop(n) \/ MasterTake(n)
  \/ MasterStart(n)

Next ==
  \E n \in Nodes :
    \/ AppTask(n) \/ Again(n) \/ Blufi(n)
    \/ SlaveTask(n) \/ MasterTask(n) \/ MasterGive(n)
    \/ \E m \in Nodes : Sniff(n, m)

(* Tasks run, and a beacon that is on the air again and again is heard.    *)
Fairness ==
  \A n \in Nodes :
    /\ WF_vars(AppTask(n)) /\ WF_vars(SlaveTask(n)) /\ WF_vars(MasterTask(n))
    /\ WF_vars(MasterGive(n)) /\ \A m \in Hears[n] : SF_vars(Sniff(n, m))

Spec == Init /\ [][Next]_vars /\ Fairness

-----------------------------------------------------------------------------
TypeOK ==
  /\ \A n \in Nodes :
       /\ config[n] \cup queue[n] \subseteq Config
       /\ Cardinality(config[n]) <= 1 /\ Cardinality(queue[n]) <= 1
       /\ \A i \in DOMAIN pipe[n] : pipe[n][i] \in Packet
       /\ slave[n].tries \in 0 .. Retry /\ master[n].tries \in 0 .. Retry
  /\ slave_flag \in [Nodes -> BOOLEAN] /\ ticks \in [Nodes -> BOOLEAN]
  /\ slave_sem \in [Nodes -> {"none", "empty", "given"}]
  /\ master_sem \in [Nodes -> {"none", "empty", "given"}]
  /\ ie \in [Nodes -> BOOLEAN] /\ seen \in [Nodes -> SUBSET Nodes]
  /\ peers \in [Nodes -> [Nodes -> {"none", "plain", "keyed"}]]

(* The whitelist of the configuration a node is given names the node or is *)
(* open, whichever master of the chain it came from, and after whatever    *)
(* was lost, late or replaced (mconfig_chain.c:93-122, 194, 424-506).      *)
(* That the two halves are of one reply is what the sum in uncompress()    *)
(* gives, whatever comes first in the pipe; reading the pipe empty before  *)
(* a round (395-399) is not needed for it.                                 *)
Configured ==
  \A n \in Nodes : \A c \in queue[n] :
    c.whole /\ (WhitelistEnable /\ c.gen \notin Open => n \in Listed[c.gen])

(* A call with another configuration comes back, unless the task that runs *)
(* is past its look at the semaphore (mconfig_chain.c:292) before the call *)
(* has created it (595): one that has gone while the call stands there.    *)
(* In every other order it is given the semaphore.                         *)
Missed(n) == app[n] = "sem" /\ master[n].pc = "off" /\ ~ending[n]
MasterReturns ==
  \A n \in Nodes : app[n] = "master" ~> app[n] = "done" \/ Missed(n)

(* While the duration of the masters lasts, every device that takes part   *)
(* and that every configuration in play welcomes gets one, over one hop or *)
(* two, and its slave task ends, also after a lost packet, a late reply,   *)
(* or with another configuration from elsewhere (mconfig_chain.c:346-528,  *)
(* 571-585).                                                               *)
EventuallyConfigured ==
  \A n \in Nodes \ {First} :
    /\ n \in budget.on /\ budget.expire = 0
    /\ \A gen \in {1} \cup budget.gens : Verify(gen, n)
    => <>[](config[n] # {} /\ slave[n].pc = "off")
=============================================================================
