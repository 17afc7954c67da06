------------------------ MODULE MconfigChain_proofs -------------------------
(***************************************************************************)
(* Proofs about the chain of network configuration, for all nodes, who     *)
(* hears whom, all whitelists, with and without CONFIG_MCONFIG_WHITELIST_  *)
(* ENABLE, any number of tries, and any losses, early ends of waits,       *)
(* durations and repeated calls: the whitelist of the configuration a node *)
(* is given names the node or is open; a node never holds two              *)
(* configurations, and the tries left of a round and the tables of peers   *)
(* stay in their ranges.                                                   *)
(*                                                                         *)
(* The argument: a master answers only nodes its whitelist lets in, so     *)
(* every configuration on its way to a node lets it in, and so does the    *)
(* one in the hands of its slave, whoever sent it.                         *)
(***************************************************************************)
EXTENDS MconfigChain, FiniteSetTheorems, TLAPS

SlaveTasks == [pc : {"off", "scan", "clean", "request", "key", "config", "list", "put", "end"},
               dest : Nodes, key : Keys \cup {NoKey}, gen : {0} \cup Gens, tries : 0 .. Retry,
               whole : BOOLEAN]
MasterTasks == [pc : {"off", "loop", "read", "config", "list", "exit", "clear"},
                to : Nodes, key : Keys \cup {NoKey}, gen : {0} \cup Gens, tries : 0 .. Retry]

One(S) == S = {} \/ \E c \in Config : S = {c}

(* What is on its way to n, and what its tasks hold, lets its receiver in. *)
Suits(n, p) == p.kind = "config" => p.gen # 0 /\ Verify(p.gen, n)
SlaveSound(n, s) ==
  /\ s.pc \in {"list", "put"} => s.gen # 0 /\ Verify(s.gen, n)
  /\ s.pc = "put" => s.whole
MasterSound(s) ==
  /\ s.pc # "off" => s.gen # 0
  /\ s.pc \in {"config", "list"} => Verify(s.gen, s.to)

PipesSuit ==
  /\ pipe \in [Nodes -> Seq(Packet)]
  /\ \A n \in Nodes : \A i \in DOMAIN pipe[n] : Suits(n, pipe[n][i])
SlavesSound ==
  slave \in [Nodes -> SlaveTasks] /\ \A n \in Nodes : SlaveSound(n, slave[n])
MastersSound ==
  master \in [Nodes -> MasterTasks] /\ \A n \in Nodes : MasterSound(master[n])
QueuesSound  == queue \in [Nodes -> SUBSET Config] /\ Configured /\ \A n \in Nodes : One(queue[n])
ConfigsTyped ==
  /\ config \in [Nodes -> SUBSET Config] /\ seen \in [Nodes -> SUBSET Nodes]
  /\ \A n \in Nodes : One(config[n])

BuildKnown == "whitelist" \in DOMAIN budget

CInv ==
  /\ PipesSuit /\ SlavesSound /\ MastersSound /\ QueuesSound /\ ConfigsTyped
  /\ BuildKnown

(***************************************************************************)
(* No step changes the build, so what suits a node goes on to suit it.     *)
(***************************************************************************)
Built == WhitelistEnable' = WhitelistEnable

LEMMA BuildKept ==
  ASSUME BuildKnown, Next
  PROVE  BuildKnown' /\ Built
<1>1. PICK n \in Nodes :
        \/ AppTask(n) \/ Again(n) \/ Blufi(n)
        \/ SlaveTask(n) \/ MasterTask(n) \/ MasterGive(n)
        \/ \E m \in Nodes : Sniff(n, m)
  BY DEF Next
<1> DEFINE spends == \E what \in {"lost", "early", "expire", "again", "blufi"} : Spend(what)
<1>2. budget' = budget \/ spends
  <2>1. CASE Again(n) \/ Blufi(n)
    BY <2>1 DEF Again, Blufi
  <2>2. ASSUME NEW m, NEW packet, NEW ok, Sends(n, m, packet, ok)
        PROVE  budget' = budget \/ spends
    BY <2>2 DEF Sends
  <2>3. CASE SlaveScan(n) \/ SlaveClean(n) \/ SlaveKey(n) \/ SlaveConfig(n) \/ SlaveList(n)
             \/ SlavePut(n) \/ SlaveStops(n) \/ SlaveEnd(n) \/ SlaveTimeout(n)
    BY <2>3 DEF SlaveScan, SlaveClean, SlaveKey, SlaveConfig, SlaveList, SlavePut,
       SlaveStops, SlaveEnd, SlaveTimeout, Late, radioVars
  <2>4. CASE SlaveRequest(n)
    BY <2>2, <2>4 DEF SlaveRequest
  <2>5. CASE MasterAdvertise(n) \/ MasterExpires(n) \/ MasterWaits(n) \/ MasterRead(n)
             \/ MasterExit(n) \/ MasterClear(n)
    BY <2>5 DEF MasterAdvertise, MasterExpires, MasterWaits, MasterRead, MasterExit,
       MasterClear, radioVars
  <2>6. CASE MasterConfig(n) \/ MasterList(n)
    BY <2>2, <2>6 DEF MasterConfig, MasterList
  <2>7. CASE AppTask(n) \/ MasterGive(n) \/ \E m \in Nodes : Sniff(n, m)
    BY <2>7 DEF AppTask, SlaveInit, QueueRead, SlaveDeinit, SlaveJoin, MasterCall, MasterSem,
       MasterStop, MasterTake, MasterStart, MasterGive, Sniff, radioVars
  <2>8. QED BY <1>1, <2>1, <2>3, <2>4, <2>5, <2>6, <2>7 DEF SlaveTask, MasterTask
<1>3. QED BY <1>2 DEF Spend, BuildKnown, Built, WhitelistEnable

USE DEF Verify, Built

(***************************************************************************)
(* Packets and tasks.                                                      *)
(***************************************************************************)
LEMMA HeadSuits ==
  ASSUME PipesSuit, NEW n \in Nodes, pipe[n] # <<>>
  PROVE  /\ Head(pipe[n]) \in Packet /\ Suits(n, Head(pipe[n]))
         /\ Tail(pipe[n]) \in Seq(Packet)
         /\ \A i \in DOMAIN Tail(pipe[n]) : Suits(n, Tail(pipe[n])[i])
<1>1. pipe[n] \in Seq(Packet)
  BY DEF PipesSuit
<1>2. /\ Tail(pipe[n]) \in Seq(Packet) /\ Len(Tail(pipe[n])) = Len(pipe[n]) - 1
      /\ \A i \in 1 .. Len(pipe[n]) - 1 : Tail(pipe[n])[i] = pipe[n][i + 1]
      /\ Head(pipe[n]) = pipe[n][1] /\ Head(pipe[n]) \in Packet /\ 1 \in DOMAIN pipe[n]
  BY <1>1
<1>3. \A i \in DOMAIN Tail(pipe[n]) : i + 1 \in DOMAIN pipe[n]
  BY <1>1, <1>2
<1>4. QED BY <1>2, <1>3 DEF PipesSuit

LEMMA TakeSuits ==
  ASSUME Built, PipesSuit, NEW n \in Nodes, pipe[n] # <<>>, Take(n)
  PROVE  PipesSuit'
  BY HeadSuits DEF Take, PipesSuit, Suits

LEMMA SendsSuits ==
  ASSUME Built, PipesSuit, NEW m \in Nodes, NEW n \in Nodes, NEW p \in Packet, Suits(n, p),
         NEW ok, Sends(m, n, p, ok)
  PROVE  PipesSuit'
<1>1. pipe' = pipe \/ pipe' = [pipe EXCEPT ![n] = Append(@, p)]
  BY DEF Sends
<1>2. CASE pipe' = pipe
  BY <1>2 DEF PipesSuit, Suits
<1>3. CASE pipe' = [pipe EXCEPT ![n] = Append(@, p)]
  <2>1. pipe[n] \in Seq(Packet)
    BY DEF PipesSuit
  <2>2. /\ Append(pipe[n], p) \in Seq(Packet)
        /\ Len(Append(pipe[n], p)) = Len(pipe[n]) + 1
        /\ Append(pipe[n], p)[Len(pipe[n]) + 1] = p
        /\ \A i \in 1 .. Len(pipe[n]) : Append(pipe[n], p)[i] = pipe[n][i]
    BY <2>1
  <2>3. \A i \in DOMAIN Append(pipe[n], p) : Suits(n, Append(pipe[n], p)[i])
    BY <2>1, <2>2 DEF PipesSuit
  <2>4. QED BY <1>3, <2>2, <2>3 DEF PipesSuit, Suits
<1>4. QED BY <1>1, <1>2, <1>3

LEMMA SlaveMoves ==
  ASSUME Built, SlavesSound, NEW n \in Nodes, NEW s \in SlaveTasks, SlaveSound(n, s),
         slave' = [slave EXCEPT ![n] = s]
  PROVE  SlavesSound'
  BY DEF SlavesSound, SlaveSound

LEMMA MasterMoves ==
  ASSUME Built, MastersSound, NEW n \in Nodes, NEW s \in MasterTasks, MasterSound(s),
         master' = [master EXCEPT ![n] = s]
  PROVE  MastersSound'
  BY DEF MastersSound, MasterSound

LEMMA NoTasks == NoSlave \in SlaveTasks /\ NoMaster \in MasterTasks
  BY MconfigChainAssumption
     DEF MconfigChainAssumption, NoSlave, NoMaster, SlaveTasks, MasterTasks, NoKey

LEMMA ScanMoves ==
  ASSUME Built, SlavesSound, NEW n \in Nodes, ToScan(n)
  PROVE  SlavesSound'
<1>1. [NoSlave EXCEPT !.pc = "scan"] \in SlaveTasks
      /\ [NoSlave EXCEPT !.pc = "scan"].pc = "scan"
  BY NoTasks DEF SlaveTasks
<1>2. QED BY <1>1, SlaveMoves DEF ToScan, SlaveSound

LEMMA LoopMoves ==
  ASSUME Built, MastersSound, NEW n \in Nodes, master[n].pc # "off", ToLoop(n)
  PROVE  MastersSound'
<1> DEFINE s == [NoMaster EXCEPT !.pc = "loop", !.gen = master[n].gen]
<1>1. s \in MasterTasks /\ s.pc = "loop" /\ s.gen = master[n].gen
  BY NoTasks DEF MasterTasks, MastersSound
<1>2. master[n].gen # 0
  BY DEF MastersSound, MasterSound
<1>3. QED BY <1>1, <1>2, MasterMoves DEF ToLoop, MasterSound

LEMMA WholeConfig ==
  ASSUME NEW gen \in Gens, NEW c, c = [gen |-> gen, whole |-> TRUE]
  PROVE  c \in Config /\ c.whole /\ c.gen = gen /\ One({c})
<1>1. c \in Config /\ c.whole /\ c.gen = gen
  BY DEF Config
<1>2. QED BY <1>1 DEF One

LEMMA ChainStarts == Init => CInv
<1> SUFFICES ASSUME Init PROVE CInv
  OBVIOUS
<1>1. SlavesSound /\ MastersSound
  BY NoTasks DEF Init, SlavesSound, MastersSound, SlaveSound, MasterSound, NoSlave, NoMaster
<1>2. PipesSuit
  BY DEF Init, PipesSuit
<1>3. QueuesSound
  BY DEF Init, QueuesSound, Configured, One
<1>4. PICK c : c = [gen |-> 1, whole |-> TRUE]
  OBVIOUS
<1>5. c \in Config /\ One({c})
  BY <1>4, WholeConfig, MconfigChainAssumption DEF MconfigChainAssumption
<1>6. One({})
  BY DEF One
<1>7. config = [n \in Nodes |-> IF n = First THEN {c} ELSE {}]
  BY <1>4 DEF Init
<1>8. seen \in [Nodes -> SUBSET Nodes]
  BY DEF Init
<1>9. ConfigsTyped
  BY <1>5, <1>6, <1>7, <1>8 DEF ConfigsTyped
<1>10. BuildKnown
  BY MconfigChainAssumption DEF MconfigChainAssumption, Init, BuildKnown
<1>11. QED BY <1>1, <1>2, <1>3, <1>9, <1>10 DEF CInv

(***************************************************************************)
(* The steps of the slave.                                                 *)
(***************************************************************************)
LEMMA SlaveTaskKeeps ==
  ASSUME CInv, NEW n \in Nodes, SlaveTask(n)
  PROVE  CInv'
<1> USE DEF CInv
<1>a. Built /\ BuildKnown'
  BY BuildKept DEF Next
<1> USE <1>a
<1>0. slave[n] \in SlaveTasks /\ SlaveSound(n, slave[n])
  BY DEF SlavesSound
<1>1. master' = master /\ config' = config
  BY DEF SlaveTask, SlaveScan, SlaveClean, SlaveRequest, SlaveKey, SlaveConfig, SlaveList,
         SlavePut, SlaveStops, SlaveEnd, SlaveTimeout, SlaveAt, masterVars
<1>2. MastersSound'
  BY <1>1 DEF MastersSound, MasterSound
<1>3. CASE SlaveScan(n)
  <2>1. PICK m \in Nodes : slave' = [slave EXCEPT ![n].pc = "clean", ![n].dest = m]
    BY <1>3 DEF SlaveScan, ConfigsTyped
  <2> DEFINE s == [slave[n] EXCEPT !.pc = "clean", !.dest = m]
  <2>2. s \in SlaveTasks /\ SlaveSound(n, s) /\ slave' = [slave EXCEPT ![n] = s]
    BY <1>0, <2>1 DEF SlaveTasks, SlaveSound, SlavesSound
  <2>3. SlavesSound'
    BY <2>2, SlaveMoves
  <2>4. QED BY <1>1, <1>2, <1>3, <2>3
            DEF SlaveScan, PipesSuit, Suits, QueuesSound, Configured, ConfigsTyped
<1>4. CASE SlaveClean(n)
  <2>1. CASE pipe[n] = <<>>
    <3> DEFINE s == [slave[n] EXCEPT !.pc = "request"]
    <3>1. s \in SlaveTasks /\ SlaveSound(n, s) /\ slave' = [slave EXCEPT ![n] = s]
      BY <1>0, <1>4, <2>1 DEF SlaveClean, SlaveTasks, SlaveSound, SlavesSound
    <3>2. SlavesSound'
      BY <3>1, SlaveMoves
    <3>3. QED BY <1>1, <1>2, <1>4, <2>1, <3>2
              DEF SlaveClean, PipesSuit, Suits, QueuesSound, Configured, ConfigsTyped
  <2>2. CASE pipe[n] # <<>>
    <3> DEFINE s == [slave[n] EXCEPT !.dest = Head(pipe[n]).from]
    <3>1. slave[n].pc = "clean" /\ Head(pipe[n]).from \in Nodes
      BY <1>4, <2>2, HeadSuits DEF SlaveClean, SlaveAt, Packet
    <3>2. s \in SlaveTasks /\ SlaveSound(n, s) /\ slave' = [slave EXCEPT ![n] = s]
      BY <1>0, <1>4, <2>2, <3>1 DEF SlaveClean, SlaveTasks, SlaveSound, SlavesSound
    <3>3. SlavesSound' /\ PipesSuit'
      BY <1>4, <2>2, <3>2, SlaveMoves, TakeSuits DEF SlaveClean
    <3>4. QED BY <1>1, <1>2, <1>4, <3>3
              DEF SlaveClean, QueuesSound, Configured, ConfigsTyped
  <2>3. QED BY <2>1, <2>2
<1>5. CASE SlaveRequest(n)
  <2> DEFINE m == slave[n].dest
             request == [kind |-> "request", from |-> n, key |-> NoKey, gen |-> 0]
             s == [slave[n] EXCEPT !.pc = "key"]
  <2>1. m \in Nodes /\ request \in Packet /\ Suits(m, request)
    BY <1>0 DEF SlaveTasks, Packet, Suits
  <2>2. CASE ToScan(n) /\ UNCHANGED pipe
    BY <1>1, <1>2, <1>5, <2>2, ScanMoves
       DEF SlaveRequest, PipesSuit, Suits, QueuesSound, Configured, ConfigsTyped
  <2>3. CASE Sends(n, m, request, TRUE) /\ slave' = [slave EXCEPT ![n].pc = "key"]
    <3>1. s \in SlaveTasks /\ SlaveSound(n, s) /\ slave' = [slave EXCEPT ![n] = s]
      BY <1>0, <2>3 DEF SlaveTasks, SlaveSound, SlavesSound
    <3>2. SlavesSound' /\ PipesSuit'
      BY <2>1, <2>3, <3>1, SlaveMoves, SendsSuits
    <3>3. QED BY <1>1, <1>2, <1>5, <3>2
              DEF SlaveRequest, QueuesSound, Configured, ConfigsTyped
  <2>4. CASE Sends(n, m, request, FALSE) /\ ToScan(n)
    <3>1. SlavesSound' /\ PipesSuit'
      BY <2>1, <2>4, ScanMoves, SendsSuits
    <3>2. QED BY <1>1, <1>2, <1>5, <3>1
              DEF SlaveRequest, QueuesSound, Configured, ConfigsTyped
  <2>5. QED BY <1>5, <2>2, <2>3, <2>4 DEF SlaveRequest
<1>6. CASE SlaveKey(n)
  <2> DEFINE s == [slave[n] EXCEPT !.pc = "config"]
  <2>1. s \in SlaveTasks /\ SlaveSound(n, s) /\ slave' = [slave EXCEPT ![n] = s]
    BY <1>0, <1>6 DEF SlaveKey, SlaveTasks, SlaveSound, SlavesSound
  <2>2. SlavesSound'
    BY <2>1, SlaveMoves
  <2>3. QED BY <1>1, <1>2, <1>6, <2>2
            DEF SlaveKey, PipesSuit, Suits, QueuesSound, Configured, ConfigsTyped
<1>7. CASE SlaveConfig(n)
  <2> DEFINE p == Head(pipe[n])
             read == [NoSlave EXCEPT !.dest = p.from, !.key = p.key, !.gen = p.gen]
             list == [read EXCEPT !.pc = "list", !.tries = Retry]
             put == [read EXCEPT !.pc = "put", !.whole = TRUE]
  <2>1. pipe[n] # <<>> /\ PipesSuit' /\ p \in Packet /\ Suits(n, p)
    BY <1>7, HeadSuits, TakeSuits DEF SlaveConfig
  <2>2. CASE p.kind = "config"
    <3>1. Retry \in 0 .. Retry
      BY MconfigChainAssumption DEF MconfigChainAssumption
    <3>2. list \in SlaveTasks /\ put \in SlaveTasks
      BY <2>1, <3>1, NoTasks DEF SlaveTasks, Packet
    <3>3. list.pc = "list" /\ list.gen = p.gen /\ put.gen = p.gen /\ put.whole
      BY NoTasks DEF NoSlave
    <3>4. SlaveSound(n, list) /\ SlaveSound(n, put)
      BY <2>1, <2>2, <3>3 DEF Suits, SlaveSound
    <3>5. slave' = [slave EXCEPT ![n] = list] \/ slave' = [slave EXCEPT ![n] = put]
      BY <1>7, <2>2 DEF SlaveConfig
    <3> HIDE DEF list, put
    <3>6. SlavesSound'
      BY <3>2, <3>4, <3>5, SlaveMoves
    <3>7. QED BY <1>1, <1>2, <1>7, <2>1, <3>6
              DEF SlaveConfig, QueuesSound, Configured, ConfigsTyped
  <2>3. CASE p.kind # "config"
    <3>1. SlavesSound'
      BY <1>7, <2>3, ScanMoves DEF SlaveConfig
    <3>2. QED BY <1>1, <1>2, <1>7, <2>1, <3>1
              DEF SlaveConfig, QueuesSound, Configured, ConfigsTyped
  <2>4. QED BY <2>2, <2>3
<1>8. CASE SlaveList(n)
  <2> DEFINE p == Head(pipe[n])
             s == [slave[n] EXCEPT !.tries = @ - 1]
             t == [slave[n] EXCEPT !.pc = "put", !.whole = (p.key = slave[n].key)]
  <2>1. slave[n].pc = "list" /\ PipesSuit'
    BY <1>8, TakeSuits DEF SlaveList, SlaveAt
  <2>2. SlavesSound'
    <3>1. CASE slave[n].tries > 1 /\ slave' = [slave EXCEPT ![n].tries = @ - 1]
      <4>1. s \in SlaveTasks /\ SlaveSound(n, s) /\ slave' = [slave EXCEPT ![n] = s]
        <5>1. slave[n].tries - 1 \in 0 .. Retry
          BY <1>0, <3>1, MconfigChainAssumption DEF MconfigChainAssumption, SlaveTasks
        <5>2. QED BY <1>0, <2>1, <3>1, <5>1 DEF SlaveTasks, SlaveSound, SlavesSound
      <4>2. QED BY <4>1, SlaveMoves
    <3>2. CASE /\ Uncompress(p, slave[n].key)
               /\ slave' = [slave EXCEPT ![n].pc = "put", ![n].whole = (p.key = slave[n].key)]
      <4>1. t \in SlaveTasks /\ SlaveSound(n, t) /\ slave' = [slave EXCEPT ![n] = t]
        BY <1>0, <2>1, <3>2 DEF Uncompress, SlaveTasks, SlaveSound, SlavesSound
      <4>2. QED BY <4>1, SlaveMoves
    <3>3. CASE ToScan(n)
      BY <3>3, ScanMoves
    <3>4. QED BY <1>8, <3>1, <3>2, <3>3 DEF SlaveList
  <2>3. QED BY <1>1, <1>2, <1>8, <2>1, <2>2
            DEF SlaveList, QueuesSound, Configured, ConfigsTyped
<1>9. CASE SlavePut(n)
  <2>1. pipe' = pipe /\ seen' = seen /\ slave[n].pc = "put"
    BY <1>9 DEF SlavePut, SlaveAt, radioVars
  <2>2. CASE Queued(n, slave[n].gen, slave[n].whole) /\ slave' = [slave EXCEPT ![n].pc = "end"]
    <3> DEFINE s == [slave[n] EXCEPT !.pc = "end"]
               c == [gen |-> slave[n].gen, whole |-> slave[n].whole]
    <3>1. s \in SlaveTasks /\ SlaveSound(n, s) /\ slave' = [slave EXCEPT ![n] = s]
      BY <1>0, <2>2 DEF SlaveTasks, SlaveSound, SlavesSound
    <3>2. SlavesSound'
      BY <3>1, SlaveMoves
    <3>3. c \in Config /\ c.whole /\ Verify(c.gen, n)
      BY <1>0, <2>1 DEF SlaveSound, SlaveTasks, Config
    <3>4. QueuesSound'
      <4>1. queue' = [queue EXCEPT ![n] = {c}]
        BY <2>2 DEF Queued, Room
      <4>2. One({c})
        BY <3>3 DEF One
      <4>3. QED BY <3>3, <4>1, <4>2 DEF QueuesSound, Configured, Verify
    <3>5. QED BY <1>1, <1>2, <2>1, <3>2, <3>4 DEF PipesSuit, Suits, ConfigsTyped
  <2>3. CASE ToScan(n) /\ UNCHANGED queue
    BY <1>1, <1>2, <2>1, <2>3, ScanMoves DEF PipesSuit, Suits, QueuesSound, Configured, ConfigsTyped
  <2>4. QED BY <1>9, <2>2, <2>3 DEF SlavePut
<1>10. CASE SlaveStops(n)
  <2> DEFINE s == [slave[n] EXCEPT !.pc = "end"]
  <2>1. s \in SlaveTasks /\ SlaveSound(n, s) /\ slave' = [slave EXCEPT ![n] = s]
    BY <1>0, <1>10 DEF SlaveStops, SlaveTasks, SlaveSound, SlavesSound
  <2>2. SlavesSound'
    BY <2>1, SlaveMoves
  <2>3. QED BY <1>1, <1>2, <1>10, <2>2
            DEF SlaveStops, radioVars, PipesSuit, Suits, QueuesSound, Configured, ConfigsTyped
<1>11. CASE SlaveEnd(n)
  <2>1. NoSlave \in SlaveTasks /\ NoSlave.pc = "off"
    BY NoTasks DEF NoSlave
  <2>2. SlavesSound'
    BY <1>11, <2>1, SlaveMoves DEF SlaveEnd, SlaveSound
  <2>3. QED BY <1>1, <1>2, <1>11, <2>2
            DEF SlaveEnd, radioVars, PipesSuit, Suits, QueuesSound, Configured, ConfigsTyped
<1>12. CASE SlaveTimeout(n)
  <2>1. SlavesSound'
    BY <1>12, ScanMoves DEF SlaveTimeout
  <2>2. QED BY <1>1, <1>2, <1>12, <2>1
            DEF SlaveTimeout, PipesSuit, Suits, QueuesSound, Configured, ConfigsTyped
<1>13. QED BY <1>3, <1>4, <1>5, <1>6, <1>7, <1>8, <1>9, <1>10, <1>11, <1>12 DEF SlaveTask

(***************************************************************************)
(* The steps of the master.                                                *)
(***************************************************************************)
LEMMA MasterTaskKeeps ==
  ASSUME CInv, NEW n \in Nodes, MasterTask(n)
  PROVE  CInv'
<1> USE DEF CInv
<1>a. Built /\ BuildKnown'
  BY BuildKept DEF Next
<1> USE <1>a
<1>0. master[n] \in MasterTasks /\ MasterSound(master[n])
  BY DEF MastersSound
<1>1. /\ app' = app /\ config' = config /\ queue' = queue
      /\ slave' = slave /\ seen' = seen
  BY DEF MasterTask, MasterAdvertise, MasterExpires, MasterWaits, MasterRead, MasterConfig,
         MasterList, MasterExit, MasterClear, MasterAt, appVars, slaveVars
<1>2. SlavesSound' /\ QueuesSound' /\ ConfigsTyped'
  BY <1>1 DEF SlavesSound, SlaveSound, QueuesSound, Configured, ConfigsTyped
<1>3. ASSUME pipe' = pipe, NEW pc \in {"read", "exit", "clear"}, master[n].pc # "off",
             master' = [master EXCEPT ![n].pc = pc]
      PROVE  CInv'
  <2> DEFINE s == [master[n] EXCEPT !.pc = pc]
  <2>1. s \in MasterTasks /\ MasterSound(s) /\ master' = [master EXCEPT ![n] = s]
    BY <1>0, <1>3 DEF MasterTasks, MasterSound, MastersSound
  <2>2. MastersSound'
    BY <2>1, MasterMoves
  <2>3. QED BY <1>2, <1>3, <2>2 DEF PipesSuit, Suits
<1>4. CASE MasterAdvertise(n)
  BY <1>3, <1>4 DEF MasterAt, MasterAdvertise, radioVars
<1>5. CASE MasterExpires(n)
  BY <1>3, <1>5 DEF MasterAt, MasterExpires
<1>6. CASE MasterExit(n)
  BY <1>3, <1>6 DEF MasterAt, MasterExit, radioVars
<1>7. CASE MasterWaits(n)
  BY <1>2, <1>7, LoopMoves DEF MasterWaits, MasterAt, radioVars, PipesSuit, Suits
<1>8. CASE MasterRead(n)
  <2> DEFINE p == Head(pipe[n])
  <2>1. p \in Packet /\ PipesSuit' /\ master[n].pc = "read" /\ master[n].gen # 0
    BY <1>0, <1>8, HeadSuits, TakeSuits DEF MasterRead, MasterAt, MasterSound
  <2>2. CASE ToLoop(n)
    BY <1>2, <2>1, <2>2, LoopMoves
  <2>3. ASSUME Verify(master[n].gen, p.from), NEW key \in Fresh,
               master' = [master EXCEPT ![n] = [pc |-> "config", to |-> p.from, key |-> key,
                                                gen |-> master[n].gen, tries |-> 0]]
        PROVE  MastersSound'
    <3> DEFINE s == [pc |-> "config", to |-> p.from, key |-> key,
                     gen |-> master[n].gen, tries |-> 0]
    <3>1. s \in MasterTasks
      BY <1>0, <2>1, <2>3, MconfigChainAssumption
         DEF MconfigChainAssumption, Fresh, MasterTasks, Packet
    <3>2. MasterSound(s)
      BY <2>1, <2>3 DEF MasterSound
    <3>3. QED BY <2>3, <3>1, <3>2, MasterMoves
  <2>4. QED BY <1>2, <1>8, <2>1, <2>2, <2>3 DEF MasterRead
<1>9. CASE MasterConfig(n)
  <2> DEFINE s == [master[n] EXCEPT !.pc = "list", !.tries = Retry]
             reply == [kind |-> "config", from |-> n, key |-> master[n].key,
                       gen |-> master[n].gen]
  <2>0. Retry \in 0 .. Retry /\ master[n].pc = "config" /\ master[n].gen # 0
    BY <1>0, <1>9, MconfigChainAssumption
       DEF MconfigChainAssumption, MasterConfig, MasterAt, MasterSound
  <2>1. /\ master[n].pc = "config" /\ master[n].to \in Nodes
        /\ reply \in Packet /\ Suits(master[n].to, reply)
    BY <1>0, <1>9 DEF MasterConfig, MasterAt, MasterTasks, MasterSound, Packet, Suits
  <2>2. ASSUME NEW ok, Sends(n, master[n].to, reply, ok) PROVE PipesSuit'
    BY <2>1, <2>2, SendsSuits
  <2>3. ASSUME master' = [master EXCEPT ![n].pc = "list", ![n].tries = Retry]
        PROVE  MastersSound'
    <3>1. s \in MasterTasks /\ MasterSound(s) /\ master' = [master EXCEPT ![n] = s]
      BY <1>0, <2>0, <2>1, <2>3 DEF MasterTasks, MasterSound, MastersSound
    <3>2. QED BY <3>1, MasterMoves
  <2>4. PipesSuit'
    BY <1>9, <2>2 DEF MasterConfig, PipesSuit, Suits
  <2>5. MastersSound'
    BY <1>9, <2>0, <2>3, LoopMoves DEF MasterConfig
  <2>6. QED BY <1>2, <2>4, <2>5
<1>10. CASE MasterList(n)
  <2> DEFINE s == [master[n] EXCEPT !.tries = @ - 1]
             reply == [kind |-> "list", from |-> n, key |-> master[n].key,
                       gen |-> master[n].gen]
  <2>1. master[n].to \in Nodes /\ reply \in Packet /\ Suits(master[n].to, reply)
    BY <1>0 DEF MasterTasks, Packet, Suits
  <2>2. ASSUME NEW ok, Sends(n, master[n].to, reply, ok) PROVE PipesSuit'
    BY <2>1, <2>2, SendsSuits
  <2>3. ASSUME master[n].tries > 1, master' = [master EXCEPT ![n].tries = @ - 1]
        PROVE  MastersSound'
    <3>1. s \in MasterTasks /\ MasterSound(s) /\ master' = [master EXCEPT ![n] = s]
      <4>1. master[n].tries - 1 \in 0 .. Retry
        BY <1>0, <2>3, MconfigChainAssumption DEF MconfigChainAssumption, MasterTasks
      <4>2. QED BY <1>0, <2>3, <4>1 DEF MasterTasks, MasterSound, MastersSound
    <3>2. QED BY <3>1, MasterMoves
  <2>4. PipesSuit' /\ MastersSound'
    BY <1>10, <2>2, <2>3, LoopMoves DEF MasterList, MasterAt
  <2>5. QED BY <1>2, <2>4
<1>11. CASE MasterClear(n)
  <2>1. NoMaster \in MasterTasks /\ NoMaster.pc = "off"
    BY NoTasks DEF NoMaster
  <2>2. MastersSound'
    BY <1>11, <2>1, MasterMoves DEF MasterClear, MasterSound
  <2>3. QED BY <1>2, <1>11, <2>2 DEF MasterClear, radioVars, PipesSuit, Suits
<1>12. QED BY <1>4, <1>5, <1>6, <1>7, <1>8, <1>9, <1>10, <1>11 DEF MasterTask

(***************************************************************************)
(* The app, the phone, BLUFI and the beacons.                              *)
(***************************************************************************)
LEMMA AppKeeps ==
  ASSUME CInv, NEW n \in Nodes, AppTask(n) \/ Again(n) \/ Blufi(n)
  PROVE  CInv'
<1> USE DEF CInv
<1>a. Built /\ BuildKnown'
  BY BuildKept DEF Next
<1> USE <1>a
<1>0. pipe' = pipe /\ seen' = seen
  BY DEF AppTask, SlaveInit, QueueRead, SlaveDeinit, SlaveJoin, MasterCall, MasterSem,
         MasterStop, MasterTake, MasterStart, Again, Blufi, slaveVars, radioVars
<1>1. PipesSuit'
  BY <1>0 DEF PipesSuit, Suits
<1>2. SlavesSound'
  <2>1. CASE SlaveInit(n)
    <3> DEFINE s == [slave[n] EXCEPT !.pc = "scan"]
    <3>1. s \in SlaveTasks /\ SlaveSound(n, s) /\ slave' = [slave EXCEPT ![n] = s]
      BY <2>1 DEF SlaveInit, SlaveTasks, SlaveSound, SlavesSound
    <3>2. QED BY <3>1, SlaveMoves
  <2>2. CASE slave' = slave
    BY <2>2 DEF SlavesSound, SlaveSound
  <2>3. QED BY <2>1, <2>2 DEF AppTask, QueueRead, SlaveDeinit, SlaveJoin, MasterCall,
            MasterSem, MasterStop, MasterTake, MasterStart, Again, Blufi, slaveVars
<1>3. MastersSound'
  <2>1. CASE MasterStart(n)
    <3>1. PICK c \in config[n] :
            master' = [master EXCEPT ![n] = [NoMaster EXCEPT !.pc = "loop", !.gen = c.gen]]
      BY <2>1 DEF MasterStart
    <3> DEFINE s == [NoMaster EXCEPT !.pc = "loop", !.gen = c.gen]
    <3>2. c.gen \in Gens /\ c.gen # 0
      BY <3>1, MconfigChainAssumption DEF MconfigChainAssumption, ConfigsTyped, Config
    <3>3. s \in MasterTasks /\ s.pc = "loop" /\ s.gen # 0
      BY <3>2, NoTasks DEF MasterTasks
    <3>4. MasterSound(s)
      BY <3>3 DEF MasterSound
    <3>5. master' = [master EXCEPT ![n] = s]
      BY <3>1
    <3> HIDE DEF s
    <3>6. QED BY <3>3, <3>4, <3>5, MasterMoves
  <2>2. CASE master' = master
    BY <2>2 DEF MastersSound, MasterSound
  <2>3. QED BY <2>1, <2>2 DEF AppTask, SlaveInit, QueueRead, SlaveDeinit, SlaveJoin,
            MasterCall, MasterSem, MasterStop, MasterTake, Again, Blufi, masterVars
<1>4. QueuesSound' /\ ConfigsTyped'
  <2>1. CASE QueueRead(n)
    <3>1. One({})
      BY DEF One
    <3>2. QED BY <1>0, <2>1, <3>1 DEF QueueRead, QueuesSound, Configured, ConfigsTyped
  <2>2. CASE Again(n)
    <3>1. PICK gen \in Gens : config' = [config EXCEPT ![n] = {[gen |-> gen, whole |-> TRUE]}]
      BY <2>2 DEF Again
    <3> DEFINE c == [gen |-> gen, whole |-> TRUE]
    <3>2. c \in Config /\ One({c})
      BY WholeConfig
    <3>3. config' = [config EXCEPT ![n] = {c}] /\ queue' = queue
      BY <2>2, <3>1 DEF Again
    <3> HIDE DEF c
    <3>4. ConfigsTyped'
      BY <1>0, <3>2, <3>3 DEF ConfigsTyped
    <3>5. QED BY <3>3, <3>4 DEF QueuesSound, Configured
  <2>3. CASE Blufi(n)
    <3>1. PICK gen \in Gens : n \in Listed[gen] /\ Queued(n, gen, TRUE)
      BY <2>3 DEF Blufi
    <3> DEFINE c == [gen |-> gen, whole |-> TRUE]
    <3>2. queue' = [queue EXCEPT ![n] = {c}] /\ config' = config
      BY <2>3, <3>1 DEF Blufi, Queued, Room
    <3>3. c \in Config /\ c.whole /\ n \in Listed[c.gen] /\ One({c})
      BY <3>1, WholeConfig
    <3> HIDE DEF c
    <3>4. QueuesSound'
      BY <3>2, <3>3 DEF QueuesSound, Configured
    <3>5. QED BY <1>0, <3>2, <3>4 DEF ConfigsTyped
  <2>4. CASE queue' = queue /\ config' = config
    BY <1>0, <2>4 DEF QueuesSound, Configured, ConfigsTyped
  <2>5. QED BY <2>1, <2>2, <2>3, <2>4 DEF AppTask, SlaveInit, SlaveDeinit, SlaveJoin,
            MasterCall, MasterSem, MasterStop, MasterTake, MasterStart
<1>5. QED BY <1>1, <1>2, <1>3, <1>4

LEMMA BeaconsKeep ==
  ASSUME CInv, NEW n \in Nodes, MasterGive(n) \/ (\E m \in Nodes : Sniff(n, m))
  PROVE  CInv'
<1>0. Built /\ BuildKnown'
  BY BuildKept DEF CInv, Next
<1>1. /\ pipe' = pipe /\ slave' = slave /\ master' = master
      /\ config' = config /\ queue' = queue /\ seen' \in [Nodes -> SUBSET Nodes]
  BY DEF CInv, ConfigsTyped, MasterGive, Sniff, appVars, slaveVars, masterVars, radioVars
<1>2. QED BY <1>0, <1>1 DEF CInv, PipesSuit, Suits, SlavesSound, SlaveSound, MastersSound, MasterSound,
          QueuesSound, Configured, ConfigsTyped

LEMMA ChainInvariant == Spec => []CInv
<1>1. CInv /\ [Next]_vars => CInv'
  <2> SUFFICES ASSUME CInv, [Next]_vars PROVE CInv'
    OBVIOUS
  <2>1. CASE UNCHANGED vars
    BY <2>1 DEF vars, appVars, slaveVars, masterVars, radioVars, CInv, BuildKnown,
       WhitelistEnable, PipesSuit, Suits,
       SlavesSound, SlaveSound, MastersSound, MasterSound, QueuesSound, Configured, ConfigsTyped
  <2>2. CASE Next
    BY <2>2, SlaveTaskKeeps, MasterTaskKeeps, AppKeeps, BeaconsKeep DEF Next
  <2>3. QED BY <2>1, <2>2
<1>2. QED BY <1>1, ChainStarts, PTL DEF Spec

(* The whitelist of the configuration a node is given names the node or is *)
(* open, whatever is lost, late, left of an earlier round or answered by   *)
(* another master (mconfig_chain.c:93-122, 194, 424-506).                  *)
THEOREM ConfigurationsWhole == Spec => []Configured
<1>1. CInv => Configured
  BY DEF CInv, QueuesSound
<1>2. QED BY <1>1, ChainInvariant, PTL

(***************************************************************************)
(* The flags, semaphores, beacons and peers.                               *)
(***************************************************************************)
Semaphore == {"none", "empty", "given"}
Peer      == {"none", "plain", "keyed"}
FlagsTyped ==
  /\ slave_flag \in [Nodes -> BOOLEAN] /\ ticks \in [Nodes -> BOOLEAN]
  /\ slave_sem \in [Nodes -> Semaphore] /\ master_sem \in [Nodes -> Semaphore]
  /\ ie \in [Nodes -> BOOLEAN]
PeersTyped == peers \in [Nodes -> [Nodes -> Peer]]

LEMMA PeerChanges ==
  ASSUME PeersTyped, NEW n \in Nodes, NEW m \in Nodes
  PROVE  /\ peers' = [peers EXCEPT ![n] = Deleted(@, m)] => PeersTyped'
         /\ \A how \in Peer : peers' = [peers EXCEPT ![n] = Added(@, m, how)] => PeersTyped'
<1>1. peers[n] \in [Nodes -> Peer]
  BY DEF PeersTyped
<1>2. Deleted(peers[n], m) \in [Nodes -> Peer]
  BY <1>1 DEF Deleted, Peer
<1>3. \A how \in Peer : Added(peers[n], m, how) \in [Nodes -> Peer]
  BY <1>1 DEF Added, Peer
<1>4. QED BY <1>2, <1>3 DEF PeersTyped

LEMMA FlagsKept ==
  ASSUME FlagsTyped, [Next]_vars
  PROVE  FlagsTyped'
<1> USE DEF FlagsTyped, Semaphore
<1>1. CASE UNCHANGED vars
  BY <1>1 DEF vars, slaveVars, masterVars
<1>2. CASE Next
  <2>1. PICK n \in Nodes :
          \/ AppTask(n) \/ Again(n) \/ Blufi(n)
          \/ SlaveTask(n) \/ MasterTask(n) \/ MasterGive(n)
          \/ \E m \in Nodes : Sniff(n, m)
    BY <1>2 DEF Next
  <2>2. CASE AppTask(n)
    BY <2>2 DEF AppTask, SlaveInit, QueueRead, SlaveDeinit, SlaveJoin, MasterCall, MasterSem,
       MasterStop, MasterTake, MasterStart, slaveVars, masterVars
  <2>3. CASE SlaveTask(n)
    BY <2>3 DEF SlaveTask, SlaveScan, SlaveClean, SlaveRequest, SlaveKey, SlaveConfig, SlaveList,
       SlavePut, SlaveStops, SlaveEnd, SlaveTimeout, SlaveAt, masterVars
  <2>4. CASE MasterTask(n)
    BY <2>4 DEF MasterTask, MasterAdvertise, MasterExpires, MasterWaits, MasterRead,
       MasterConfig, MasterList, MasterExit, MasterClear, MasterAt, slaveVars
  <2>5. CASE MasterGive(n)
    BY <2>5 DEF MasterGive, slaveVars
  <2>6. CASE Again(n) \/ Blufi(n) \/ \E m \in Nodes : Sniff(n, m)
    BY <2>6 DEF Again, Blufi, Sniff, slaveVars, masterVars
  <2>7. QED BY <2>1, <2>2, <2>3, <2>4, <2>5, <2>6
<1>3. QED BY <1>1, <1>2

LEMMA PeersKept ==
  ASSUME CInv, PeersTyped, [Next]_vars
  PROVE  PeersTyped'
<1>1. CASE peers' = peers
  BY <1>1 DEF PeersTyped
<1>2. ASSUME NEW n \in Nodes, SlaveTask(n) PROVE PeersTyped'
  <2>1. slave[n].dest \in Nodes
    BY DEF CInv, SlavesSound, SlaveTasks
  <2>2. pipe[n] # <<>> => Head(pipe[n]).from \in Nodes
    BY HeadSuits DEF CInv, Packet
  <2>3. CASE SlaveScan(n)
    BY <2>3, PeerChanges DEF SlaveScan, Peer, CInv, ConfigsTyped
  <2>4. CASE SlaveKey(n)
    BY <2>1, <2>4, PeerChanges DEF SlaveKey, Peer
  <2>5. CASE SlaveRequest(n) \/ SlaveTimeout(n)
    BY <2>1, <2>5, PeerChanges DEF SlaveRequest, SlaveTimeout
  <2>6. CASE SlaveConfig(n)
    BY <1>1, <2>2, <2>6, PeerChanges DEF SlaveConfig
  <2>7. CASE SlaveList(n)
    BY <1>1, <2>1, <2>7, PeerChanges DEF SlaveList
  <2>8. CASE SlaveClean(n) \/ SlavePut(n) \/ SlaveStops(n) \/ SlaveEnd(n)
    BY <1>1, <2>8 DEF SlaveClean, SlavePut, SlaveStops, SlaveEnd, radioVars
  <2>9. QED BY <1>2, <2>3, <2>4, <2>5, <2>6, <2>7, <2>8 DEF SlaveTask
<1>3. ASSUME NEW n \in Nodes, AppTask(n) \/ Again(n) \/ Blufi(n) PROVE peers' = peers
  BY <1>3 DEF AppTask, SlaveInit, QueueRead, SlaveDeinit, SlaveJoin, MasterCall, MasterSem,
     MasterStop, MasterTake, MasterStart, Again, Blufi, radioVars
<1>4. ASSUME NEW n \in Nodes, MasterTask(n) PROVE peers' = peers
  BY <1>4 DEF MasterTask, MasterAdvertise, MasterExpires, MasterWaits, MasterRead,
     MasterConfig, MasterList, MasterExit, MasterClear, radioVars
<1>5. ASSUME NEW n \in Nodes, MasterGive(n) \/ \E m \in Nodes : Sniff(n, m)
      PROVE  peers' = peers
  BY <1>5 DEF MasterGive, Sniff, radioVars
<1>6. QED BY <1>1, <1>2, <1>3, <1>4, <1>5 DEF Next, vars, radioVars

LEMMA OneCounts ==
  ASSUME NEW S, One(S)
  PROVE  Cardinality(S) <= 1 /\ S \subseteq Config
<1>1. CASE S = {}
  BY <1>1, FS_EmptySet
<1>2. ASSUME NEW c \in Config, S = {c} PROVE Cardinality(S) <= 1 /\ S \subseteq Config
  BY <1>2, FS_Singleton
<1>3. QED BY <1>1, <1>2 DEF One

(* A node has at most one configuration read and one queued, the packets   *)
(* on their way are of the three kinds a node sends, and the tries left    *)
(* never leave their range, whatever is lost, late or repeated             *)
(* (mconfig_chain.c:124-300, 346-528; mconfig_queue.c).                    *)
THEOREM ChainTypes == Spec => []TypeOK
<1>1. Init => FlagsTyped
  BY DEF Init, FlagsTyped, Semaphore
<1>2. Init => PeersTyped
  BY DEF Init, PeersTyped, Peer
<1>3. FlagsTyped /\ [Next]_vars => FlagsTyped'
  BY FlagsKept
<1>4. CInv /\ PeersTyped /\ [Next]_vars => PeersTyped'
  BY PeersKept
<1>5. CInv /\ FlagsTyped /\ PeersTyped => TypeOK
  <2> SUFFICES ASSUME CInv, FlagsTyped, PeersTyped PROVE TypeOK
    OBVIOUS
  <2>1. ASSUME NEW n \in Nodes
        PROVE  /\ config[n] \cup queue[n] \subseteq Config
               /\ Cardinality(config[n]) <= 1 /\ Cardinality(queue[n]) <= 1
    BY OneCounts DEF CInv, QueuesSound, ConfigsTyped
  <2>2. ASSUME NEW n \in Nodes
        PROVE  \A i \in DOMAIN pipe[n] : pipe[n][i] \in Packet
    BY DEF CInv, PipesSuit
  <2>3. ASSUME NEW n \in Nodes
        PROVE  slave[n].tries \in 0 .. Retry /\ master[n].tries \in 0 .. Retry
    BY DEF CInv, SlavesSound, MastersSound, SlaveTasks, MasterTasks
  <2>4. seen \in [Nodes -> SUBSET Nodes]
    BY DEF CInv, ConfigsTyped
  <2>5. QED BY <2>1, <2>2, <2>3, <2>4
            DEF FlagsTyped, PeersTyped, Semaphore, Peer, TypeOK
<1>6. QED BY <1>1, <1>2, <1>3, <1>4, <1>5, ChainInvariant, PTL DEF Spec
=============================================================================
