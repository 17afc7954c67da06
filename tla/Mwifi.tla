------------------------------- MODULE Mwifi --------------------------------
(***************************************************************************)
(* The transport of Mwifi (components/mwifi/mwifi.c): a packet is cut into *)
(* fragments, a multicast descends the tree of the mesh from reader to     *)
(* reader, and a reader puts the fragments together again.                 *)
(*                                                                         *)
(* Writers are the tasks that call mwifi_write() or mwifi_root_write().    *)
(* Every node has one task that calls mwifi_read() in a loop; DS is the    *)
(* task of the root that calls mwifi_root_read().  ESP-WIFI-MESH keeps the *)
(* order between two nodes and says nothing of the order between packets   *)
(* of several nodes.                                                       *)
(*                                                                         *)
(* The content of a packet is the sequence of its parts <<task, number,    *)
(* part>>, each as long as a fragment.  A list of addresses is a set.      *)
(***************************************************************************)
EXTENDS Integers, FiniteSets, Sequences, Functions

CONSTANTS
  Nodes, Root, DS,
  Everyone, Others,  \* MWIFI_ADDR_ANY and MWIFI_ADDR_BROADCAST
  Writers, Home, \* the tasks that write, and the node of each
  Tree,         \* the parent of each node when the mesh has formed
  MaxWrites,    \* a bound of the packets of one writer
  Plans         \* what the writers write and how often each event may happen

Readers == Nodes \cup {DS}
Tasks   == Writers \cup Nodes
NodeOf(t) == IF t \in Nodes THEN t ELSE Home[t]
Events  == {"loss", "repeat", "failure", "query", "move", "timeout",
            "stop", "root_stop"}

(* What a writer writes: mwifi_write() to one node, to DS or to a group,   *)
(* mwifi_root_write() unicast and multicast; packet_seq has three bits.    *)
Packet ==
  [kind : {"node"}, to : Readers, size : 1 .. 8]
    \cup [kind : {"group"}, to : {Everyone, Others}, size : 1 .. 8]
    \cup [kind : {"each", "list"}, size : 1 .. 8,
          to : (SUBSET Nodes) \cup {{Everyone}, {Others}}]

ASSUME MwifiAssumption ==
  /\ Root \in Nodes /\ DS \notin Nodes /\ {Everyone, Others} \cap Readers = {}
  /\ Everyone # Others /\ MaxWrites \in Nat
  /\ Writers \cap Nodes = {} /\ Home \in [Writers -> Nodes]
  /\ Tree \in [Nodes -> Nodes] /\ Tree[Root] = Root
  /\ \A p \in Plans :
       /\ p.limit \in [Events -> Nat] /\ DOMAIN p.writes = Writers
       /\ \A w \in Writers : /\ p.writes[w] \in Seq(Packet)
                            /\ Len(p.writes[w]) <= MaxWrites
                            /\ \A k \in DOMAIN p.writes[w] :
                                 p.writes[w][k].kind \in {"each", "list"}
                                   => Home[w] = Root

VARIABLES
  plan,     \* one of Plans, chosen at the start
  used,     \* how often each event has happened
  parent,   \* the parent of each node
  path,     \* the fragments between two nodes, in order
  tx,       \* what a task is writing or a reader forwarding, see NoCall
  written,  \* how many packets a writer has written
  rx,       \* what a reader has of the packet it receives
  got       \* the packets mwifi_read() or mwifi_root_read() returned

vars == <<plan, used, parent, path, tx, written, rx, got>>

NoCall == [pc |-> "idle", data |-> <<>>, kids |-> {}, list |-> {},
           all |-> FALSE, self |-> FALSE, to |-> {}, dst |-> Root,
           seq |-> 0, back |-> "idle", ok |-> TRUE]

Init ==
  /\ plan \in Plans
  /\ used = [e \in Events |-> 0]
  /\ parent = Tree
  /\ path = [p \in Nodes \X Readers |-> <<>>]
  /\ tx = [t \in Tasks |-> NoCall]
  /\ written = [t \in Writers |-> 0]
  /\ rx = [r \in Readers |->
              [expect |-> 0, parts |-> <<>>, total |-> 0, magic |-> <<>>]]
  /\ got = [r \in Readers |-> <<>>]

-----------------------------------------------------------------------------
(* The topology.                                                           *)

Ancestors(n) ==
  LET up[k \in 0 .. Cardinality(Nodes)] ==
        IF k = 0 THEN n ELSE parent[up[k - 1]]
  IN  Range(up)

(* esp_wifi_ap_get_sta_list() and esp_mesh_get_subnet_nodes_list().        *)
Children(n) == {c \in Nodes \ {Root} : parent[c] = n}
Subnet(c)   == {n \in Nodes \ {c} : c \in Ancestors(n)}

Happens(e) ==
  /\ used[e] < plan.limit[e]
  /\ used' = [used EXCEPT ![e] = @ + 1]

(* A node leaves its parent for another one.                               *)
Move(n, p) ==
  /\ n # Root /\ p # parent[n] /\ n \notin Ancestors(p)
  /\ Happens("move")
  /\ parent' = [parent EXCEPT ![n] = p]
  /\ UNCHANGED <<plan, path, tx, written, rx, got>>

-----------------------------------------------------------------------------
(* Writing.                                                                *)

(* What the writer gave, in fragments.  The addresses a packet for several *)
(* nodes carries in front travel in the room its last fragment leaves.     *)
Parts(w, i) == [k \in 1 .. plan.writes[w][i].size |-> <<w, i, k>>]

(* mwifi_transmit_write() with the head and the data of call c: the lists  *)
(* of all nodes set transmit_all, and the children are asked for once.     *)
Transmit(c, n, addrs) ==
  [c EXCEPT !.pc = "kids", !.list = addrs, !.kids = Children(n),
            !.all = @ \/ addrs \cap {Everyone, Others} # {}]

(* The packet that writer w writes next.                                   *)
Upcoming(w) == plan.writes[w][written[w] + 1]
NewCall(w) ==
  [NoCall EXCEPT !.data = Parts(w, written[w] + 1), !.self = TRUE]

Begin(w, kind, call) ==
  /\ tx[w].pc = "idle" /\ written[w] < Len(plan.writes[w])
  /\ Upcoming(w).kind = kind
  /\ tx' = [tx EXCEPT ![w] = call]
  /\ written' = [written EXCEPT ![w] = @ + 1]
  /\ UNCHANGED <<plan, used, parent, path, rx, got>>

(* mwifi_write() to a node, or to DS when the address is NULL.             *)
WriteNode(w) ==
  Begin(w, "node", [NewCall(w) EXCEPT !.pc = "send", !.dst = Upcoming(w).to])

(* mwifi_write() to all nodes, or all other nodes, makes a group of them:  *)
(* the root gets the packet and passes it on.                              *)
WriteGroup(w) ==
  Begin(w, "group", [NewCall(w) EXCEPT !.pc = "send", !.dst = Root,
                                       !.all = TRUE, !.to = {Upcoming(w).to}])

(* mwifi_root_write(), unicast: the packet is sent to each address.        *)
Addresses(list) ==
  IF list = {Everyone} THEN Nodes
  ELSE IF list = {Others} THEN Nodes \ {Root} ELSE list

RootWriteEach(w) ==
  Begin(w, "each", [NewCall(w) EXCEPT !.pc = "each",
                                      !.list = Addresses(Upcoming(w).to)])

(* mwifi_root_write(), multicast.                                          *)
RootWriteList(w) ==
  Begin(w, "list", Transmit(NewCall(w), Home[w], Upcoming(w).to))

InCall(t, pc) ==
  tx[t].pc = pc /\ UNCHANGED <<plan, parent, written, rx, got>>

(* The next child: it gets the packet when it or a node below it is in the *)
(* list, together with the addresses below it, which leave the list.       *)
NextChild(t) ==
  /\ InCall(t, "kids") /\ tx[t].list # {}
  /\ \E c \in tx[t].kids :
       LET call   == tx[t]
           below  == Subnet(c) \cap call.list
           mine   == c \in call.list
           head   == IF call.all THEN call
                     ELSE [call EXCEPT !.self = mine, !.to = below,
                                       !.list = @ \ (below \cup {c})]
           wanted == call.all \/ mine \/ below # {}
       IN  tx' = [tx EXCEPT ![t] =
             [head EXCEPT !.kids = @ \ {c}, !.dst = c, !.back = "kids",
                          !.ok = TRUE,
                          !.pc = IF wanted THEN "send" ELSE "kids"]]
  /\ UNCHANGED <<used, path>>

(* esp_mesh_get_subnet_nodes_num() fails for a child that was just taken   *)
(* out of the list: the loop over the children ends.                       *)
ChildFails(t) ==
  /\ InCall(t, "kids") /\ tx[t].list # {} /\ ~tx[t].all
  /\ Happens("query")
  /\ \E c \in tx[t].kids :
       tx' = [tx EXCEPT ![t] =
         [tx[t] EXCEPT !.list = @ \ {c}, !.kids = {}, !.ok = FALSE]]
  /\ UNCHANGED path

(* esp_mesh_get_subnet_nodes_list() fails for a child with nodes below it: *)
(* the child gets the packet when it is in the list itself, the addresses  *)
(* below it stay in the list, and the loop goes on.                        *)
BelowUnknown(t) ==
  /\ InCall(t, "kids") /\ tx[t].list # {} /\ ~tx[t].all
  /\ Happens("query")
  /\ \E c \in tx[t].kids :
       /\ Subnet(c) # {}
       /\ LET mine == c \in tx[t].list
          IN  tx' = [tx EXCEPT ![t] =
                [tx[t] EXCEPT !.list = @ \ {c}, !.kids = @ \ {c}, !.dst = c,
                              !.self = mine, !.to = {}, !.ok = FALSE,
                              !.back = "kids",
                              !.pc = IF mine THEN "send" ELSE "kids"]]
  /\ UNCHANGED path

LeftOverNone(c, n) ==                                              \* mutant
  IF Everyone \in c.list /\ n = Root THEN {Root} ELSE {}

LeftOverRoot(c, n) ==                                              \* mutant
  IF ~c.all THEN c.list ELSE IF n = Root THEN {Root} ELSE {}

(* Addresses that are below no child go to the nodes themselves; a list of *)
(* all nodes that the root holds leaves the root itself.                   *)
LeftOver(c, n) ==
  IF ~c.all THEN c.list
  ELSE IF Everyone \in c.list /\ n = Root THEN {Root} ELSE {}

ChildrenDone(t) ==
  /\ InCall(t, "kids") /\ (tx[t].list = {} \/ tx[t].kids = {})
  /\ tx' = [tx EXCEPT ![t] =
       [@ EXCEPT !.pc = "rest", !.kids = {}, !.to = {}, !.all = FALSE,
                 !.list = LeftOver(tx[t], NodeOf(t))]]
  /\ UNCHANGED <<used, path>>

NextAddress(t) ==
  /\ \E pc \in {"rest", "each"} : InCall(t, pc)
  /\ \E d \in tx[t].list :
       tx' = [tx EXCEPT ![t] =
         [tx[t] EXCEPT !.list = @ \ {d}, !.dst = d, !.self = TRUE,
                       !.back = tx[t].pc, !.pc = "send"]]
  /\ UNCHANGED <<used, path>>

(* mwifi_subcontract_write() returned: a failure ends the loop over the    *)
(* children, or the loop of mwifi_root_write() over the addresses.         *)
Sent(c, ok) ==
  IF c.back = "idle" THEN NoCall
  ELSE [c EXCEPT !.pc = c.back, !.seq = 0, !.ok = ok,
                 !.kids = IF ok THEN @ ELSE {},
                 !.list = IF ~ok /\ c.back = "each" THEN {} ELSE @]

(* One turn of its loop, under s_mwifi_send_lock.                          *)
SendFragment(t) ==
  /\ InCall(t, "send")
  /\ LET c == tx[t]
         f == [part |-> c.data[c.seq + 1], seq |-> c.seq,
               total |-> Len(c.data), self |-> c.self, all |-> c.all,
               to |-> c.to, by |-> t, again |-> FALSE]
     IN  /\ path' = [path EXCEPT ![<<NodeOf(t), c.dst>>] = Append(@, f)]
         /\ tx' = [tx EXCEPT ![t] = IF c.seq + 1 = Len(c.data)
                                      THEN Sent(c, TRUE)
                                      ELSE [c EXCEPT !.seq = @ + 1]]
  /\ UNCHANGED used

(* esp_mesh_send() fails, or runs out of memory three times.               *)
SendFails(t) ==
  /\ InCall(t, "send") /\ Happens("failure")
  /\ tx' = [tx EXCEPT ![t] = Sent(@, FALSE)]
  /\ UNCHANGED path

Ended(c) == c.pc \in {"rest", "each"} /\ c.list = {}

WriteReturns(w) ==
  /\ Ended(tx[w])
  /\ tx' = [tx EXCEPT ![w] = NoCall]
  /\ UNCHANGED <<plan, used, parent, path, written, rx, got>>

-----------------------------------------------------------------------------
(* Reading.                                                                *)

(* The head of a fragment carries a random number, drawn for each send: it *)
(* is that of the last fragment only when the mesh delivers this one again *)
(* and no other came between.  Only mwifi_read() filters it.               *)
Magic(f) == <<f.by, f.part>>
Repeated(r, f) == r # DS /\ f.again /\ Magic(f) = rx[r].magic

GatheredStepsBack(r, f) ==                                         \* mutant
  LET x == IF f.seq = rx[r].expect THEN rx[r]
           ELSE [rx[r] EXCEPT !.expect = -1, !.parts = <<>>]
  IN  IF f.seq # rx[r].expect /\ f.seq # 0 THEN [x EXCEPT !.expect = 0]
      ELSE IF Repeated(r, f) THEN [x EXCEPT !.expect = @ - 1]
      ELSE [expect |-> x.expect + 1, parts |-> Append(x.parts, f),
            total |-> f.total, magic |-> Magic(f)]

GatheredKeepsParts(r, f) ==                                        \* mutant
  LET x == IF f.seq = rx[r].expect THEN rx[r]
           ELSE [rx[r] EXCEPT !.expect = -1]
  IN  IF f.seq # rx[r].expect /\ f.seq # 0 THEN [x EXCEPT !.expect = 0]
      ELSE IF Repeated(r, f) THEN x
      ELSE [expect |-> x.expect + 1, parts |-> Append(x.parts, f),
            total |-> f.total, magic |-> Magic(f)]

GatheredKeepsExpecting(r, f) ==                                    \* mutant
  LET x == rx[r]
  IN  IF f.seq # x.expect THEN [x EXCEPT !.parts = <<>>]
      ELSE IF Repeated(r, f) THEN x
      ELSE [expect |-> x.expect + 1, parts |-> Append(x.parts, f),
            total |-> f.total, magic |-> Magic(f)]

(* One turn of the loop that gathers a packet: a gap discards what was     *)
(* gathered and leaves expect_seq = -1 before the loop adds one.           *)
Gathered(r, f) ==
  LET x == IF f.seq = rx[r].expect THEN rx[r]
           ELSE [rx[r] EXCEPT !.expect = -1, !.parts = <<>>]
  IN  IF f.seq # rx[r].expect /\ f.seq # 0 THEN [x EXCEPT !.expect = 0]
      ELSE IF Repeated(r, f) THEN x
      ELSE [expect |-> x.expect + 1, parts |-> Append(x.parts, f),
            total |-> f.total, magic |-> Magic(f)]

(* The loop ends: mwifi_read() asks for recv_size, mwifi_root_read() for   *)
(* expect_seq.                                                             *)
Full(parts) == parts # <<>> /\ Len(parts) >= parts[Len(parts)].total
NodeComplete(x) == Full(x.parts)
RootComplete(x) == x.expect # 0 /\ Full(x.parts)

Content(parts) == [k \in 1 .. Len(parts) |-> parts[k].part]

(* transmit_self, and not the packet to all others a node wrote itself.    *)
Keeps(r, parts) ==
  LET w == parts[1].part[1]
      m == plan.writes[w][parts[1].part[2]]
  IN  /\ parts[Len(parts)].self
      /\ ~(m.kind = "group" /\ m.to = Others /\ r = Home[w])

Returned(r, parts) ==
  got' = IF Keeps(r, parts) THEN [got EXCEPT ![r] = Append(@, Content(parts))]
         ELSE got

Cleared(x) == [x EXCEPT !.expect = 0, !.parts = <<>>, !.total = 0]
Discard(r) == [rx EXCEPT ![r] = Cleared(rx[r])]

Reading(r) == r # DS => tx[r].pc = "idle"

(* esp_mesh_recv(); the mesh may deliver a fragment again.                 *)
Arrives(r, s, again) ==
  /\ path[<<s, r>>] # <<>>
  /\ IF again THEN /\ Happens("repeat")
                   /\ path' = [path EXCEPT ![<<s, r>>][1].again = TRUE]
     ELSE path' = [path EXCEPT ![<<s, r>>] = Tail(@)] /\ UNCHANGED used
  /\ UNCHANGED <<plan, parent, written>>

Gathers(r, x) == rx' = [rx EXCEPT ![r] = x] /\ UNCHANGED got
Ends(r, x) ==
  /\ Returned(r, x.parts)
  /\ rx' = [rx EXCEPT ![r] = Cleared(x)]

(* mwifi_read() takes a fragment.  A packet with addresses in front of it, *)
(* or one for all nodes, is passed on before it is returned.               *)
NodeReads(n, s, again) ==
  /\ tx[n].pc = "idle" /\ Arrives(n, s, again)
  /\ LET f == path[<<s, n>>][1]
         x == Gathered(n, f)
         c == [NoCall EXCEPT !.data = Content(x.parts), !.all = f.all,
                             !.self = f.self, !.to = f.to]
         onward == f.to # {} \/ f.all
     IN  \/ /\ ~NodeComplete(x)
            /\ Gathers(n, x) /\ UNCHANGED tx
         \/ /\ NodeComplete(x) /\ onward
            /\ Gathers(n, x)
            /\ tx' = [tx EXCEPT ![n] =
                 Transmit(c, n, IF f.all THEN {Others} ELSE x.parts[1].to)]
         \/ /\ NodeComplete(x) /\ ~onward
            /\ Ends(n, x) /\ UNCHANGED tx

(* mwifi_root_read() takes a fragment.                                     *)
RootReads(s, again) ==
  /\ Arrives(DS, s, again)
  /\ LET x == Gathered(DS, path[<<s, DS>>][1])
     IN  IF RootComplete(x) THEN Ends(DS, x) ELSE Gathers(DS, x)
  /\ UNCHANGED tx

(* mwifi_transmit_write() returned to mwifi_read(), which ends with its    *)
(* error, or goes on with the packet.                                      *)
ForwardReturns(n) ==
  /\ Ended(tx[n])
  /\ IF tx[n].ok THEN Returned(n, rx[n].parts) ELSE UNCHANGED got
  /\ rx' = Discard(n)
  /\ tx' = [tx EXCEPT ![n] = NoCall]
  /\ UNCHANGED <<plan, used, parent, path, written>>

(* wait_ticks have passed and the loop is inside a packet.                 *)
Timeout(r) ==
  /\ Reading(r)
  /\ rx[r].parts # <<>> \/ rx[r].expect # 0
  /\ Happens("timeout")
  /\ rx' = Discard(r)
  /\ UNCHANGED <<plan, parent, path, tx, written, got>>

(* The mesh is not started: the loop goes round without a fragment.  That  *)
(* of mwifi_root_read() then ends when total_size, which a gap leaves as   *)
(* it was, asks for no more: before the first fragment, or after a packet  *)
(* of one fragment that followed a gap.                                    *)
NotStarted(r) ==
  /\ Reading(r)
  /\ Happens(IF r = DS THEN "root_stop" ELSE "stop")
  /\ IF r = DS /\ Len(rx[r].parts) >= rx[r].total
       THEN /\ rx' = Discard(r)
            /\ got' = [got EXCEPT ![r] = Append(@, Content(rx[r].parts))]
       ELSE rx' = [rx EXCEPT ![r].expect = @ + 1] /\ UNCHANGED got
  /\ UNCHANGED <<plan, parent, path, tx, written>>

Lose(s, r) ==
  /\ path[<<s, r>>] # <<>>
  /\ Happens("loss")
  /\ path' = [path EXCEPT ![<<s, r>>] = Tail(@)]
  /\ UNCHANGED <<plan, parent, tx, written, rx, got>>

Calls(t) ==
  \/ NextChild(t) \/ ChildFails(t) \/ BelowUnknown(t)
  \/ ChildrenDone(t) \/ NextAddress(t)
  \/ SendFragment(t) \/ SendFails(t)

Next ==
  \/ \E w \in Writers :
       \/ WriteNode(w) \/ WriteGroup(w) \/ RootWriteEach(w) \/ RootWriteList(w)
       \/ WriteReturns(w)
  \/ \E t \in Tasks : Calls(t)
  \/ \E n, s \in Nodes, again \in BOOLEAN : NodeReads(n, s, again)
  \/ \E s \in Nodes, again \in BOOLEAN : RootReads(s, again)
  \/ \E n \in Nodes : ForwardReturns(n)
  \/ \E r \in Readers : Timeout(r) \/ NotStarted(r)
  \/ \E r \in Readers, s \in Nodes : Lose(s, r)
  \/ \E n, p \in Nodes : Move(n, p)

Spec == Init /\ [][Next]_vars

-----------------------------------------------------------------------------
(* What must hold.                                                         *)

(* The packets written so far, and the readers a packet is for.            *)
Written == {m \in Writers \X (1 .. MaxWrites) : m[2] <= written[m[1]]}

For(w, i) ==
  LET m == plan.writes[w][i]
      n == IF m.kind \in {"each", "list"} THEN Root ELSE Home[w]
      l == IF m.kind \in {"each", "list"} THEN m.to ELSE {m.to}
  IN  IF l = {Everyone} THEN Nodes ELSE IF l = {Others} THEN Nodes \ {n} ELSE l

Has(r, w, i) == Parts(w, i) \in Range(got[r])
Faults ==
  used["loss"] + used["repeat"] + used["failure"] + used["query"]
    + used["timeout"] + used["stop"] + used["root_stop"]

(* All calls have returned and nothing is on its way.                      *)
Quiet ==
  /\ \A w \in Writers : written[w] = Len(plan.writes[w])
  /\ \A t \in Tasks : tx[t].pc = "idle"
  /\ \A p \in DOMAIN path : path[p] = <<>>

FragmentRecord ==
  [part : Writers \X (1 .. MaxWrites) \X (1 .. 8), seq : 0 .. 7,
   total : 1 .. 8, self : BOOLEAN, all : BOOLEAN,
   to : SUBSET (Nodes \cup {Everyone, Others}), by : Tasks,
   again : BOOLEAN]

(* The packet_seq of a fragment fits its three bits and stays below the    *)
(* total, and what a reader expects only passes them while the mesh is not *)
(* started.                                                                *)
TypeOK ==
  /\ plan \in Plans /\ used \in [Events -> Nat]
  /\ parent \in [Nodes -> Nodes]
  /\ \A p \in Nodes \X Readers : \A f \in Range(path[p]) :
       f \in FragmentRecord /\ f.seq < f.total
  /\ \A t \in Tasks : /\ tx[t].pc \in {"idle", "kids", "rest", "each", "send"}
                      /\ tx[t].list \subseteq Nodes \cup {Everyone, Others}
                      /\ tx[t].kids \subseteq Nodes
  /\ \A r \in Readers :
       rx[r].expect \in -1 .. 8 + used["stop"] + used["root_stop"]

(* mwifi_root_read() returns what it had and did not read while the mesh   *)
(* was not started: of this nothing is said.                               *)
Undisturbed == {r \in Readers : r # DS \/ used["root_stop"] = 0}

(* What a reader returns is one packet as it was written: fragments that   *)
(* were lost, repeated or cut off by a timeout never make mwifi_read()     *)
(* join the parts of two packets.                                          *)
Whole ==
  \A r \in Undisturbed : \A k \in DOMAIN got[r] :
    \E m \in Written : got[r][k] = Parts(m[1], m[2])

(* Every reader gets its fragments from one other node: no node moves, and *)
(* all packets are multicast down the tree.                                *)
OneSender ==
  used["move"] = 0
    /\ \A m \in Written : plan.writes[m[1]][m[2]].kind = "list"

(* No reader returns a packet for others, and none returns a packet twice, *)
(* whichever way it took down the tree while the nodes moved.  The second  *)
(* part is for a mesh that repeats no fragment, and for mwifi_read() also  *)
(* where the only fault is that it does and the reader has one sender:     *)
(* mwifi_read() knows the last fragment only, mwifi_root_read() none.      *)
OnceAndAddressed ==
  \A r \in Undisturbed :
    /\ used["repeat"] = 0 \/ (r # DS /\ OneSender /\ Faults = used["repeat"])
         => IsInjective(got[r])
    /\ \A k \in DOMAIN got[r] :
         \E m \in Written : r \in For(m[1], m[2]) /\ got[r][k][1][1] = m[1]
                                                /\ got[r][k][1][2] = m[2]

(* With no fault every reader a packet is for has it in the end, although  *)
(* nodes change their parent between the reading of the children and the   *)
(* reading of what is below them.                                          *)
AllReached ==
  Quiet /\ Faults = 0 =>
    \A m \in Written : \A r \in For(m[1], m[2]) : Has(r, m[1], m[2])

(* A fault costs a reader the packet it hits and at most the next one.     *)
FaultCostsTwo ==
  Quiet /\ Faults = 1 =>
    \A r \in Readers :
      Cardinality({m \in Written : r \in For(m[1], m[2])
                                  /\ ~Has(r, m[1], m[2])}) <= 2
=============================================================================
