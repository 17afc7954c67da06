---------------------------- MODULE Mwifi_proofs ----------------------------
(***************************************************************************)
(* Theorems about the transport of Mwifi, for every tree, list of          *)
(* addresses, number of writers and number of events.                      *)
(***************************************************************************)
EXTENDS Mwifi, TLAPS

-----------------------------------------------------------------------------
(* The types of the state.                                                 *)

Part     == Writers \X (1 .. MaxWrites) \X (1 .. 8)
Address  == Nodes \cup {Everyone, Others}
Fragment == {f \in FragmentRecord : f.seq < f.total}

Steps == {"idle", "kids", "rest", "each", "send"}

CallRecord ==
  [pc : Steps, data : Seq(Part), kids : SUBSET Nodes, list : SUBSET Address,
   all : BOOLEAN, self : BOOLEAN, to : SUBSET Address, dst : Readers,
   seq : 0 .. 7, back : Steps, ok : BOOLEAN]

(* A call has the parts of a packet, and only the loop over the children   *)
(* has the addresses of all nodes.                                         *)
Calling(c) ==
  /\ c.pc # "idle" => Len(c.data) \in 1 .. 8
  /\ IF c.pc = "send" THEN c.seq < Len(c.data) ELSE c.seq = 0
  /\ c.all \/ c.list \subseteq Nodes
  /\ c.pc \in {"rest", "each"} => c.list \subseteq Nodes
  /\ c.pc = "send" /\ c.back # "kids" => c.list \subseteq Nodes

Call == {c \in CallRecord : Calling(c)}

Receiver ==
  [expect : Int, parts : Seq(Fragment), total : 0 .. 8,
   magic : {<<>>} \cup (Tasks \X Part)]

CallsTyped == tx \in [Tasks -> Call]
PathsTyped == path \in [Nodes \X Readers -> Seq(Fragment)]
PlanTyped ==
  /\ plan \in Plans /\ used \in [Events -> Nat] /\ parent \in [Nodes -> Nodes]
  /\ written \in [Writers -> Nat]
  /\ \A w \in Writers : written[w] <= Len(plan.writes[w])
Stops == used["stop"] + used["root_stop"]
ReadersTyped ==
  /\ rx \in [Readers -> Receiver]
  /\ \A r \in Readers : -1 <= rx[r].expect /\ rx[r].expect <= 8 + Stops
(* A node that waits has less than a packet.                               *)
ShortOfPacket ==
  \A n \in Nodes : tx[n].pc = "idle" => Len(rx[n].parts) < 8

(* What a node sends belongs to a packet that it passes on.                *)
NodesForward == \A n \in Nodes : tx[n].pc = "send" => tx[n].back # "idle"

TInv ==
  CallsTyped /\ PathsTyped /\ PlanTyped /\ ReadersTyped /\ ShortOfPacket /\ NodesForward

LEMMA PacketWritten ==
  ASSUME PlanTyped, NEW w \in Writers, NEW i \in 1 .. Len(plan.writes[w])
  PROVE  /\ plan.writes[w][i] \in Packet /\ plan.writes[w][i].size \in 1 .. 8
         /\ i \in 1 .. MaxWrites
         /\ Parts(w, i) \in Seq(Part) /\ Len(Parts(w, i)) = plan.writes[w][i].size
<1>1. plan.writes[w] \in Seq(Packet) /\ Len(plan.writes[w]) <= MaxWrites /\ MaxWrites \in Nat
  BY MwifiAssumption DEF PlanTyped
<1>2. plan.writes[w][i] \in Packet
  BY <1>1
<1>3. plan.writes[w][i].size \in 1 .. 8
  BY <1>2 DEF Packet
<1>4. i \in 1 .. MaxWrites
  BY <1>1
<1>5. PICK n : n = plan.writes[w][i].size
  OBVIOUS
<1>6. Parts(w, i) = [k \in 1 .. n |-> <<w, i, k>>]
  BY <1>5 DEF Parts
<1>7. \A k \in 1 .. n : <<w, i, k>> \in Part
  BY <1>3, <1>4, <1>5 DEF Part
<1>8. n \in Nat
  BY <1>3, <1>5
<1>9. [k \in 1 .. n |-> <<w, i, k>>] \in Seq(Part)
  BY ONLY <1>7, <1>8
<1>10. Len([k \in 1 .. n |-> <<w, i, k>>]) = n
  BY <1>8
<1>11. QED BY <1>2, <1>3, <1>4, <1>5, <1>6, <1>9, <1>10

(* What a fragment does to the packet that a reader gathers.               *)
LEMMA GatheredIs ==
  ASSUME NEW r \in Readers, rx[r] \in Receiver, NEW f \in Fragment, NEW x, x = Gathered(r, f)
  PROVE  /\ x \in Receiver
         /\ \/ /\ x.parts = <<>> /\ x.expect \in {-1, 0} /\ f.seq # rx[r].expect
               /\ f.seq # 0 \/ Repeated(r, f)
            \/ x = rx[r] /\ f.seq = rx[r].expect /\ Repeated(r, f)
            \/ /\ x.parts = Append(rx[r].parts, f) /\ f.seq = rx[r].expect
               /\ x.expect = rx[r].expect + 1 /\ ~Repeated(r, f)
            \/ x.parts = <<f>> /\ x.expect = 0 /\ f.seq = 0 /\ rx[r].expect # 0 /\ ~Repeated(r, f)
<1>1. /\ f \in FragmentRecord /\ f.seq \in 0 .. 7 /\ Magic(f) \in Tasks \X Part
      /\ f.total \in 0 .. 8
  BY DEF Fragment, FragmentRecord, Magic, Part
<1>2. PICK y : y = rx[r]
  OBVIOUS
<1>3. y \in Receiver /\ y.expect \in Int /\ y.parts \in Seq(Fragment)
  BY <1>2 DEF Receiver
<1>4. CASE f.seq = y.expect
  <2>1. x = IF Repeated(r, f) THEN y
            ELSE [expect |-> y.expect + 1, parts |-> Append(y.parts, f), total |-> f.total,
             magic |-> Magic(f)]
    BY <1>2, <1>4 DEF Gathered
  <2>2. Append(y.parts, f) \in Seq(Fragment)
    BY <1>3
  <2>3. QED BY <1>1, <1>2, <1>3, <1>4, <2>1, <2>2 DEF Receiver
<1>5. CASE f.seq # y.expect
  <2>1. PICK z : z = [y EXCEPT !.expect = -1, !.parts = <<>>]
    OBVIOUS
  <2>2. z \in Receiver /\ z.expect = -1 /\ z.parts = <<>> /\ z.magic = y.magic
    <3>1. <<>> \in Seq(Fragment)
      OBVIOUS
    <3>2. z = [expect |-> -1, parts |-> <<>>, total |-> y.total, magic |-> y.magic]
      BY <1>3, <2>1 DEF Receiver
    <3>3. QED BY <1>3, <3>1, <3>2 DEF Receiver
  <2>3. x = IF f.seq # 0 THEN [z EXCEPT !.expect = 0]
            ELSE IF Repeated(r, f) THEN z
            ELSE [expect |-> z.expect + 1, parts |-> Append(z.parts, f), total |-> f.total,
                  magic |-> Magic(f)]
    BY <1>2, <1>5, <2>1 DEF Gathered
  <2>4. Append(z.parts, f) = <<f>> /\ <<f>> \in Seq(Fragment)
    BY <2>2
  <2>5. CASE f.seq # 0
    BY <1>2, <1>5, <2>2, <2>3, <2>5 DEF Receiver
  <2>6. CASE f.seq = 0
    <3>1. CASE Repeated(r, f)
      BY <1>2, <1>5, <2>2, <2>3, <2>6, <3>1
    <3>2. CASE ~Repeated(r, f)
      <4>1. x = [expect |-> 0, parts |-> <<f>>, total |-> f.total, magic |-> Magic(f)]
        BY <2>2, <2>3, <2>4, <2>6, <3>2
      <4>2. x \in Receiver /\ x.parts = <<f>> /\ x.expect = 0
        BY <1>1, <2>4, <4>1 DEF Receiver
      <4>3. QED BY <1>2, <1>5, <2>6, <3>2, <4>2
    <3>3. QED BY <3>1, <3>2
  <2>7. QED BY <2>5, <2>6
<1>6. QED BY <1>4, <1>5

LEMMA NoCallTyped == NoCall \in Call
<1>1. Root \in Readers /\ <<>> \in Seq(Part)
  BY MwifiAssumption DEF Readers
<1>2. NoCall \in CallRecord
  BY <1>1 DEF NoCall, CallRecord, Steps
<1>3. QED BY <1>2 DEF Call, Calling, NoCall

LEMMA TransmitTyped ==
  ASSUME NEW c \in CallRecord, Len(c.data) \in 1 .. 8, c.seq = 0, NEW n, NEW addrs \in SUBSET Address
  PROVE  /\ Transmit(c, n, addrs) \in Call
         /\ Transmit(c, n, addrs).pc = "kids" /\ Transmit(c, n, addrs).list = addrs
         /\ Transmit(c, n, addrs).data = c.data
         /\ addrs \subseteq Nodes /\ ~c.all => ~Transmit(c, n, addrs).all
<1>1. PICK a, k : a = (c.all \/ addrs \cap {Everyone, Others} # {}) /\ k = Children(n)
  OBVIOUS
<1>2. k \in SUBSET Nodes /\ a \in BOOLEAN /\ (a \/ addrs \subseteq Nodes)
  BY <1>1 DEF Children, Address, CallRecord
<1>3. PICK t : t = [c EXCEPT !.pc = "kids", !.list = addrs, !.kids = k, !.all = a]
  OBVIOUS
<1>4. Transmit(c, n, addrs) = t
  BY <1>1, <1>3 DEF Transmit
<1>5. t \in CallRecord /\ t.pc = "kids" /\ t.list = addrs /\ t.all = a /\ t.data = c.data /\ t.seq = 0
  BY <1>2, <1>3 DEF CallRecord, Steps
<1>6. t \in Call
  BY <1>2, <1>5 DEF Call, Calling
<1>7. addrs \subseteq Nodes => addrs \cap {Everyone, Others} = {}
  BY MwifiAssumption DEF Readers
<1>8. QED BY <1>1, <1>4, <1>5, <1>6, <1>7

LEMMA SentTyped ==
  ASSUME NEW c \in Call, c.pc = "send", NEW ok \in BOOLEAN
  PROVE  Sent(c, ok) \in Call
<1>1. c \in CallRecord /\ Calling(c) /\ c.back \in Steps
  BY DEF Call, CallRecord
<1>2. CASE c.back = "idle"
  BY <1>2, NoCallTyped DEF Sent
<1>3. CASE c.back # "idle"
  <2>1. PICK k, l, t : /\ k = (IF ok THEN c.kids ELSE {})
                       /\ l = (IF ~ok /\ c.back = "each" THEN {} ELSE c.list)
                       /\ t = [c EXCEPT !.pc = c.back, !.seq = 0, !.ok = ok, !.kids = k, !.list = l]
    OBVIOUS
  <2>2. Sent(c, ok) = t
    BY <1>3, <2>1 DEF Sent
  <2>3. k \in SUBSET Nodes /\ l \in SUBSET Address /\ l \subseteq c.list
    BY <1>1, <2>1 DEF CallRecord
  <2>4. /\ t \in CallRecord /\ t.pc = c.back /\ t.seq = 0 /\ t.list = l /\ t.all = c.all
        /\ t.data = c.data /\ t.back = c.back
    <3>1. /\ c \in CallRecord /\ c.back \in Steps /\ 0 \in 0 .. 7 /\ ok \in BOOLEAN
          /\ k \in SUBSET Nodes /\ l \in SUBSET Address
      BY <1>1, <2>3
    <3>2. t = [c EXCEPT !.pc = c.back, !.seq = 0, !.ok = ok, !.kids = k, !.list = l]
      BY <2>1
    <3>3. t \in CallRecord
      BY <3>1, <3>2 DEF CallRecord
    <3>4. /\ t.pc = c.back /\ t.seq = 0 /\ t.list = l /\ t.all = c.all
          /\ t.data = c.data /\ t.back = c.back
      BY <3>1, <3>2 DEF CallRecord
    <3>5. QED BY <3>3, <3>4
  <2>5. Calling(t)
    <3>1. /\ Len(c.data) \in 1 .. 8 /\ (c.all \/ c.list \subseteq Nodes)
          /\ c.back # "kids" => c.list \subseteq Nodes
      BY <1>1 DEF Calling
    <3>2. t.all \/ t.list \subseteq Nodes
      BY <2>3, <2>4, <3>1
    <3>3. t.pc \in {"rest", "each"} => t.list \subseteq Nodes
      BY <2>3, <2>4, <3>1
    <3>4. t.pc = "send" /\ t.back # "kids" => t.list \subseteq Nodes
      BY <2>3, <2>4, <3>1
    <3>5. Len(t.data) \in 1 .. 8 /\ t.seq = 0 /\ 0 < Len(t.data)
      <4>1. PICK n \in 1 .. 8 : n = Len(c.data)
        BY <3>1
      <4>2. 0 < n
        OBVIOUS
      <4>3. QED BY <2>4, <4>1, <4>2
    <3>6. QED BY <3>2, <3>3, <3>4, <3>5 DEF Calling
  <2>6. QED BY <2>2, <2>4, <2>5 DEF Call
<1>4. QED BY <1>2, <1>3

(* A call changes: the rest keeps its types.                               *)
LEMMA CallChanges ==
  ASSUME TInv, UNCHANGED <<plan, parent, written, rx>>, used' \in [Events -> Nat], Stops' >= Stops,
         PathsTyped', NEW t \in Tasks, NEW c \in Call, tx' = [tx EXCEPT ![t] = c],
         t \in Nodes => c.pc # "idle" \/ Len(rx[t].parts) < 8,
         t \in Nodes /\ c.pc = "send" => c.back # "idle"
  PROVE  TInv'
<1>1. CallsTyped'
  BY DEF TInv, CallsTyped
<1>2. PlanTyped'
  BY DEF TInv, PlanTyped
<1>3. ReadersTyped'
  <2>1. ASSUME NEW r \in Readers PROVE -1 <= rx[r].expect /\ rx[r].expect <= 8 + Stops'
    <3>0. "stop" \in Events /\ "root_stop" \in Events
      BY DEF Events
    <3>1. Stops \in Nat /\ Stops' \in Nat
      BY <3>0 DEF TInv, PlanTyped, Stops
    <3>2. rx[r].expect \in Int
      BY DEF TInv, ReadersTyped, Receiver
    <3>3. QED BY <3>1, <3>2 DEF TInv, ReadersTyped
  <2>2. QED BY <2>1 DEF TInv, ReadersTyped
<1>4. ShortOfPacket'
  <2>1. ASSUME NEW n \in Nodes, (tx[n].pc = "idle")' PROVE Len(rx[n].parts) < 8
    <3>1. CASE n = t
      BY <2>1, <3>1 DEF TInv, CallsTyped
    <3>2. CASE n # t
      BY <2>1, <3>2 DEF TInv, CallsTyped, ShortOfPacket
    <3>3. QED BY <3>1, <3>2
  <2>2. QED BY <2>1 DEF ShortOfPacket
<1>5. NodesForward'
  <2>1. ASSUME NEW n \in Nodes, (tx[n].pc = "send")' PROVE (tx[n].back # "idle")'
    <3>1. CASE n = t
      BY <2>1, <3>1 DEF TInv, CallsTyped
    <3>2. CASE n # t
      BY <2>1, <3>2 DEF TInv, CallsTyped, NodesForward
    <3>3. QED BY <3>1, <3>2
  <2>2. QED BY <2>1 DEF NodesForward
<1>6. QED BY <1>1, <1>2, <1>3, <1>4, <1>5 DEF TInv

LEMMA HappensTyped ==
  ASSUME PlanTyped, NEW e \in Events, Happens(e)
  PROVE  /\ used' \in [Events -> Nat] /\ Stops' >= Stops
         /\ e \in {"stop", "root_stop"} => Stops' = Stops + 1
         /\ used[e] < plan.limit[e] /\ \A o \in Events : used'[o] >= used[o]
         /\ used'[e] = used[e] + 1 /\ \A o \in Events \ {e} : used'[o] = used[o]
<1>1. used \in [Events -> Nat]
  BY DEF PlanTyped
<1>2. used' = [used EXCEPT ![e] = used[e] + 1] /\ used[e] < plan.limit[e]
  BY DEF Happens
<1>3. "stop" \in Events /\ "root_stop" \in Events /\ used[e] \in Nat
  BY <1>1 DEF Events
<1>4. used' \in [Events -> Nat] /\ used'[e] = used[e] + 1 /\ \A o \in Events \ {e} : used'[o] = used[o]
  <2>1. used[e] + 1 \in Nat
    BY <1>3
  <2>2. PICK n \in Nat : n = used[e] + 1
    BY <2>1
  <2>3. used' = [used EXCEPT ![e] = n]
    BY <1>2, <2>2
  <2>4. QED BY <1>1, <2>2, <2>3
<1>5. \A o \in Events : used'[o] >= used[o]
  <2>1. ASSUME NEW o \in Events PROVE used'[o] >= used[o]
    <3>1. used[o] \in Nat
      BY <1>1
    <3>2. used[o] >= used[o] /\ used[e] + 1 >= used[e]
      BY <1>3, <3>1
    <3>3. QED BY <1>4, <3>2
  <2>2. QED BY <2>1
<1>6. Stops' >= Stops /\ (e \in {"stop", "root_stop"} => Stops' = Stops + 1)
  <2>1. used["stop"] \in Nat /\ used["root_stop"] \in Nat /\ used'["stop"] \in Nat
        /\ used'["root_stop"] \in Nat
    BY <1>1, <1>3, <1>4
  <2>2. used'["stop"] >= used["stop"] /\ used'["root_stop"] >= used["root_stop"]
    BY <1>3, <1>5
  <2>3. e = "stop" => used'["stop"] = used["stop"] + 1 /\ used'["root_stop"] = used["root_stop"]
    BY <1>3, <1>4
  <2>4. e = "root_stop" => used'["root_stop"] = used["root_stop"] + 1 /\ used'["stop"] = used["stop"]
    BY <1>3, <1>4
  <2>5. QED BY <2>1, <2>2, <2>3, <2>4 DEF Stops
<1>7. QED BY <1>2, <1>4, <1>5, <1>6

(* The lists of all nodes only occur in calls that send to all.            *)
LEMMA LeftOverListed ==
  ASSUME NEW c \in Call, NEW n
  PROVE  LeftOver(c, n) \in SUBSET Nodes
<1>1. c.all \/ c.list \in SUBSET Nodes
  BY DEF Call, Calling
<1>2. Root \in Nodes
  BY MwifiAssumption
<1>3. QED BY <1>1, <1>2 DEF LeftOver

LEMMA BeginTyped ==
  ASSUME TInv, NEW w \in Writers, NEW kind, NEW c \in Call, Begin(w, kind, c)
  PROVE  TInv'
<1>1. /\ UNCHANGED <<plan, used, parent, path, rx>> /\ tx' = [tx EXCEPT ![w] = c]
      /\ written' = [written EXCEPT ![w] = @ + 1] /\ written[w] < Len(plan.writes[w])
      /\ tx[w].pc = "idle"
  BY DEF Begin
<1>2. w \in Tasks /\ w \notin Nodes /\ Nodes \subseteq Tasks
  BY MwifiAssumption DEF Tasks
<1>3. CallsTyped'
  BY <1>1, <1>2 DEF TInv, CallsTyped
<1>4. PlanTyped'
  <2>1. plan.writes[w] \in Seq(Packet) /\ written \in [Writers -> Nat]
    BY MwifiAssumption DEF TInv, PlanTyped
  <2>2. PICK l, n : l = Len(plan.writes[w]) /\ n = written[w]
    OBVIOUS
  <2>3. l \in Nat /\ n \in Nat /\ n < l
    BY <1>1, <2>1, <2>2
  <2>4. n + 1 \in Nat /\ n + 1 <= l
    BY <2>3
  <2>5. PICK m \in Nat : m = n + 1 /\ m <= l
    BY <2>4
  <2>6. written' = [written EXCEPT ![w] = m]
    BY <1>1, <2>2, <2>5
  <2>7. QED BY <1>1, <2>1, <2>2, <2>5, <2>6 DEF TInv, PlanTyped
<1>5. ReadersTyped'
  BY <1>1 DEF TInv, ReadersTyped, Stops
<1>6. ShortOfPacket'
  BY <1>1, <1>2 DEF TInv, CallsTyped, ShortOfPacket
<1>7. PathsTyped'
  BY <1>1 DEF TInv, PathsTyped
<1>8. NodesForward'
  BY <1>1, <1>2 DEF TInv, CallsTyped, NodesForward
<1>9. QED BY <1>3, <1>4, <1>5, <1>6, <1>7, <1>8 DEF TInv

LEMMA NewCallTyped ==
  ASSUME TInv, NEW w \in Writers, written[w] < Len(plan.writes[w])
  PROVE  /\ NewCall(w) \in CallRecord /\ Len(NewCall(w).data) \in 1 .. 8
         /\ NewCall(w).seq = 0 /\ ~NewCall(w).all /\ NewCall(w).list = {}
         /\ NewCall(w).data = Parts(w, written[w] + 1)
         /\ NewCall(w).back = "idle" /\ NewCall(w).self /\ NewCall(w).to = {}
         /\ Upcoming(w) \in Packet /\ written[w] + 1 \in 1 .. Len(plan.writes[w])
<1>1. plan.writes[w] \in Seq(Packet) /\ written \in [Writers -> Nat]
  BY MwifiAssumption DEF TInv, PlanTyped
<1>2. PICK l, n : l = Len(plan.writes[w]) /\ n = written[w]
  OBVIOUS
<1>3. l \in Nat /\ n \in Nat /\ n < l
  BY <1>1, <1>2
<1>4. n + 1 \in 1 .. l
  BY <1>3
<1>5. PICK i : i = n + 1
  OBVIOUS
<1>6. /\ plan.writes[w][i] \in Packet /\ plan.writes[w][i].size \in 1 .. 8
      /\ Parts(w, i) \in Seq(Part) /\ Len(Parts(w, i)) = plan.writes[w][i].size
  BY <1>2, <1>4, <1>5, PacketWritten DEF TInv
<1>7. PICK d : d = Parts(w, i)
  OBVIOUS
<1>8. NewCall(w) = [NoCall EXCEPT !.data = d, !.self = TRUE]
  BY <1>2, <1>5, <1>7 DEF NewCall
<1>9. NoCall \in CallRecord /\ d \in Seq(Part)
  BY <1>6, <1>7, NoCallTyped DEF Call
<1>10. NewCall(w) \in CallRecord
  BY <1>8, <1>9 DEF CallRecord
<1>11. /\ NewCall(w).data = d /\ NewCall(w).self /\ NewCall(w).seq = 0 /\ ~NewCall(w).all
       /\ NewCall(w).list = {} /\ NewCall(w).back = "idle" /\ NewCall(w).to = {}
  BY <1>8 DEF NoCall
<1>12. QED BY <1>2, <1>4, <1>5, <1>6, <1>7, <1>10, <1>11 DEF Upcoming

LEMMA WriteTyped ==
  ASSUME TInv, NEW w \in Writers,
         WriteNode(w) \/ WriteGroup(w) \/ RootWriteEach(w) \/ RootWriteList(w)
  PROVE  TInv'
<1>1. PICK m, c : m = Upcoming(w) /\ c = NewCall(w)
  OBVIOUS
<1>2. written[w] < Len(plan.writes[w])
  BY DEF WriteNode, WriteGroup, RootWriteEach, RootWriteList, Begin
<1>3. /\ c \in CallRecord /\ Len(c.data) \in 1 .. 8 /\ c.seq = 0 /\ c.list = {} /\ c.back = "idle"
      /\ m \in Packet
  BY <1>1, <1>2, NewCallTyped
<1>4. 0 < Len(c.data)
  <2>1. PICK n \in 1 .. 8 : n = Len(c.data)
    BY <1>3
  <2>2. 0 < n
    OBVIOUS
  <2>3. QED BY <2>1, <2>2
<1>5. CASE WriteNode(w)
  <2>1. PICK d : d = [c EXCEPT !.pc = "send", !.dst = m.to]
    OBVIOUS
  <2>2. Begin(w, "node", d) /\ m.kind = "node"
    BY <1>1, <1>5, <2>1 DEF WriteNode, Begin
  <2>3. m.to \in Readers
    BY <1>3, <2>2 DEF Packet
  <2>4. /\ d \in CallRecord /\ d.pc = "send" /\ d.seq = 0 /\ d.list = {} /\ d.data = c.data
    BY <1>3, <2>1, <2>3 DEF CallRecord, Steps
  <2>5. d \in Call
    BY <1>3, <1>4, <2>4 DEF Call, Calling
  <2>6. QED BY <2>2, <2>5, BeginTyped
<1>6. CASE WriteGroup(w)
  <2>1. PICK d, l : d = [c EXCEPT !.pc = "send", !.dst = Root, !.all = TRUE, !.to = l] /\ l = {m.to}
    OBVIOUS
  <2>2. Begin(w, "group", d) /\ m.kind = "group"
    BY <1>1, <1>6, <2>1 DEF WriteGroup, Begin
  <2>3. l \in SUBSET Address /\ Root \in Readers
    BY <1>3, <2>1, <2>2, MwifiAssumption DEF Packet, Address, Readers
  <2>4. /\ d \in CallRecord /\ d.pc = "send" /\ d.seq = 0 /\ d.list = {} /\ d.data = c.data
    BY <1>3, <2>1, <2>3 DEF CallRecord, Steps
  <2>5. d \in Call
    BY <1>3, <1>4, <2>4 DEF Call, Calling
  <2>6. QED BY <2>2, <2>5, BeginTyped
<1>7. CASE RootWriteEach(w)
  <2>1. PICK d, l : d = [c EXCEPT !.pc = "each", !.list = l] /\ l = Addresses(m.to)
    OBVIOUS
  <2>2. Begin(w, "each", d) /\ m.kind = "each"
    BY <1>1, <1>7, <2>1 DEF RootWriteEach, Begin
  <2>3. l \in SUBSET Nodes
    BY <1>3, <2>1, <2>2 DEF Packet, Addresses
  <2>4. /\ d \in CallRecord /\ d.pc = "each" /\ d.seq = 0 /\ d.list = l /\ d.data = c.data
    BY <1>3, <2>1, <2>3 DEF CallRecord, Steps, Address
  <2>5. d \in Call
    BY <1>3, <2>3, <2>4 DEF Call, Calling
  <2>6. QED BY <2>2, <2>5, BeginTyped
<1>8. CASE RootWriteList(w)
  <2>1. PICK d : d = Transmit(c, Home[w], m.to)
    OBVIOUS
  <2>2. Begin(w, "list", d) /\ m.kind = "list"
    BY <1>1, <1>8, <2>1 DEF RootWriteList, Begin
  <2>3. m.to \in SUBSET Address
    BY <1>3, <2>2 DEF Packet, Address
  <2>4. d \in Call
    BY <1>3, <2>1, <2>3, TransmitTyped
  <2>5. QED BY <2>2, <2>4, BeginTyped
<1>9. QED BY <1>5, <1>6, <1>7, <1>8

LEMMA NextChildTyped ==
  ASSUME TInv, NEW t \in Tasks, NextChild(t)
  PROVE  TInv'
<1>1. /\ UNCHANGED <<plan, parent, written, rx, got, used, path>>
      /\ tx[t].pc = "kids" /\ tx[t].list # {}
  BY DEF NextChild, InCall
<1>2. PICK c : c = tx[t]
  OBVIOUS
<1>3. c \in CallRecord /\ Calling(c) /\ c.pc = "kids" /\ c.seq = 0 /\ Len(c.data) \in 1 .. 8
  BY <1>1, <1>2 DEF TInv, CallsTyped, Call, Calling
<1>4. PICK k \in c.kids :
        LET below == Subnet(k) \cap c.list
            mine  == k \in c.list
            head  == IF c.all THEN c
                     ELSE [c EXCEPT !.self = mine, !.to = below, !.list = @ \ (below \cup {k})]
            wanted == c.all \/ mine \/ below # {}
        IN  tx' = [tx EXCEPT ![t] = [head EXCEPT !.kids = @ \ {k}, !.dst = k, !.back = "kids",
                                                 !.ok = TRUE, !.pc = IF wanted THEN "send" ELSE "kids"]]
  BY <1>2 DEF NextChild
<1>5. PICK g, d, x :
        /\ g = IF c.all THEN c
               ELSE [c EXCEPT !.self = (k \in c.list), !.to = Subnet(k) \cap c.list,
                              !.list = @ \ ((Subnet(k) \cap c.list) \cup {k})]
        /\ x \in {"send", "kids"}
        /\ d = [g EXCEPT !.kids = @ \ {k}, !.dst = k, !.back = "kids", !.ok = TRUE, !.pc = x]
        /\ tx' = [tx EXCEPT ![t] = d]
  BY <1>4
<1>6. /\ g \in CallRecord /\ g.list \subseteq c.list /\ g.all = c.all /\ g.seq = 0 /\ g.data = c.data
      /\ g.kids = c.kids
  <2>1. CASE c.all
    BY <1>3, <1>5, <2>1
  <2>2. CASE ~c.all
    <3>1. PICK b, h, l : b = Subnet(k) \cap c.list /\ h = (k \in c.list) /\ l = c.list \ (b \cup {k})
      OBVIOUS
    <3>2. g = [c EXCEPT !.self = h, !.to = b, !.list = l]
      BY <1>5, <2>2, <3>1
    <3>3. b \in SUBSET Address /\ l \in SUBSET Address /\ l \subseteq c.list /\ h \in BOOLEAN
      BY <1>3, <3>1 DEF CallRecord
    <3>4. g \in CallRecord
      BY <1>3, <3>2, <3>3 DEF CallRecord
    <3>5. g.all = c.all /\ g.seq = c.seq /\ g.data = c.data /\ g.kids = c.kids /\ g.list = l
      BY <1>3, <3>2 DEF CallRecord
    <3>6. QED BY <1>3, <3>3, <3>4, <3>5
  <2>3. QED BY <2>1, <2>2
<1>7. /\ d \in CallRecord /\ d.pc \in {"send", "kids"} /\ d.back = "kids" /\ d.seq = 0
      /\ Len(d.data) \in 1 .. 8 /\ d.list \subseteq c.list /\ d.all = c.all
  <2>1. k \in Readers /\ k \in Nodes
    BY <1>3 DEF CallRecord, Readers
  <2>2. d \in CallRecord
    <3>1. PICK m : m = g.kids \ {k}
      OBVIOUS
    <3>2. m \in SUBSET Nodes
      BY <1>6, <3>1 DEF CallRecord
    <3>3. d = [g EXCEPT !.kids = m, !.dst = k, !.back = "kids", !.ok = TRUE, !.pc = x]
      BY <1>5, <3>1
    <3>4. g \in CallRecord /\ k \in Readers /\ x \in Steps /\ "kids" \in Steps
      BY <1>5, <1>6, <2>1 DEF Steps
    <3>5. QED BY <3>2, <3>3, <3>4 DEF CallRecord
  <2>3. /\ d.pc = x /\ d.back = "kids" /\ d.all = g.all /\ d.seq = g.seq /\ d.data = g.data
        /\ d.list = g.list
    BY <1>5, <1>6 DEF CallRecord
  <2>4. QED BY <1>3, <1>5, <1>6, <2>2, <2>3
<1>8. d \in Call
  <2>1. PICK n \in 1 .. 8 : n = Len(d.data)
    BY <1>7
  <2>2. 0 < n
    OBVIOUS
  <2>3. d.all \/ d.list \subseteq Nodes
    BY <1>3, <1>7 DEF Calling
  <2>4. QED BY <1>7, <2>1, <2>2, <2>3 DEF Call, Calling
<1>9. d.pc # "idle" /\ d.back # "idle"
  BY <1>7
<1>10. PathsTyped' /\ used' \in [Events -> Nat] /\ Stops' >= Stops
  <2>1. Stops \in Nat
    BY DEF TInv, PlanTyped, Stops, Events
  <2>2. QED BY <1>1, <2>1 DEF TInv, PathsTyped, PlanTyped, Stops
<1>11. QED BY <1>1, <1>5, <1>8, <1>9, <1>10, CallChanges

LEMMA ChildrenTyped ==
  ASSUME TInv, NEW t \in Tasks,
         ChildFails(t) \/ BelowUnknown(t) \/ ChildrenDone(t) \/ NextAddress(t)
  PROVE  TInv'
<1>1. /\ UNCHANGED <<plan, parent, written, rx, got, path>>
      /\ tx[t].pc \in {"kids", "rest", "each"}
      /\ used' = used \/ Happens("query")
  BY DEF ChildFails, BelowUnknown, ChildrenDone, NextAddress, InCall
<1>2. PICK c : c = tx[t]
  OBVIOUS
<1>3. c \in Call /\ c \in CallRecord /\ Calling(c) /\ c.seq = 0 /\ Len(c.data) \in 1 .. 8
  BY <1>1, <1>2 DEF TInv, CallsTyped, Call, Calling
<1>4. PathsTyped' /\ used' \in [Events -> Nat] /\ Stops' >= Stops
  <2>1. Stops \in Nat
    BY DEF TInv, PlanTyped, Stops, Events
  <2>2. "query" \in Events
    BY DEF Events
  <2>3. PathsTyped'
    BY <1>1 DEF TInv, PathsTyped
  <2>4. CASE used' = used
    BY <2>1, <2>3, <2>4 DEF TInv, PlanTyped, Stops
  <2>5. CASE Happens("query")
    BY <2>2, <2>3, <2>5, HappensTyped DEF TInv
  <2>6. QED BY <1>1, <2>4, <2>5
<1>5. CASE ChildFails(t)
  <2>1. PICK k \in c.kids :
          tx' = [tx EXCEPT ![t] = [tx[t] EXCEPT !.list = tx[t].list \ {k}, !.kids = {}, !.ok = FALSE]]
    <3>1. ChildFails(t)
      BY <1>5
    <3>2. \E k \in tx[t].kids :
            tx' = [tx EXCEPT ![t] = [tx[t] EXCEPT !.list = tx[t].list \ {k}, !.kids = {}, !.ok = FALSE]]
      BY ONLY <3>1 DEF ChildFails
    <3>3. QED BY <1>2, <3>2
  <2>2. PICK d, l : /\ d = [c EXCEPT !.list = l, !.kids = {}, !.ok = FALSE] /\ l = c.list \ {k}
                    /\ tx' = [tx EXCEPT ![t] = d]
    <3>1. PICK l : l = c.list \ {k}
      OBVIOUS
    <3>2. PICK d : d = [c EXCEPT !.list = l, !.kids = {}, !.ok = FALSE]
      OBVIOUS
    <3>3. QED BY <1>2, <2>1, <3>1, <3>2
  <2>3. l \in SUBSET Address /\ l \subseteq c.list /\ c.pc = "kids"
    BY <1>2, <1>3, <1>5, <2>2 DEF CallRecord, ChildFails, InCall
  <2>4. d \in CallRecord
    BY <1>3, <2>2, <2>3 DEF CallRecord
  <2>5. d.pc = c.pc /\ d.all = c.all /\ d.list = l /\ d.seq = c.seq /\ d.data = c.data
    BY <1>3, <2>2 DEF CallRecord
  <2>6. d.all \/ d.list \subseteq Nodes
    BY <1>3, <2>3, <2>5 DEF Calling
  <2>7. d \in Call /\ d.pc \notin {"idle", "send"}
    BY <1>3, <2>3, <2>4, <2>5, <2>6 DEF Call, Calling
  <2>8. QED BY <1>1, <1>4, <2>2, <2>7, CallChanges
<1>6. CASE ChildrenDone(t)
  <2>1. PICK d, l : /\ d = [c EXCEPT !.pc = "rest", !.kids = {}, !.to = {}, !.all = FALSE, !.list = l]
                    /\ l = LeftOver(c, NodeOf(t)) /\ tx' = [tx EXCEPT ![t] = d]
    BY <1>2, <1>6 DEF ChildrenDone
  <2>2. l \in SUBSET Nodes
    BY <1>3, <2>1, LeftOverListed
  <2>3. d \in CallRecord
    BY <1>3, <2>1, <2>2 DEF CallRecord, Steps, Address
  <2>4. d.pc = "rest" /\ d.list = l /\ d.seq = c.seq /\ d.data = c.data
    BY <1>3, <2>1 DEF CallRecord
  <2>5. d \in Call /\ d.pc \notin {"idle", "send"}
    BY <1>3, <2>2, <2>3, <2>4 DEF Call, Calling
  <2>6. QED BY <1>1, <1>4, <2>1, <2>5, CallChanges
<1>7. CASE NextAddress(t)
  <2>1. c.pc \in {"rest", "each"}
    BY <1>2, <1>7 DEF NextAddress, InCall
  <2>2. PICK a \in c.list :
          tx' = [tx EXCEPT ![t] = [tx[t] EXCEPT !.list = tx[t].list \ {a}, !.dst = a, !.self = TRUE,
                                            !.back = tx[t].pc, !.pc = "send"]]
    <3>1. NextAddress(t)
      BY <1>7
    <3>2. \E a \in tx[t].list :
            tx' = [tx EXCEPT ![t] = [tx[t] EXCEPT !.list = tx[t].list \ {a}, !.dst = a, !.self = TRUE,
                                            !.back = tx[t].pc, !.pc = "send"]]
      BY ONLY <3>1 DEF NextAddress
    <3>3. QED BY <1>2, <3>2
  <2>3. PICK d, l : /\ d = [c EXCEPT !.list = l, !.dst = a, !.self = TRUE, !.back = c.pc, !.pc = "send"]
                    /\ l = c.list \ {a} /\ tx' = [tx EXCEPT ![t] = d]
    <3>1. PICK l : l = c.list \ {a}
      OBVIOUS
    <3>2. PICK d : d = [c EXCEPT !.list = l, !.dst = a, !.self = TRUE, !.back = c.pc, !.pc = "send"]
      OBVIOUS
    <3>3. QED BY <1>2, <2>2, <3>1, <3>2
  <2>4. c.list \in SUBSET Nodes
    BY <1>3, <2>1 DEF Calling
  <2>5. l \in SUBSET Nodes /\ l \in SUBSET Address /\ a \in Readers
    BY <2>3, <2>4 DEF Address, Readers
  <2>6. d \in CallRecord
    BY <1>3, <2>3, <2>5 DEF CallRecord, Steps
  <2>7. d.pc = "send" /\ d.list = l /\ d.seq = c.seq /\ d.data = c.data /\ d.back = c.pc
    BY <1>3, <2>3 DEF CallRecord
  <2>8. PICK n \in 1 .. 8 : n = Len(d.data)
    BY <1>3, <2>7
  <2>9. 0 < n
    OBVIOUS
  <2>10. d \in Call /\ d.pc # "idle" /\ d.back # "idle"
    BY <2>1, <1>3, <2>5, <2>6, <2>7, <2>8, <2>9 DEF Call, Calling
  <2>11. QED BY <1>1, <1>4, <2>3, <2>10, CallChanges
<1>8. CASE BelowUnknown(t)
  <2>1. c.pc = "kids" /\ ~c.all
    BY <1>2, <1>8 DEF BelowUnknown, InCall
  <2>2. PICK k \in c.kids :
          LET mine == k \in tx[t].list
          IN  tx' = [tx EXCEPT ![t] =
                [tx[t] EXCEPT !.list = tx[t].list \ {k}, !.kids = tx[t].kids \ {k}, !.dst = k,
                              !.self = mine, !.to = {}, !.ok = FALSE, !.back = "kids",
                              !.pc = IF mine THEN "send" ELSE "kids"]]
    <3>1. BelowUnknown(t)
      BY <1>8
    <3>2. \E k \in tx[t].kids :
            /\ Subnet(k) # {}
            /\ LET mine == k \in tx[t].list
               IN  tx' = [tx EXCEPT ![t] =
                     [tx[t] EXCEPT !.list = tx[t].list \ {k}, !.kids = tx[t].kids \ {k}, !.dst = k,
                                   !.self = mine, !.to = {}, !.ok = FALSE, !.back = "kids",
                                   !.pc = IF mine THEN "send" ELSE "kids"]]
      BY ONLY <3>1 DEF BelowUnknown
    <3>3. QED BY <1>2, <3>2
  <2>3. PICK h, l, m, x, d :
          /\ h = (k \in c.list) /\ l = c.list \ {k} /\ m = c.kids \ {k}
          /\ x = IF h THEN "send" ELSE "kids"
          /\ d = [c EXCEPT !.list = l, !.kids = m, !.dst = k, !.self = h, !.to = {}, !.ok = FALSE,
                           !.back = "kids", !.pc = x]
    OBVIOUS
  <2>4. tx' = [tx EXCEPT ![t] = d]
    BY <1>2, <2>2, <2>3
  <2>5. l \in SUBSET Address /\ m \in SUBSET Nodes /\ k \in Readers /\ h \in BOOLEAN
    BY <1>3, <2>3 DEF CallRecord, Readers
  <2>6. x \in {"send", "kids"} /\ x \in Steps /\ "kids" \in Steps
    BY <2>3 DEF Steps
  <2>7. d \in CallRecord
    BY <1>3, <2>3, <2>5, <2>6 DEF CallRecord
  <2>8. /\ d.pc = x /\ d.all = c.all /\ d.list = l /\ d.seq = c.seq /\ d.data = c.data
        /\ d.back = "kids"
    BY <1>3, <2>3 DEF CallRecord
  <2>9. d.all \/ d.list \subseteq Nodes
    BY <1>3, <2>3, <2>8 DEF Calling
  <2>10. PICK n \in 1 .. 8 : n = Len(d.data)
    BY <1>3, <2>8
  <2>11. 0 < n
    OBVIOUS
  <2>12. d \in Call /\ d.pc # "idle" /\ d.back # "idle"
    BY <1>3, <2>6, <2>7, <2>8, <2>9, <2>10, <2>11 DEF Call, Calling
  <2>13. QED BY <1>1, <1>4, <2>4, <2>12, CallChanges
<1>9. QED BY <1>5, <1>6, <1>7, <1>8

LEMMA NodeOfTask == ASSUME NEW t \in Tasks PROVE NodeOf(t) \in Nodes
  BY MwifiAssumption DEF Tasks, NodeOf

(* The fragment that a call sends next.                                    *)
Sends(t, c, f, p, d) ==
  /\ c = tx[t] /\ c \in Call /\ c.pc = "send" /\ Len(c.data) \in 1 .. 8
  /\ c.seq \in 0 .. 7 /\ c.seq < Len(c.data)
  /\ f \in Fragment /\ f.part = c.data[c.seq + 1] /\ f.seq = c.seq /\ f.total = Len(c.data)
  /\ f.self = c.self /\ f.all = c.all /\ f.to = c.to /\ ~f.again
  /\ p = <<NodeOf(t), c.dst>> /\ p \in Nodes \X Readers
  /\ path' = [path EXCEPT ![p] = Append(@, f)]
  /\ d \in Call /\ tx' = [tx EXCEPT ![t] = d]
  /\ IF c.seq + 1 = Len(c.data) THEN d = Sent(c, TRUE) ELSE d = [c EXCEPT !.seq = c.seq + 1]
  /\ UNCHANGED <<plan, parent, written, rx, got, used>>

LEMMA SentFragment ==
  ASSUME TInv, NEW t \in Tasks, SendFragment(t)
  PROVE  \E c, f, p, d : Sends(t, c, f, p, d)
<1>1. PICK c, f, p, d :
        /\ c = tx[t]
        /\ f = [part |-> c.data[c.seq + 1], seq |-> c.seq, total |-> Len(c.data), self |-> c.self,
                all |-> c.all, to |-> c.to, by |-> t, again |-> FALSE]
        /\ p = <<NodeOf(t), c.dst>>
        /\ d = IF c.seq + 1 = Len(c.data) THEN Sent(c, TRUE) ELSE [c EXCEPT !.seq = c.seq + 1]
  OBVIOUS
<1>2. /\ UNCHANGED <<plan, parent, written, rx, got, used>> /\ c.pc = "send"
      /\ path' = [path EXCEPT ![p] = Append(@, f)] /\ tx' = [tx EXCEPT ![t] = d]
  BY <1>1 DEF SendFragment, InCall
<1>3. c \in Call /\ c \in CallRecord /\ Calling(c)
  BY <1>1 DEF TInv, CallsTyped, Call
<1>4. Len(c.data) \in 1 .. 8 /\ c.seq < Len(c.data)
  BY <1>2, <1>3 DEF Calling
<1>5. c.seq \in 0 .. 7 /\ c.data \in Seq(Part) /\ c.dst \in Readers
  BY <1>3 DEF CallRecord
<1>6. PICK n \in 1 .. 8, q \in 0 .. 7, s \in Seq(Part) : n = Len(c.data) /\ q = c.seq /\ s = c.data
  BY <1>4, <1>5
<1>7. q < n /\ q + 1 \in 1 .. n
  BY <1>4, <1>6
<1>8. s[q + 1] \in Part
  BY <1>6, <1>7
<1>9. /\ c.self \in BOOLEAN /\ c.all \in BOOLEAN /\ c.to \in SUBSET Address /\ s[q + 1] \in Part
      /\ t \in Tasks /\ FALSE \in BOOLEAN
  BY <1>3, <1>8 DEF CallRecord
<1>10. f = [part |-> s[q + 1], seq |-> q, total |-> n, self |-> c.self,
            all |-> c.all, to |-> c.to, by |-> t, again |-> FALSE]
  BY <1>1, <1>6
<1>11. f \in FragmentRecord
  BY <1>9, <1>10 DEF FragmentRecord, Part, Address
<1>12. f.seq = q /\ f.total = n
  BY <1>10
<1>13. f \in Fragment
  BY <1>7, <1>11, <1>12 DEF Fragment
<1>14. p \in Nodes \X Readers
  BY <1>1, <1>5, NodeOfTask
<1>15. d \in Call
  <2>1. CASE c.seq + 1 = Len(c.data)
    BY <1>1, <1>2, <1>3, <2>1, SentTyped
  <2>2. CASE c.seq + 1 # Len(c.data)
    <3>1. PICK m : m = q + 1
      OBVIOUS
    <3>2. m \in 0 .. 7 /\ m < n
      <4>1. q + 1 # n
        BY <1>6, <2>2
      <4>2. q + 1 \in 0 .. 7 /\ q + 1 < n
        BY <1>7, <4>1
      <4>3. QED BY <3>1, <4>2
    <3>3. d = [c EXCEPT !.seq = m]
      BY <1>1, <1>6, <2>2, <3>1
    <3>4. d \in CallRecord
      BY <1>3, <3>2, <3>3 DEF CallRecord
    <3>5. /\ d.seq = m /\ d.pc = c.pc /\ d.data = c.data /\ d.all = c.all /\ d.list = c.list
          /\ d.back = c.back
      BY <1>3, <3>3 DEF CallRecord
    <3>6. Len(d.data) \in 1 .. 8 /\ d.seq < Len(d.data) /\ d.pc = "send"
      BY <1>2, <1>4, <1>6, <3>2, <3>5
    <3>7. d.all \/ d.list \subseteq Nodes
      BY <1>3, <3>5 DEF Calling
    <3>8. d.back # "kids" => d.list \subseteq Nodes
      BY <1>2, <1>3, <3>5 DEF Calling
    <3>9. QED BY <3>4, <3>6, <3>7, <3>8 DEF Call, Calling
  <2>3. QED BY <2>1, <2>2
<1>16. /\ f.part = c.data[c.seq + 1] /\ f.self = c.self /\ f.all = c.all /\ f.to = c.to /\ ~f.again
  BY <1>1
<1>17. IF c.seq + 1 = Len(c.data) THEN d = Sent(c, TRUE) ELSE d = [c EXCEPT !.seq = c.seq + 1]
  BY <1>1
<1>18. Sends(t, c, f, p, d)
  BY <1>1, <1>2, <1>3, <1>4, <1>5, <1>6, <1>12, <1>13, <1>14, <1>15, <1>16, <1>17 DEF Sends
<1>19. QED BY <1>18

LEMMA SendTyped ==
  ASSUME TInv, NEW t \in Tasks, SendFragment(t) \/ SendFails(t)
  PROVE  TInv'
<1>1. Stops \in Nat /\ "failure" \in Events
  BY DEF TInv, PlanTyped, Stops, Events
<1>2. PICK c : c = tx[t]
  OBVIOUS
<1>3. c \in Call /\ c \in CallRecord /\ c.pc = "send"
  BY <1>2 DEF TInv, CallsTyped, Call, SendFragment, SendFails, InCall
<1>4. t \in Nodes => c.back # "idle"
  BY <1>2, <1>3 DEF TInv, NodesForward
<1>5. ASSUME NEW ok \in BOOLEAN
      PROVE  t \in Nodes => Sent(c, ok).pc # "idle" /\ Sent(c, ok).back # "idle"
  <2>1. SUFFICES ASSUME c.back # "idle"
                 PROVE  Sent(c, ok).pc # "idle" /\ Sent(c, ok).back # "idle"
    BY <1>4
  <2>2. Sent(c, ok).pc = c.back /\ Sent(c, ok).back = c.back
    BY <1>3, <2>1 DEF Sent, CallRecord
  <2>3. QED BY <2>1, <2>2
<1>6. CASE SendFragment(t)
  <2>1. PICK f, p, d :
          /\ f \in Fragment /\ p \in Nodes \X Readers /\ path' = [path EXCEPT ![p] = Append(@, f)]
          /\ d \in Call /\ tx' = [tx EXCEPT ![t] = d]
          /\ IF c.seq + 1 = Len(c.data) THEN d = Sent(c, TRUE) ELSE d = [c EXCEPT !.seq = c.seq + 1]
          /\ UNCHANGED <<plan, parent, written, rx, got, used>>
    <3>1. PICK x, f, p, d : Sends(t, x, f, p, d)
      BY <1>6, SentFragment
    <3>2. x = c
      BY <1>2, <3>1 DEF Sends
    <3>3. QED BY <3>1, <3>2 DEF Sends
  <2>2. PathsTyped'
    <3>1. path[p] \in Seq(Fragment) /\ path \in [Nodes \X Readers -> Seq(Fragment)]
      BY <2>1 DEF TInv, PathsTyped
    <3>2. Append(path[p], f) \in Seq(Fragment)
      BY <2>1, <3>1
    <3>3. QED BY <2>1, <3>1, <3>2 DEF PathsTyped
  <2>3. used' \in [Events -> Nat] /\ Stops' >= Stops
    BY <1>1, <2>1 DEF TInv, PlanTyped, Stops
  <2>4. t \in Nodes => d.pc # "idle" /\ d.back # "idle"
    <3>1. CASE c.seq + 1 = Len(c.data)
      BY <1>5, <2>1, <3>1
    <3>2. CASE c.seq + 1 # Len(c.data)
      <4>1. d.pc = c.pc /\ d.back = c.back
        BY <1>3, <2>1, <3>2 DEF CallRecord
      <4>2. QED BY <1>3, <1>4, <4>1
    <3>3. QED BY <3>1, <3>2
  <2>5. QED BY <2>1, <2>2, <2>3, <2>4, CallChanges
<1>7. CASE SendFails(t)
  <2>1. /\ UNCHANGED <<plan, parent, written, rx, got, path>> /\ Happens("failure")
        /\ tx' = [tx EXCEPT ![t] = Sent(c, FALSE)]
    BY <1>2, <1>7 DEF SendFails, InCall
  <2>2. PICK d : d = Sent(c, FALSE)
    OBVIOUS
  <2>3. d \in Call /\ (t \in Nodes => d.pc # "idle" /\ d.back # "idle")
    BY <1>3, <1>5, <2>2, SentTyped
  <2>4. PathsTyped' /\ used' \in [Events -> Nat] /\ Stops' >= Stops
    BY <1>1, <2>1, HappensTyped DEF TInv, PathsTyped
  <2>5. QED BY <2>1, <2>2, <2>3, <2>4, CallChanges
<1>8. QED BY <1>6, <1>7

LEMMA WriteReturnsTyped ==
  ASSUME TInv, NEW w \in Writers, WriteReturns(w)
  PROVE  TInv'
<1>1. tx' = [tx EXCEPT ![w] = NoCall] /\ UNCHANGED <<plan, used, parent, path, written, rx, got>>
  BY DEF WriteReturns
<1>2. w \in Tasks /\ w \notin Nodes /\ NoCall \in Call
  BY MwifiAssumption, NoCallTyped DEF Tasks
<1>3. PathsTyped' /\ used' \in [Events -> Nat] /\ Stops' >= Stops
  <2>1. Stops \in Nat
    BY DEF TInv, PlanTyped, Stops, Events
  <2>2. QED BY <1>1, <2>1 DEF TInv, PathsTyped, PlanTyped, Stops
<1>4. QED BY <1>1, <1>2, <1>3, CallChanges

(* A reader changes, and perhaps its call.                                 *)
LEMMA ReaderChanges ==
  ASSUME TInv, UNCHANGED <<plan, written>>, parent' \in [Nodes -> Nodes],
         used' \in [Events -> Nat], Stops' >= Stops, PathsTyped',
         NEW r \in Readers, NEW x \in Receiver, rx' = [rx EXCEPT ![r] = x],
         -1 <= x.expect, x.expect <= 8 + Stops',
         CallsTyped', \A n \in Nodes \ {r} : tx'[n] = tx[n],
         r \in Nodes => tx'[r].pc \in {"idle", "kids"}
                        /\ (tx'[r].pc = "idle" => Len(x.parts) < 8)
  PROVE  TInv'
<1>1. PlanTyped'
  BY DEF TInv, PlanTyped
<1>2. ReadersTyped'
  <2>1. rx' \in [Readers -> Receiver]
    BY DEF TInv, ReadersTyped
  <2>2. ASSUME NEW q \in Readers PROVE (-1 <= rx[q].expect)' /\ (rx[q].expect)' <= 8 + Stops'
    <3>1. CASE q = r
      BY <3>1 DEF TInv, ReadersTyped
    <3>2. CASE q # r
      <4>1. rx'[q] = rx[q]
        BY <3>2 DEF TInv, ReadersTyped
      <4>2. -1 <= rx[q].expect /\ rx[q].expect <= 8 + Stops /\ rx[q].expect \in Int
        BY DEF TInv, ReadersTyped, Receiver
      <4>3. "stop" \in Events /\ "root_stop" \in Events
        BY DEF Events
      <4>4. Stops \in Nat /\ Stops' \in Nat
        BY <4>3 DEF TInv, PlanTyped, Stops
      <4>5. PICK e, a, b : e = rx[q].expect /\ a = Stops /\ b = Stops'
        OBVIOUS
      <4>6. e \in Int /\ -1 <= e /\ e <= 8 + a /\ a \in Nat /\ b \in Nat /\ a <= b
        BY <4>2, <4>4, <4>5
      <4>7. e <= 8 + b
        BY <4>6
      <4>8. QED BY <4>1, <4>5, <4>6, <4>7
    <3>3. QED BY <3>1, <3>2
  <2>3. QED BY <2>1, <2>2 DEF ReadersTyped
<1>3. ShortOfPacket'
  <2>1. ASSUME NEW n \in Nodes, (tx[n].pc = "idle")' PROVE (Len(rx[n].parts) < 8)'
    <3>1. CASE n = r
      BY <2>1, <3>1 DEF TInv, ReadersTyped
    <3>2. CASE n # r
      <4>1. rx'[n] = rx[n] /\ tx'[n] = tx[n]
        BY <3>2 DEF TInv, ReadersTyped, Readers
      <4>2. QED BY <2>1, <4>1 DEF TInv, ShortOfPacket
    <3>3. QED BY <3>1, <3>2
  <2>2. QED BY <2>1 DEF ShortOfPacket
<1>4. NodesForward'
  <2>1. ASSUME NEW n \in Nodes, (tx[n].pc = "send")' PROVE (tx[n].back # "idle")'
    <3>1. n # r /\ tx'[n] = tx[n]
      BY <2>1
    <3>2. QED BY <2>1, <3>1 DEF TInv, NodesForward
  <2>2. QED BY <2>1 DEF NodesForward
<1>5. QED BY <1>1, <1>2, <1>3, <1>4 DEF TInv

LEMMA DiscardTyped ==
  ASSUME TInv, NEW r \in Readers
  PROVE  \E x \in Receiver : /\ x.expect = 0 /\ x.parts = <<>> /\ x.magic = rx[r].magic
                             /\ Discard(r) = [rx EXCEPT ![r] = x]
<1>1. PICK y, x : y = rx[r] /\ x = [expect |-> 0, parts |-> <<>>, total |-> 0, magic |-> y.magic]
  OBVIOUS
<1>2. y \in Receiver /\ rx \in [Readers -> Receiver]
  BY <1>1 DEF TInv, ReadersTyped
<1>3. y.magic \in {<<>>} \cup (Tasks \X Part) /\ <<>> \in Seq(Fragment)
  BY <1>2 DEF Receiver
<1>4. x \in Receiver
  BY <1>1, <1>3 DEF Receiver
<1>5. PICK z : z = [y EXCEPT !.expect = 0, !.parts = <<>>, !.total = 0]
  OBVIOUS
<1>6. z = [expect |-> 0, parts |-> <<>>, total |-> 0, magic |-> y.magic]
  BY <1>2, <1>5 DEF Receiver
<1>7. Discard(r) = [rx EXCEPT ![r] = z] /\ z = x
  BY <1>1, <1>5, <1>6 DEF Discard, Cleared
<1>8. x.expect = 0 /\ x.parts = <<>> /\ x.magic = rx[r].magic
  BY <1>1
<1>9. QED BY <1>4, <1>7, <1>8

(* A fragment is read: which one, and what the reader makes of it.         *)
Takes(r, s, again, p, f, x) ==
  /\ p = <<s, r>> /\ p \in Nodes \X Readers /\ path[p] # <<>>
  /\ f = path[p][1] /\ f \in Fragment
  /\ x = Gathered(r, f) /\ x \in Receiver
  /\ UNCHANGED <<plan, parent, written>>
  /\ \/ ~again /\ path' = [path EXCEPT ![p] = Tail(@)] /\ UNCHANGED used
     \/ again /\ Happens("repeat") /\ path' = [path EXCEPT ![p][1].again = TRUE]

LEMMA TakesFragment ==
  ASSUME TInv, NEW r \in Readers, NEW s \in Nodes, NEW again \in BOOLEAN, Arrives(r, s, again)
  PROVE  \E p, f, x : Takes(r, s, again, p, f, x)
<1>1. PICK p, f, x : p = <<s, r>> /\ f = path[p][1] /\ x = Gathered(r, f)
  OBVIOUS
<1>2. /\ p \in Nodes \X Readers /\ path[p] # <<>> /\ UNCHANGED <<plan, parent, written>>
  BY <1>1 DEF Arrives
<1>3. path[p] \in Seq(Fragment)
  BY <1>2 DEF TInv, PathsTyped
<1>4. f \in Fragment
  BY <1>1, <1>2, <1>3
<1>5. x \in Receiver
  BY <1>1, <1>4, GatheredIs DEF TInv, ReadersTyped
<1>6. \/ ~again /\ path' = [path EXCEPT ![p] = Tail(@)] /\ UNCHANGED used
      \/ again /\ Happens("repeat") /\ path' = [path EXCEPT ![p][1].again = TRUE]
  BY <1>1 DEF Arrives
<1>7. QED BY <1>1, <1>2, <1>4, <1>5, <1>6 DEF Takes

LEMMA TakesTyped ==
  ASSUME TInv, NEW r \in Readers, NEW s, NEW again \in BOOLEAN, NEW p, NEW f, NEW x,
         Takes(r, s, again, p, f, x)
  PROVE  /\ PathsTyped' /\ used' \in [Events -> Nat] /\ Stops' >= Stops
         /\ -1 <= x.expect /\ x.expect <= 8 + Stops'
         /\ r \in Nodes /\ tx[r].pc = "idle" => Len(x.parts) \in 0 .. 8
         /\ r \in Nodes /\ ~NodeComplete(x) /\ tx[r].pc = "idle" => Len(x.parts) < 8
         /\ x.parts # <<>> => x.parts[1] \in Fragment /\ x.parts[Len(x.parts)] \in Fragment
<1>1. /\ p \in Nodes \X Readers /\ path[p] # <<>> /\ f \in Fragment /\ x = Gathered(r, f)
      /\ x \in Receiver /\ rx[r] \in Receiver /\ path[p] \in Seq(Fragment)
  BY DEF Takes, TInv, PathsTyped, ReadersTyped
<1>2. "repeat" \in Events /\ "stop" \in Events /\ "root_stop" \in Events
  BY DEF Events
<1>3. Stops \in Nat
  BY <1>2 DEF TInv, PlanTyped, Stops
<1>4. used' \in [Events -> Nat] /\ Stops' >= Stops
  <2>1. CASE UNCHANGED used
    BY <1>3, <2>1 DEF TInv, PlanTyped, Stops
  <2>2. CASE Happens("repeat")
    BY <1>2, <2>2, HappensTyped DEF TInv
  <2>3. QED BY <2>1, <2>2 DEF Takes
<1>5. PathsTyped'
  <2>1. PICK q : q \in Seq(Fragment) /\ q = path[p] /\ q # <<>>
    BY <1>1
  <2>2. CASE path' = [path EXCEPT ![p] = Tail(@)]
    <3>1. Tail(q) \in Seq(Fragment)
      BY <2>1
    <3>2. QED BY <1>1, <2>1, <2>2, <3>1 DEF TInv, PathsTyped
  <2>3. CASE path' = [path EXCEPT ![p][1].again = TRUE]
    <3>1. PICK g, u : g = [q[1] EXCEPT !.again = TRUE] /\ u = [q EXCEPT ![1] = g]
      OBVIOUS
    <3>2. path' = [path EXCEPT ![p] = u]
      BY <2>1, <2>3, <3>1
    <3>3. q[1] \in FragmentRecord /\ q[1].seq < q[1].total
      BY <2>1 DEF Fragment
    <3>4. g \in FragmentRecord /\ g.seq = q[1].seq /\ g.total = q[1].total
      BY <3>1, <3>3 DEF FragmentRecord
    <3>5. g \in Fragment
      BY <3>3, <3>4 DEF Fragment
    <3>6. u \in Seq(Fragment)
      BY <2>1, <3>1, <3>5
    <3>7. QED BY <1>1, <3>2, <3>6 DEF TInv, PathsTyped
  <2>4. QED BY <2>2, <2>3 DEF Takes
<1>6. /\ f.seq \in 0 .. 7 /\ f.total \in 1 .. 8
  BY <1>1 DEF Fragment, FragmentRecord
<1>7. PICK y : y = rx[r]
  OBVIOUS
<1>8. y \in Receiver /\ y.parts \in Seq(Fragment) /\ y.expect \in Int /\ x.expect \in Int /\ x.parts \in Seq(Fragment)
  BY <1>1, <1>7 DEF Receiver
<1>9. \/ x.parts = <<>> /\ x.expect \in {-1, 0}
      \/ x = y /\ f.seq = y.expect
      \/ x.parts = Append(y.parts, f) /\ x.expect = y.expect + 1 /\ f.seq = y.expect
      \/ x.parts = <<f>> /\ x.expect = 0
  BY <1>1, <1>7, GatheredIs
<1>10. -1 <= x.expect /\ x.expect <= 8
  BY <1>6, <1>8, <1>9
<1>11. x.expect <= 8 + Stops'
  <2>1. Stops' \in Nat
    BY <1>2, <1>4 DEF Stops
  <2>2. QED BY <1>8, <1>10, <2>1
<1>12. ASSUME r \in Nodes, tx[r].pc = "idle" PROVE Len(x.parts) \in 0 .. 8 /\ Len(y.parts) < 8
  <2>1. Len(y.parts) < 8 /\ Len(y.parts) \in Nat
    BY <1>7, <1>8, <1>12 DEF TInv, ShortOfPacket
  <2>2. Len(Append(y.parts, f)) = Len(y.parts) + 1
    BY <1>1, <1>8
  <2>3. PICK k, l : k = Len(y.parts) /\ l = Len(x.parts)
    OBVIOUS
  <2>4. Len(<<f>>) = 1 /\ Len(<<>>) = 0
    OBVIOUS
  <2>5. l \in {0, 1, k, k + 1}
    BY <1>9, <2>2, <2>3, <2>4
  <2>6. k \in Nat /\ k < 8
    BY <2>1, <2>3
  <2>7. l \in 0 .. 8
    BY <2>5, <2>6
  <2>8. QED BY <2>1, <2>3, <2>7
<1>13. x.parts # <<>> => x.parts[1] \in Fragment /\ x.parts[Len(x.parts)] \in Fragment
  <2>1. PICK q : q \in Seq(Fragment) /\ q = x.parts
    BY <1>8
  <2>2. q # <<>> => q[1] \in Fragment /\ q[Len(q)] \in Fragment
    BY <2>1
  <2>3. QED BY <2>1, <2>2
<1>14. ASSUME r \in Nodes, tx[r].pc = "idle", ~NodeComplete(x) PROVE Len(x.parts) < 8
  <2>1. x.parts = <<>> \/ ~(Len(x.parts) >= x.parts[Len(x.parts)].total)
    BY <1>14 DEF NodeComplete, Full
  <2>2. x.parts # <<>> => x.parts[Len(x.parts)].total \in 1 .. 8
    BY <1>13 DEF Fragment, FragmentRecord
  <2>3. Len(x.parts) \in Nat
    BY <1>8
  <2>4. CASE x.parts = <<>>
    BY <2>4
  <2>5. CASE x.parts # <<>>
    BY <2>1, <2>2, <2>3, <2>5
  <2>6. QED BY <2>4, <2>5
<1>15. QED BY <1>4, <1>5, <1>10, <1>11, <1>12, <1>13, <1>14

(* The call with which a node passes on what it has gathered.              *)
LEMMA ForwardTyped ==
  ASSUME NEW n, NEW x \in Receiver, NEW f \in Fragment, Len(x.parts) \in 1 .. 8, x.parts[1] \in Fragment,
         NEW c, c = [NoCall EXCEPT !.data = Content(x.parts), !.all = f.all, !.self = f.self, !.to = f.to]
  PROVE  /\ Transmit(c, n, IF f.all THEN {Others} ELSE x.parts[1].to) \in Call
         /\ c \in CallRecord /\ Len(c.data) = Len(x.parts) /\ c.seq = 0
<1>1. PICK m \in 1 .. 8, s \in Seq(Fragment) : m = Len(x.parts) /\ s = x.parts
  BY DEF Receiver
<1>2. PICK d : d = Content(x.parts)
  OBVIOUS
<1>3. d = [k \in 1 .. m |-> s[k].part]
  BY <1>1, <1>2 DEF Content
<1>4. \A k \in 1 .. m : s[k].part \in Part
  BY <1>1 DEF Fragment, FragmentRecord, Part
<1>5. d \in Seq(Part) /\ Len(d) = m
  BY <1>3, <1>4
<1>6. f.all \in BOOLEAN /\ f.self \in BOOLEAN /\ f.to \in SUBSET Address
  BY DEF Fragment, FragmentRecord, Address
<1>7. c = [NoCall EXCEPT !.data = d, !.all = f.all, !.self = f.self, !.to = f.to]
  BY <1>2
<1>8. NoCall \in CallRecord /\ NoCall.seq = 0
  BY NoCallTyped DEF Call, NoCall
<1>9. c \in CallRecord
  BY <1>5, <1>6, <1>7, <1>8 DEF CallRecord
<1>10. c.data = d /\ c.seq = 0
  BY <1>7 DEF NoCall
<1>11. PICK a : a = IF f.all THEN {Others} ELSE x.parts[1].to
  OBVIOUS
<1>12. a \in SUBSET Address
  BY <1>11 DEF Fragment, FragmentRecord, Address
<1>13. Transmit(c, n, a) \in Call
  BY <1>1, <1>5, <1>9, <1>10, <1>12, TransmitTyped
<1>14. QED BY <1>1, <1>5, <1>9, <1>10, <1>11, <1>13

(* The reader when a packet has ended.                                     *)
LEMMA EndedTyped ==
  ASSUME NEW x \in Receiver, NEW z, z = Cleared(x)
  PROVE  z \in Receiver /\ z.expect = 0 /\ z.parts = <<>> /\ z.magic = x.magic
<1>1. x.magic \in {<<>>} \cup (Tasks \X Part) /\ <<>> \in Seq(Fragment)
  BY DEF Receiver
<1>2. z = [expect |-> 0, parts |-> <<>>, total |-> 0, magic |-> x.magic]
  BY DEF Receiver, Cleared
<1>3. z \in Receiver
  BY ONLY <1>1, <1>2 DEF Receiver
<1>4. z.expect = 0 /\ z.parts = <<>> /\ z.magic = x.magic
  BY <1>2
<1>5. QED BY <1>3, <1>4

(* What a node does with a fragment: it goes on, passes the packet on or   *)
(* returns it.                                                             *)
NodeActs(n, s, again, p, f, x) ==
  /\ Takes(n, s, again, p, f, x) /\ tx[n].pc = "idle"
  /\ \/ ~NodeComplete(x) /\ rx' = [rx EXCEPT ![n] = x] /\ UNCHANGED <<got, tx>>
     \/ /\ NodeComplete(x) /\ (f.to # {} \/ f.all)
        /\ rx' = [rx EXCEPT ![n] = x] /\ UNCHANGED got
        /\ \E c : /\ c = [NoCall EXCEPT !.data = Content(x.parts), !.all = f.all,
                                        !.self = f.self, !.to = f.to]
                  /\ tx' = [tx EXCEPT ![n] =
                       Transmit(c, n, IF f.all THEN {Others} ELSE x.parts[1].to)]
     \/ /\ NodeComplete(x) /\ f.to = {} /\ ~f.all /\ Returned(n, x.parts)
        /\ rx' = [rx EXCEPT ![n] = Cleared(x)] /\ UNCHANGED tx

LEMMA NodeTakes ==
  ASSUME TInv, NEW n \in Nodes, NEW s \in Nodes, NEW again \in BOOLEAN, NodeReads(n, s, again)
  PROVE  \E p, f, x : NodeActs(n, s, again, p, f, x)
<1>1. Arrives(n, s, again) /\ tx[n].pc = "idle" /\ n \in Readers
  BY DEF NodeReads, Readers
<1>2. PICK p, f, x : Takes(n, s, again, p, f, x)
  BY <1>1, TakesFragment
<1>3. f = path[<<s, n>>][1] /\ x = Gathered(n, f)
  BY <1>2 DEF Takes
<1>4. CASE ~NodeComplete(x) /\ Gathers(n, x) /\ UNCHANGED tx
  BY <1>1, <1>2, <1>4 DEF Gathers, NodeActs
<1>5. CASE /\ NodeComplete(x) /\ (f.to # {} \/ f.all) /\ Gathers(n, x)
           /\ tx' = [tx EXCEPT ![n] =
                Transmit([NoCall EXCEPT !.data = Content(x.parts), !.all = f.all,
                                        !.self = f.self, !.to = f.to],
                         n, IF f.all THEN {Others} ELSE x.parts[1].to)]
  BY <1>1, <1>2, <1>5 DEF Gathers, NodeActs
<1>6. CASE NodeComplete(x) /\ ~(f.to # {} \/ f.all) /\ Ends(n, x) /\ UNCHANGED tx
  BY <1>1, <1>2, <1>6 DEF Ends, NodeActs
<1>7. QED BY <1>3, <1>4, <1>5, <1>6 DEF NodeReads

LEMMA NodeReadsTyped ==
  ASSUME TInv, NEW n \in Nodes, NEW s \in Nodes, NEW again \in BOOLEAN, NodeReads(n, s, again)
  PROVE  TInv'
<1>1. n \in Readers /\ n \in Tasks
  BY DEF Readers, Tasks
<1>2. PICK p, f, x : NodeActs(n, s, again, p, f, x)
  BY NodeTakes
<1>3. Takes(n, s, again, p, f, x) /\ tx[n].pc = "idle"
  BY <1>2 DEF NodeActs
<1>4. /\ PathsTyped' /\ used' \in [Events -> Nat] /\ Stops' >= Stops
      /\ -1 <= x.expect /\ x.expect <= 8 + Stops' /\ Len(x.parts) \in 0 .. 8
      /\ ~NodeComplete(x) => Len(x.parts) < 8
      /\ x.parts # <<>> => x.parts[1] \in Fragment
  BY <1>1, <1>3, TakesTyped
<1>5. /\ x \in Receiver /\ f \in Fragment /\ UNCHANGED <<plan, parent, written>>
      /\ parent' \in [Nodes -> Nodes]
  BY <1>3 DEF Takes, TInv, PlanTyped
<1>6. CASE ~NodeComplete(x) /\ rx' = [rx EXCEPT ![n] = x] /\ UNCHANGED <<got, tx>>
  <2>1. CallsTyped'
    BY <1>6 DEF TInv, CallsTyped
  <2>2. QED BY <1>1, <1>3, <1>4, <1>5, <1>6, <2>1, ReaderChanges
<1>7. CASE /\ NodeComplete(x) /\ rx' = [rx EXCEPT ![n] = x]
           /\ \E c : /\ c = [NoCall EXCEPT !.data = Content(x.parts), !.all = f.all,
                                           !.self = f.self, !.to = f.to]
                     /\ tx' = [tx EXCEPT ![n] =
                          Transmit(c, n, IF f.all THEN {Others} ELSE x.parts[1].to)]
  <2>1. PICK c, d : /\ c = [NoCall EXCEPT !.data = Content(x.parts), !.all = f.all,
                                          !.self = f.self, !.to = f.to]
                    /\ d = Transmit(c, n, IF f.all THEN {Others} ELSE x.parts[1].to)
                    /\ tx' = [tx EXCEPT ![n] = d]
    BY <1>7
  <2>2. x.parts # <<>> /\ x.parts \in Seq(Fragment)
    BY <1>5, <1>7 DEF NodeComplete, Full, Receiver
  <2>3. Len(x.parts) \in 1 .. 8 /\ x.parts[1] \in Fragment
    <3>1. Len(x.parts) # 0
      BY <2>2
    <3>2. QED BY <1>4, <2>2, <3>1
  <2>4. d \in Call
    BY <1>5, <2>1, <2>3, ForwardTyped
  <2>5. d.pc = "kids"
    BY <2>1 DEF Transmit, NoCall
  <2>6. /\ CallsTyped' /\ tx'[n] = d /\ \A q \in Nodes \ {n} : tx'[q] = tx[q]
    BY <1>1, <2>1, <2>4 DEF TInv, CallsTyped, Tasks
  <2>7. QED BY <1>1, <1>4, <1>5, <1>7, <2>5, <2>6, ReaderChanges
<1>8. CASE rx' = [rx EXCEPT ![n] = Cleared(x)] /\ UNCHANGED tx
  <2>1. PICK z : z = Cleared(x)
    OBVIOUS
  <2>2. z \in Receiver /\ z.expect = 0 /\ z.parts = <<>>
    BY <1>5, <2>1, EndedTyped
  <2>3. Stops' \in Nat /\ Len(<<>>) = 0
    BY <1>4 DEF Stops, Events
  <2>4. -1 <= z.expect /\ z.expect <= 8 + Stops' /\ Len(z.parts) < 8
    <3>1. PICK b \in Nat : b = Stops'
      BY <2>3
    <3>2. -1 <= 0 /\ 0 <= 8 + b /\ 0 < 8
      OBVIOUS
    <3>3. QED BY <2>2, <2>3, <3>1, <3>2
  <2>5. CallsTyped' /\ \A q \in Nodes : tx'[q] = tx[q]
    BY <1>8 DEF TInv, CallsTyped
  <2>6. rx' = [rx EXCEPT ![n] = z]
    BY <1>8, <2>1
  <2>7. QED BY <1>1, <1>3, <1>4, <1>5, <2>2, <2>4, <2>5, <2>6, ReaderChanges
<1>9. QED BY <1>2, <1>6, <1>7, <1>8 DEF NodeActs

LEMMA RootReadsTyped ==
  ASSUME TInv, NEW s \in Nodes, NEW again \in BOOLEAN, RootReads(s, again)
  PROVE  TInv'
<1>1. DS \in Readers /\ DS \notin Nodes /\ UNCHANGED tx /\ Arrives(DS, s, again)
  BY MwifiAssumption DEF Readers, RootReads
<1>2. PICK p, f, x : Takes(DS, s, again, p, f, x)
  BY <1>1, TakesFragment
<1>3. /\ PathsTyped' /\ used' \in [Events -> Nat] /\ Stops' >= Stops
      /\ -1 <= x.expect /\ x.expect <= 8 + Stops'
  BY <1>1, <1>2, TakesTyped
<1>4. /\ x \in Receiver /\ UNCHANGED <<plan, parent, written>> /\ parent' \in [Nodes -> Nodes]
      /\ x = Gathered(DS, path[<<s, DS>>][1])
  BY <1>2 DEF Takes, TInv, PlanTyped
<1>5. CallsTyped' /\ \A q \in Nodes : tx'[q] = tx[q]
  BY <1>1 DEF TInv, CallsTyped
<1>6. CASE rx' = [rx EXCEPT ![DS] = x]
  BY <1>1, <1>3, <1>4, <1>5, <1>6, ReaderChanges
<1>7. CASE rx' = [rx EXCEPT ![DS] = Cleared(x)]
  <2>1. PICK z : z = Cleared(x)
    OBVIOUS
  <2>2. z \in Receiver /\ z.expect = 0
    BY <1>4, <2>1, EndedTyped
  <2>3. Stops' \in Nat
    BY <1>3 DEF Stops, Events
  <2>4. -1 <= z.expect /\ z.expect <= 8 + Stops'
    <3>1. PICK b \in Nat : b = Stops'
      BY <2>3
    <3>2. -1 <= 0 /\ 0 <= 8 + b
      OBVIOUS
    <3>3. QED BY <2>2, <3>1, <3>2
  <2>5. rx' = [rx EXCEPT ![DS] = z]
    BY <1>7, <2>1
  <2>6. QED BY <1>1, <1>3, <1>4, <1>5, <2>2, <2>4, <2>5, ReaderChanges
<1>8. QED BY <1>4, <1>6, <1>7 DEF RootReads, Ends, Gathers

LEMMA ReaderStopsTyped ==
  ASSUME TInv,
         \/ \E n \in Nodes : ForwardReturns(n)
         \/ \E r \in Readers : Timeout(r) \/ NotStarted(r)
  PROVE  TInv'
<1>1. Stops \in Nat /\ "timeout" \in Events /\ "stop" \in Events /\ "root_stop" \in Events
  BY DEF TInv, PlanTyped, Stops, Events
<1>2. ASSUME NEW r \in Readers, rx' = Discard(r), CallsTyped', PathsTyped', UNCHANGED <<plan, written, parent>>,
             used' \in [Events -> Nat], Stops' >= Stops,
             \A n \in Nodes \ {r} : tx'[n] = tx[n], r \in Nodes => tx'[r].pc = "idle"
      PROVE  TInv'
  <2>1. PICK x \in Receiver : x.expect = 0 /\ x.parts = <<>> /\ rx' = [rx EXCEPT ![r] = x]
    BY <1>2, DiscardTyped
  <2>2. Stops' \in Nat /\ Len(<<>>) = 0
    BY <1>1, <1>2 DEF Stops
  <2>3. -1 <= x.expect /\ x.expect <= 8 + Stops' /\ Len(x.parts) < 8
    BY <2>1, <2>2
  <2>4. parent' \in [Nodes -> Nodes]
    BY <1>2 DEF TInv, PlanTyped
  <2>5. QED BY <1>2, <2>1, <2>3, <2>4, ReaderChanges
<1>3. ASSUME NEW n \in Nodes, ForwardReturns(n) PROVE TInv'
  <2>1. /\ n \in Readers /\ n \in Tasks /\ NoCall \in Call /\ NoCall.pc = "idle"
        /\ tx' = [tx EXCEPT ![n] = NoCall] /\ rx' = Discard(n)
        /\ UNCHANGED <<plan, used, parent, path, written>>
    BY <1>3, NoCallTyped DEF ForwardReturns, Readers, Tasks, NoCall
  <2>2. CallsTyped' /\ tx'[n] = NoCall /\ \A q \in Nodes \ {n} : tx'[q] = tx[q]
    BY <2>1 DEF TInv, CallsTyped, Tasks
  <2>3. PathsTyped' /\ used' \in [Events -> Nat] /\ Stops' >= Stops
    BY <1>1, <2>1 DEF TInv, PathsTyped, PlanTyped, Stops
  <2>4. QED BY <1>2, <2>1, <2>2, <2>3
<1>4. ASSUME NEW r \in Readers, Timeout(r) PROVE TInv'
  <2>1. /\ r \in Nodes => tx[r].pc = "idle"
        /\ Happens("timeout") /\ rx' = Discard(r)
        /\ UNCHANGED <<plan, parent, path, tx, written>>
    BY <1>4, MwifiAssumption DEF Timeout, Reading
  <2>2. PathsTyped' /\ used' \in [Events -> Nat] /\ Stops' >= Stops
    BY <1>1, <2>1, HappensTyped DEF TInv, PathsTyped
  <2>3. CallsTyped' /\ (\A q \in Nodes : tx'[q] = tx[q])
    BY <2>1 DEF TInv, CallsTyped
  <2>4. QED BY <1>2, <2>1, <2>2, <2>3
<1>5. ASSUME NEW r \in Readers, NotStarted(r) PROVE TInv'
  <2>1. /\ r \in Nodes => tx[r].pc = "idle"
        /\ Happens("stop") \/ Happens("root_stop")
        /\ UNCHANGED <<plan, parent, path, tx, written>>
        /\ rx' = Discard(r) \/ rx' = [rx EXCEPT ![r].expect = @ + 1]
    BY <1>5, MwifiAssumption DEF NotStarted, Reading
  <2>2. used' \in [Events -> Nat] /\ Stops' = Stops + 1
    BY <1>1, <2>1, HappensTyped DEF TInv
  <2>3. Stops' >= Stops
    BY <1>1, <2>2
  <2>4. PathsTyped' /\ CallsTyped' /\ (\A q \in Nodes : tx'[q] = tx[q])
    BY <2>1 DEF TInv, CallsTyped, PathsTyped
  <2>5. CASE rx' = Discard(r)
    BY <1>2, <2>1, <2>2, <2>3, <2>4, <2>5
  <2>6. CASE rx' = [rx EXCEPT ![r].expect = @ + 1]
    <3>1. PICK y, e, x : y = rx[r] /\ e = y.expect + 1 /\ x = [y EXCEPT !.expect = e]
      OBVIOUS
    <3>2. y \in Receiver /\ y.expect \in Int /\ -1 <= y.expect /\ y.expect <= 8 + Stops
      BY <3>1 DEF TInv, ReadersTyped, Receiver
    <3>3. e \in Int /\ -1 <= e /\ e <= 8 + Stops'
      BY <1>1, <2>2, <3>1, <3>2
    <3>4. x \in Receiver /\ x.expect = e /\ x.parts = y.parts
      BY <3>1, <3>2, <3>3 DEF Receiver
    <3>5. rx' = [rx EXCEPT ![r] = x]
      BY <2>6, <3>1
    <3>6. r \in Nodes => Len(x.parts) < 8
      BY <2>1, <3>1, <3>4 DEF TInv, ShortOfPacket
    <3>7. parent' \in [Nodes -> Nodes]
      BY <2>1 DEF TInv, PlanTyped
    <3>8. QED BY <2>1, <2>2, <2>3, <2>4, <3>3, <3>4, <3>5, <3>6, <3>7, ReaderChanges
  <2>7. QED BY <2>1, <2>5, <2>6
<1>6. QED BY <1>3, <1>4, <1>5

LEMMA MeshTyped ==
  ASSUME TInv,
         \/ \E r \in Readers, s \in Nodes : Lose(s, r)
         \/ \E n, p \in Nodes : Move(n, p)
  PROVE  TInv'
<1>1. /\ Stops \in Nat /\ "loss" \in Events /\ "move" \in Events
  BY DEF TInv, PlanTyped, Stops, Events
<1>2. UNCHANGED <<plan, tx, written, rx>>
  BY DEF Lose, Move
<1>3. used' \in [Events -> Nat] /\ Stops' >= Stops
  BY <1>1, HappensTyped DEF TInv, Lose, Move
<1>4. parent' \in [Nodes -> Nodes]
  BY DEF TInv, PlanTyped, Lose, Move
<1>5. PathsTyped'
  <2>1. ASSUME NEW r \in Readers, NEW s \in Nodes, Lose(s, r) PROVE PathsTyped'
    <3>1. PICK p, q : p = <<s, r>> /\ q = path[p]
      OBVIOUS
    <3>2. q # <<>> /\ path' = [path EXCEPT ![p] = Tail(q)]
      BY <2>1, <3>1 DEF Lose
    <3>3. p \in Nodes \X Readers /\ q \in Seq(Fragment)
      BY <3>1 DEF TInv, PathsTyped
    <3>4. Tail(q) \in Seq(Fragment)
      BY <3>2, <3>3
    <3>5. QED BY <3>2, <3>3, <3>4 DEF TInv, PathsTyped
  <2>2. ASSUME NEW n \in Nodes, NEW p \in Nodes, Move(n, p) PROVE PathsTyped'
    BY <2>2 DEF Move, TInv, PathsTyped
  <2>3. QED BY <2>1, <2>2
<1>6. CallsTyped' /\ ShortOfPacket' /\ NodesForward'
  BY <1>2 DEF TInv, CallsTyped, ShortOfPacket, NodesForward
<1>7. PlanTyped'
  BY <1>2, <1>3, <1>4 DEF TInv, PlanTyped
<1>8. ReadersTyped'
  <2>1. ASSUME NEW q \in Readers PROVE -1 <= rx[q].expect /\ rx[q].expect <= 8 + Stops'
    <3>1. -1 <= rx[q].expect /\ rx[q].expect <= 8 + Stops /\ rx[q].expect \in Int
      BY DEF TInv, ReadersTyped, Receiver
    <3>2. Stops' \in Nat
      BY <1>3 DEF Stops, Events
    <3>3. PICK e, a, b : e = rx[q].expect /\ a = Stops /\ b = Stops'
      OBVIOUS
    <3>4. e \in Int /\ e <= 8 + a /\ a \in Nat /\ b \in Nat /\ a <= b
      BY <1>1, <1>3, <3>1, <3>2, <3>3
    <3>5. e <= 8 + b
      BY <3>4
    <3>6. QED BY <3>1, <3>3, <3>5
  <2>2. QED BY <1>2, <2>1 DEF TInv, ReadersTyped
<1>9. QED BY <1>5, <1>6, <1>7, <1>8 DEF TInv

LEMMA TypesStart == Init => TInv
<1> SUFFICES ASSUME Init PROVE TInv
  OBVIOUS
<1>1. NoCall \in Call /\ NoCall.pc = "idle" /\ <<>> \in Seq(Fragment) /\ Len(<<>>) = 0
  BY NoCallTyped DEF NoCall
<1>2. CallsTyped
  BY <1>1 DEF Init, CallsTyped
<1>3. PathsTyped
  BY <1>1 DEF Init, PathsTyped
<1>4. PlanTyped
  <2>1. \A w \in Writers : Len(plan.writes[w]) \in Nat
    BY MwifiAssumption DEF Init
  <2>2. \A w \in Writers : 0 <= Len(plan.writes[w])
    BY <2>1
  <2>3. QED BY <2>2, MwifiAssumption DEF Init, PlanTyped
<1>5. ReadersTyped
  <2>1. PICK x : x = [expect |-> 0, parts |-> <<>>, total |-> 0, magic |-> <<>>]
    OBVIOUS
  <2>2. x \in Receiver /\ x.expect = 0
    BY <1>1, <2>1 DEF Receiver
  <2>3. Stops = 0
    BY DEF Init, Stops, Events
  <2>4. rx = [r \in Readers |-> x]
    BY <2>1 DEF Init
  <2>5. QED BY <2>2, <2>3, <2>4 DEF ReadersTyped
<1>6. ShortOfPacket /\ NodesForward
  BY <1>1 DEF Init, ShortOfPacket, NodesForward, Readers, Tasks
<1>7. QED BY <1>2, <1>3, <1>4, <1>5, <1>6 DEF TInv

LEMMA TypesStep == TInv /\ [Next]_vars => TInv'
<1> SUFFICES ASSUME TInv, [Next]_vars PROVE TInv'
  OBVIOUS
<1>1. CASE UNCHANGED vars
  BY <1>1 DEF vars, TInv, CallsTyped, PathsTyped, PlanTyped, ReadersTyped, ShortOfPacket,
              NodesForward, Stops
<1>2. CASE \E w \in Writers :
             \/ WriteNode(w) \/ WriteGroup(w) \/ RootWriteEach(w) \/ RootWriteList(w)
             \/ WriteReturns(w)
  BY <1>2, WriteTyped, WriteReturnsTyped
<1>3. CASE \E t \in Tasks : Calls(t)
  BY <1>3, NextChildTyped, ChildrenTyped, SendTyped DEF Calls
<1>4. CASE \E n, s \in Nodes, again \in BOOLEAN : NodeReads(n, s, again)
  BY <1>4, NodeReadsTyped
<1>5. CASE \E s \in Nodes, again \in BOOLEAN : RootReads(s, again)
  BY <1>5, RootReadsTyped
<1>6. CASE (\E n \in Nodes : ForwardReturns(n)) \/ (\E r \in Readers : Timeout(r) \/ NotStarted(r))
  BY <1>6, ReaderStopsTyped
<1>7. CASE (\E r \in Readers, s \in Nodes : Lose(s, r)) \/ (\E n, p \in Nodes : Move(n, p))
  BY <1>7, MeshTyped
<1>8. QED BY <1>1, <1>2, <1>3, <1>4, <1>5, <1>6, <1>7 DEF Next

LEMMA MwifiTyped == Spec => []TInv
<1>1. QED BY TypesStart, TypesStep, PTL DEF Spec

(* packet_seq always fits its three bits and is below the number of        *)
(* fragments, whatever is lost, repeated, or cut off while the tree        *)
(* changes, and what a reader expects only passes 8 while the mesh is not  *)
(* started (__mwifi_read(), __mwifi_root_read(),                           *)
(* mwifi_subcontract_write()).                                             *)
THEOREM MwifiTypes == Spec => []TypeOK
<1>1. TInv => TypeOK
  <2> SUFFICES ASSUME TInv PROVE TypeOK
    OBVIOUS
  <2>1. plan \in Plans /\ used \in [Events -> Nat] /\ parent \in [Nodes -> Nodes]
    BY DEF TInv, PlanTyped
  <2>2. \A p \in Nodes \X Readers : \A f \in Range(path[p]) : f \in FragmentRecord /\ f.seq < f.total
    <3>1. ASSUME NEW p \in Nodes \X Readers, NEW f \in Range(path[p]) PROVE f \in Fragment
      <4>1. path[p] \in Seq(Fragment)
        BY DEF TInv, PathsTyped
      <4>2. QED BY <4>1 DEF Range
    <3>2. QED BY <3>1 DEF Fragment
  <2>3. \A t \in Tasks : /\ tx[t].pc \in {"idle", "kids", "rest", "each", "send"}
                         /\ tx[t].list \subseteq Nodes \cup {Everyone, Others}
                         /\ tx[t].kids \subseteq Nodes
    BY DEF TInv, CallsTyped, Call, CallRecord, Steps, Address
  <2>4. \A r \in Readers : rx[r].expect \in -1 .. 8 + used["stop"] + used["root_stop"]
    <3>1. ASSUME NEW r \in Readers PROVE rx[r].expect \in -1 .. 8 + used["stop"] + used["root_stop"]
      <4>1. PICK e, a, b : e = rx[r].expect /\ a = used["stop"] /\ b = used["root_stop"]
        OBVIOUS
      <4>2. e \in Int /\ -1 <= e /\ e <= 8 + (a + b) /\ a \in Nat /\ b \in Nat
        BY <4>1 DEF TInv, ReadersTyped, Receiver, PlanTyped, Stops, Events
      <4>3. e \in -1 .. 8 + a + b
        BY <4>2
      <4>4. QED BY <4>1, <4>3
    <3>2. QED BY <3>1
  <2>5. QED BY <2>1, <2>2, <2>3, <2>4 DEF TypeOK
<1>2. QED BY <1>1, MwifiTyped, PTL

-----------------------------------------------------------------------------
(* What the steps of a call do, field by field.                            *)

Turned(t, d) ==
  /\ tx' = [tx EXCEPT ![t] = d] /\ d \in Call /\ d.pc # "idle" /\ d.data = tx[t].data
  /\ UNCHANGED <<plan, parent, written, rx, got, path>>

Visits(t, k, d) ==
  /\ Turned(t, d) /\ tx[t].pc = "kids" /\ UNCHANGED used
  /\ d.ok /\ d.dst = k /\ d.back = "kids" /\ d.all = tx[t].all
  /\ d.pc \in {"send", "kids"}
  /\ ~tx[t].all => /\ d.self = (k \in tx[t].list) /\ d.to = Subnet(k) \cap tx[t].list
                   /\ d.list = tx[t].list \ (d.to \cup {k})
                   /\ d.pc = "kids" => ~d.self /\ d.to = {}

LEMMA ChildVisited ==
  ASSUME TInv, NEW t \in Tasks, NextChild(t)
  PROVE  \E k \in Nodes, d \in Call : Visits(t, k, d)
<1>1. /\ UNCHANGED <<plan, parent, written, rx, got, used, path>> /\ tx[t].pc = "kids"
  BY DEF NextChild, InCall
<1>2. PICK c : c = tx[t]
  OBVIOUS
<1>3. c \in CallRecord /\ c.kids \in SUBSET Nodes
  BY <1>2 DEF TInv, CallsTyped, Call, CallRecord
<1>4. PICK k \in c.kids :
        LET below == Subnet(k) \cap c.list
            mine  == k \in c.list
            head  == IF c.all THEN c
                     ELSE [c EXCEPT !.self = mine, !.to = below, !.list = @ \ (below \cup {k})]
            wanted == c.all \/ mine \/ below # {}
        IN  tx' = [tx EXCEPT ![t] = [head EXCEPT !.kids = @ \ {k}, !.dst = k, !.back = "kids",
                                                 !.ok = TRUE, !.pc = IF wanted THEN "send" ELSE "kids"]]
  BY <1>2 DEF NextChild
<1>5. PICK b, h, l : b = Subnet(k) \cap c.list /\ h = (k \in c.list) /\ l = c.list \ (b \cup {k})
  OBVIOUS
<1>6. PICK g, m, x, d :
        /\ g = IF c.all THEN c ELSE [c EXCEPT !.self = h, !.to = b, !.list = l]
        /\ m = g.kids \ {k} /\ x = IF c.all \/ h \/ b # {} THEN "send" ELSE "kids"
        /\ d = [g EXCEPT !.kids = m, !.dst = k, !.back = "kids", !.ok = TRUE, !.pc = x]
  OBVIOUS
<1>7. tx' = [tx EXCEPT ![t] = d]
  BY <1>4, <1>5, <1>6
<1>8. /\ g.data = c.data /\ g.all = c.all /\ DOMAIN g = DOMAIN c
      /\ ~c.all => g.self = h /\ g.to = b /\ g.list = l
  BY <1>3, <1>6 DEF CallRecord
<1>9. /\ d.data = g.data /\ d.ok /\ d.all = g.all /\ d.dst = k /\ d.back = "kids"
      /\ d.pc = x /\ d.self = g.self /\ d.to = g.to /\ d.list = g.list
  BY <1>3, <1>6, <1>8 DEF CallRecord
<1>10. d \in Call
  <2>1. TInv'
    BY NextChildTyped
  <2>2. tx'[t] = d
    BY <1>7 DEF TInv, CallsTyped
  <2>3. QED BY <2>1, <2>2 DEF TInv, CallsTyped
<1>11. x \in {"send", "kids"} /\ (x = "kids" => ~h /\ b = {})
  BY <1>6
<1>12. ~c.all => /\ d.self = h /\ d.to = b /\ d.list = c.list \ (d.to \cup {k})
                 /\ d.pc = "kids" => ~d.self /\ d.to = {}
  BY <1>5, <1>8, <1>9, <1>11
<1>13. Turned(t, d)
  BY <1>1, <1>2, <1>7, <1>8, <1>9, <1>10, <1>11 DEF Turned
<1>14. Visits(t, k, d)
  BY <1>1, <1>2, <1>5, <1>8, <1>9, <1>11, <1>12, <1>13 DEF Visits
<1>15. QED BY <1>3, <1>10, <1>14

(* The loop over the children fails or ends, or the next address is taken. *)
Fails(t, d) ==
  /\ Turned(t, d) /\ tx[t].pc = "kids" /\ d.pc = "kids" /\ Happens("query")
  /\ d.list \subseteq tx[t].list /\ d.all = tx[t].all /\ d.to = tx[t].to
Guesses(t, k, d) ==
  /\ Turned(t, d) /\ tx[t].pc = "kids" /\ ~tx[t].all /\ Happens("query")
  /\ d.dst = k /\ d.back = "kids" /\ ~d.all /\ d.to = {} /\ d.self = (k \in tx[t].list)
  /\ d.list = tx[t].list \ {k} /\ d.pc = IF d.self THEN "send" ELSE "kids"
RestFollows(t, d) ==
  /\ Turned(t, d) /\ tx[t].pc = "kids" /\ d.pc = "rest" /\ UNCHANGED used
  /\ d.to = {} /\ ~d.all /\ d.ok = tx[t].ok /\ (~tx[t].all => d.list = tx[t].list)
Addressing(t, a, d) ==
  /\ Turned(t, d) /\ tx[t].pc \in {"rest", "each"} /\ d.pc = "send" /\ UNCHANGED used
  /\ a \in tx[t].list /\ d.list = tx[t].list \ {a} /\ d.dst = a /\ d.self /\ d.to = tx[t].to
  /\ d.back = tx[t].pc /\ d.all = tx[t].all /\ d.ok = tx[t].ok

LEMMA LoopTurns ==
  ASSUME TInv, NEW t \in Tasks
  PROVE  /\ ChildFails(t) => \E d \in Call : Fails(t, d)
         /\ BelowUnknown(t) => \E k \in Nodes : \E d \in Call : Guesses(t, k, d)
         /\ ChildrenDone(t) => \E d \in Call : RestFollows(t, d)
         /\ NextAddress(t) => \E d \in Call : \E a : Addressing(t, a, d)
<1>1. PICK c : c = tx[t] /\ c \in CallRecord
  BY DEF TInv, CallsTyped, Call
<1>2. ASSUME ChildFails(t) \/ BelowUnknown(t) \/ ChildrenDone(t) \/ NextAddress(t),
             NEW d, tx' = [tx EXCEPT ![t] = d]
      PROVE  d \in Call
  <2>1. TInv'
    BY <1>2, ChildrenTyped
  <2>2. tx'[t] = d
    BY <1>2 DEF TInv, CallsTyped
  <2>3. QED BY <2>1, <2>2 DEF TInv, CallsTyped
<1>3. ASSUME ChildFails(t) PROVE \E d \in Call : Fails(t, d)
  <2>1. /\ c.pc = "kids" /\ Happens("query") /\ UNCHANGED <<plan, parent, written, rx, got, path>>
    BY <1>1, <1>3 DEF ChildFails, InCall
  <2>2. \E k \in tx[t].kids :
          tx' = [tx EXCEPT ![t] = [tx[t] EXCEPT !.list = tx[t].list \ {k}, !.kids = {}, !.ok = FALSE]]
    BY ONLY <1>3 DEF ChildFails
  <2>3. PICK k : tx' = [tx EXCEPT ![t] = [c EXCEPT !.list = c.list \ {k}, !.kids = {}, !.ok = FALSE]]
    BY <1>1, <2>2
  <2>4. PICK l, d : l = c.list \ {k} /\ d = [c EXCEPT !.list = l, !.kids = {}, !.ok = FALSE]
    OBVIOUS
  <2>5. tx' = [tx EXCEPT ![t] = d]
    BY <2>3, <2>4
  <2>6. /\ d.pc = c.pc /\ d.data = c.data /\ d.list = l /\ d.all = c.all /\ d.to = c.to
    BY <1>1, <2>4 DEF CallRecord
  <2>7. d \in Call
    BY <1>2, <1>3, <2>5
  <2>8. Turned(t, d)
    BY <1>1, <2>1, <2>5, <2>6, <2>7 DEF Turned
  <2>9. Fails(t, d)
    BY <1>1, <2>1, <2>4, <2>6, <2>8 DEF Fails
  <2>10. QED BY <2>7, <2>9
<1>4. ASSUME ChildrenDone(t) PROVE \E d \in Call : RestFollows(t, d)
  <2>1. PICK l, d : /\ l = LeftOver(c, NodeOf(t))
                    /\ d = [c EXCEPT !.pc = "rest", !.kids = {}, !.to = {}, !.all = FALSE, !.list = l]
    OBVIOUS
  <2>2. /\ c.pc = "kids" /\ UNCHANGED <<plan, used, parent, written, rx, got, path>>
        /\ tx' = [tx EXCEPT ![t] = d]
    BY <1>1, <1>4, <2>1 DEF ChildrenDone, InCall
  <2>3. /\ d.pc = "rest" /\ d.to = {} /\ ~d.all /\ d.list = l /\ d.data = c.data /\ d.ok = c.ok
    BY <1>1, <2>1 DEF CallRecord
  <2>4. ~c.all => l = c.list
    BY <2>1 DEF LeftOver
  <2>5. d \in Call
    BY <1>2, <1>4, <2>2
  <2>6. Turned(t, d)
    BY <1>1, <2>2, <2>3, <2>5 DEF Turned
  <2>7. RestFollows(t, d)
    BY <1>1, <2>2, <2>3, <2>4, <2>6 DEF RestFollows
  <2>8. QED BY <2>5, <2>7
<1>5. ASSUME NextAddress(t) PROVE \E d \in Call : \E a : Addressing(t, a, d)
  <2>1. /\ c.pc \in {"rest", "each"} /\ UNCHANGED <<plan, used, parent, written, rx, got, path>>
    BY <1>1, <1>5 DEF NextAddress, InCall
  <2>2. \E a \in tx[t].list :
          tx' = [tx EXCEPT ![t] = [tx[t] EXCEPT !.list = tx[t].list \ {a}, !.dst = a, !.self = TRUE,
                                            !.back = tx[t].pc, !.pc = "send"]]
    BY ONLY <1>5 DEF NextAddress
  <2>3. PICK a \in c.list :
          tx' = [tx EXCEPT ![t] = [c EXCEPT !.list = c.list \ {a}, !.dst = a, !.self = TRUE,
                                            !.back = c.pc, !.pc = "send"]]
    BY <1>1, <2>2
  <2>4. PICK l, d : /\ l = c.list \ {a}
                    /\ d = [c EXCEPT !.list = l, !.dst = a, !.self = TRUE, !.back = c.pc, !.pc = "send"]
    OBVIOUS
  <2>5. tx' = [tx EXCEPT ![t] = d]
    BY <2>3, <2>4
  <2>6. /\ d.pc = "send" /\ d.list = l /\ d.dst = a /\ d.self /\ d.to = c.to /\ d.back = c.pc
        /\ d.all = c.all /\ d.ok = c.ok /\ d.data = c.data
    BY <1>1, <2>4 DEF CallRecord
  <2>7. d \in Call
    BY <1>2, <1>5, <2>5
  <2>8. Turned(t, d)
    BY <1>1, <2>1, <2>5, <2>6, <2>7 DEF Turned
  <2>9. Addressing(t, a, d)
    BY <1>1, <2>1, <2>3, <2>4, <2>6, <2>8 DEF Addressing
  <2>10. QED BY <2>7, <2>9
<1>6. ASSUME BelowUnknown(t) PROVE \E k \in Nodes : \E d \in Call : Guesses(t, k, d)
  <2>1. /\ c.pc = "kids" /\ ~c.all /\ Happens("query")
        /\ UNCHANGED <<plan, parent, written, rx, got, path>>
    BY <1>1, <1>6 DEF BelowUnknown, InCall
  <2>2. \E k \in tx[t].kids :
          /\ Subnet(k) # {}
          /\ LET mine == k \in tx[t].list
             IN  tx' = [tx EXCEPT ![t] =
                   [tx[t] EXCEPT !.list = tx[t].list \ {k}, !.kids = tx[t].kids \ {k}, !.dst = k,
                                 !.self = mine, !.to = {}, !.ok = FALSE, !.back = "kids",
                                 !.pc = IF mine THEN "send" ELSE "kids"]]
    BY ONLY <1>6 DEF BelowUnknown
  <2>3. PICK k \in c.kids :
          LET mine == k \in c.list
          IN  tx' = [tx EXCEPT ![t] =
                [c EXCEPT !.list = c.list \ {k}, !.kids = c.kids \ {k}, !.dst = k, !.self = mine,
                          !.to = {}, !.ok = FALSE, !.back = "kids",
                          !.pc = IF mine THEN "send" ELSE "kids"]]
    BY <1>1, <2>2
  <2>4. PICK h, l, m, x, d :
          /\ h = (k \in c.list) /\ l = c.list \ {k} /\ m = c.kids \ {k}
          /\ x = IF h THEN "send" ELSE "kids"
          /\ d = [c EXCEPT !.list = l, !.kids = m, !.dst = k, !.self = h, !.to = {}, !.ok = FALSE,
                           !.back = "kids", !.pc = x]
    OBVIOUS
  <2>5. tx' = [tx EXCEPT ![t] = d]
    BY <2>3, <2>4
  <2>6. /\ d.pc = x /\ d.data = c.data /\ d.list = l /\ d.all = c.all /\ d.to = {} /\ d.dst = k
        /\ d.back = "kids" /\ d.self = h
    BY <1>1, <2>4 DEF CallRecord
  <2>7. d \in Call
    BY <1>2, <1>6, <2>5
  <2>8. x # "idle" /\ k \in Nodes
    BY <1>1, <2>4 DEF CallRecord
  <2>9. Turned(t, d)
    BY <1>1, <2>1, <2>5, <2>6, <2>7, <2>8 DEF Turned
  <2>10. Guesses(t, k, d)
    BY <1>1, <2>1, <2>4, <2>6, <2>9 DEF Guesses
  <2>11. QED BY <2>7, <2>8, <2>10
<1>7. QED BY <1>3, <1>4, <1>5, <1>6

-----------------------------------------------------------------------------
(* Short packets: each is one fragment.                                    *)

ShortPackets ==
  /\ plan.limit["root_stop"] = 0
  /\ \A w \in Writers : \A k \in DOMAIN plan.writes[w] : plan.writes[w][k].size = 1

(* The parts of the packets written so far.                                *)
WrittenParts == {z \in Part : z[3] = 1 /\ z[2] <= written[z[1]]}

Short(f) == f.part \in WrittenParts /\ f.seq = 0 /\ f.total = 1

ShortCalls ==
  \A t \in Tasks :
    tx[t].pc # "idle" => Len(tx[t].data) = 1 /\ tx[t].data[1] \in WrittenParts
ShortPaths ==
  \A p \in Nodes \X Readers : \A k \in 1 .. Len(path[p]) : Short(path[p][k])
(* A node has the packet that it passes on, and no reader has anything     *)
(* else.                                                                   *)
ShortNodes ==
  \A n \in Nodes : IF tx[n].pc = "idle" THEN rx[n].parts = <<>>
                   ELSE /\ Len(rx[n].parts) = 1 /\ Short(rx[n].parts[1])
                        /\ tx[n].data[1] = rx[n].parts[1].part
ShortRoot == rx[DS].parts = <<>> /\ rx[DS].expect = 0
ShortGot ==
  /\ got \in [Readers -> Seq(Seq(Part))]
  /\ \A r \in Readers : \A k \in 1 .. Len(got[r]) :
       Len(got[r][k]) = 1 /\ got[r][k][1] \in WrittenParts

SInv ==
  TInv /\ ShortPackets /\ ShortCalls /\ ShortPaths /\ ShortNodes /\ ShortRoot /\ ShortGot

(* What was written stays written.                                         *)
LEMMA WrittenGrows ==
  ASSUME TInv, TInv', \A w \in Writers : written'[w] >= written[w]
  PROVE  WrittenParts \subseteq WrittenParts'
<1>1. ASSUME NEW z \in WrittenParts PROVE z \in Part /\ z[3] = 1 /\ z[2] <= written'[z[1]]
  <2>1. z \in Part /\ z[3] = 1 /\ z[2] <= written[z[1]] /\ z[1] \in Writers /\ z[2] \in 1 .. MaxWrites
    BY DEF WrittenParts, Part
  <2>2. written[z[1]] \in Nat /\ written'[z[1]] \in Nat /\ written[z[1]] <= written'[z[1]]
    BY <2>1 DEF TInv, PlanTyped
  <2>3. PICK a, b, c : a = z[2] /\ b = written[z[1]] /\ c = written'[z[1]]
    OBVIOUS
  <2>4. a \in Int /\ b \in Nat /\ c \in Nat /\ a <= b /\ b <= c
    BY <2>1, <2>2, <2>3, MwifiAssumption
  <2>5. a <= c
    BY <2>4
  <2>6. QED BY <2>1, <2>3, <2>5
<1>2. QED BY <1>1 DEF WrittenParts

(* The packets a writer has written are planned.                           *)
LEMMA WrittenPlanned ==
  ASSUME TInv, NEW w \in Writers, NEW i \in 1 .. MaxWrites, i <= written[w]
  PROVE  i \in 1 .. Len(plan.writes[w]) /\ i \in DOMAIN plan.writes[w]
<1>1. plan.writes[w] \in Seq(Packet) /\ written[w] <= Len(plan.writes[w]) /\ written[w] \in Nat
  BY MwifiAssumption DEF TInv, PlanTyped
<1>2. PICK a, b : a = written[w] /\ b = Len(plan.writes[w])
  OBVIOUS
<1>3. b \in Nat /\ a \in Nat /\ i <= a /\ a <= b /\ i \in Int /\ 1 <= i
  BY <1>1, <1>2, MwifiAssumption
<1>4. i \in 1 .. b
  BY <1>3
<1>5. QED BY <1>1, <1>2, <1>4

(* The parts of a packet of one fragment.                                  *)
LEMMA ShortParts ==
  ASSUME TInv, ShortPackets, NEW w \in Writers, NEW i \in 1 .. Len(plan.writes[w])
  PROVE  /\ Parts(w, i) = <<<<w, i, 1>>>> /\ Len(Parts(w, i)) = 1
         /\ <<w, i, 1>> \in Part /\ i \in 1 .. MaxWrites
<1>1. plan.writes[w] \in Seq(Packet) /\ plan \in Plans
  BY MwifiAssumption DEF TInv, PlanTyped
<1>2. plan.writes[w][i].size = 1
  <2>1. DOMAIN plan.writes[w] = 1 .. Len(plan.writes[w])
    BY <1>1
  <2>2. QED BY <2>1 DEF ShortPackets
<1>3. Parts(w, i) = [k \in 1 .. 1 |-> <<w, i, k>>]
  BY <1>2 DEF Parts
<1>4. [k \in 1 .. 1 |-> <<w, i, k>>] = <<<<w, i, 1>>>>
  <2>1. DOMAIN <<<<w, i, 1>>>> = 1 .. 1
    OBVIOUS
  <2>2. QED BY <2>1
<1>5. i \in 1 .. MaxWrites
  BY PacketWritten DEF TInv
<1>6. <<w, i, 1>> \in Part
  BY <1>5 DEF Part
<1>7. QED BY <1>3, <1>4, <1>5, <1>6

(* A short packet is gathered by one fragment, or was gathered before.     *)
LEMMA ShortGathered ==
  ASSUME TInv, NEW r \in Readers, NEW f \in Fragment, Short(f), NEW x, x = Gathered(r, f),
         rx[r].parts = <<>>
  PROVE  /\ x \in Receiver
         /\ \/ x.parts = <<>> /\ Repeated(r, f)
            \/ x.parts = <<f>> /\ ~Repeated(r, f)
         /\ rx[r].expect = 0 /\ ~Repeated(r, f) => x.expect = 1
<1>1. rx[r] \in Receiver /\ f.seq = 0
  BY DEF TInv, ReadersTyped, Short
<1>2. Append(<<>>, f) = <<f>>
  OBVIOUS
<1>3. PICK y : y = rx[r]
  OBVIOUS
<1>4. /\ x \in Receiver
      /\ \/ x.parts = <<>> /\ f.seq # y.expect /\ (f.seq # 0 \/ Repeated(r, f))
         \/ x = y /\ Repeated(r, f)
         \/ x.parts = Append(y.parts, f) /\ x.expect = y.expect + 1 /\ ~Repeated(r, f)
         \/ x.parts = <<f>> /\ y.expect # 0 /\ ~Repeated(r, f)
  BY <1>1, <1>3, GatheredIs
<1>5. y.parts = <<>>
  BY <1>3
<1>6. \/ x.parts = <<>> /\ Repeated(r, f)
      \/ x.parts = <<f>> /\ ~Repeated(r, f)
  <2>1. CASE Repeated(r, f)
    <3>1. x.parts = <<>> \/ x = y
      BY <1>4, <2>1
    <3>2. QED BY <1>5, <2>1, <3>1
  <2>2. CASE ~Repeated(r, f)
    <3>1. x.parts = Append(y.parts, f) \/ x.parts = <<f>>
      BY ONLY <1>1, <1>4, <2>2
    <3>2. QED BY <1>2, <1>5, <2>2, <3>1
  <2>3. QED BY <2>1, <2>2
<1>7. ASSUME y.expect = 0, ~Repeated(r, f) PROVE x.expect = 1
  <2>1. x.expect = y.expect + 1
    BY <1>1, <1>4, <1>7
  <2>2. 0 + 1 = 1
    OBVIOUS
  <2>3. QED BY <1>7, <2>1, <2>2
<1>8. QED BY <1>3, <1>4, <1>6, <1>7

LEMMA PlanStays == [Next]_vars => plan' = plan
<1> SUFFICES ASSUME [Next]_vars PROVE plan' = plan
  OBVIOUS
<1>1. ASSUME NEW w \in Writers,
             WriteNode(w) \/ WriteGroup(w) \/ RootWriteEach(w) \/ RootWriteList(w) \/ WriteReturns(w)
      PROVE  plan' = plan
  BY <1>1 DEF WriteNode, WriteGroup, RootWriteEach, RootWriteList, WriteReturns, Begin
<1>2. ASSUME NEW t \in Tasks, Calls(t) PROVE plan' = plan
  BY <1>2 DEF Calls, NextChild, ChildFails, BelowUnknown, ChildrenDone, NextAddress, SendFragment, SendFails, InCall
<1>3. ASSUME NEW n \in Nodes, NEW s \in Nodes, NEW again \in BOOLEAN,
             NodeReads(n, s, again) \/ RootReads(s, again) \/ ForwardReturns(n)
      PROVE  plan' = plan
  BY <1>3 DEF NodeReads, RootReads, Arrives, ForwardReturns
<1>4. ASSUME NEW r \in Readers, Timeout(r) \/ NotStarted(r) \/ \E s \in Nodes : Lose(s, r)
      PROVE  plan' = plan
  BY <1>4 DEF Timeout, NotStarted, Lose
<1>5. ASSUME NEW n \in Nodes, NEW p \in Nodes, Move(n, p) PROVE plan' = plan
  BY <1>5 DEF Move
<1>6. QED
  <2>1. CASE UNCHANGED vars
    BY <2>1 DEF vars
  <2>2. CASE Next
    <3>1. Root \in Nodes
      BY MwifiAssumption
    <3>2. QED BY <1>1, <1>2, <1>3, <1>4, <1>5, <2>2, <3>1 DEF Next
  <2>3. QED BY <2>1, <2>2

(* A call changes, and perhaps what is on its way.                         *)
LEMMA ShortCallChanges ==
  ASSUME SInv, TInv', UNCHANGED <<plan, rx, got>>, WrittenParts \subseteq WrittenParts',
         ShortPaths', NEW t \in Tasks, NEW d, tx' = [tx EXCEPT ![t] = d],
         d.pc # "idle" => Len(d.data) = 1 /\ d.data[1] \in WrittenParts',
         t \in Nodes => tx[t].pc # "idle" /\ d.pc # "idle" /\ d.data = tx[t].data
  PROVE  SInv'
<1>1. ShortPackets'
  BY DEF SInv, ShortPackets
<1>2. \A u \in Tasks : tx'[u] = IF u = t THEN d ELSE tx[u]
  BY DEF SInv, TInv, CallsTyped
<1>3. ShortCalls'
  BY <1>2 DEF SInv, ShortCalls
<1>4. ShortNodes'
  <2>1. ASSUME NEW n \in Nodes
        PROVE  IF tx'[n].pc = "idle" THEN rx[n].parts = <<>>
               ELSE /\ Len(rx[n].parts) = 1 /\ Short(rx[n].parts[1])'
                    /\ tx'[n].data[1] = rx[n].parts[1].part
    <3>1. IF tx[n].pc = "idle" THEN rx[n].parts = <<>>
          ELSE /\ Len(rx[n].parts) = 1 /\ Short(rx[n].parts[1])
               /\ tx[n].data[1] = rx[n].parts[1].part
      BY DEF SInv, ShortNodes
    <3>2. Short(rx[n].parts[1]) => Short(rx[n].parts[1])'
      BY DEF Short
    <3>3. n \in Tasks
      BY DEF Tasks
    <3>4. (tx'[n].pc = "idle" <=> tx[n].pc = "idle")
          /\ (tx'[n].pc # "idle" => tx'[n].data = tx[n].data)
      BY <1>2, <3>3
    <3>5. QED BY <3>1, <3>2, <3>4
  <2>2. QED BY <2>1 DEF ShortNodes
<1>5. ShortRoot'
  BY DEF SInv, ShortRoot
<1>6. ShortGot'
  BY DEF SInv, ShortGot
<1>7. QED BY <1>1, <1>3, <1>4, <1>5, <1>6 DEF SInv

LEMMA ShortWrite ==
  ASSUME SInv, NEW w \in Writers,
         WriteNode(w) \/ WriteGroup(w) \/ RootWriteEach(w) \/ RootWriteList(w)
  PROVE  /\ SInv' /\ written' = [written EXCEPT ![w] = @ + 1]
         /\ \E z : z = <<w, written[w] + 1, 1>> /\ tx'[w].data = <<z>> /\ z \in WrittenParts'
<1>1. TInv /\ TInv' /\ ShortPackets /\ w \in Tasks /\ w \notin Nodes
  BY WriteTyped, MwifiAssumption DEF SInv, Tasks
<1>2. /\ written' = [written EXCEPT ![w] = @ + 1] /\ UNCHANGED <<plan, used, parent, path, rx, got>>
      /\ written[w] < Len(plan.writes[w])
  BY DEF WriteNode, WriteGroup, RootWriteEach, RootWriteList, Begin
<1>3. /\ NewCall(w) \in CallRecord /\ NewCall(w).data = Parts(w, written[w] + 1)
      /\ written[w] + 1 \in 1 .. Len(plan.writes[w])
  BY <1>1, <1>2, NewCallTyped
<1>4. PICK i \in 1 .. Len(plan.writes[w]) : i = written[w] + 1
  BY <1>3
<1>5. PICK z : z = <<w, i, 1>>
  OBVIOUS
<1>6. Parts(w, i) = <<z>> /\ z \in Part
  BY <1>1, <1>5, ShortParts
<1>7. PICK c : c = NewCall(w)
  OBVIOUS
<1>8. c \in CallRecord /\ c.data = <<z>>
  BY <1>3, <1>4, <1>6, <1>7
<1>9. PICK d : tx' = [tx EXCEPT ![w] = d] /\ d.data = <<z>>
  <2>1. CASE WriteNode(w)
    <3>1. PICK d : d = [c EXCEPT !.pc = "send", !.dst = Upcoming(w).to]
      OBVIOUS
    <3>2. d.data = c.data
      BY <1>8, <3>1 DEF CallRecord
    <3>3. tx' = [tx EXCEPT ![w] = d]
      BY <1>7, <2>1, <3>1 DEF WriteNode, Begin
    <3>4. QED BY <1>8, <3>2, <3>3
  <2>2. CASE WriteGroup(w)
    <3>1. PICK d : d = [c EXCEPT !.pc = "send", !.dst = Root, !.all = TRUE, !.to = {Upcoming(w).to}]
      OBVIOUS
    <3>2. d.data = c.data
      BY <1>8, <3>1 DEF CallRecord
    <3>3. tx' = [tx EXCEPT ![w] = d]
      BY <1>7, <2>2, <3>1 DEF WriteGroup, Begin
    <3>4. QED BY <1>8, <3>2, <3>3
  <2>3. CASE RootWriteEach(w)
    <3>1. PICK d : d = [c EXCEPT !.pc = "each", !.list = Addresses(Upcoming(w).to)]
      OBVIOUS
    <3>2. d.data = c.data
      BY <1>8, <3>1 DEF CallRecord
    <3>3. tx' = [tx EXCEPT ![w] = d]
      BY <1>7, <2>3, <3>1 DEF RootWriteEach, Begin
    <3>4. QED BY <1>8, <3>2, <3>3
  <2>4. CASE RootWriteList(w)
    <3>1. PICK d : d = Transmit(c, Home[w], Upcoming(w).to)
      OBVIOUS
    <3>2. d.data = c.data
      BY <1>8, <3>1 DEF CallRecord, Transmit
    <3>3. tx' = [tx EXCEPT ![w] = d]
      BY <1>7, <2>4, <3>1 DEF RootWriteList, Begin
    <3>4. QED BY <1>8, <3>2, <3>3
  <2>5. QED BY <2>1, <2>2, <2>3, <2>4
<1>10. written'[w] = i /\ \A o \in Writers : written'[o] >= written[o]
  <2>1. written \in [Writers -> Nat]
    BY <1>1 DEF TInv, PlanTyped
  <2>2. written' = [written EXCEPT ![w] = i]
    BY <1>2, <1>4
  <2>3. i >= written[w]
    BY <1>4, <2>1
  <2>4. ASSUME NEW o \in Writers PROVE written'[o] >= written[o]
    <3>1. CASE o = w
      BY <2>1, <2>2, <2>3, <3>1
    <3>2. CASE o # w
      <4>1. written'[o] = written[o] /\ written[o] \in Nat
        BY <2>1, <2>2, <3>2
      <4>2. QED BY <4>1
    <3>3. QED BY <3>1, <3>2
  <2>5. QED BY <2>1, <2>2, <2>4
<1>11. WrittenParts \subseteq WrittenParts'
  BY <1>1, <1>10, WrittenGrows
<1>12. z \in WrittenParts'
  <2>1. z[1] = w /\ z[2] = i /\ z[3] = 1 /\ i <= i
    BY <1>5
  <2>2. QED BY <1>6, <1>10, <2>1 DEF WrittenParts
<1>13. ShortPaths'
  BY <1>2, <1>11 DEF SInv, ShortPaths, Short
<1>14. SInv'
  <2>1. Len(<<z>>) = 1 /\ <<z>>[1] = z
    OBVIOUS
  <2>2. Len(d.data) = 1 /\ d.data[1] \in WrittenParts'
    BY <1>9, <1>12, <2>1
  <2>3. QED BY <1>1, <1>2, <1>9, <1>11, <1>13, <2>2, ShortCallChanges
<1>15. tx'[w].data = <<z>>
  BY <1>1, <1>9 DEF TInv, CallsTyped
<1>16. QED BY <1>2, <1>4, <1>5, <1>12, <1>14, <1>15

LEMMA ShortTurn ==
  ASSUME SInv, TInv', NEW t \in Tasks, NEW d, Turned(t, d), tx[t].pc # "idle", UNCHANGED got
  PROVE  SInv'
<1>1. /\ tx' = [tx EXCEPT ![t] = d] /\ d.pc # "idle" /\ d.data = tx[t].data
      /\ UNCHANGED <<plan, parent, written, rx, path>>
  BY DEF Turned
<1>2. WrittenParts' = WrittenParts
  BY <1>1 DEF WrittenParts
<1>3. ShortPaths'
  BY <1>1, <1>2 DEF SInv, ShortPaths, Short
<1>4. Len(d.data) = 1 /\ d.data[1] \in WrittenParts
  BY <1>1 DEF SInv, ShortCalls
<1>5. QED BY <1>1, <1>2, <1>3, <1>4, ShortCallChanges

LEMMA ShortLoop ==
  ASSUME SInv, NEW t \in Tasks,
         \/ NextChild(t) \/ ChildFails(t) \/ BelowUnknown(t)
         \/ ChildrenDone(t) \/ NextAddress(t)
  PROVE  SInv'
<1>1. TInv /\ TInv' /\ UNCHANGED got
  BY NextChildTyped, ChildrenTyped
     DEF SInv, NextChild, ChildFails, BelowUnknown, ChildrenDone, NextAddress, InCall
<1>2. \E d : Turned(t, d) /\ tx[t].pc # "idle"
  <2>1. CASE NextChild(t)
    <3>1. PICK k \in Nodes, d \in Call : Visits(t, k, d)
      BY <1>1, <2>1, ChildVisited
    <3>2. QED BY <3>1 DEF Visits
  <2>2. CASE ChildFails(t)
    <3>1. PICK d \in Call : Fails(t, d)
      BY <1>1, <2>2, LoopTurns
    <3>2. QED BY <3>1 DEF Fails
  <2>3. CASE ChildrenDone(t)
    <3>1. PICK d \in Call : RestFollows(t, d)
      BY <1>1, <2>3, LoopTurns
    <3>2. QED BY <3>1 DEF RestFollows
  <2>4. CASE NextAddress(t)
    <3>1. PICK d \in Call : \E a : Addressing(t, a, d)
      BY <1>1, <2>4, LoopTurns
    <3>2. PICK a : Addressing(t, a, d)
      BY <3>1
    <3>3. tx[t].pc # "idle"
      BY <3>2 DEF Addressing
    <3>4. QED BY <3>2, <3>3 DEF Addressing
  <2>5. CASE BelowUnknown(t)
    <3>1. PICK k \in Nodes : \E d \in Call : Guesses(t, k, d)
      BY <1>1, <2>5, LoopTurns
    <3>2. QED BY <3>1 DEF Guesses
  <2>6. QED BY <2>1, <2>2, <2>3, <2>4, <2>5
<1>3. QED BY <1>1, <1>2, ShortTurn

(* What a call of a short packet sends is the whole packet.                *)
ShortSends(t, c, f, p, d) ==
  /\ c = tx[t] /\ c \in Call /\ c.pc = "send" /\ Len(c.data) = 1 /\ c.data[1] \in WrittenParts
  /\ f \in Fragment /\ f.part = c.data[1] /\ Short(f)
  /\ f.self = c.self /\ f.all = c.all /\ f.to = c.to /\ ~f.again
  /\ p = <<NodeOf(t), c.dst>> /\ p \in Nodes \X Readers
  /\ path' = [path EXCEPT ![p] = Append(@, f)]
  /\ d \in Call /\ tx' = [tx EXCEPT ![t] = d] /\ d = Sent(c, TRUE)
  /\ UNCHANGED <<plan, parent, written, rx, got, used>>

LEMMA ShortSent ==
  ASSUME SInv, NEW t \in Tasks, SendFragment(t)
  PROVE  \E c, f, p, d : ShortSends(t, c, f, p, d)
<1>1. PICK c, f, p, d : Sends(t, c, f, p, d)
  BY SentFragment DEF SInv
<1>2. c = tx[t] /\ c \in Call /\ c.pc = "send" /\ c.seq \in 0 .. 7 /\ c.seq < Len(c.data)
  BY <1>1 DEF Sends
<1>3. Len(c.data) = 1 /\ c.data[1] \in WrittenParts
  BY <1>2 DEF SInv, ShortCalls
<1>4. c.seq = 0 /\ 0 + 1 = 1
  BY <1>2, <1>3
<1>5. /\ f \in Fragment /\ f.part = c.data[c.seq + 1] /\ f.seq = c.seq /\ f.total = Len(c.data)
      /\ f.self = c.self /\ f.all = c.all /\ f.to = c.to /\ ~f.again
      /\ p = <<NodeOf(t), c.dst>> /\ p \in Nodes \X Readers
      /\ path' = [path EXCEPT ![p] = Append(@, f)]
      /\ d \in Call /\ tx' = [tx EXCEPT ![t] = d]
      /\ UNCHANGED <<plan, parent, written, rx, got, used>>
  BY <1>1 DEF Sends
<1>6. d = Sent(c, TRUE)
  BY <1>1, <1>3, <1>4 DEF Sends
<1>7. f.part = c.data[1] /\ Short(f)
  BY <1>3, <1>4, <1>5 DEF Short
<1>8. QED BY <1>2, <1>3, <1>5, <1>6, <1>7 DEF ShortSends

LEMMA SentKeeps ==
  ASSUME NEW c \in Call, c.pc = "send", NEW ok \in BOOLEAN
  PROVE  /\ c.back = "idle" => Sent(c, ok) = NoCall
         /\ c.back # "idle" =>
              /\ Sent(c, ok).pc = c.back /\ Sent(c, ok).data = c.data /\ Sent(c, ok).to = c.to
              /\ Sent(c, ok).all = c.all /\ Sent(c, ok).ok = ok
              /\ Sent(c, ok).list \subseteq c.list /\ (ok => Sent(c, ok).list = c.list)
<1>1. c \in CallRecord
  BY DEF Call
<1>2. PICK k, l, t : /\ k = (IF ok THEN c.kids ELSE {})
                     /\ l = (IF ~ok /\ c.back = "each" THEN {} ELSE c.list)
                     /\ t = [c EXCEPT !.pc = c.back, !.seq = 0, !.ok = ok, !.kids = k, !.list = l]
  OBVIOUS
<1>3. c.back # "idle" => Sent(c, ok) = t
  BY <1>2 DEF Sent
<1>4. /\ t.pc = c.back /\ t.data = c.data /\ t.to = c.to /\ t.all = c.all /\ t.ok = ok /\ t.list = l
  BY <1>1, <1>2 DEF CallRecord
<1>5. l \subseteq c.list /\ (ok => l = c.list)
  BY <1>2
<1>6. c.back = "idle" => Sent(c, ok) = NoCall
  BY DEF Sent
<1>7. QED BY <1>3, <1>4, <1>5, <1>6

(* A send succeeds or fails, or a write returns.                           *)
LEMMA ShortSend ==
  ASSUME SInv, NEW t \in Tasks, SendFragment(t) \/ SendFails(t) \/ (t \in Writers /\ WriteReturns(t))
  PROVE  SInv'
<1>1. TInv /\ TInv' /\ UNCHANGED <<plan, rx, got, written>>
  BY SendTyped, WriteReturnsTyped DEF SInv, SendFragment, SendFails, InCall, WriteReturns
<1>2. WrittenParts' = WrittenParts
  BY <1>1 DEF WrittenParts
<1>3. PICK c : c = tx[t] /\ c \in Call
  BY <1>1 DEF TInv, CallsTyped
<1>4. ASSUME c.pc = "send", NEW ok \in BOOLEAN, NEW d, d = Sent(c, ok)
      PROVE  /\ d.pc # "idle" => Len(d.data) = 1 /\ d.data[1] \in WrittenParts
             /\ t \in Nodes => tx[t].pc # "idle" /\ d.pc # "idle" /\ d.data = tx[t].data
  <2>1. Len(c.data) = 1 /\ c.data[1] \in WrittenParts
    BY <1>3, <1>4 DEF SInv, ShortCalls
  <2>2. CASE c.back = "idle"
    <3>1. d.pc = "idle"
      BY <1>3, <1>4, <2>2, SentKeeps DEF NoCall
    <3>2. t \notin Nodes
      BY <1>1, <1>3, <1>4, <2>2 DEF TInv, NodesForward
    <3>3. QED BY <3>1, <3>2
  <2>3. CASE c.back # "idle"
    <3>1. d.pc = c.back /\ d.data = c.data
      BY <1>3, <1>4, <2>3, SentKeeps
    <3>2. QED BY <1>3, <1>4, <2>1, <2>3, <3>1
  <2>4. QED BY <2>2, <2>3
<1>5. CASE SendFragment(t)
  <2>1. PICK x, f, p, d : ShortSends(t, x, f, p, d)
    BY <1>5, ShortSent
  <2>2. /\ x = c /\ c.pc = "send" /\ d = Sent(c, TRUE) /\ tx' = [tx EXCEPT ![t] = d] /\ Short(f)
        /\ path' = [path EXCEPT ![p] = Append(@, f)] /\ p \in Nodes \X Readers /\ f \in Fragment
    BY <1>3, <2>1 DEF ShortSends
  <2>3. ShortPaths'
    <3>1. ASSUME NEW q \in Nodes \X Readers, NEW k \in 1 .. Len(path'[q])
          PROVE  Short(path'[q][k])
      <4>1. path[q] \in Seq(Fragment)
        BY <1>1 DEF TInv, PathsTyped
      <4>2. CASE q = p
        <5>1. path'[q] = Append(path[q], f)
          BY <1>1, <2>2, <4>2 DEF TInv, PathsTyped
        <5>2. (k \in 1 .. Len(path[q]) /\ path'[q][k] = path[q][k]) \/ path'[q][k] = f
          BY <2>2, <3>1, <4>1, <5>1
        <5>3. QED BY <2>2, <5>2 DEF SInv, ShortPaths
      <4>3. CASE q # p
        <5>1. path'[q] = path[q]
          BY <1>1, <2>2, <4>3 DEF TInv, PathsTyped
        <5>2. QED BY <3>1, <5>1 DEF SInv, ShortPaths
      <4>4. QED BY <4>2, <4>3
    <3>2. QED BY <1>2, <3>1 DEF ShortPaths, Short
  <2>4. TRUE \in BOOLEAN
    OBVIOUS
  <2>5. /\ d.pc # "idle" => Len(d.data) = 1 /\ d.data[1] \in WrittenParts
        /\ t \in Nodes => tx[t].pc # "idle" /\ d.pc # "idle" /\ d.data = tx[t].data
    BY <1>4, <2>2, <2>4
  <2>6. QED BY <1>1, <1>2, <2>2, <2>3, <2>5, ShortCallChanges
<1>6. CASE SendFails(t)
  <2>1. PICK d : d = Sent(c, FALSE) /\ tx' = [tx EXCEPT ![t] = d]
    BY <1>3, <1>6 DEF SendFails
  <2>2. c.pc = "send" /\ FALSE \in BOOLEAN /\ UNCHANGED path
    BY <1>3, <1>6 DEF SendFails, InCall
  <2>3. /\ d.pc # "idle" => Len(d.data) = 1 /\ d.data[1] \in WrittenParts
        /\ t \in Nodes => tx[t].pc # "idle" /\ d.pc # "idle" /\ d.data = tx[t].data
    BY <1>4, <2>1, <2>2
  <2>4. ShortPaths'
    BY <1>2, <2>2 DEF SInv, ShortPaths, Short
  <2>5. QED BY <1>1, <1>2, <2>1, <2>3, <2>4, ShortCallChanges
<1>7. CASE t \in Writers /\ WriteReturns(t)
  <2>1. tx' = [tx EXCEPT ![t] = NoCall] /\ UNCHANGED path /\ NoCall.pc = "idle" /\ t \notin Nodes
    BY <1>7, MwifiAssumption DEF WriteReturns, NoCall
  <2>2. ShortPaths'
    BY <1>2, <2>1 DEF SInv, ShortPaths, Short
  <2>3. QED BY <1>1, <1>2, <2>1, <2>2, ShortCallChanges
<1>8. QED BY <1>5, <1>6, <1>7

(* A packet of one fragment is complete with it.                           *)
LEMMA ShortContent ==
  ASSUME NEW f, f.total = 1
  PROVE  /\ Len(<<f>>) = 1 /\ <<f>>[1] = f /\ Full(<<f>>)
         /\ Content(<<f>>) = <<f.part>>
<1>1. Len(<<f>>) = 1 /\ <<f>>[1] = f /\ <<f>> # <<>> /\ 1 >= 1
  OBVIOUS
<1>2. Full(<<f>>)
  BY <1>1 DEF Full
<1>3. Content(<<f>>) = [k \in 1 .. 1 |-> <<f>>[k].part]
  BY <1>1 DEF Content
<1>4. [k \in 1 .. 1 |-> <<f>>[k].part] = <<f.part>>
  <2>1. DOMAIN <<f.part>> = 1 .. 1 /\ <<f.part>>[1] = f.part
    OBVIOUS
  <2>2. \A k \in 1 .. 1 : <<f>>[k].part = <<f.part>>[k]
    BY <1>1, <2>1
  <2>3. QED BY <2>1, <2>2
<1>5. QED BY <1>1, <1>2, <1>3, <1>4

LEMMA OneFragment == ASSUME NEW s \in Seq(Fragment), Len(s) = 1 PROVE s = <<s[1]>>
  OBVIOUS

LEMMA ShortReturned ==
  ASSUME SInv, UNCHANGED written, NEW r \in Readers, NEW f \in Fragment, Short(f), Returned(r, <<f>>)
  PROVE  /\ ShortGot'
         /\ IF Keeps(r, <<f>>) THEN got' = [got EXCEPT ![r] = Append(@, <<f.part>>)] ELSE got' = got
<1>1. Content(<<f>>) = <<f.part>> /\ f.part \in WrittenParts
  BY ShortContent DEF Short
<1>2. IF Keeps(r, <<f>>) THEN got' = [got EXCEPT ![r] = Append(@, <<f.part>>)] ELSE got' = got
  BY <1>1 DEF Returned
<1>3. WrittenParts' = WrittenParts
  BY DEF WrittenParts
<1>4. CASE got' = got
  <2>1. ShortGot'
    BY <1>3, <1>4 DEF SInv, ShortGot
  <2>2. QED BY <1>2, <2>1
<1>5. CASE got' = [got EXCEPT ![r] = Append(@, <<f.part>>)]
  <2>1. PICK y : y = <<f.part>>
    OBVIOUS
  <2>2. y \in Seq(Part) /\ Len(y) = 1 /\ y[1] \in WrittenParts
    <3>1. f.part \in Part
      BY <1>1 DEF WrittenParts
    <3>2. QED BY <1>1, <2>1, <3>1
  <2>3. got \in [Readers -> Seq(Seq(Part))]
    BY DEF SInv, ShortGot
  <2>4. PICK g \in Seq(Seq(Part)) : g = got[r]
    BY <2>3
  <2>5. Append(g, y) \in Seq(Seq(Part)) /\ got' = [got EXCEPT ![r] = Append(g, y)]
    BY <1>5, <2>1, <2>2, <2>4
  <2>6. got' \in [Readers -> Seq(Seq(Part))]
    BY <2>3, <2>5
  <2>7. ASSUME NEW q \in Readers, NEW k \in 1 .. Len(got'[q])
        PROVE  Len(got'[q][k]) = 1 /\ got'[q][k][1] \in WrittenParts
    <3>1. CASE q = r
      <4>1. got'[q] = Append(g, y)
        BY <2>3, <2>5, <3>1
      <4>2. (k \in 1 .. Len(g) /\ got'[q][k] = g[k]) \/ got'[q][k] = y
        BY <2>2, <2>7, <4>1
      <4>3. CASE k \in 1 .. Len(g) /\ got'[q][k] = g[k]
        <5>1. Len(g[k]) = 1 /\ g[k][1] \in WrittenParts
          BY <2>4, <4>3 DEF SInv, ShortGot
        <5>2. QED BY <4>3, <5>1
      <4>4. CASE got'[q][k] = y
        BY <2>2, <4>4
      <4>5. QED BY <4>2, <4>3, <4>4
    <3>2. CASE q # r
      <4>1. got'[q] = got[q]
        BY <2>3, <2>5, <3>2
      <4>2. QED BY <2>7, <4>1 DEF SInv, ShortGot
    <3>3. QED BY <3>1, <3>2
  <2>8. QED BY <1>2, <1>3, <2>6, <2>7 DEF ShortGot
<1>6. QED BY <1>2, <1>4, <1>5

(* A reader changes, and perhaps its call.                                 *)
LEMMA ShortReaderChanges ==
  ASSUME SInv, TInv', UNCHANGED <<plan, written>>, ShortPaths', ShortGot',
         NEW r \in Readers, NEW x \in Receiver, rx' = [rx EXCEPT ![r] = x],
         \A t \in Tasks : r \notin Nodes \/ t # r => tx'[t] = tx[t],
         r \in Nodes =>
           \/ tx'[r].pc = "idle" /\ x.parts = <<>>
           \/ /\ tx'[r].pc # "idle" /\ Len(x.parts) = 1 /\ Short(x.parts[1])
              /\ tx'[r].data = <<x.parts[1].part>>,
         r = DS => x.parts = <<>> /\ x.expect = 0
  PROVE  SInv'
<1>1. ShortPackets' /\ WrittenParts' = WrittenParts
  BY DEF SInv, ShortPackets, WrittenParts
<1>2. DS \notin Nodes /\ DS \in Readers /\ Nodes \subseteq Readers
  BY MwifiAssumption DEF Readers
<1>3. \A q \in Readers : rx'[q] = IF q = r THEN x ELSE rx[q]
  BY DEF SInv, TInv, ReadersTyped
<1>4. ShortCalls'
  <2>1. ASSUME NEW t \in Tasks, tx'[t].pc # "idle"
        PROVE  Len(tx'[t].data) = 1 /\ tx'[t].data[1] \in WrittenParts
    <3>1. CASE t = r /\ r \in Nodes
      <4>1. tx'[t].data = <<x.parts[1].part>> /\ Short(x.parts[1])
        BY <2>1, <3>1
      <4>2. PICK z : z = x.parts[1].part
        OBVIOUS
      <4>3. Len(<<z>>) = 1 /\ <<z>>[1] = z
        OBVIOUS
      <4>4. QED BY <4>1, <4>2, <4>3 DEF Short
    <3>2. CASE r \notin Nodes \/ t # r
      BY <2>1, <3>2 DEF SInv, ShortCalls
    <3>3. QED BY <3>1, <3>2
  <2>2. QED BY <1>1, <2>1 DEF ShortCalls
<1>5. ShortNodes'
  <2>1. ASSUME NEW n \in Nodes
        PROVE  IF tx'[n].pc = "idle" THEN rx'[n].parts = <<>>
               ELSE /\ Len(rx'[n].parts) = 1 /\ Short(rx'[n].parts[1])
                    /\ tx'[n].data[1] = rx'[n].parts[1].part
    <3>1. CASE n = r
      <4>1. rx'[n] = x
        BY <1>2, <1>3, <3>1
      <4>2. CASE tx'[r].pc = "idle" /\ x.parts = <<>>
        BY <3>1, <4>1, <4>2
      <4>3. CASE /\ tx'[r].pc # "idle" /\ Len(x.parts) = 1 /\ Short(x.parts[1])
                 /\ tx'[r].data = <<x.parts[1].part>>
        <5>1. PICK z : z = x.parts[1].part
          OBVIOUS
        <5>2. <<z>>[1] = z
          OBVIOUS
        <5>3. tx'[r].data[1] = z
          BY <4>3, <5>1, <5>2
        <5>4. QED BY <3>1, <4>1, <4>3, <5>1, <5>3
      <4>4. QED BY <3>1, <4>2, <4>3
    <3>2. CASE n # r
      <4>1. rx'[n] = rx[n] /\ tx'[n] = tx[n]
        BY <1>2, <1>3, <3>2 DEF Tasks
      <4>2. QED BY <4>1 DEF SInv, ShortNodes
    <3>3. QED BY <3>1, <3>2
  <2>2. QED BY <1>1, <2>1 DEF ShortNodes, Short
<1>6. ShortRoot'
  <2>1. CASE r = DS
    BY <1>3, <2>1 DEF ShortRoot
  <2>2. CASE r # DS
    BY <1>2, <1>3, <2>2 DEF SInv, ShortRoot
  <2>3. QED BY <2>1, <2>2
<1>7. QED BY <1>1, <1>4, <1>5, <1>6 DEF SInv

(* The fragments that stay on their way are short.                         *)
LEMMA ShortTaken ==
  ASSUME SInv, UNCHANGED written, NEW p \in Nodes \X Readers, path[p] # <<>>,
         path' = [path EXCEPT ![p] = Tail(@)] \/ path' = [path EXCEPT ![p][1].again = TRUE]
  PROVE  ShortPaths' /\ Short(path[p][1]) /\ path[p][1] \in Fragment
<1>1. WrittenParts' = WrittenParts /\ path \in [Nodes \X Readers -> Seq(Fragment)]
  BY DEF WrittenParts, SInv, TInv, PathsTyped
<1>2. PICK s \in Seq(Fragment) : s = path[p] /\ s # <<>>
  BY <1>1
<1>3. \A k \in 1 .. Len(s) : Short(s[k])
  BY <1>2 DEF SInv, ShortPaths
<1>4. 1 \in 1 .. Len(s) /\ s[1] \in Fragment
  BY <1>2
<1>5. \A k \in 1 .. Len(path'[p]) : Short(path'[p][k])
  <2>1. CASE path' = [path EXCEPT ![p] = Tail(@)]
    <3>1. path'[p] = Tail(s)
      BY <1>1, <1>2, <2>1
    <3>2. \A k \in 1 .. Len(Tail(s)) : k + 1 \in 1 .. Len(s) /\ Tail(s)[k] = s[k + 1]
      BY <1>2
    <3>3. QED BY <1>3, <3>1, <3>2
  <2>2. CASE path' = [path EXCEPT ![p][1].again = TRUE]
    <3>1. PICK g, u : g = [s[1] EXCEPT !.again = TRUE] /\ u = [s EXCEPT ![1] = g]
      OBVIOUS
    <3>2. path' = [path EXCEPT ![p] = u]
      BY <1>2, <2>2, <3>1
    <3>3. g.part = s[1].part /\ g.seq = s[1].seq /\ g.total = s[1].total
      BY <1>4, <3>1 DEF Fragment, FragmentRecord
    <3>4. Short(g)
      BY <1>3, <1>4, <3>3 DEF Short
    <3>5. path'[p] = u
      BY <1>1, <3>2
    <3>6. Len(u) = Len(s) /\ \A k \in 1 .. Len(s) : u[k] = IF k = 1 THEN g ELSE s[k]
      BY <1>2, <3>1
    <3>7. QED BY <1>3, <3>4, <3>5, <3>6
  <2>3. QED BY <2>1, <2>2
<1>6. \A q \in Nodes \X Readers : q # p => path'[q] = path[q]
  BY <1>1
<1>7. \A q \in Nodes \X Readers : \A k \in 1 .. Len(path'[q]) : Short(path'[q][k])
  BY <1>5, <1>6 DEF SInv, ShortPaths
<1>8. QED BY <1>1, <1>2, <1>3, <1>4, <1>7 DEF ShortPaths, Short

(* What a node does with a fragment that is a whole packet: it drops it as *)
(* a repeated one, passes it on, or returns it.                            *)
ShortPassed(n, f) ==
  Transmit([NoCall EXCEPT !.data = <<f.part>>, !.all = f.all, !.self = f.self, !.to = f.to],
           n, IF f.all THEN {Others} ELSE f.to)

ShortActs(n, s, again, p, f, x) ==
  /\ Takes(n, s, again, p, f, x) /\ Short(f) /\ tx[n].pc = "idle"
  /\ \/ Repeated(n, f) /\ x.parts = <<>> /\ rx' = [rx EXCEPT ![n] = x] /\ UNCHANGED <<got, tx>>
     \/ /\ ~Repeated(n, f) /\ (f.to # {} \/ f.all) /\ x.parts = <<f>>
        /\ rx' = [rx EXCEPT ![n] = x] /\ UNCHANGED got
        /\ tx' = [tx EXCEPT ![n] = ShortPassed(n, f)]
     \/ /\ ~Repeated(n, f) /\ f.to = {} /\ ~f.all /\ Returned(n, <<f>>)
        /\ rx' = [rx EXCEPT ![n] = Cleared(x)] /\ UNCHANGED tx

LEMMA ShortNodeTakes ==
  ASSUME SInv, NEW n \in Nodes, NEW s \in Nodes, NEW again \in BOOLEAN, NodeReads(n, s, again)
  PROVE  \E p, f, x : ShortActs(n, s, again, p, f, x)
<1>1. TInv /\ n \in Readers
  BY DEF SInv, Readers
<1>2. PICK p, f, x : NodeActs(n, s, again, p, f, x)
  BY <1>1, NodeTakes
<1>3. Takes(n, s, again, p, f, x) /\ tx[n].pc = "idle"
  BY <1>2 DEF NodeActs
<1>4. /\ p \in Nodes \X Readers /\ path[p] # <<>> /\ f = path[p][1] /\ f \in Fragment
      /\ x = Gathered(n, f) /\ UNCHANGED written
      /\ path' = [path EXCEPT ![p] = Tail(@)] \/ path' = [path EXCEPT ![p][1].again = TRUE]
  BY <1>3 DEF Takes
<1>5. Short(f) /\ f.total = 1
  BY <1>4, ShortTaken DEF Short
<1>6. rx[n].parts = <<>>
  BY <1>3 DEF SInv, ShortNodes
<1>7. /\ \/ x.parts = <<>> /\ Repeated(n, f)
         \/ x.parts = <<f>> /\ ~Repeated(n, f)
  BY <1>1, <1>4, <1>5, <1>6, ShortGathered
<1>8. CASE x.parts = <<>> /\ Repeated(n, f)
  <2>1. ~NodeComplete(x)
    BY <1>8 DEF NodeComplete, Full
  <2>2. rx' = [rx EXCEPT ![n] = x] /\ UNCHANGED <<got, tx>>
    BY <1>2, <2>1 DEF NodeActs
  <2>3. QED BY <1>3, <1>5, <1>8, <2>2 DEF ShortActs
<1>9. CASE x.parts = <<f>> /\ ~Repeated(n, f)
  <2>1. Full(<<f>>) /\ Content(<<f>>) = <<f.part>> /\ <<f>>[1] = f
    BY <1>5, ShortContent
  <2>2. NodeComplete(x) /\ Content(x.parts) = <<f.part>> /\ x.parts[1] = f
    BY <1>9, <2>1 DEF NodeComplete
  <2>3. CASE f.to # {} \/ f.all
    <3>1. /\ rx' = [rx EXCEPT ![n] = x] /\ UNCHANGED got
          /\ \E c : /\ c = [NoCall EXCEPT !.data = Content(x.parts), !.all = f.all,
                                           !.self = f.self, !.to = f.to]
                    /\ tx' = [tx EXCEPT ![n] =
                         Transmit(c, n, IF f.all THEN {Others} ELSE x.parts[1].to)]
      BY <1>2, <2>2, <2>3 DEF NodeActs
    <3>2. tx' = [tx EXCEPT ![n] = ShortPassed(n, f)]
      BY <2>2, <3>1 DEF ShortPassed
    <3>3. QED BY <1>3, <1>5, <1>9, <2>3, <3>1, <3>2 DEF ShortActs
  <2>4. CASE ~(f.to # {} \/ f.all)
    <3>1. /\ Returned(n, x.parts) /\ UNCHANGED tx
          /\ rx' = [rx EXCEPT ![n] = Cleared(x)]
      BY <1>2, <2>2, <2>4 DEF NodeActs
    <3>2. Returned(n, <<f>>)
      BY <1>9, <3>1
    <3>3. QED BY <1>3, <1>5, <1>9, <2>4, <3>1, <3>2 DEF ShortActs
  <2>5. QED BY <2>3, <2>4
<1>10. QED BY <1>7, <1>8, <1>9

LEMMA ShortNodeReads ==
  ASSUME SInv, NEW n \in Nodes, NEW s \in Nodes, NEW again \in BOOLEAN, NodeReads(n, s, again)
  PROVE  SInv'
<1>1. TInv /\ TInv' /\ n \in Readers /\ n \in Tasks /\ n # DS
  BY NodeReadsTyped, MwifiAssumption DEF SInv, Readers, Tasks
<1>2. PICK p, f, x : ShortActs(n, s, again, p, f, x)
  BY ShortNodeTakes
<1>3. Takes(n, s, again, p, f, x) /\ tx[n].pc = "idle" /\ Short(f)
  BY <1>2 DEF ShortActs
<1>4. /\ p \in Nodes \X Readers /\ path[p] # <<>> /\ f \in Fragment /\ x \in Receiver
      /\ UNCHANGED <<plan, written>>
      /\ path' = [path EXCEPT ![p] = Tail(@)] \/ path' = [path EXCEPT ![p][1].again = TRUE]
  BY <1>3 DEF Takes
<1>5. ShortPaths'
  BY <1>4, ShortTaken
<1>6. UNCHANGED got => ShortGot'
  BY <1>4 DEF SInv, ShortGot, WrittenParts
<1>7. CASE x.parts = <<>> /\ rx' = [rx EXCEPT ![n] = x] /\ UNCHANGED <<got, tx>>
  <2>1. tx'[n].pc = "idle" /\ \A t \in Tasks : tx'[t] = tx[t]
    BY <1>3, <1>7
  <2>2. QED BY <1>1, <1>4, <1>5, <1>6, <1>7, <2>1, ShortReaderChanges
<1>8. CASE /\ x.parts = <<f>> /\ rx' = [rx EXCEPT ![n] = x] /\ UNCHANGED got
           /\ tx' = [tx EXCEPT ![n] = ShortPassed(n, f)]
  <2>1. PICK d : d = ShortPassed(n, f)
    OBVIOUS
  <2>2. tx' = [tx EXCEPT ![n] = d]
    BY <1>8, <2>1
  <2>3. tx'[n] = d /\ \A t \in Tasks : t # n => tx'[t] = tx[t]
    BY <1>1, <2>2 DEF TInv, CallsTyped
  <2>4. d.pc = "kids" /\ d.data = <<f.part>>
    BY <2>1 DEF ShortPassed, Transmit, NoCall
  <2>5. Len(x.parts) = 1 /\ x.parts[1] = f
    BY <1>8
  <2>6. QED BY <1>1, <1>3, <1>4, <1>5, <1>6, <1>8, <2>3, <2>4, <2>5, ShortReaderChanges
<1>9. CASE /\ Returned(n, <<f>>) /\ UNCHANGED tx
           /\ rx' = [rx EXCEPT ![n] = Cleared(x)]
  <2>1. PICK z : z = Cleared(x)
    OBVIOUS
  <2>2. z \in Receiver /\ z.parts = <<>>
    BY <1>4, <2>1, EndedTyped
  <2>3. ShortGot'
    BY <1>1, <1>3, <1>4, <1>9, ShortReturned
  <2>4. rx' = [rx EXCEPT ![n] = z]
    BY <1>9, <2>1
  <2>5. tx'[n].pc = "idle" /\ \A t \in Tasks : tx'[t] = tx[t]
    BY <1>3, <1>9
  <2>6. QED BY <1>1, <1>4, <1>5, <2>2, <2>3, <2>4, <2>5, ShortReaderChanges
<1>10. QED BY <1>2, <1>7, <1>8, <1>9 DEF ShortActs

(* mwifi_root_read() takes a packet of one fragment and returns it.        *)
ShortRootTakes(s, again, p, f, x) ==
  /\ Takes(DS, s, again, p, f, x) /\ Short(f) /\ Returned(DS, <<f>>) /\ UNCHANGED tx
  /\ rx' = [rx EXCEPT ![DS] = Cleared(x)]

LEMMA ShortRootTaken ==
  ASSUME SInv, NEW s \in Nodes, NEW again \in BOOLEAN, RootReads(s, again)
  PROVE  \E p, f, x : ShortRootTakes(s, again, p, f, x)
<1>1. TInv /\ DS \in Readers /\ Arrives(DS, s, again) /\ UNCHANGED tx
  BY DEF SInv, Readers, RootReads
<1>2. PICK p, f, x : Takes(DS, s, again, p, f, x)
  BY <1>1, TakesFragment
<1>3. /\ p \in Nodes \X Readers /\ path[p] # <<>> /\ f = path[p][1] /\ f \in Fragment
      /\ x = Gathered(DS, f) /\ UNCHANGED written /\ p = <<s, DS>>
      /\ path' = [path EXCEPT ![p] = Tail(@)] \/ path' = [path EXCEPT ![p][1].again = TRUE]
  BY <1>2 DEF Takes
<1>4. Short(f) /\ f.total = 1
  BY <1>3, ShortTaken DEF Short
<1>5. rx[DS].parts = <<>> /\ rx[DS].expect = 0 /\ ~Repeated(DS, f)
  BY DEF SInv, ShortRoot, Repeated
<1>6. x.parts = <<f>> /\ x.expect = 1
  BY <1>1, <1>3, <1>4, <1>5, ShortGathered
<1>7. RootComplete(x)
  BY <1>4, <1>6, ShortContent DEF RootComplete
<1>8. IF RootComplete(x) THEN Ends(DS, x) ELSE Gathers(DS, x)
  BY <1>3 DEF RootReads
<1>9. Returned(DS, <<f>>) /\ rx' = [rx EXCEPT ![DS] = Cleared(x)]
  BY <1>6, <1>7, <1>8 DEF Ends
<1>10. QED BY <1>1, <1>2, <1>4, <1>9 DEF ShortRootTakes

LEMMA ShortRootReads ==
  ASSUME SInv, NEW s \in Nodes, NEW again \in BOOLEAN, RootReads(s, again)
  PROVE  SInv'
<1>1. TInv /\ TInv' /\ DS \in Readers /\ DS \notin Nodes
  BY RootReadsTyped, MwifiAssumption DEF SInv, Readers
<1>2. PICK p, f, x : ShortRootTakes(s, again, p, f, x)
  BY ShortRootTaken
<1>3. /\ Takes(DS, s, again, p, f, x) /\ Short(f) /\ Returned(DS, <<f>>) /\ UNCHANGED tx
      /\ rx' = [rx EXCEPT ![DS] = Cleared(x)]
  BY <1>2 DEF ShortRootTakes
<1>4. /\ p \in Nodes \X Readers /\ path[p] # <<>> /\ f \in Fragment /\ x \in Receiver
      /\ UNCHANGED <<plan, written>>
      /\ path' = [path EXCEPT ![p] = Tail(@)] \/ path' = [path EXCEPT ![p][1].again = TRUE]
  BY <1>3 DEF Takes
<1>5. ShortPaths'
  BY <1>4, ShortTaken
<1>6. PICK z : z = Cleared(x)
  OBVIOUS
<1>7. z \in Receiver /\ z.parts = <<>> /\ z.expect = 0
  BY <1>4, <1>6, EndedTyped
<1>8. ShortGot'
  BY <1>1, <1>3, <1>4, ShortReturned
<1>9. rx' = [rx EXCEPT ![DS] = z]
  BY <1>3, <1>6
<1>10. QED BY <1>1, <1>3, <1>4, <1>5, <1>7, <1>8, <1>9, ShortReaderChanges

(* A node that ends its call has the fragment that it passed on.           *)
LEMMA ShortForwarded ==
  ASSUME SInv, NEW n \in Nodes, tx[n].pc # "idle"
  PROVE  \E f \in Fragment : rx[n].parts = <<f>> /\ Short(f) /\ tx[n].data[1] = f.part
<1>1. PICK s \in Seq(Fragment) : s = rx[n].parts
  BY DEF SInv, TInv, ReadersTyped, Receiver, Readers
<1>2. Len(s) = 1 /\ Short(s[1]) /\ tx[n].data[1] = s[1].part
  BY <1>1 DEF SInv, ShortNodes
<1>3. s = <<s[1]>> /\ s[1] \in Fragment
  BY <1>2
<1>4. QED BY <1>1, <1>2, <1>3

LEMMA ShortReaderStops ==
  ASSUME SInv,
         \/ \E n \in Nodes : ForwardReturns(n)
         \/ \E r \in Readers : Timeout(r) \/ NotStarted(r)
  PROVE  SInv'
<1>1. TInv /\ TInv' /\ DS \notin Nodes
  BY ReaderStopsTyped, MwifiAssumption DEF SInv
<1>2. UNCHANGED <<plan, path, written>>
  BY DEF ForwardReturns, Timeout, NotStarted
<1>3. ShortPaths' /\ (UNCHANGED got => ShortGot')
  BY <1>2 DEF SInv, ShortPaths, ShortGot, Short, WrittenParts
<1>4. ASSUME NEW r \in Readers, NEW x \in Receiver, rx' = [rx EXCEPT ![r] = x],
             x.parts = <<>>, r = DS => x.expect = 0, ShortGot', r \in Nodes => tx'[r].pc = "idle",
             \A t \in Tasks : r \notin Nodes \/ t # r => tx'[t] = tx[t]
      PROVE  SInv'
  BY <1>1, <1>2, <1>3, <1>4, ShortReaderChanges
<1>5. ASSUME NEW n \in Nodes, ForwardReturns(n) PROVE SInv'
  <2>1. /\ tx[n].pc # "idle" /\ tx' = [tx EXCEPT ![n] = NoCall] /\ rx' = Discard(n)
        /\ IF tx[n].ok THEN Returned(n, rx[n].parts) ELSE UNCHANGED got
        /\ n \in Readers /\ n # DS
    BY <1>1, <1>5 DEF ForwardReturns, Ended, Readers
  <2>2. PICK x \in Receiver : x.expect = 0 /\ x.parts = <<>> /\ rx' = [rx EXCEPT ![n] = x]
    BY <1>1, <2>1, DiscardTyped
  <2>3. PICK f \in Fragment : rx[n].parts = <<f>> /\ Short(f)
    BY <2>1, ShortForwarded
  <2>4. ShortGot'
    <3>1. CASE tx[n].ok
      <4>1. Returned(n, <<f>>)
        BY <2>1, <2>3, <3>1
      <4>2. QED BY <1>2, <2>1, <2>3, <4>1, ShortReturned
    <3>2. CASE ~tx[n].ok
      BY <1>3, <2>1, <3>2
    <3>3. QED BY <3>1, <3>2
  <2>5. tx'[n].pc = "idle" /\ \A t \in Tasks : t # n => tx'[t] = tx[t]
    BY <1>1, <2>1 DEF TInv, CallsTyped, NoCall, Tasks
  <2>6. QED BY <1>4, <2>1, <2>2, <2>4, <2>5
<1>6. ASSUME NEW r \in Readers, Timeout(r) PROVE SInv'
  <2>1. rx' = Discard(r) /\ UNCHANGED <<tx, got>> /\ (r \in Nodes => tx[r].pc = "idle")
    BY <1>1, <1>6 DEF Timeout, Reading
  <2>2. PICK x \in Receiver : x.expect = 0 /\ x.parts = <<>> /\ rx' = [rx EXCEPT ![r] = x]
    BY <1>1, <2>1, DiscardTyped
  <2>3. QED BY <1>3, <1>4, <2>1, <2>2
<1>7. ASSUME NEW r \in Readers, NotStarted(r) PROVE SInv'
  <2>1. r \in Nodes /\ r # DS
    <3>1. CASE r = DS
      <4>1. used["root_stop"] < plan.limit["root_stop"]
        BY <1>7, <3>1 DEF NotStarted, Happens
      <4>2. used["root_stop"] \in Nat
        BY <1>1 DEF TInv, PlanTyped, Events
      <4>3. plan.limit["root_stop"] = 0
        BY DEF SInv, ShortPackets
      <4>4. QED BY <4>1, <4>2, <4>3
    <3>2. CASE r # DS
      BY <3>2 DEF Readers
    <3>3. QED BY <3>1, <3>2
  <2>2. /\ rx' = [rx EXCEPT ![r].expect = @ + 1] /\ UNCHANGED <<tx, got>> /\ tx[r].pc = "idle"
    BY <1>7, <2>1 DEF NotStarted, Reading
  <2>3. PICK y, e, x : y = rx[r] /\ e = y.expect + 1 /\ x = [y EXCEPT !.expect = e]
    OBVIOUS
  <2>4. y \in Receiver /\ y.expect \in Int /\ y.parts = <<>>
    BY <1>1, <2>1, <2>2, <2>3 DEF SInv, ShortNodes, TInv, ReadersTyped, Receiver
  <2>5. e \in Int
    BY <2>3, <2>4
  <2>6. x \in Receiver /\ x.parts = <<>>
    BY <2>3, <2>4, <2>5 DEF Receiver
  <2>7. rx' = [rx EXCEPT ![r] = x]
    BY <2>2, <2>3
  <2>8. QED BY <1>3, <1>4, <2>1, <2>2, <2>6, <2>7
<1>8. QED BY <1>5, <1>6, <1>7

LEMMA ShortMesh ==
  ASSUME SInv,
         \/ \E r \in Readers, s \in Nodes : Lose(s, r)
         \/ \E n, p \in Nodes : Move(n, p)
  PROVE  SInv'
<1>1. TInv' /\ UNCHANGED <<plan, tx, written, rx, got>>
  BY MeshTyped DEF SInv, Lose, Move
<1>2. ShortPaths'
  <2>1. ASSUME NEW r \in Readers, NEW s \in Nodes, Lose(s, r) PROVE ShortPaths'
    <3>1. PICK p : p = <<s, r>>
      OBVIOUS
    <3>2. p \in Nodes \X Readers /\ path[p] # <<>> /\ path' = [path EXCEPT ![p] = Tail(@)]
      BY <2>1, <3>1 DEF Lose
    <3>3. QED BY <1>1, <3>2, ShortTaken
  <2>2. ASSUME NEW n \in Nodes, NEW p \in Nodes, Move(n, p) PROVE ShortPaths'
    BY <1>1, <2>2 DEF Move, SInv, ShortPaths, Short, WrittenParts
  <2>3. QED BY <2>1, <2>2
<1>3. ShortCalls' /\ ShortNodes' /\ ShortRoot'
  BY <1>1 DEF SInv, ShortCalls, ShortNodes, ShortRoot, Short, WrittenParts
<1>4. ShortPackets' /\ ShortGot'
  BY <1>1 DEF SInv, ShortPackets, ShortGot, WrittenParts
<1>5. QED BY <1>1, <1>2, <1>3, <1>4 DEF SInv

LEMMA ShortStart == Init /\ ShortPackets => SInv
<1> SUFFICES ASSUME Init, ShortPackets PROVE SInv
  OBVIOUS
<1>1. TInv /\ NoCall.pc = "idle" /\ Len(<<>>) = 0 /\ <<>> \in Seq(Seq(Part)) /\ Nodes \subseteq Tasks
      /\ Readers = Nodes \cup {DS}
  BY TypesStart DEF NoCall, Tasks, Readers
<1>2. ShortCalls /\ ShortPaths
  BY <1>1 DEF Init, ShortCalls, ShortPaths
<1>3. ShortNodes
  BY <1>1 DEF Init, ShortNodes
<1>4. ShortRoot
  BY <1>1 DEF Init, ShortRoot
<1>5. ShortGot
  BY <1>1 DEF Init, ShortGot
<1>6. QED BY <1>1, <1>2, <1>3, <1>4, <1>5 DEF SInv

LEMMA ShortStep == SInv /\ [Next]_vars => SInv'
<1> SUFFICES ASSUME SInv, [Next]_vars PROVE SInv'
  OBVIOUS
<1>1. CASE UNCHANGED vars
  <2>1. TInv'
    BY <1>1, TypesStep DEF SInv
  <2>2. QED BY <1>1, <2>1 DEF vars, SInv, ShortPackets, ShortCalls, ShortPaths, ShortNodes, ShortRoot,
                          ShortGot, Short, WrittenParts
<1>2. CASE \E w \in Writers :
             \/ WriteNode(w) \/ WriteGroup(w) \/ RootWriteEach(w) \/ RootWriteList(w)
             \/ WriteReturns(w)
  <2>1. ASSUME NEW w \in Writers, WriteReturns(w) PROVE SInv'
    BY <2>1, ShortSend DEF Tasks
  <2>2. QED BY <1>2, <2>1, ShortWrite
<1>3. CASE \E t \in Tasks : Calls(t)
  BY <1>3, ShortLoop, ShortSend DEF Calls
<1>4. CASE \E n, s \in Nodes, again \in BOOLEAN : NodeReads(n, s, again)
  BY <1>4, ShortNodeReads
<1>5. CASE \E s \in Nodes, again \in BOOLEAN : RootReads(s, again)
  BY <1>5, ShortRootReads
<1>6. CASE (\E n \in Nodes : ForwardReturns(n)) \/ (\E r \in Readers : Timeout(r) \/ NotStarted(r))
  BY <1>6, ShortReaderStops
<1>7. CASE (\E r \in Readers, s \in Nodes : Lose(s, r)) \/ (\E n, p \in Nodes : Move(n, p))
  BY <1>7, ShortMesh
<1>8. QED BY <1>1, <1>2, <1>3, <1>4, <1>5, <1>6, <1>7 DEF Next

(* A packet that fits one fragment is returned as it was written,          *)
(* whatever the mesh loses or repeats, whichever sends, queries and        *)
(* waiting times fail and however the nodes move, as long as               *)
(* mwifi_root_read() is not called while the mesh is not started: a node   *)
(* takes nothing else while it passes a packet on, and a fragment that it  *)
(* drops as a repeated one leaves nothing behind (__mwifi_read()).         *)
THEOREM ShortPacketsWhole == Spec => [](ShortPackets => Whole)
<1> DEFINE I == ShortPackets => SInv
<1>1. Init => I
  BY ShortStart
<1>2. I /\ [Next]_vars => I'
  BY ShortStep, PlanStays DEF ShortPackets
<1>3. I => (ShortPackets => Whole)
  <2> SUFFICES ASSUME SInv PROVE Whole
    OBVIOUS
  <2>1. TInv
    BY DEF SInv
  <2>2. ASSUME NEW r \in Readers, NEW k \in DOMAIN got[r]
        PROVE  \E m \in Written : got[r][k] = Parts(m[1], m[2])
    <3>1. got[r] \in Seq(Seq(Part))
      BY DEF SInv, ShortGot
    <3>2. k \in 1 .. Len(got[r]) /\ got[r][k] \in Seq(Part)
      BY <2>2, <3>1
    <3>3. Len(got[r][k]) = 1 /\ got[r][k][1] \in WrittenParts
      BY <3>2 DEF SInv, ShortGot
    <3>4. PICK s \in Seq(Part), z \in WrittenParts : s = got[r][k] /\ z = s[1]
      BY <3>2, <3>3
    <3>5. s = <<z>>
      BY <3>3, <3>4
    <3>6. PICK w \in Writers, i \in 1 .. MaxWrites : z = <<w, i, 1>>
      BY <3>4 DEF WrittenParts, Part
    <3>7. i <= written[w] /\ written[w] <= Len(plan.writes[w]) /\ written[w] \in Nat
      BY <2>1, <3>4, <3>6 DEF WrittenParts, TInv, PlanTyped
    <3>8. i \in 1 .. Len(plan.writes[w])
      BY <2>1, <3>7, WrittenPlanned
    <3>9. Parts(w, i) = <<z>>
      BY <2>1, <3>6, <3>8, ShortParts DEF SInv
    <3>10. <<w, i>> \in Written
      BY <3>7 DEF Written
    <3>11. got[r][k] = Parts(<<w, i>>[1], <<w, i>>[2])
      BY <3>4, <3>5, <3>9
    <3>12. QED BY <3>10, <3>11
  <2>3. QED BY <2>2 DEF Whole, Undisturbed
<1>4. QED BY <1>1, <1>2, <1>3, PTL DEF Spec

-----------------------------------------------------------------------------
(* Lists of nodes: the part of a short packet and each reader it is for    *)
(* are at one place at a time.                                             *)

ShortLists ==
  /\ ShortPackets /\ plan.limit["repeat"] = 0
  /\ \A w \in Writers : \A k \in DOMAIN plan.writes[w] :
       LET m == plan.writes[w][k]
       IN  m.kind # "group" /\ (m.kind = "list" => m.to \subseteq Nodes)

(* The readers that a call, a node that passes a packet on, and a fragment *)
(* still have to serve.                                                    *)
Going(c) ==
  c.list \cup (IF c.pc = "send" THEN c.to \cup (IF c.self THEN {c.dst} ELSE {}) ELSE {})
Kept(t) ==
  IF t \in Nodes /\ tx[t].pc # "idle" /\ rx[t].parts[1].self THEN {t} ELSE {}
Aimed(f, r) == f.to \cup (IF f.self THEN {r} ELSE {})

(* A token is a part and a reader it is for; x is one.                     *)
InHand(t, x) ==
  tx[t].pc # "idle" /\ x[1] = tx[t].data[1] /\ x[2] \in Going(tx[t]) \cup Kept(t)
OnTheWay(p, k, x) ==
  k <= Len(path[p]) /\ x[1] = path[p][k].part /\ x[2] \in Aimed(path[p][k], p[2])
Delivered(r, k, x) ==
  k <= Len(got[r]) /\ x[1] = got[r][k][1] /\ x[2] = r

Index == Nat \ {0}
CallPlaces == {"call"} \X Tasks
PathPlaces == {"path"} \X ((Nodes \X Readers) \X Index)
GotPlaces  == {"got"} \X (Readers \X Index)
Places == CallPlaces \cup PathPlaces \cup GotPlaces
Holds(q, x) ==
  \/ q[1] = "call" /\ InHand(q[2], x)
  \/ q[1] = "path" /\ OnTheWay(q[2][1], q[2][2], x)
  \/ q[1] = "got" /\ Delivered(q[2][1], q[2][2], x)

Pairs  == Part \X Readers
Tokens == {x \in Pairs : x[1] \in WrittenParts /\ x[2] \in For(x[1][1], x[1][2])}

Apart == \A x \in Pairs, q1, q2 \in Places : Holds(q1, x) /\ Holds(q2, x) => q1 = q2
Addressed == \A x \in Pairs, q \in Places : Holds(q, x) => x \in Tokens
Covered == Faults = 0 => \A x \in Tokens : \E q \in Places : Holds(q, x)

(* A call never has an address twice, and a node never its own.            *)
Sending(t, c) ==
  /\ c.back # "send" /\ (c.back # "kids" => c.to = {}) /\ (c.back = "idle" => c.list = {})
  /\ c.list \cap c.to = {} /\ c.dst \notin c.list /\ c.dst \notin c.to
  /\ c.dst = DS => c.to = {}
  /\ t \in Nodes => t \notin c.to /\ (c.self => c.dst # t)
Straight(t, c) ==
  /\ ~c.all /\ c.to \subseteq Nodes /\ c.list \subseteq Nodes
  /\ c.pc \in {"rest", "each"} => c.to = {}
  /\ c.pc = "send" => Sending(t, c)
  /\ t \in Nodes => t \notin c.list
CallsStraight == \A t \in Tasks : tx[t].pc # "idle" => Straight(t, tx[t])

Direct(f, r) ==
  ~f.all /\ ~f.again /\ f.to \subseteq Nodes /\ r \notin f.to /\ (r = DS => f.to = {})
PathsDirect ==
  \A p \in Nodes \X Readers : \A k \in 1 .. Len(path[p]) : Direct(path[p][k], p[2])
NothingFailed == Faults = 0 => \A t \in Tasks : tx[t].pc # "idle" => tx[t].ok

LInv ==
  /\ SInv /\ ShortLists /\ CallsStraight /\ PathsDirect /\ NothingFailed
  /\ Apart /\ Addressed /\ Covered

(* The places, by their kind.                                              *)
LEMMA PlaceKinds ==
  ASSUME NEW q \in Places
  PROVE  \/ \E t \in Tasks : q = <<"call", t>>
         \/ \E p \in Nodes \X Readers, k \in Index : q = <<"path", <<p, k>>>>
         \/ \E r \in Readers, k \in Index : q = <<"got", <<r, k>>>>
<1>1. CASE q \in CallPlaces
  BY <1>1 DEF CallPlaces
<1>2. CASE q \in PathPlaces
  BY <1>2 DEF PathPlaces
<1>3. CASE q \in GotPlaces
  BY <1>3 DEF GotPlaces
<1>4. QED BY <1>1, <1>2, <1>3 DEF Places

LEMMA CallPlace ==
  ASSUME NEW t \in Tasks
  PROVE  /\ <<"call", t>> \in Places
         /\ \A x : Holds(<<"call", t>>, x) <=> InHand(t, x)
         /\ \A x : Holds(<<"call", t>>, x)' <=> InHand(t, x)'
<1>1. PICK q : q = <<"call", t>>
  OBVIOUS
<1>2. q[1] = "call" /\ q[2] = t /\ q \in Places
  BY <1>1 DEF Places, CallPlaces
<1>3. (\A x : Holds(q, x) <=> InHand(t, x)) /\ (\A x : Holds(q, x)' <=> InHand(t, x)')
  BY <1>2 DEF Holds
<1>4. QED BY <1>1, <1>2, <1>3

LEMMA PathPlace ==
  ASSUME NEW p \in Nodes \X Readers, NEW k \in Index
  PROVE  /\ <<"path", <<p, k>>>> \in Places
         /\ \A x : Holds(<<"path", <<p, k>>>>, x) <=> OnTheWay(p, k, x)
         /\ \A x : Holds(<<"path", <<p, k>>>>, x)' <=> OnTheWay(p, k, x)'
<1>1. PICK q : q = <<"path", <<p, k>>>>
  OBVIOUS
<1>2. q[1] = "path" /\ q[2] = <<p, k>> /\ q[2][1] = p /\ q[2][2] = k /\ q \in Places
  BY <1>1 DEF Places, PathPlaces
<1>3. (\A x : Holds(q, x) <=> OnTheWay(p, k, x)) /\ (\A x : Holds(q, x)' <=> OnTheWay(p, k, x)')
  BY <1>2 DEF Holds
<1>4. QED BY <1>1, <1>2, <1>3

LEMMA GotPlace ==
  ASSUME NEW r \in Readers, NEW k \in Index
  PROVE  /\ <<"got", <<r, k>>>> \in Places
         /\ \A x : Holds(<<"got", <<r, k>>>>, x) <=> Delivered(r, k, x)
         /\ \A x : Holds(<<"got", <<r, k>>>>, x)' <=> Delivered(r, k, x)'
<1>1. PICK q : q = <<"got", <<r, k>>>>
  OBVIOUS
<1>2. q[1] = "got" /\ q[2][1] = r /\ q[2][2] = k /\ q \in Places
  BY <1>1 DEF Places, GotPlaces
<1>3. (\A x : Holds(q, x) <=> Delivered(r, k, x)) /\ (\A x : Holds(q, x)' <=> Delivered(r, k, x)')
  BY <1>2 DEF Holds
<1>4. QED BY <1>1, <1>2, <1>3

(* Every place takes what it holds from one place before, and two places   *)
(* never the same from the same.                                           *)
LEMMA Carried ==
  ASSUME Apart, Addressed, UNCHANGED <<plan, written>>, NEW Src \in [Places -> Places],
         \A x \in Pairs, q \in Places : Holds(q, x)' => Holds(Src[q], x),
         \A x \in Pairs, q1, q2 \in Places :
           Src[q1] = Src[q2] /\ Holds(q1, x)' /\ Holds(q2, x)' => q1 = q2
  PROVE  Apart' /\ Addressed' /\ Tokens' = Tokens
<1>1. Tokens' = Tokens
  BY DEF Tokens, WrittenParts, For
<1>2. Apart'
  <2>1. ASSUME NEW x \in Pairs, NEW q1 \in Places, NEW q2 \in Places, Holds(q1, x)', Holds(q2, x)'
        PROVE  q1 = q2
    <3>1. Holds(Src[q1], x) /\ Holds(Src[q2], x) /\ Src[q1] \in Places /\ Src[q2] \in Places
      BY <2>1
    <3>2. Src[q1] = Src[q2]
      BY <3>1 DEF Apart
    <3>3. QED BY <2>1, <3>2
  <2>2. QED BY <2>1 DEF Apart
<1>3. Addressed'
  <2>1. ASSUME NEW x \in Pairs, NEW q \in Places, Holds(q, x)' PROVE x \in Tokens
    <3>1. Holds(Src[q], x) /\ Src[q] \in Places
      BY <2>1
    <3>2. QED BY <3>1 DEF Addressed
  <2>2. QED BY <1>1, <2>1 DEF Addressed
<1>4. QED BY <1>1, <1>2, <1>3

(* Tokens go from one place to another, and perhaps some are lost.         *)
LEMMA HandedOver ==
  ASSUME Apart, Addressed, UNCHANGED <<plan, written>>, NEW from \in Places, NEW to \in Places,
         \A x \in Pairs, q \in Places : q # to /\ Holds(q, x)' => Holds(q, x),
         \A x \in Pairs : Holds(to, x)' => Holds(from, x),
         \A x \in Pairs : from # to => ~(Holds(from, x)' /\ Holds(to, x)')
  PROVE  Apart' /\ Addressed' /\ Tokens' = Tokens
<1>1. PICK Src : Src = [q \in Places |-> IF q = to THEN from ELSE q]
  OBVIOUS
<1>2. Src \in [Places -> Places] /\ \A q \in Places : Src[q] = IF q = to THEN from ELSE q
  BY <1>1
<1>3. \A x \in Pairs, q \in Places : Holds(q, x)' => Holds(Src[q], x)
  BY <1>2
<1>4. ASSUME NEW x \in Pairs, NEW q1 \in Places, NEW q2 \in Places,
             Src[q1] = Src[q2], Holds(q1, x)', Holds(q2, x)'
      PROVE  q1 = q2
  <2>1. CASE q1 = to /\ q2 # to
    BY <1>2, <1>4, <2>1
  <2>2. CASE q1 # to /\ q2 = to
    BY <1>2, <1>4, <2>2
  <2>3. CASE q1 # to /\ q2 # to
    BY <1>2, <1>4, <2>3
  <2>4. QED BY <2>1, <2>2, <2>3
<1>5. QED BY <1>2, <1>3, <1>4, Carried

(* What a call, a path or a reader that stays holds is the same.           *)
LEMMA CallStays ==
  ASSUME NEW u \in Tasks, tx'[u] = tx[u], u \in Nodes /\ tx[u].pc # "idle" => rx'[u] = rx[u], NEW x
  PROVE  InHand(u, x)' <=> InHand(u, x)
  BY DEF InHand, Kept
LEMMA PathStays ==
  ASSUME NEW p, path'[p] = path[p], NEW k, NEW x
  PROVE  OnTheWay(p, k, x)' <=> OnTheWay(p, k, x)
  BY DEF OnTheWay
LEMMA GotStays ==
  ASSUME NEW r, got'[r] = got[r], NEW k, NEW x
  PROVE  Delivered(r, k, x)' <=> Delivered(r, k, x)
  BY DEF Delivered

(* A step that leaves all places but one call's as they are.               *)
LEMMA OtherPlacesStay ==
  ASSUME NEW t \in Tasks, UNCHANGED <<path, got>>,
         \A u \in Tasks : u # t => tx'[u] = tx[u],
         \A u \in Nodes : u # t => rx'[u] = rx[u]
  PROVE  \A q \in Places : q # <<"call", t>> => \A x : Holds(q, x)' <=> Holds(q, x)
<1> SUFFICES ASSUME NEW q \in Places, q # <<"call", t>> PROVE \A x : Holds(q, x)' <=> Holds(q, x)
  OBVIOUS
<1>1. CASE \E u \in Tasks : q = <<"call", u>>
  <2>1. PICK u \in Tasks : q = <<"call", u>>
    BY <1>1
  <2>2. u # t
    BY <2>1
  <2>3. \A x : InHand(u, x)' <=> InHand(u, x)
    BY <2>2, CallStays
  <2>4. QED BY <2>1, <2>3, CallPlace
<1>2. CASE \E p \in Nodes \X Readers, k \in Index : q = <<"path", <<p, k>>>>
  <2>1. PICK p \in Nodes \X Readers, k \in Index : q = <<"path", <<p, k>>>>
    BY <1>2
  <2>2. QED BY <2>1, PathPlace, PathStays
<1>3. CASE \E r \in Readers, k \in Index : q = <<"got", <<r, k>>>>
  <2>1. PICK r \in Readers, k \in Index : q = <<"got", <<r, k>>>>
    BY <1>3
  <2>2. QED BY <2>1, GotPlace, GotStays
<1>4. QED BY <1>1, <1>2, <1>3, PlaceKinds

(* A step that only takes something from one call.                         *)
LEMMA CallLets ==
  ASSUME Apart, Addressed, UNCHANGED <<plan, written, path, got>>, NEW t \in Tasks,
         \A u \in Tasks : u # t => tx'[u] = tx[u],
         \A u \in Nodes : u # t => rx'[u] = rx[u],
         \A x \in Pairs : InHand(t, x)' => InHand(t, x)
  PROVE  /\ Apart' /\ Addressed' /\ Tokens' = Tokens
         /\ /\ Covered
            /\ (Faults = 0)' => Faults = 0 /\ \A x \in Pairs : InHand(t, x) => InHand(t, x)'
            => Covered'
<1>1. PICK from : from = <<"call", t>> /\ from \in Places
  BY CallPlace
<1>2. \A q \in Places : q # from => \A x : Holds(q, x)' <=> Holds(q, x)
  BY <1>1, OtherPlacesStay
<1>3. \A x \in Pairs : Holds(from, x)' => Holds(from, x)
  BY <1>1, CallPlace
<1>4. Apart' /\ Addressed' /\ Tokens' = Tokens
  <2>1. \A x \in Pairs, q \in Places : q # from /\ Holds(q, x)' => Holds(q, x)
    BY <1>2
  <2>2. QED BY <1>1, <1>3, <2>1, HandedOver
<1>5. ASSUME Covered, (Faults = 0)' => Faults = 0 /\ \A x \in Pairs : InHand(t, x) => InHand(t, x)'
      PROVE  Covered'
  <2> SUFFICES ASSUME (Faults = 0)' PROVE \A x \in Tokens' : \E q \in Places : Holds(q, x)'
    BY DEF Covered
  <2>1. ASSUME NEW x \in Tokens PROVE \E q \in Places : Holds(q, x)'
    <3>1. PICK q \in Places : Holds(q, x)
      BY <1>5 DEF Covered
    <3>2. x \in Pairs
      BY DEF Tokens
    <3>3. CASE q = from
      <4>1. InHand(t, x)
        BY <1>1, <3>1, <3>3, CallPlace
      <4>2. InHand(t, x)'
        BY <1>5, <3>2, <4>1
      <4>3. QED BY <1>1, <4>2, CallPlace
    <3>4. CASE q # from
      BY <1>2, <3>1, <3>4
    <3>5. QED BY <3>3, <3>4
  <2>2. QED BY <1>4, <2>1
<1>6. QED BY <1>4, <1>5

LEMMA FaultsCounted ==
  ASSUME TInv
  PROVE  /\ UNCHANGED used => Faults' = Faults
         /\ \A e \in Events : e # "move" /\ Happens(e) => (Faults # 0)'
         /\ Happens("move") => Faults' = Faults
<1>1. UNCHANGED used => Faults' = Faults
  BY DEF Faults
<1>2. ASSUME NEW e \in Events, e # "move", Happens(e) PROVE (Faults # 0)'
  <2>1. PlanTyped
    BY DEF TInv
  <2>2. used' \in [Events -> Nat] /\ used'[e] = used[e] + 1 /\ used[e] \in Nat
    BY <1>2, <2>1, HappensTyped DEF PlanTyped
  <2>3. used'[e] # 0
    <3>1. PICK a : a = used[e]
      OBVIOUS
    <3>2. a \in Nat => a + 1 # 0
      OBVIOUS
    <3>3. QED BY <2>2, <3>1, <3>2
  <2>4. PICK u : u = used'
    OBVIOUS
  <2>5. /\ u["loss"] \in Nat /\ u["repeat"] \in Nat /\ u["failure"] \in Nat /\ u["query"] \in Nat
        /\ u["timeout"] \in Nat /\ u["stop"] \in Nat /\ u["root_stop"] \in Nat
    BY <2>2, <2>4 DEF Events
  <2>6. e \in {"loss", "repeat", "failure", "query", "timeout", "stop", "root_stop"}
    BY <1>2 DEF Events
  <2>7. PICK n1, n2, n3, n4, n5, n6, n7 \in Nat :
          /\ n1 = u["loss"] /\ n2 = u["repeat"] /\ n3 = u["failure"] /\ n4 = u["query"]
          /\ n5 = u["timeout"] /\ n6 = u["stop"] /\ n7 = u["root_stop"]
    BY <2>5
  <2>8. n1 # 0 \/ n2 # 0 \/ n3 # 0 \/ n4 # 0 \/ n5 # 0 \/ n6 # 0 \/ n7 # 0
    BY <2>3, <2>4, <2>6, <2>7
  <2>9. n1 + n2 + n3 + n4 + n5 + n6 + n7 # 0
    BY <2>8
  <2>10. QED BY <2>4, <2>7, <2>9 DEF Faults
<1>3. ASSUME Happens("move") PROVE Faults' = Faults
  <2>1. PlanTyped /\ "move" \in Events
    BY DEF TInv, Events
  <2>2. \A o \in Events \ {"move"} : used'[o] = used[o]
    BY <1>3, <2>1, HappensTyped
  <2>3. /\ used'["loss"] = used["loss"] /\ used'["repeat"] = used["repeat"]
        /\ used'["failure"] = used["failure"] /\ used'["query"] = used["query"]
        /\ used'["timeout"] = used["timeout"] /\ used'["stop"] = used["stop"]
        /\ used'["root_stop"] = used["root_stop"]
    BY <2>2 DEF Events
  <2>4. QED BY <2>3 DEF Faults
<1>4. QED BY <1>1, <1>2, <1>3

(* No step changes what was planned.                                       *)
LEMMA ListsStay == ASSUME ShortLists, UNCHANGED plan PROVE ShortLists'
  BY DEF ShortLists, ShortPackets

(* A step within the loops of a call.                                      *)
LEMMA ListsLoop ==
  ASSUME LInv, NEW t \in Tasks,
         \/ NextChild(t) \/ ChildFails(t) \/ BelowUnknown(t)
         \/ ChildrenDone(t) \/ NextAddress(t)
  PROVE  LInv'
<1>1. SInv /\ TInv /\ SInv' /\ "query" \in Events /\ UNCHANGED <<plan, got>>
  BY ShortLoop
     DEF LInv, SInv, NextChild, ChildFails, BelowUnknown, ChildrenDone, NextAddress, InCall, Events
<1>2. PICK c : c = tx[t] /\ c \in Call
  BY <1>1 DEF TInv, CallsTyped
<1>3. c.pc \in {"kids", "rest", "each"} /\ Straight(t, c) /\ Going(c) = c.list
  <2>1. c.pc \in {"kids", "rest", "each"}
    BY <1>2 DEF NextChild, ChildFails, BelowUnknown, ChildrenDone, NextAddress, InCall
  <2>2. Straight(t, c)
    BY <1>2, <2>1 DEF LInv, CallsStraight
  <2>3. QED BY <2>1, <2>2 DEF Going
<1>4. PICK d : /\ Turned(t, d) /\ Straight(t, d) /\ Going(d) \subseteq c.list
               /\ (Faults = 0)' => Faults = 0 /\ (c.ok => d.ok) /\ Going(d) = c.list
  <2>1. CASE NextChild(t)
    <3>1. PICK k \in Nodes, d \in Call : Visits(t, k, d)
      BY <1>1, <2>1, ChildVisited
    <3>2. /\ Turned(t, d) /\ d.ok /\ Faults' = Faults /\ d.dst = k /\ d.back = "kids"
          /\ d.pc \in {"send", "kids"}
          /\ d.self = (k \in c.list) /\ d.to = Subnet(k) \cap c.list
          /\ d.list = c.list \ (d.to \cup {k}) /\ (d.pc = "kids" => ~d.self /\ d.to = {}) /\ ~d.all
      BY <1>1, <1>2, <1>3, <3>1, FaultsCounted DEF Visits, Straight
    <3>3. k \notin Subnet(k) /\ k # DS
      BY MwifiAssumption DEF Subnet
    <3>4. /\ d.to \subseteq c.list /\ d.list \subseteq c.list /\ c.list \subseteq Nodes
          /\ t \in Nodes => t \notin c.list
      BY <1>3, <3>2 DEF Straight
    <3>5. Sending(t, d)
      BY <3>2, <3>3, <3>4 DEF Sending
    <3>6. Straight(t, d)
      BY <3>2, <3>4, <3>5 DEF Straight
    <3>7. Going(d) = c.list
      <4>1. CASE d.pc = "send"
        BY <3>2, <3>3, <4>1 DEF Going
      <4>2. CASE d.pc = "kids"
        BY <3>2, <3>3, <4>2 DEF Going
      <4>3. QED BY <3>2, <4>1, <4>2
    <3>8. QED BY <3>2, <3>6, <3>7
  <2>2. CASE ChildFails(t)
    <3>1. PICK d \in Call : Fails(t, d)
      BY <1>1, <2>2, LoopTurns
    <3>2. /\ Turned(t, d) /\ d.pc = "kids" /\ d.list \subseteq c.list /\ ~d.all /\ d.to = c.to
          /\ (Faults # 0)'
      BY <1>1, <1>2, <1>3, <3>1, FaultsCounted DEF Fails, Straight
    <3>3. Straight(t, d) /\ Going(d) = d.list
      BY <1>3, <3>2 DEF Straight, Going
    <3>4. QED BY <3>2, <3>3
  <2>3. CASE ChildrenDone(t)
    <3>1. PICK d \in Call : RestFollows(t, d)
      BY <1>1, <2>3, LoopTurns
    <3>2. /\ Turned(t, d) /\ d.pc = "rest" /\ d.list = c.list /\ ~d.all /\ d.to = {} /\ d.ok = c.ok
          /\ Faults' = Faults
      BY <1>1, <1>2, <1>3, <3>1, FaultsCounted DEF RestFollows, Straight
    <3>3. Straight(t, d) /\ Going(d) = d.list
      BY <1>3, <3>2 DEF Straight, Going
    <3>4. QED BY <3>2, <3>3
  <2>4. CASE NextAddress(t)
    <3>1. PICK d \in Call : \E a : Addressing(t, a, d)
      BY <1>1, <2>4, LoopTurns
    <3>2. PICK a : Addressing(t, a, d)
      BY <3>1
    <3>3. /\ Turned(t, d) /\ d.pc = "send" /\ a \in c.list /\ d.list = c.list \ {a} /\ d.dst = a
          /\ d.self /\ d.to = {} /\ d.back \in {"rest", "each"} /\ ~d.all /\ d.ok = c.ok
          /\ Faults' = Faults
      BY <1>1, <1>2, <1>3, <3>2, FaultsCounted DEF Addressing, Straight
    <3>4. c.list \subseteq Nodes /\ (t \in Nodes => t \notin c.list)
      BY <1>3 DEF Straight
    <3>5. Sending(t, d)
      BY <3>3, <3>4 DEF Sending
    <3>6. Straight(t, d)
      BY <3>3, <3>4, <3>5 DEF Straight
    <3>7. Going(d) = c.list
      BY <3>3 DEF Going
    <3>8. QED BY <3>3, <3>6, <3>7
  <2>5. CASE BelowUnknown(t)
    <3>1. PICK k \in Nodes : \E d \in Call : Guesses(t, k, d)
      BY <1>1, <2>5, LoopTurns
    <3>2. PICK d \in Call : Guesses(t, k, d)
      BY <3>1
    <3>3. /\ Turned(t, d) /\ (Faults # 0)' /\ d.dst = k /\ d.back = "kids" /\ ~d.all /\ d.to = {}
          /\ d.self = (k \in c.list) /\ d.list = c.list \ {k}
          /\ d.pc = IF d.self THEN "send" ELSE "kids"
      BY <1>1, <1>2, <3>2, FaultsCounted DEF Guesses
    <3>4. c.list \subseteq Nodes /\ (t \in Nodes => t \notin c.list)
      BY <1>3 DEF Straight
    <3>5. d.pc = "send" => Sending(t, d)
      BY <3>3, <3>4 DEF Sending
    <3>6. Straight(t, d)
      BY <3>3, <3>4, <3>5 DEF Straight
    <3>7. Going(d) \subseteq c.list
      BY <3>3 DEF Going
    <3>8. QED BY <3>3, <3>6, <3>7
  <2>6. QED BY <2>1, <2>2, <2>3, <2>4, <2>5
<1>5. /\ tx' = [tx EXCEPT ![t] = d] /\ d.pc # "idle" /\ d.data = c.data
      /\ UNCHANGED <<plan, parent, written, rx, got, path>>
  BY <1>1, <1>2, <1>4 DEF Turned
<1>6. tx'[t] = d /\ \A u \in Tasks : u # t => tx'[u] = tx[u]
  BY <1>1, <1>5 DEF TInv, CallsTyped
<1>7. Kept(t)' = Kept(t)
  BY <1>2, <1>3, <1>5, <1>6 DEF Kept
<1>8. \A x \in Pairs : InHand(t, x)' => InHand(t, x)
  BY <1>2, <1>3, <1>4, <1>5, <1>6, <1>7 DEF InHand
<1>9. (Faults = 0)' => Faults = 0 /\ \A x \in Pairs : InHand(t, x) => InHand(t, x)'
  BY <1>2, <1>3, <1>4, <1>5, <1>6, <1>7 DEF InHand
<1>10. Apart' /\ Addressed' /\ Covered'
  BY <1>5, <1>6, <1>8, <1>9, CallLets DEF LInv
<1>11. CallsStraight'
  BY <1>4, <1>6 DEF LInv, CallsStraight, Straight, Sending
<1>12. PathsDirect'
  BY <1>5 DEF LInv, PathsDirect
<1>13. NothingFailed'
  BY <1>2, <1>3, <1>4, <1>6 DEF LInv, NothingFailed
<1>14. ShortLists'
  BY <1>1, ListsStay DEF LInv
<1>15. QED BY <1>1, <1>10, <1>11, <1>12, <1>13, <1>14 DEF LInv

(* What a call does after it sent to a child or an address.                *)
LEMMA SentStraight ==
  ASSUME TInv, NEW t \in Tasks, NEW c \in Call, c.pc = "send", Straight(t, c), NEW ok \in BOOLEAN,
         NEW d, d = Sent(c, ok)
  PROVE  /\ d.pc # "idle" =>
              /\ Straight(t, d) /\ Going(d) = d.list /\ d.list \subseteq c.list
              /\ d.data = c.data /\ c.back # "idle"
              /\ ok => d.list = c.list /\ d.ok
         /\ d.pc = "idle" => c.back = "idle" /\ c.list = {}
<1>1. CASE c.back = "idle"
  <2>1. d.pc = "idle"
    BY <1>1, SentKeeps DEF NoCall
  <2>2. c.list = {}
    BY <1>1 DEF Straight, Sending
  <2>3. QED BY <1>1, <2>1, <2>2
<1>2. CASE c.back # "idle"
  <2>1. /\ d.pc = c.back /\ d.data = c.data /\ d.to = c.to /\ d.all = c.all /\ d.ok = ok
        /\ d.list \subseteq c.list /\ (ok => d.list = c.list)
    BY <1>2, SentKeeps
  <2>2. d.pc # "send"
    BY <2>1 DEF Straight, Sending
  <2>3. Going(d) = d.list
    BY <2>2 DEF Going
  <2>4. /\ ~c.all /\ c.to \subseteq Nodes /\ c.list \subseteq Nodes /\ (t \in Nodes => t \notin c.list)
        /\ c.back # "kids" => c.to = {}
    BY DEF Straight, Sending
  <2>5. Straight(t, d)
    BY <2>1, <2>2, <2>4 DEF Straight
  <2>6. QED BY <1>2, <2>1, <2>3, <2>5
<1>3. QED BY <1>1, <1>2

LEMMA ListsSend ==
  ASSUME LInv, NEW t \in Tasks, SendFragment(t)
  PROVE  LInv'
<1>1. SInv /\ TInv /\ SInv' /\ Apart /\ Addressed /\ Covered
  BY ShortSend DEF LInv, SInv
<1>2. PICK c, f, p, d : ShortSends(t, c, f, p, d)
  BY <1>1, ShortSent
<1>3. /\ c = tx[t] /\ c \in Call /\ c.pc = "send" /\ f \in Fragment /\ f.part = c.data[1]
      /\ f.self = c.self /\ f.all = c.all /\ f.to = c.to /\ ~f.again
      /\ p = <<NodeOf(t), c.dst>> /\ p \in Nodes \X Readers /\ p[2] = c.dst
      /\ path' = [path EXCEPT ![p] = Append(@, f)]
      /\ tx' = [tx EXCEPT ![t] = d] /\ d = Sent(c, TRUE)
      /\ UNCHANGED <<plan, parent, written, rx, got, used>>
  BY <1>2 DEF ShortSends
<1>4. Straight(t, c) /\ TRUE \in BOOLEAN
  BY <1>3 DEF LInv, CallsStraight
<1>5. /\ d.pc # "idle" =>
           /\ Straight(t, d) /\ Going(d) = d.list /\ d.list = c.list /\ d.ok
           /\ d.data = c.data /\ c.back # "idle"
      /\ d.pc = "idle" => c.back = "idle" /\ c.list = {}
  <2>1. PICK ok \in BOOLEAN : ok = TRUE
    OBVIOUS
  <2>2. TInv /\ t \in Tasks /\ c \in Call /\ c.pc = "send" /\ Straight(t, c) /\ d = Sent(c, ok)
    BY <1>1, <1>3, <1>4, <2>1
  <2>3. /\ d.pc # "idle" =>
             /\ Straight(t, d) /\ Going(d) = d.list /\ d.list \subseteq c.list
             /\ d.data = c.data /\ c.back # "idle"
             /\ ok => d.list = c.list /\ d.ok
        /\ d.pc = "idle" => c.back = "idle" /\ c.list = {}
    BY ONLY <2>2, ok \in BOOLEAN, SentStraight
  <2>4. QED BY <2>1, <2>3
<1>6. tx'[t] = d /\ \A u \in Tasks : u # t => tx'[u] = tx[u]
  BY <1>1, <1>3 DEF TInv, CallsTyped
<1>7. /\ c.list \cap c.to = {} /\ c.dst \notin c.list /\ c.dst \notin c.to
      /\ c.dst = DS => c.to = {}
      /\ t \in Nodes => t \notin c.to /\ (c.self => c.dst # t)
      /\ ~c.all /\ c.to \subseteq Nodes
  BY <1>3, <1>4 DEF Straight, Sending
<1>8. Aimed(f, c.dst) = c.to \cup (IF c.self THEN {c.dst} ELSE {}) /\ Going(c) = c.list \cup Aimed(f, c.dst)
  BY <1>3 DEF Aimed, Going
<1>9. Kept(t) \cap Aimed(f, c.dst) = {}
  BY <1>7, <1>8 DEF Kept
<1>10. d.pc # "idle" => Kept(t)' = Kept(t)
  BY <1>3, <1>6 DEF Kept
<1>11. d.pc = "idle" => Kept(t) = {}
  <2>1. d.pc = "idle" => t \notin Nodes
    BY <1>1, <1>3, <1>5 DEF TInv, NodesForward
  <2>2. QED BY <2>1 DEF Kept
<1>12. PICK s \in Seq(Fragment) : s = path[p]
  BY <1>1, <1>3 DEF TInv, PathsTyped
<1>13. PICK l : l = Len(s) + 1
  OBVIOUS
<1>14. /\ l \in Index /\ path'[p] = Append(s, f) /\ Len(Append(s, f)) = l /\ Append(s, f)[l] = f
       /\ \A k \in Index : k # l => (k <= l <=> k <= Len(s)) /\ (k <= Len(s) => Append(s, f)[k] = s[k])
  <2>1. path'[p] = Append(s, f)
    BY <1>1, <1>3, <1>12 DEF TInv, PathsTyped
  <2>2. l \in Index /\ Len(Append(s, f)) = l /\ Append(s, f)[l] = f
    BY <1>3, <1>12, <1>13 DEF Index
  <2>3. ASSUME NEW k \in Index, k # l
        PROVE  (k <= l <=> k <= Len(s)) /\ (k <= Len(s) => Append(s, f)[k] = s[k])
    BY <1>3, <1>12, <1>13, <2>3 DEF Index
  <2>4. QED BY <2>1, <2>2, <2>3
<1>15. PICK from, to : from = <<"call", t>> /\ to = <<"path", <<p, l>>>>
  OBVIOUS
<1>16. from \in Places /\ to \in Places /\ from # to
  BY <1>3, <1>14, <1>15, CallPlace, PathPlace
<1>17. \A x : OnTheWay(p, l, x)' <=> x[1] = c.data[1] /\ x[2] \in Aimed(f, c.dst)
  <2>1. l <= l
    BY <1>14 DEF Index
  <2>2. QED BY <1>3, <1>14, <2>1 DEF OnTheWay, Aimed
<1>18. \A x : InHand(t, x) <=> x[1] = c.data[1] /\ x[2] \in c.list \cup Aimed(f, c.dst) \cup Kept(t)
  BY <1>3, <1>8 DEF InHand
<1>19. \A x : InHand(t, x)' <=> d.pc # "idle" /\ x[1] = c.data[1] /\ x[2] \in c.list \cup Kept(t)
  BY <1>5, <1>6, <1>10 DEF InHand
<1>20. ASSUME NEW q \in Places, q # from, q # to PROVE \A x : Holds(q, x)' <=> Holds(q, x)
  <2>1. CASE \E u \in Tasks : q = <<"call", u>>
    <3>1. PICK u \in Tasks : q = <<"call", u>>
      BY <2>1
    <3>2. \A x : InHand(u, x)' <=> InHand(u, x)
      BY <1>3, <1>6, <1>15, <1>20, <3>1, CallStays
    <3>3. QED BY <3>1, <3>2, CallPlace
  <2>2. CASE \E o \in Nodes \X Readers, k \in Index : q = <<"path", <<o, k>>>>
    <3>1. PICK o \in Nodes \X Readers, k \in Index : q = <<"path", <<o, k>>>>
      BY <2>2
    <3>2. \A x : OnTheWay(o, k, x)' <=> OnTheWay(o, k, x)
      <4>1. CASE o # p
        BY <1>1, <1>3, <4>1, PathStays DEF TInv, PathsTyped
      <4>2. CASE o = p
        <5>1. k # l
          BY <1>15, <1>20, <3>1, <4>2
        <5>2. (k <= l <=> k <= Len(s)) /\ (k <= Len(s) => Append(s, f)[k] = s[k])
          BY <1>14, <5>1
        <5>3. k <= Len(path'[p]) <=> k <= Len(path[p])
          BY <1>12, <1>14, <5>2
        <5>4. k <= Len(path[p]) => path'[p][k] = path[p][k]
          BY <1>12, <1>14, <5>2
        <5>5. QED BY <4>2, <5>3, <5>4 DEF OnTheWay
      <4>3. QED BY <4>1, <4>2
    <3>3. QED BY <3>1, <3>2, PathPlace
  <2>3. CASE \E r \in Readers, k \in Index : q = <<"got", <<r, k>>>>
    <3>1. PICK r \in Readers, k \in Index : q = <<"got", <<r, k>>>>
      BY <2>3
    <3>2. QED BY <1>3, <3>1, GotPlace, GotStays
  <2>4. QED BY <2>1, <2>2, <2>3, PlaceKinds
<1>21. \A x : /\ Holds(from, x) <=> InHand(t, x)
              /\ Holds(from, x)' <=> InHand(t, x)'
              /\ Holds(to, x)' <=> OnTheWay(p, l, x)'
  <2>1. \A x : Holds(from, x) <=> InHand(t, x)
    BY <1>15, CallPlace
  <2>2. \A x : Holds(from, x)' <=> InHand(t, x)'
    BY <1>15, CallPlace
  <2>3. \A x : Holds(to, x)' <=> OnTheWay(p, l, x)'
    BY <1>3, <1>14, <1>15, PathPlace
  <2>4. QED BY <2>1, <2>2, <2>3
<1>22. \A x : ~Holds(to, x)
  <2>1. ~(l <= Len(path[p]))
    BY <1>12, <1>13
  <2>2. \A x : ~OnTheWay(p, l, x)
    BY <2>1 DEF OnTheWay
  <2>3. QED BY <1>3, <1>14, <1>15, <2>2, PathPlace
<1>23. Apart' /\ Addressed' /\ Tokens' = Tokens
  <2>1. ASSUME NEW x \in Pairs, NEW q \in Places, q # to, Holds(q, x)' PROVE Holds(q, x)
    <3>1. CASE q = from
      <4>1. InHand(t, x)'
        BY <1>21, <2>1, <3>1
      <4>2. InHand(t, x)
        BY <1>18, <1>19, <4>1
      <4>3. QED BY <1>21, <3>1, <4>2
    <3>2. CASE q # from
      BY <1>20, <2>1, <3>2
    <3>3. QED BY <3>1, <3>2
  <2>2. ASSUME NEW x \in Pairs, Holds(to, x)' PROVE Holds(from, x)
    <3>1. OnTheWay(p, l, x)'
      BY <1>21, <2>2
    <3>2. InHand(t, x)
      BY <1>17, <1>18, <3>1
    <3>3. QED BY <1>21, <3>2
  <2>3. ASSUME NEW x \in Pairs, Holds(from, x)', Holds(to, x)' PROVE FALSE
    <3>1. OnTheWay(p, l, x)' /\ InHand(t, x)'
      BY <1>21, <2>3
    <3>2. x[2] \in Aimed(f, c.dst) /\ x[2] \in c.list \cup Kept(t)
      BY <1>17, <1>19, <3>1
    <3>3. c.list \cap Aimed(f, c.dst) = {}
      BY <1>7, <1>8
    <3>4. QED BY <1>9, <3>2, <3>3
  <2>4. QED BY <1>1, <1>3, <1>16, <2>1, <2>2, <2>3, HandedOver
<1>24. Covered'
  <2>1. SUFFICES ASSUME Faults = 0 PROVE \A x \in Tokens : \E q \in Places : Holds(q, x)'
    BY <1>1, <1>3, <1>23, FaultsCounted DEF Covered
  <2>2. ASSUME NEW x \in Tokens PROVE \E q \in Places : Holds(q, x)'
    <3>1. PICK q \in Places : Holds(q, x)
      BY <1>1, <2>1 DEF Covered
    <3>2. CASE q # from
      BY <1>20, <1>22, <3>1, <3>2
    <3>3. CASE q = from
      <4>1. InHand(t, x)
        BY <1>21, <3>1, <3>3
      <4>2. x[1] = c.data[1] /\ x[2] \in c.list \cup Aimed(f, c.dst) \cup Kept(t)
        BY <1>18, <4>1
      <4>3. CASE x[2] \in Aimed(f, c.dst)
        <5>1. OnTheWay(p, l, x)'
          BY <1>17, <4>2, <4>3
        <5>2. QED BY <1>16, <1>21, <5>1
      <4>4. CASE x[2] \in c.list \cup Kept(t)
        <5>1. d.pc # "idle"
          BY <1>5, <1>11, <4>4
        <5>2. InHand(t, x)'
          BY <1>19, <4>2, <4>4, <5>1
        <5>3. QED BY <1>16, <1>21, <5>2
      <4>5. QED BY <4>2, <4>3, <4>4
    <3>4. QED BY <3>2, <3>3
  <2>3. QED BY <2>2
<1>25. CallsStraight'
  BY <1>5, <1>6 DEF LInv, CallsStraight, Straight, Sending
<1>26. PathsDirect'
  <2>1. Direct(f, p[2])
    BY <1>3, <1>7 DEF Direct
  <2>2. ASSUME NEW o \in Nodes \X Readers, NEW k \in 1 .. Len(path'[o]) PROVE Direct(path'[o][k], o[2])
    <3>1. CASE o # p
      <4>1. path'[o] = path[o]
        BY <1>1, <1>3, <3>1 DEF TInv, PathsTyped
      <4>2. QED BY <2>2, <4>1 DEF LInv, PathsDirect
    <3>2. CASE o = p
      <4>1. (k \in 1 .. Len(path[p]) /\ path'[p][k] = path[p][k]) \/ path'[p][k] = f
        BY <1>3, <1>12, <1>14, <2>2, <3>2
      <4>2. QED BY <2>1, <3>2, <4>1 DEF LInv, PathsDirect
    <3>3. QED BY <3>1, <3>2
  <2>3. QED BY <2>2 DEF PathsDirect, Direct
<1>27. NothingFailed'
  <2>1. Faults' = Faults
    BY <1>1, <1>3, FaultsCounted
  <2>2. QED BY <1>5, <1>6, <2>1 DEF LInv, NothingFailed
<1>28. ShortLists'
  BY <1>3, ListsStay DEF LInv
<1>29. QED BY <1>1, <1>23, <1>24, <1>25, <1>26, <1>27, <1>28 DEF LInv

(* A send fails, or a write returns: addresses are at most dropped.        *)
LEMMA ListsSendFails ==
  ASSUME LInv, NEW t \in Tasks, SendFails(t)
  PROVE  LInv'
<1>1. SInv /\ TInv /\ SInv' /\ Apart /\ Addressed /\ Covered /\ "failure" \in Events
  BY ShortSend DEF LInv, SInv, Events
<1>2. PICK c, d : c = tx[t] /\ d = Sent(c, FALSE)
  OBVIOUS
<1>3. /\ c.pc = "send" /\ c \in Call /\ tx' = [tx EXCEPT ![t] = d] /\ Happens("failure")
      /\ UNCHANGED <<plan, parent, written, rx, got, path>>
  BY <1>1, <1>2 DEF SendFails, InCall, TInv, CallsTyped
<1>4. PICK ok \in BOOLEAN : ok = FALSE
  OBVIOUS
<1>5. TInv /\ t \in Tasks /\ c \in Call /\ c.pc = "send" /\ Straight(t, c) /\ d = Sent(c, ok)
  BY <1>1, <1>2, <1>3, <1>4 DEF LInv, CallsStraight
<1>6. d.pc # "idle" => /\ Straight(t, d) /\ Going(d) = d.list /\ d.list \subseteq c.list
                       /\ d.data = c.data
  <2>1. d.pc # "idle" =>
          /\ Straight(t, d) /\ Going(d) = d.list /\ d.list \subseteq c.list
          /\ d.data = c.data /\ c.back # "idle"
          /\ ok => d.list = c.list /\ d.ok
    BY ONLY <1>5, ok \in BOOLEAN, SentStraight
  <2>2. QED BY <2>1
<1>7. tx'[t] = d /\ \A u \in Tasks : u # t => tx'[u] = tx[u]
  BY <1>1, <1>3 DEF TInv, CallsTyped
<1>8. \A x \in Pairs : InHand(t, x)' => InHand(t, x)
  <2>1. c.list \subseteq Going(c)
    BY DEF Going
  <2>2. d.pc # "idle" => Kept(t)' = Kept(t)
    BY <1>2, <1>3, <1>7 DEF Kept
  <2>3. ASSUME NEW x \in Pairs, InHand(t, x)' PROVE InHand(t, x)
    <3>1. d.pc # "idle" /\ x[1] = d.data[1] /\ x[2] \in Going(d) \cup Kept(t)'
      BY <1>7, <2>3 DEF InHand
    <3>2. x[1] = c.data[1] /\ x[2] \in Going(c) \cup Kept(t)
      BY <1>6, <2>1, <2>2, <3>1
    <3>3. QED BY <1>2, <1>3, <3>2 DEF InHand
  <2>4. QED BY <2>3
<1>9. (Faults # 0)'
  BY <1>1, <1>3, FaultsCounted
<1>10. Apart' /\ Addressed' /\ Covered'
  BY <1>1, <1>3, <1>7, <1>8, <1>9, CallLets
<1>11. CallsStraight'
  BY <1>6, <1>7 DEF LInv, CallsStraight, Straight, Sending
<1>12. PathsDirect' /\ NothingFailed'
  BY <1>3, <1>9 DEF LInv, PathsDirect, NothingFailed
<1>13. ShortLists'
  BY <1>3, ListsStay DEF LInv
<1>14. QED BY <1>1, <1>10, <1>11, <1>12, <1>13 DEF LInv

LEMMA ListsWriteReturns ==
  ASSUME LInv, NEW w \in Writers, WriteReturns(w)
  PROVE  LInv'
<1>1. w \in Tasks /\ w \notin Nodes
  BY MwifiAssumption DEF Tasks
<1>2. SInv /\ TInv /\ SInv' /\ Apart /\ Addressed /\ Covered
  BY <1>1, ShortSend DEF LInv, SInv
<1>3. /\ tx[w].pc \in {"rest", "each"} /\ tx[w].list = {} /\ tx' = [tx EXCEPT ![w] = NoCall]
      /\ UNCHANGED <<plan, used, parent, path, written, rx, got>>
  BY DEF WriteReturns, Ended
<1>4. tx'[w] = NoCall /\ NoCall.pc = "idle" /\ \A u \in Tasks : u # w => tx'[u] = tx[u]
  BY <1>1, <1>2, <1>3 DEF TInv, CallsTyped, NoCall
<1>5. \A x : ~InHand(w, x) /\ ~InHand(w, x)'
  <2>1. Going(tx[w]) = {} /\ Kept(w) = {}
    BY <1>1, <1>3 DEF Going, Kept
  <2>2. \A x : ~InHand(w, x)
    BY <2>1 DEF InHand
  <2>3. \A x : ~InHand(w, x)'
    BY <1>4 DEF InHand
  <2>4. QED BY <2>2, <2>3
<1>6. Faults' = Faults
  BY <1>2, <1>3, FaultsCounted
<1>7. Apart' /\ Addressed' /\ Covered'
  BY <1>1, <1>2, <1>3, <1>4, <1>5, <1>6, CallLets
<1>8. CallsStraight'
  BY <1>4 DEF LInv, CallsStraight, Straight, Sending
<1>9. PathsDirect' /\ NothingFailed'
  BY <1>3, <1>4, <1>6 DEF LInv, PathsDirect, NothingFailed
<1>10. ShortLists'
  BY <1>3, ListsStay DEF LInv
<1>11. QED BY <1>2, <1>7, <1>8, <1>9, <1>10 DEF LInv

(* What a writer begins, as a list of readers.                             *)
LEMMA BegunStraight ==
  ASSUME TInv, ShortLists, NEW w \in Writers,
         WriteNode(w) \/ WriteGroup(w) \/ RootWriteEach(w) \/ RootWriteList(w)
  PROVE  \E d : /\ tx' = [tx EXCEPT ![w] = d] /\ d.pc # "idle" /\ d.ok /\ Straight(w, d)
                /\ Going(d) = For(w, written[w] + 1)
<1>1. written[w] < Len(plan.writes[w])
  BY DEF WriteNode, WriteGroup, RootWriteEach, RootWriteList, Begin
<1>2. PICK i : i = written[w] + 1
  OBVIOUS
<1>3. PICK m, c : m = Upcoming(w) /\ c = NewCall(w)
  OBVIOUS
<1>4. /\ c \in CallRecord /\ Len(c.data) \in 1 .. 8 /\ c.seq = 0 /\ ~c.all /\ c.list = {}
      /\ c.back = "idle" /\ c.self /\ c.to = {} /\ m \in Packet /\ i \in 1 .. Len(plan.writes[w])
  BY <1>1, <1>2, <1>3, NewCallTyped
<1>5. c.ok
  BY <1>3 DEF NewCall, NoCall
<1>6. m = plan.writes[w][i]
  BY <1>2, <1>3 DEF Upcoming
<1>7. m.kind # "group" /\ (m.kind = "list" => m.to \subseteq Nodes)
  <2>1. plan.writes[w] \in Seq(Packet)
    BY MwifiAssumption DEF TInv, PlanTyped
  <2>2. i \in DOMAIN plan.writes[w]
    BY <1>4, <2>1
  <2>3. QED BY <1>6, <2>2 DEF ShortLists
<1>8. Everyone \notin Readers /\ Others \notin Readers /\ w \notin Nodes /\ DS \notin Nodes
  BY MwifiAssumption
<1>9. CASE WriteNode(w)
  <2>1. PICK d : d = [c EXCEPT !.pc = "send", !.dst = m.to]
    OBVIOUS
  <2>2. tx' = [tx EXCEPT ![w] = d] /\ m.kind = "node"
    BY <1>3, <1>9, <2>1 DEF WriteNode, Begin
  <2>3. m.to \in Readers
    BY <1>4, <2>2 DEF Packet
  <2>4. /\ d.pc = "send" /\ d.dst = m.to /\ d.self /\ d.list = {} /\ d.to = {} /\ ~d.all
        /\ d.back = "idle" /\ d.ok
    BY <1>4, <1>5, <2>1 DEF CallRecord
  <2>5. Straight(w, d)
    BY <1>8, <2>4 DEF Straight, Sending
  <2>6. Going(d) = {m.to}
    BY <2>4 DEF Going
  <2>7. For(w, i) = {m.to}
    BY <1>6, <1>8, <2>2, <2>3 DEF For
  <2>8. QED BY <1>2, <2>2, <2>4, <2>5, <2>6, <2>7
<1>10. CASE WriteGroup(w)
  BY <1>3, <1>7, <1>10 DEF WriteGroup, Begin
<1>11. CASE RootWriteEach(w)
  <2>1. PICK d, l : d = [c EXCEPT !.pc = "each", !.list = l] /\ l = Addresses(m.to)
    OBVIOUS
  <2>2. tx' = [tx EXCEPT ![w] = d] /\ m.kind = "each"
    BY <1>3, <1>11, <2>1 DEF RootWriteEach, Begin
  <2>3. l \subseteq Nodes
    BY <1>4, <2>1, <2>2 DEF Packet, Addresses
  <2>4. d.pc = "each" /\ d.list = l /\ d.to = {} /\ ~d.all /\ d.ok
    BY <1>4, <1>5, <2>1 DEF CallRecord
  <2>5. Straight(w, d)
    BY <1>8, <2>3, <2>4 DEF Straight
  <2>6. Going(d) = l
    BY <2>4 DEF Going
  <2>7. For(w, i) = l
    BY <1>6, <2>1, <2>2 DEF For, Addresses
  <2>8. QED BY <1>2, <2>2, <2>4, <2>5, <2>6, <2>7
<1>12. CASE RootWriteList(w)
  <2>1. PICK d, l : d = Transmit(c, Home[w], l) /\ l = m.to
    OBVIOUS
  <2>2. tx' = [tx EXCEPT ![w] = d] /\ m.kind = "list"
    BY <1>3, <1>12, <2>1 DEF RootWriteList, Begin
  <2>3. l \subseteq Nodes /\ l \in SUBSET Address
    BY <1>7, <2>1, <2>2 DEF Address
  <2>4. d.pc = "kids" /\ d.list = l /\ ~d.all
    BY <1>4, <2>1, <2>3, TransmitTyped
  <2>5. d.to = {} /\ d.ok
    BY <1>4, <1>5, <2>1 DEF Transmit, CallRecord
  <2>6. Straight(w, d)
    BY <1>8, <2>3, <2>4, <2>5 DEF Straight
  <2>7. Going(d) = l
    BY <2>4 DEF Going
  <2>8. l # {Everyone} /\ l # {Others}
    BY <1>8, <2>3 DEF Readers
  <2>9. For(w, i) = l
    BY <1>6, <2>1, <2>2, <2>8 DEF For
  <2>10. QED BY <1>2, <2>2, <2>4, <2>5, <2>6, <2>7, <2>9
<1>13. QED BY <1>9, <1>10, <1>11, <1>12

(* The tokens of a new packet are new: the packets before it have smaller  *)
(* numbers.                                                                *)
LEMMA ListsWrite ==
  ASSUME LInv, NEW w \in Writers,
         WriteNode(w) \/ WriteGroup(w) \/ RootWriteEach(w) \/ RootWriteList(w)
  PROVE  LInv'
<1>1. SInv /\ TInv /\ SInv' /\ ShortLists /\ Apart /\ Addressed /\ Covered /\ w \in Tasks /\ w \notin Nodes
  BY ShortWrite, MwifiAssumption DEF LInv, SInv, Tasks
<1>2. /\ UNCHANGED <<plan, used, parent, path, rx, got>> /\ tx[w].pc = "idle"
      /\ written' = [written EXCEPT ![w] = @ + 1]
  BY DEF WriteNode, WriteGroup, RootWriteEach, RootWriteList, Begin
<1>3. PICK i, z : i = written[w] + 1 /\ z = <<w, i, 1>> /\ tx'[w].data = <<z>> /\ z \in WrittenParts'
  BY <1>1, ShortWrite
<1>4. PICK d : /\ tx' = [tx EXCEPT ![w] = d] /\ d.pc # "idle" /\ d.ok /\ Straight(w, d)
               /\ Going(d) = For(w, i)
  BY <1>1, <1>3, BegunStraight
<1>5. tx'[w] = d /\ \A u \in Tasks : u # w => tx'[u] = tx[u]
  BY <1>1, <1>4 DEF TInv, CallsTyped
<1>6. written \in [Writers -> Nat] /\ i \in Nat /\ ~(i <= written[w])
  <2>1. written \in [Writers -> Nat]
    BY <1>1 DEF TInv, PlanTyped
  <2>2. QED BY <1>3, <2>1
<1>7. z \notin WrittenParts
  <2>1. z[1] = w /\ z[2] = i
    BY <1>3
  <2>2. QED BY <1>6, <2>1 DEF WrittenParts
<1>8. WrittenParts' = WrittenParts \cup {z}
  <2>1. written' = [written EXCEPT ![w] = i]
    BY <1>2, <1>3
  <2>2. ASSUME NEW y \in WrittenParts PROVE y \in WrittenParts'
    <3>1. y \in Part /\ y[3] = 1 /\ y[1] \in Writers /\ y[2] \in Int /\ y[2] <= written[y[1]]
      BY MwifiAssumption DEF WrittenParts, Part
    <3>2. y[2] <= written'[y[1]]
      <4>1. CASE y[1] = w
        <5>1. PICK a, b : a = y[2] /\ b = written[w]
          OBVIOUS
        <5>2. a \in Int /\ b \in Nat /\ a <= b /\ i = b + 1
          BY <1>3, <1>6, <3>1, <4>1, <5>1
        <5>3. a <= i
          BY <5>2
        <5>4. written'[y[1]] = i
          BY <1>6, <2>1, <4>1
        <5>5. QED BY <5>1, <5>3, <5>4
      <4>2. CASE y[1] # w
        BY <1>6, <2>1, <3>1, <4>2
      <4>3. QED BY <4>1, <4>2
    <3>3. QED BY <3>1, <3>2 DEF WrittenParts
  <2>3. ASSUME NEW y \in WrittenParts', y \notin WrittenParts PROVE y = z
    <3>1. y \in Part /\ y[3] = 1 /\ y[1] \in Writers /\ y[2] \in Int /\ y[2] <= written'[y[1]]
          /\ ~(y[2] <= written[y[1]])
      BY <2>3, MwifiAssumption DEF WrittenParts, Part
    <3>2. y[1] = w
      BY <1>6, <2>1, <3>1
    <3>3. y[2] = i
      <4>1. PICK a, b : a = y[2] /\ b = written[w]
        OBVIOUS
      <4>2. a \in Int /\ b \in Nat /\ ~(a <= b) /\ i = b + 1 /\ a <= i
        BY <1>3, <1>6, <2>1, <3>1, <3>2, <4>1
      <4>3. a = i
        BY <4>2
      <4>4. QED BY <4>1, <4>3
    <3>4. PICK a \in Writers, b \in 1 .. MaxWrites, k \in 1 .. 8 : y = <<a, b, k>>
      BY <3>1 DEF Part
    <3>5. QED BY <1>3, <3>1, <3>2, <3>3, <3>4
  <2>4. QED BY <1>3, <2>2, <2>3
<1>9. Tokens \subseteq Tokens' /\ \A x \in Tokens' : x \in Tokens \/ x[1] = z
  <2>1. \A a, b : For(a, b)' = For(a, b)
    BY <1>2 DEF For
  <2>2. QED BY <1>8, <2>1 DEF Tokens
<1>10. PICK from : from = <<"call", w>> /\ from \in Places
  BY <1>1, CallPlace
<1>11. \A q \in Places : q # from => \A x : Holds(q, x)' <=> Holds(q, x)
  BY <1>1, <1>2, <1>5, <1>10, OtherPlacesStay
<1>12. \A x : Holds(from, x)' <=> x[1] = z /\ x[2] \in For(w, i)
  <2>1. Kept(w)' = {}
    BY <1>1 DEF Kept
  <2>2. <<z>>[1] = z
    OBVIOUS
  <2>3. \A x : InHand(w, x)' <=> x[1] = z /\ x[2] \in For(w, i)
    BY <1>3, <1>4, <1>5, <2>1, <2>2 DEF InHand
  <2>4. QED BY <1>1, <1>10, <2>3, CallPlace
<1>13. \A x : ~Holds(from, x)
  <2>1. \A x : ~InHand(w, x)
    BY <1>2 DEF InHand
  <2>2. QED BY <1>1, <1>10, <2>1, CallPlace
<1>14. ASSUME NEW x \in Pairs, NEW q \in Places, q # from, Holds(q, x)'
       PROVE  Holds(q, x) /\ x \in Tokens /\ x[1] # z
  <2>1. Holds(q, x)
    BY <1>11, <1>14
  <2>2. x \in Tokens
    BY <1>1, <2>1 DEF Addressed
  <2>3. QED BY <1>7, <2>1, <2>2 DEF Tokens
<1>15. Apart'
  <2>1. ASSUME NEW x \in Pairs, NEW q1 \in Places, NEW q2 \in Places, Holds(q1, x)', Holds(q2, x)'
        PROVE  q1 = q2
    <3>1. CASE q1 = from /\ q2 # from
      <4>1. x[1] = z
        BY <1>12, <2>1, <3>1
      <4>2. QED BY <1>14, <2>1, <3>1, <4>1
    <3>2. CASE q1 # from /\ q2 = from
      <4>1. x[1] = z
        BY <1>12, <2>1, <3>2
      <4>2. QED BY <1>14, <2>1, <3>2, <4>1
    <3>3. CASE q1 # from /\ q2 # from
      <4>1. Holds(q1, x) /\ Holds(q2, x)
        BY <1>14, <2>1, <3>3
      <4>2. QED BY <1>1, <4>1 DEF Apart
    <3>4. QED BY <3>1, <3>2, <3>3
  <2>2. QED BY <2>1 DEF Apart
<1>16. Addressed'
  <2>1. ASSUME NEW x \in Pairs, NEW q \in Places, Holds(q, x)' PROVE x \in Tokens'
    <3>1. CASE q # from
      <4>1. x \in Tokens
        BY <1>14, <2>1, <3>1
      <4>2. QED BY <1>9, <4>1
    <3>2. CASE q = from
      <4>1. x[1] = z /\ x[2] \in For(w, i)
        BY <1>12, <2>1, <3>2
      <4>2. z[1] = w /\ z[2] = i
        BY <1>3
      <4>3. For(w, i)' = For(w, i)
        BY <1>2 DEF For
      <4>4. QED BY <1>3, <2>1, <4>1, <4>2, <4>3 DEF Tokens
    <3>3. QED BY <3>1, <3>2
  <2>2. QED BY <2>1 DEF Addressed
<1>17. Faults' = Faults
  BY <1>1, <1>2, FaultsCounted
<1>18. Covered'
  <2>1. SUFFICES ASSUME Faults = 0 PROVE \A x \in Tokens' : \E q \in Places : Holds(q, x)'
    BY <1>17 DEF Covered
  <2>2. ASSUME NEW x \in Tokens PROVE \E q \in Places : Holds(q, x)'
    <3>1. PICK q \in Places : Holds(q, x)
      BY <1>1, <2>1 DEF Covered
    <3>2. q # from
      BY <1>13, <3>1
    <3>3. QED BY <1>11, <3>1, <3>2
  <2>3. ASSUME NEW x \in Tokens', x[1] = z PROVE \E q \in Places : Holds(q, x)'
    <3>1. x[2] \in For(x[1][1], x[1][2])'
      BY <2>3 DEF Tokens
    <3>2. z[1] = w /\ z[2] = i
      BY <1>3
    <3>3. For(w, i)' = For(w, i)
      BY <1>2 DEF For
    <3>4. x[2] \in For(w, i)
      BY <2>3, <3>1, <3>2, <3>3
    <3>5. Holds(from, x)'
      BY <1>12, <2>3, <3>4
    <3>6. QED BY <1>10, <3>5
  <2>4. QED BY <1>9, <2>2, <2>3
<1>19. CallsStraight'
  BY <1>4, <1>5 DEF LInv, CallsStraight, Straight, Sending
<1>20. PathsDirect' /\ NothingFailed'
  BY <1>2, <1>4, <1>5, <1>17 DEF LInv, PathsDirect, NothingFailed
<1>21. ShortLists'
  BY <1>1, <1>2, ListsStay
<1>22. QED BY <1>1, <1>15, <1>16, <1>18, <1>19, <1>20, <1>21 DEF LInv

(* The fragments behind the one that a path loses move up.                 *)
LEMMA PathShifts ==
  ASSUME TInv, NEW p \in Nodes \X Readers, path[p] # <<>>, path' = [path EXCEPT ![p] = Tail(@)]
  PROVE  /\ \A k \in Index : \A x : OnTheWay(p, k, x)' <=> OnTheWay(p, k + 1, x)
         /\ \A o \in Nodes \X Readers : o # p => \A k \in Index : \A x : OnTheWay(o, k, x)' <=> OnTheWay(o, k, x)
         /\ \A k \in Index : k + 1 \in Index /\ k + 1 # 1 /\ (k # 1 => k - 1 \in Index /\ (k - 1) + 1 = k)
         /\ 1 \in Index
<1>1. PICK s \in Seq(Fragment) : s = path[p] /\ s # <<>>
  BY DEF TInv, PathsTyped
<1>2. path'[p] = Tail(s) /\ \A o \in Nodes \X Readers : o # p => path'[o] = path[o]
  BY <1>1 DEF TInv, PathsTyped
<1>3. ASSUME NEW k \in Index, NEW x PROVE OnTheWay(p, k, x)' <=> OnTheWay(p, k + 1, x)
  <2>1. (k <= Len(Tail(s)) <=> k + 1 <= Len(s)) /\ (k <= Len(Tail(s)) => Tail(s)[k] = s[k + 1])
    BY <1>1 DEF Index
  <2>2. QED BY <1>1, <1>2, <2>1 DEF OnTheWay
<1>4. ASSUME NEW o \in Nodes \X Readers, o # p, NEW k \in Index, NEW x
      PROVE  OnTheWay(o, k, x)' <=> OnTheWay(o, k, x)
  BY <1>2, <1>4, PathStays
<1>5. \A k \in Index : k + 1 \in Index /\ k + 1 # 1 /\ (k # 1 => k - 1 \in Index /\ (k - 1) + 1 = k)
  BY DEF Index
<1>6. 1 \in Index
  BY DEF Index
<1>7. QED BY <1>3, <1>4, <1>5, <1>6

(* A fragment is taken off a path: a call or a reader has what it held, or *)
(* a part of it.                                                           *)
LEMMA HeadTaken ==
  ASSUME TInv, Apart, Addressed, UNCHANGED <<plan, written>>,
         NEW p \in Nodes \X Readers, path[p] # <<>>, path' = [path EXCEPT ![p] = Tail(@)],
         NEW to \in CallPlaces \cup GotPlaces,
         \A q \in CallPlaces \cup GotPlaces : q # to => \A x : Holds(q, x)' <=> Holds(q, x),
         \A x \in Pairs : Holds(to, x)' => OnTheWay(p, 1, x)
  PROVE  /\ Apart' /\ Addressed' /\ Tokens' = Tokens
         /\ /\ Covered
            /\ (Faults = 0)' =>
                 /\ Faults = 0
                 /\ \A x \in Pairs : ~Holds(to, x) /\ (OnTheWay(p, 1, x) => Holds(to, x)')
            => Covered'
<1>1. /\ \A k \in Index : \A x : OnTheWay(p, k, x)' <=> OnTheWay(p, k + 1, x)
      /\ \A o \in Nodes \X Readers : o # p => \A k \in Index : \A x : OnTheWay(o, k, x)' <=> OnTheWay(o, k, x)
      /\ \A k \in Index : k + 1 \in Index /\ k + 1 # 1 /\ (k # 1 => k - 1 \in Index /\ (k - 1) + 1 = k)
      /\ 1 \in Index
  BY PathShifts
<1>2. PICK At : At = [k \in Index |-> <<"path", <<p, k>>>>]
  OBVIOUS
<1>3. /\ \A k \in Index : At[k] \in Places /\ At[k] \in PathPlaces /\ At[k] = <<"path", <<p, k>>>>
      /\ \A k, l \in Index : At[k] = At[l] => k = l
      /\ \A k \in Index : \A x : (Holds(At[k], x) <=> OnTheWay(p, k, x)) /\ (Holds(At[k], x)' <=> OnTheWay(p, k, x)')
  <2>1. \A k \in Index : At[k] = <<"path", <<p, k>>>> /\ At[k] \in PathPlaces
    BY <1>2 DEF PathPlaces
  <2>2. \A k, l \in Index : At[k] = At[l] => k = l
    BY <2>1
  <2>3. ASSUME NEW k \in Index
        PROVE  \A x : (Holds(At[k], x) <=> OnTheWay(p, k, x)) /\ (Holds(At[k], x)' <=> OnTheWay(p, k, x)')
    <3>1. \A x : Holds(<<"path", <<p, k>>>>, x) <=> OnTheWay(p, k, x)
      BY PathPlace
    <3>2. \A x : Holds(<<"path", <<p, k>>>>, x)' <=> OnTheWay(p, k, x)'
      BY PathPlace
    <3>3. At[k] = <<"path", <<p, k>>>>
      BY <2>1
    <3>4. QED BY <3>1, <3>2, <3>3
  <2>4. QED BY <2>1, <2>2, <2>3 DEF Places
<1>4. to \in Places /\ \A k \in Index : to # At[k]
  <2>1. \A k \in Index : At[k][1] = "path"
    BY <1>3
  <2>2. to[1] # "path"
    BY DEF CallPlaces, GotPlaces
  <2>3. QED BY <2>1, <2>2 DEF Places
<1>5. PICK Src : Src = [q \in Places |-> IF q = to THEN At[1]
                        ELSE IF \E k \in Index : q = At[k] THEN At[(CHOOSE k \in Index : q = At[k]) + 1]
                        ELSE q]
  OBVIOUS
<1>6. /\ Src[to] = At[1]
      /\ \A k \in Index : Src[At[k]] = At[k + 1]
      /\ \A q \in Places : q # to /\ (\A k \in Index : q # At[k]) => Src[q] = q
  <2>1. Src[to] = At[1]
    BY <1>4, <1>5
  <2>2. ASSUME NEW k \in Index PROVE Src[At[k]] = At[k + 1]
    <3>1. (CHOOSE l \in Index : At[k] = At[l]) = k
      BY <1>3
    <3>2. Src[At[k]] = At[(CHOOSE l \in Index : At[k] = At[l]) + 1]
      BY <1>3, <1>4, <1>5
    <3>3. QED BY <3>1, <3>2
  <2>3. QED BY <1>5, <2>1, <2>2
<1>7. Src \in [Places -> Places]
  <2>1. ASSUME NEW q \in Places PROVE Src[q] \in Places
    <3>1. CASE q = to
      BY <1>1, <1>3, <1>6, <3>1
    <3>2. CASE \E k \in Index : q = At[k]
      <4>1. PICK k \in Index : q = At[k]
        BY <3>2
      <4>2. k + 1 \in Index /\ Src[q] = At[k + 1]
        BY <1>1, <1>6, <4>1
      <4>3. QED BY <1>3, <4>2
    <3>3. CASE q # to /\ \A k \in Index : q # At[k]
      BY <1>6, <3>3
    <3>4. QED BY <3>1, <3>2, <3>3
  <2>2. QED BY <1>5, <2>1
<1>8. ASSUME NEW q \in Places, q # to, \A k \in Index : q # At[k]
      PROVE  \A x : Holds(q, x)' <=> Holds(q, x)
  <2>1. CASE q \in CallPlaces \cup GotPlaces
    BY <1>8, <2>1
  <2>2. CASE q \notin CallPlaces \cup GotPlaces
    <3>1. PICK o \in Nodes \X Readers, k \in Index : q = <<"path", <<o, k>>>>
      BY <2>2, PlaceKinds DEF CallPlaces, GotPlaces
    <3>2. o # p
      BY <1>3, <1>8, <3>1
    <3>3. \A x : OnTheWay(o, k, x)' <=> OnTheWay(o, k, x)
      BY <1>1, <3>2
    <3>4. \A x : Holds(q, x) <=> OnTheWay(o, k, x)
      BY <3>1, PathPlace
    <3>5. \A x : Holds(q, x)' <=> OnTheWay(o, k, x)'
      BY <3>1, PathPlace
    <3>6. QED BY <3>3, <3>4, <3>5
  <2>3. QED BY <2>1, <2>2
<1>9. ASSUME NEW x \in Pairs, NEW q \in Places, Holds(q, x)' PROVE Holds(Src[q], x)
  <2>1. CASE q = to
    BY <1>1, <1>3, <1>6, <1>9, <2>1
  <2>2. CASE \E k \in Index : q = At[k]
    <3>1. PICK k \in Index : q = At[k]
      BY <2>2
    <3>2. OnTheWay(p, k + 1, x) /\ k + 1 \in Index
      BY <1>1, <1>3, <1>9, <3>1
    <3>3. Holds(At[k + 1], x)
      BY <1>3, <3>2
    <3>4. QED BY <1>6, <3>1, <3>3
  <2>3. CASE q # to /\ \A k \in Index : q # At[k]
    BY <1>6, <1>8, <1>9, <2>3
  <2>4. QED BY <2>1, <2>2, <2>3
<1>10. ASSUME NEW q \in Places
       PROVE  \/ q = to /\ Src[q] = At[1]
              \/ \E k \in Index : q = At[k] /\ Src[q] = At[k + 1]
              \/ Src[q] = q /\ \A k \in Index : Src[q] # At[k]
  BY <1>6
<1>11. ASSUME NEW q1 \in Places, NEW q2 \in Places, Src[q1] = Src[q2]
       PROVE  q1 = q2
  <2>1. CASE q1 = to /\ Src[q1] = At[1]
    <3>1. ~(\E k \in Index : q2 = At[k] /\ Src[q2] = At[k + 1])
      BY <1>1, <1>3, <1>11, <2>1
    <3>2. ~(\A k \in Index : Src[q2] # At[k])
      BY <1>1, <1>11, <2>1
    <3>3. q2 = to
      BY <1>10, <3>1, <3>2
    <3>4. QED BY <2>1, <3>3
  <2>2. CASE \E k \in Index : q1 = At[k] /\ Src[q1] = At[k + 1]
    <3>1. PICK k \in Index : q1 = At[k] /\ Src[q1] = At[k + 1]
      BY <2>2
    <3>2. k + 1 \in Index /\ k + 1 # 1 /\ 1 \in Index
      BY <1>1
    <3>3. Src[q2] # At[1] /\ ~(\A l \in Index : Src[q2] # At[l])
      BY <1>3, <1>11, <3>1, <3>2
    <3>4. PICK l \in Index : q2 = At[l] /\ Src[q2] = At[l + 1]
      BY <1>10, <3>3
    <3>5. k + 1 = l + 1
      BY <1>1, <1>3, <1>11, <3>1, <3>4
    <3>6. k = l
      BY <3>5 DEF Index
    <3>7. QED BY <3>1, <3>4, <3>6
  <2>3. CASE Src[q1] = q1 /\ \A k \in Index : Src[q1] # At[k]
    <3>1. Src[q2] # At[1] /\ ~(\E k \in Index : q2 = At[k] /\ Src[q2] = At[k + 1])
      BY <1>1, <1>11, <2>3
    <3>2. Src[q2] = q2
      BY <1>10, <3>1
    <3>3. QED BY <1>11, <2>3, <3>2
  <2>4. QED BY <1>10, <2>1, <2>2, <2>3
<1>12. Apart' /\ Addressed' /\ Tokens' = Tokens
  BY <1>7, <1>9, <1>11, Carried
<1>13. ASSUME Covered,
              (Faults = 0)' =>
                /\ Faults = 0
                /\ \A x \in Pairs : ~Holds(to, x) /\ (OnTheWay(p, 1, x) => Holds(to, x)')
       PROVE  Covered'
  <2> SUFFICES ASSUME (Faults = 0)' PROVE \A x \in Tokens' : \E q \in Places : Holds(q, x)'
    BY DEF Covered
  <2>1. ASSUME NEW x \in Tokens PROVE \E q \in Places : Holds(q, x)'
    <3>1. PICK q \in Places : Holds(q, x)
      BY <1>13 DEF Covered
    <3>2. x \in Pairs
      BY DEF Tokens
    <3>3. q # to
      BY <1>13, <3>1, <3>2
    <3>4. CASE \E k \in Index : q = At[k]
      <4>1. PICK k \in Index : q = At[k]
        BY <3>4
      <4>2. OnTheWay(p, k, x)
        BY <1>3, <3>1, <4>1
      <4>3. CASE k = 1
        <5>1. Holds(to, x)'
          BY <1>13, <3>2, <4>2, <4>3
        <5>2. QED BY <1>4, <5>1
      <4>4. CASE k # 1
        <5>1. PICK l \in Index : l + 1 = k
          BY <1>1, <4>4
        <5>2. OnTheWay(p, l, x)'
          BY <1>1, <4>2, <5>1
        <5>3. QED BY <1>3, <5>2
      <4>5. QED BY <4>3, <4>4
    <3>5. CASE \A k \in Index : q # At[k]
      <4>1. Holds(q, x)'
        BY <1>8, <3>1, <3>3, <3>5
      <4>2. QED BY <4>1
    <3>6. QED BY <3>4, <3>5
  <2>2. QED BY <1>12, <2>1
<1>14. QED BY <1>12, <1>13

LEMMA DirectStays ==
  ASSUME TInv, PathsDirect, NEW p \in Nodes \X Readers, path[p] # <<>>,
         path' = [path EXCEPT ![p] = Tail(@)]
  PROVE  PathsDirect'
<1>1. PICK q \in Seq(Fragment) : q = path[p] /\ q # <<>>
  BY DEF TInv, PathsTyped
<1>2. \A k \in 1 .. Len(Tail(q)) : k + 1 \in 1 .. Len(q) /\ Tail(q)[k] = q[k + 1]
  BY <1>1
<1>3. ASSUME NEW o \in Nodes \X Readers, NEW k \in 1 .. Len(path'[o]) PROVE Direct(path'[o][k], o[2])
  <2>1. CASE o # p
    <3>1. path'[o] = path[o]
      BY <2>1 DEF TInv, PathsTyped
    <3>2. QED BY <1>3, <3>1 DEF PathsDirect
  <2>2. CASE o = p
    <3>1. path'[p] = Tail(q)
      BY <1>1 DEF TInv, PathsTyped
    <3>2. \A j \in 1 .. Len(q) : Direct(q[j], p[2])
      BY <1>1 DEF PathsDirect
    <3>3. QED BY <1>2, <1>3, <2>2, <3>1, <3>2
  <2>3. QED BY <2>1, <2>2
<1>4. QED BY <1>3 DEF PathsDirect, Direct

(* A fragment of a list of nodes is new to its reader.                     *)
LEMMA ListsTaken ==
  ASSUME LInv, NEW r \in Readers, NEW s \in Nodes, NEW again \in BOOLEAN, NEW p, NEW f, NEW x,
         Takes(r, s, again, p, f, x)
  PROVE  /\ p \in Nodes \X Readers /\ path[p] # <<>> /\ path' = [path EXCEPT ![p] = Tail(@)]
         /\ UNCHANGED <<plan, parent, written, used>>
         /\ f \in Fragment /\ Short(f) /\ Direct(f, r) /\ ~Repeated(r, f) /\ PathsDirect' /\ ShortLists'
         /\ \A y : OnTheWay(p, 1, y) <=> y[1] = f.part /\ y[2] \in Aimed(f, r)
<1>1. TInv /\ SInv /\ p = <<s, r>> /\ p \in Nodes \X Readers /\ path[p] # <<>> /\ f = path[p][1]
      /\ f \in Fragment /\ UNCHANGED <<plan, parent, written>>
  BY DEF LInv, SInv, Takes
<1>2. ~again
  <2>1. ~Happens("repeat")
    <3>1. used["repeat"] \in Nat /\ plan.limit["repeat"] = 0
      BY <1>1 DEF TInv, PlanTyped, Events, LInv, ShortLists
    <3>2. PICK a : a = used["repeat"]
      OBVIOUS
    <3>3. a \in Nat => ~(a < 0)
      OBVIOUS
    <3>4. QED BY <3>1, <3>2, <3>3 DEF Happens
  <2>2. QED BY <2>1 DEF Takes
<1>3. path' = [path EXCEPT ![p] = Tail(@)] /\ UNCHANGED used
  BY <1>2 DEF Takes
<1>4. PICK q \in Seq(Fragment) : q = path[p] /\ q # <<>>
  BY <1>1 DEF TInv, PathsTyped
<1>5. 1 \in 1 .. Len(q) /\ 1 <= Len(q) /\ \A k \in 1 .. Len(Tail(q)) : k + 1 \in 1 .. Len(q) /\ Tail(q)[k] = q[k + 1]
  BY <1>4
<1>6. p[2] = r
  BY <1>1
<1>7. \A k \in 1 .. Len(q) : Direct(q[k], r)
  BY <1>1, <1>4, <1>6 DEF LInv, PathsDirect
<1>8. Direct(f, r) /\ ~Repeated(r, f)
  BY <1>1, <1>4, <1>5, <1>7 DEF Direct, Repeated
<1>9. PathsDirect'
  BY <1>1, <1>3, DirectStays DEF LInv
<1>10. \A y : OnTheWay(p, 1, y) <=> y[1] = f.part /\ y[2] \in Aimed(f, r)
  BY <1>1, <1>4, <1>5, <1>6 DEF OnTheWay
<1>11. Short(f)
  BY <1>1, <1>3, ShortTaken
<1>12. ShortLists'
  BY <1>1, ListsStay DEF LInv
<1>13. QED BY <1>1, <1>3, <1>8, <1>9, <1>10, <1>11, <1>12

(* A packet that is for one reader is returned by it.                      *)
LEMMA ListsReturned ==
  ASSUME LInv, UNCHANGED <<plan, written>>, NEW r \in Readers, NEW f \in Fragment, Short(f),
         Returned(r, <<f>>), NEW to, to = <<"got", <<r, Len(got[r]) + 1>>>>
  PROVE  /\ to \in GotPlaces
         /\ \A q \in GotPlaces : q # to => \A x : Holds(q, x)' <=> Holds(q, x)
         /\ \A x : ~Holds(to, x)
         /\ \A x : Holds(to, x)' <=> f.self /\ x[1] = f.part /\ x[2] = r
<1>1. SInv /\ TInv /\ ShortLists /\ got \in [Readers -> Seq(Seq(Part))]
  BY DEF LInv, SInv, ShortGot
<1>2. PICK g \in Seq(Seq(Part)), l \in Index : g = got[r] /\ l = Len(g) + 1
  BY <1>1 DEF Index
<1>3. to = <<"got", <<r, l>>>> /\ to \in GotPlaces
  BY <1>2 DEF GotPlaces
<1>4. Keeps(r, <<f>>) <=> f.self
  <2>1. <<f>>[1] = f /\ Len(<<f>>) = 1
    OBVIOUS
  <2>2. PICK w \in Writers, i \in 1 .. MaxWrites : f.part = <<w, i, 1>> /\ i <= written[w]
    BY DEF Short, WrittenParts, Part
  <2>3. f.part[1] = w /\ f.part[2] = i
    BY <2>2
  <2>4. i \in DOMAIN plan.writes[w]
    BY <1>1, <2>2, WrittenPlanned
  <2>5. plan.writes[w][i].kind # "group"
    BY <1>1, <2>4 DEF ShortLists
  <2>6. QED BY <2>1, <2>3, <2>5 DEF Keeps
<1>5. IF f.self THEN got' = [got EXCEPT ![r] = Append(@, <<f.part>>)] ELSE got' = got
  <2>1. IF Keeps(r, <<f>>) THEN got' = [got EXCEPT ![r] = Append(@, <<f.part>>)] ELSE got' = got
    BY <1>1, ShortReturned
  <2>2. QED BY <1>4, <2>1
<1>6. PICK y : y = <<f.part>>
  OBVIOUS
<1>7. y \in Seq(Part) /\ y[1] = f.part
  BY <1>6 DEF Short, WrittenParts
<1>8. f.self => got'[r] = Append(g, y) /\ \A o \in Readers : o # r => got'[o] = got[o]
  BY <1>1, <1>2, <1>5, <1>6
<1>9. /\ Len(Append(g, y)) = l /\ Append(g, y)[l] = y /\ l <= l /\ ~(l <= Len(g))
      /\ \A k \in Index : k # l => (k <= l <=> k <= Len(g)) /\ (k <= Len(g) => Append(g, y)[k] = g[k])
  <2>1. Len(Append(g, y)) = l /\ Append(g, y)[l] = y /\ l <= l /\ ~(l <= Len(g))
    BY <1>2, <1>7 DEF Index
  <2>2. ASSUME NEW k \in Index, k # l
        PROVE  (k <= l <=> k <= Len(g)) /\ (k <= Len(g) => Append(g, y)[k] = g[k])
    BY <1>2, <1>7, <2>2 DEF Index
  <2>3. QED BY <2>1, <2>2
<1>10. \A x : ~Delivered(r, l, x)
  BY <1>2, <1>9 DEF Delivered
<1>11. \A x : Delivered(r, l, x)' <=> f.self /\ x[1] = f.part /\ x[2] = r
  <2>1. CASE f.self
    BY <1>7, <1>8, <1>9, <2>1 DEF Delivered
  <2>2. CASE ~f.self
    <3>1. \A x : Delivered(r, l, x)' <=> Delivered(r, l, x)
      BY <1>5, <2>2, GotStays
    <3>2. QED BY <1>10, <2>2, <3>1
  <2>3. QED BY <2>1, <2>2
<1>12. ASSUME NEW q \in GotPlaces, q # to PROVE \A x : Holds(q, x)' <=> Holds(q, x)
  <2>1. PICK o \in Readers, k \in Index : q = <<"got", <<o, k>>>>
    BY DEF GotPlaces
  <2>2. \A x : Delivered(o, k, x)' <=> Delivered(o, k, x)
    <3>1. CASE ~f.self
      BY <1>5, <3>1, GotStays
    <3>2. CASE f.self /\ o # r
      BY <1>8, <3>2, GotStays
    <3>3. CASE f.self /\ o = r
      <4>1. k # l
        BY <1>3, <1>12, <2>1, <3>3
      <4>2. (k <= l <=> k <= Len(g)) /\ (k <= Len(g) => Append(g, y)[k] = g[k])
        BY <1>9, <4>1
      <4>3. (k <= Len(got'[r]) <=> k <= Len(got[r])) /\ (k <= Len(got[r]) => got'[r][k] = got[r][k])
        BY <1>2, <1>8, <1>9, <3>3, <4>2
      <4>4. QED BY <3>3, <4>3 DEF Delivered
    <3>4. QED BY <3>1, <3>2, <3>3
  <2>3. QED BY <2>1, <2>2, GotPlace
<1>13. /\ \A x : ~Holds(to, x)
       /\ \A x : Holds(to, x)' <=> f.self /\ x[1] = f.part /\ x[2] = r
  <2>1. \A x : Holds(to, x) <=> Delivered(r, l, x)
    BY <1>3, GotPlace
  <2>2. \A x : Holds(to, x)' <=> Delivered(r, l, x)'
    BY <1>3, GotPlace
  <2>3. QED BY <1>10, <1>11, <2>1, <2>2
<1>14. QED BY <1>3, <1>12, <1>13

(* A reader takes a fragment and returns the packet.                       *)
LEMMA ListsTakeReturns ==
  ASSUME LInv, SInv', NEW r \in Readers, NEW s \in Nodes, NEW again \in BOOLEAN, NEW p, NEW f, NEW x,
         Takes(r, s, again, p, f, x), f.to = {}, Returned(r, <<f>>), UNCHANGED tx,
         r \in Nodes => tx[r].pc = "idle", \A q \in Readers : q # r => rx'[q] = rx[q]
  PROVE  LInv'
<1>1. /\ p \in Nodes \X Readers /\ path[p] # <<>> /\ path' = [path EXCEPT ![p] = Tail(@)]
      /\ UNCHANGED <<plan, parent, written, used>>
      /\ f \in Fragment /\ Short(f) /\ PathsDirect' /\ ShortLists'
      /\ \A y : OnTheWay(p, 1, y) <=> y[1] = f.part /\ y[2] \in Aimed(f, r)
  BY ListsTaken
<1>2. TInv /\ Apart /\ Addressed /\ Covered
  BY DEF LInv, SInv
<1>3. PICK to : to = <<"got", <<r, Len(got[r]) + 1>>>>
  OBVIOUS
<1>4. /\ to \in GotPlaces
      /\ \A q \in GotPlaces : q # to => \A y : Holds(q, y)' <=> Holds(q, y)
      /\ \A y : ~Holds(to, y)
      /\ \A y : Holds(to, y)' <=> f.self /\ y[1] = f.part /\ y[2] = r
  BY <1>1, <1>3, ListsReturned
<1>5. \A q \in CallPlaces : \A y : Holds(q, y)' <=> Holds(q, y)
  <2>1. ASSUME NEW q \in CallPlaces PROVE \A y : Holds(q, y)' <=> Holds(q, y)
    <3>1. PICK u \in Tasks : q = <<"call", u>>
      BY DEF CallPlaces
    <3>2. u \in Nodes /\ tx[u].pc # "idle" => rx'[u] = rx[u]
      BY DEF Readers
    <3>3. \A y : InHand(u, y)' <=> InHand(u, y)
      BY <3>2, CallStays
    <3>4. QED BY <3>1, <3>3, CallPlace
  <2>2. QED BY <2>1
<1>6. \A y : OnTheWay(p, 1, y) <=> Holds(to, y)'
  <2>1. Aimed(f, r) = IF f.self THEN {r} ELSE {}
    BY DEF Aimed
  <2>2. QED BY <1>1, <1>4, <2>1
<1>7. Faults' = Faults
  BY <1>1, <1>2, FaultsCounted
<1>8. Apart' /\ Addressed' /\ Covered'
  BY <1>1, <1>2, <1>4, <1>5, <1>6, <1>7, HeadTaken
<1>9. CallsStraight' /\ NothingFailed'
  BY <1>7 DEF LInv, CallsStraight, NothingFailed, Straight, Sending
<1>10. QED BY <1>1, <1>8, <1>9 DEF LInv

LEMMA ListsRootReads ==
  ASSUME LInv, NEW s \in Nodes, NEW again \in BOOLEAN, RootReads(s, again)
  PROVE  LInv'
<1>1. SInv /\ SInv' /\ DS \in Readers /\ DS \notin Nodes
  BY ShortRootReads, MwifiAssumption DEF LInv, Readers
<1>2. PICK p, f, x : ShortRootTakes(s, again, p, f, x)
  BY <1>1, ShortRootTaken
<1>3. /\ Takes(DS, s, again, p, f, x) /\ Returned(DS, <<f>>) /\ UNCHANGED tx
      /\ rx' = [rx EXCEPT ![DS] = Cleared(x)]
  BY <1>2 DEF ShortRootTakes
<1>4. f.to = {}
  BY <1>1, <1>3, ListsTaken DEF Direct
<1>5. \A q \in Readers : q # DS => rx'[q] = rx[q]
  BY <1>1, <1>3 DEF SInv, TInv, ReadersTyped
<1>6. QED BY <1>1, <1>3, <1>4, <1>5, ListsTakeReturns

(* A node that passes a packet on has what the fragment was for.           *)
LEMMA PassedStraight ==
  ASSUME NEW n \in Nodes, NEW f \in Fragment, Direct(f, n), NEW d, d = ShortPassed(n, f)
  PROVE  /\ d.pc = "kids" /\ d.ok /\ d.data = <<f.part>> /\ Straight(n, d) /\ Going(d) = f.to
<1>1. PICK c : c = [NoCall EXCEPT !.data = <<f.part>>, !.all = f.all, !.self = f.self, !.to = f.to]
  OBVIOUS
<1>2. ~f.all /\ f.to \subseteq Nodes /\ n \notin f.to
  BY DEF Direct
<1>3. Everyone \notin f.to /\ Others \notin f.to
  BY <1>2, MwifiAssumption DEF Readers
<1>4. d = Transmit(c, n, f.to)
  BY <1>1, <1>2 DEF ShortPassed
<1>5. c.all = f.all /\ c.to = f.to /\ c.data = <<f.part>> /\ c.ok
  BY <1>1 DEF NoCall
<1>6. d.pc = "kids" /\ d.list = f.to /\ d.to = f.to /\ d.data = <<f.part>> /\ d.ok
  BY <1>1, <1>4 DEF Transmit, NoCall
<1>7. ~d.all
  <2>1. d.all = (c.all \/ f.to \cap {Everyone, Others} # {})
    BY <1>1, <1>4 DEF Transmit, NoCall
  <2>2. QED BY <1>2, <1>3, <1>5, <2>1
<1>8. Straight(n, d)
  BY <1>2, <1>6, <1>7 DEF Straight
<1>9. Going(d) = f.to
  BY <1>6 DEF Going
<1>10. QED BY <1>6, <1>8, <1>9

LEMMA ListsNodeReads ==
  ASSUME LInv, NEW n \in Nodes, NEW s \in Nodes, NEW again \in BOOLEAN, NodeReads(n, s, again)
  PROVE  LInv'
<1>1. SInv /\ SInv' /\ TInv /\ n \in Readers /\ n \in Tasks
  BY ShortNodeReads DEF LInv, SInv, Readers, Tasks
<1>2. PICK p, f, x : ShortActs(n, s, again, p, f, x)
  BY <1>1, ShortNodeTakes
<1>3. Takes(n, s, again, p, f, x) /\ tx[n].pc = "idle"
  BY <1>2 DEF ShortActs
<1>4. /\ p \in Nodes \X Readers /\ path[p] # <<>> /\ path' = [path EXCEPT ![p] = Tail(@)]
      /\ UNCHANGED <<plan, parent, written, used>>
      /\ f \in Fragment /\ Short(f) /\ Direct(f, n) /\ ~Repeated(n, f) /\ PathsDirect' /\ ShortLists'
      /\ \A y : OnTheWay(p, 1, y) <=> y[1] = f.part /\ y[2] \in Aimed(f, n)
  BY <1>1, <1>3, ListsTaken
<1>5. CASE /\ x.parts = <<f>> /\ rx' = [rx EXCEPT ![n] = x] /\ UNCHANGED got
           /\ tx' = [tx EXCEPT ![n] = ShortPassed(n, f)]
  <2>1. PICK d : d = ShortPassed(n, f)
    OBVIOUS
  <2>2. d.pc = "kids" /\ d.ok /\ d.data = <<f.part>> /\ Straight(n, d) /\ Going(d) = f.to
    BY <1>4, <2>1, PassedStraight
  <2>3. tx'[n] = d /\ \A u \in Tasks : u # n => tx'[u] = tx[u]
    BY <1>1, <1>5, <2>1 DEF TInv, CallsTyped
  <2>4. rx'[n] = x /\ \A q \in Readers : q # n => rx'[q] = rx[q]
    BY <1>1, <1>5 DEF TInv, ReadersTyped
  <2>5. PICK to \in CallPlaces : to = <<"call", n>>
    <3>1. <<"call", n>> \in CallPlaces
      BY <1>1 DEF CallPlaces
    <3>2. QED BY <3>1
  <2>6. Kept(n)' = IF f.self THEN {n} ELSE {}
    <3>1. <<f>>[1] = f
      OBVIOUS
    <3>2. QED BY <1>5, <2>2, <2>3, <2>4, <3>1 DEF Kept
  <2>7. \A y : InHand(n, y)' <=> y[1] = f.part /\ y[2] \in Aimed(f, n)
    <3>1. <<f.part>>[1] = f.part
      OBVIOUS
    <3>2. QED BY <2>2, <2>3, <2>6, <3>1 DEF InHand, Aimed
  <2>8. \A y : ~Holds(to, y) /\ (Holds(to, y)' <=> OnTheWay(p, 1, y))
    <3>1. \A y : ~InHand(n, y)
      BY <1>3 DEF InHand
    <3>2. \A y : (Holds(to, y) <=> InHand(n, y)) /\ (Holds(to, y)' <=> InHand(n, y)')
      BY <1>1, <2>5, CallPlace
    <3>3. QED BY <1>4, <2>7, <3>1, <3>2
  <2>9. \A q \in CallPlaces \cup GotPlaces : q # to => \A y : Holds(q, y)' <=> Holds(q, y)
    <3>1. ASSUME NEW q \in CallPlaces, q # to PROVE \A y : Holds(q, y)' <=> Holds(q, y)
      <4>1. PICK u \in Tasks : q = <<"call", u>>
        BY DEF CallPlaces
      <4>2. u # n
        BY <2>5, <3>1, <4>1
      <4>3. tx'[u] = tx[u] /\ (u \in Nodes => rx'[u] = rx[u])
        BY <2>3, <2>4, <4>2 DEF Readers
      <4>4. \A y : InHand(u, y)' <=> InHand(u, y)
        BY <4>3, CallStays
      <4>5. QED BY <4>1, <4>4, CallPlace
    <3>2. ASSUME NEW q \in GotPlaces PROVE \A y : Holds(q, y)' <=> Holds(q, y)
      <4>1. PICK o \in Readers, k \in Index : q = <<"got", <<o, k>>>>
        BY DEF GotPlaces
      <4>2. \A y : Delivered(o, k, y)' <=> Delivered(o, k, y)
        BY <1>5, GotStays
      <4>3. QED BY <4>1, <4>2, GotPlace
    <3>3. QED BY <3>1, <3>2
  <2>10. Faults' = Faults
    BY <1>1, <1>4, FaultsCounted
  <2>11. Apart' /\ Addressed' /\ Covered'
    BY <1>1, <1>4, <2>5, <2>8, <2>9, <2>10, HeadTaken DEF LInv
  <2>12. CallsStraight'
    BY <2>2, <2>3 DEF LInv, CallsStraight, Straight, Sending
  <2>13. NothingFailed'
    BY <2>2, <2>3, <2>10 DEF LInv, NothingFailed
  <2>14. QED BY <1>1, <1>4, <2>11, <2>12, <2>13 DEF LInv
<1>6. CASE /\ f.to = {} /\ Returned(n, <<f>>) /\ UNCHANGED tx
           /\ rx' = [rx EXCEPT ![n] = Cleared(x)]
  <2>1. \A q \in Readers : q # n => rx'[q] = rx[q]
    BY <1>1, <1>6 DEF TInv, ReadersTyped
  <2>2. QED BY <1>1, <1>3, <1>6, <2>1, ListsTakeReturns
<1>7. QED BY <1>2, <1>4, <1>5, <1>6 DEF ShortActs

(* A node returns the packet that it passed on: what was for the node      *)
(* itself goes from its call to what it returned.                          *)
LEMMA ListsForwardReturns ==
  ASSUME LInv, NEW n \in Nodes, ForwardReturns(n)
  PROVE  LInv'
<1>1. SInv /\ SInv' /\ TInv /\ Apart /\ Addressed /\ Covered /\ n \in Readers /\ n \in Tasks
  BY ShortReaderStops DEF LInv, SInv, Readers, Tasks
<1>2. /\ tx[n].pc \in {"rest", "each"} /\ tx[n].list = {} /\ tx' = [tx EXCEPT ![n] = NoCall]
      /\ IF tx[n].ok THEN Returned(n, rx[n].parts) ELSE UNCHANGED got
      /\ rx' = Discard(n) /\ UNCHANGED <<plan, used, parent, path, written>>
  BY DEF ForwardReturns, Ended
<1>3. PICK f \in Fragment : rx[n].parts = <<f>> /\ Short(f) /\ tx[n].data[1] = f.part
  BY <1>1, <1>2, ShortForwarded
<1>4. /\ tx'[n] = NoCall /\ NoCall.pc = "idle" /\ \A u \in Tasks : u # n => tx'[u] = tx[u]
      /\ \A q \in Readers : q # n => rx'[q] = rx[q]
  BY <1>1, <1>2 DEF TInv, CallsTyped, ReadersTyped, NoCall, Discard
<1>5. Going(tx[n]) = {} /\ Kept(n) = IF f.self THEN {n} ELSE {}
  <2>1. <<f>>[1] = f
    OBVIOUS
  <2>2. QED BY <1>2, <1>3, <2>1 DEF Going, Kept
<1>6. \A x : InHand(n, x) <=> f.self /\ x[1] = f.part /\ x[2] = n
  BY <1>2, <1>3, <1>5 DEF InHand
<1>7. \A x : ~InHand(n, x)'
  BY <1>4 DEF InHand
<1>8. Faults' = Faults
  BY <1>1, <1>2, FaultsCounted
<1>9. Apart' /\ Addressed' /\ Covered'
  <2>1. CASE ~tx[n].ok
    <3>1. Faults # 0
      BY <1>1, <1>2, <2>1 DEF LInv, NothingFailed
    <3>2. \A u \in Nodes : u # n => rx'[u] = rx[u]
      BY <1>4 DEF Readers
    <3>3. UNCHANGED <<plan, written, path, got>>
      BY <1>2, <2>1
    <3>4. QED BY <1>1, <1>4, <1>7, <1>8, <3>1, <3>2, <3>3, CallLets
  <2>2. CASE tx[n].ok
    <3>1. PICK to : to = <<"got", <<n, Len(got[n]) + 1>>>>
      OBVIOUS
    <3>2. Returned(n, <<f>>)
      BY <1>2, <1>3, <2>2
    <3>3. /\ to \in GotPlaces
          /\ \A q \in GotPlaces : q # to => \A x : Holds(q, x)' <=> Holds(q, x)
          /\ \A x : ~Holds(to, x)
          /\ \A x : Holds(to, x)' <=> f.self /\ x[1] = f.part /\ x[2] = n
      <4>1. UNCHANGED <<plan, written>> /\ n \in Readers /\ f \in Fragment /\ Short(f)
        BY <1>1, <1>2, <1>3
      <4>2. QED BY ONLY LInv, <3>1, <3>2, <4>1, ListsReturned
    <3>4. PICK from : from = <<"call", n>>
      OBVIOUS
    <3>5. /\ from \in Places /\ to \in Places /\ from # to
          /\ \A x : Holds(from, x) <=> InHand(n, x)
          /\ \A x : ~Holds(from, x)'
      <4>1. from \in Places
        BY <1>1, <3>4, CallPlace
      <4>2. \A x : Holds(from, x) <=> InHand(n, x)
        BY <1>1, <3>4, CallPlace
      <4>3. \A x : ~Holds(from, x)'
        BY <1>1, <1>7, <3>4, CallPlace
      <4>4. QED BY <3>1, <3>3, <3>4, <4>1, <4>2, <4>3 DEF Places
    <3>6. ASSUME NEW q \in Places, q # from, q # to PROVE \A x : Holds(q, x)' <=> Holds(q, x)
      <4>1. CASE \E u \in Tasks : q = <<"call", u>>
        <5>1. PICK u \in Tasks : q = <<"call", u>>
          BY <4>1
        <5>2. u # n
          BY <3>4, <3>6, <5>1
        <5>3. tx'[u] = tx[u] /\ (u \in Nodes => rx'[u] = rx[u])
          BY <1>4, <5>2 DEF Readers
        <5>4. \A x : InHand(u, x)' <=> InHand(u, x)
          BY <5>3, CallStays
        <5>5. QED BY <5>1, <5>4, CallPlace
      <4>2. CASE \E o \in Nodes \X Readers, k \in Index : q = <<"path", <<o, k>>>>
        <5>1. PICK o \in Nodes \X Readers, k \in Index : q = <<"path", <<o, k>>>>
          BY <4>2
        <5>2. \A x : OnTheWay(o, k, x)' <=> OnTheWay(o, k, x)
          BY <1>2, PathStays
        <5>3. QED BY <5>1, <5>2, PathPlace
      <4>3. CASE \E r \in Readers, k \in Index : q = <<"got", <<r, k>>>>
        BY <3>3, <3>6, <4>3 DEF GotPlaces
      <4>4. QED BY <4>1, <4>2, <4>3, PlaceKinds
    <3>7. Apart' /\ Addressed' /\ Tokens' = Tokens
      <4>1. \A x \in Pairs, q \in Places : q # to /\ Holds(q, x)' => Holds(q, x)
        BY <3>5, <3>6
      <4>2. \A x \in Pairs : Holds(to, x)' => Holds(from, x)
        BY <1>6, <3>3, <3>5
      <4>3. \A x \in Pairs : ~(Holds(from, x)' /\ Holds(to, x)')
        BY <3>5
      <4>4. QED BY <1>1, <1>2, <3>5, <4>1, <4>2, <4>3, HandedOver
    <3>8. Covered'
      <4>1. SUFFICES ASSUME Faults = 0 PROVE \A x \in Tokens : \E q \in Places : Holds(q, x)'
        BY <1>8, <3>7 DEF Covered
      <4>2. ASSUME NEW x \in Tokens PROVE \E q \in Places : Holds(q, x)'
        <5>1. PICK q \in Places : Holds(q, x)
          BY <1>1, <4>1 DEF Covered
        <5>2. CASE q = from
          <6>1. Holds(to, x)'
            BY <1>6, <3>3, <3>5, <5>1, <5>2
          <6>2. QED BY <3>5, <6>1
        <5>3. CASE q # from
          <6>1. Holds(q, x)'
            BY <3>3, <3>6, <5>1, <5>3
          <6>2. QED BY <6>1
        <5>4. QED BY <5>2, <5>3
      <4>3. QED BY <4>2
    <3>9. QED BY <3>7, <3>8
  <2>3. QED BY <2>1, <2>2
<1>10. CallsStraight' /\ NothingFailed'
  BY <1>4, <1>8 DEF LInv, CallsStraight, NothingFailed, Straight, Sending
<1>11. PathsDirect' /\ ShortLists'
  BY <1>2, ListsStay DEF LInv, PathsDirect
<1>12. QED BY <1>1, <1>9, <1>10, <1>11 DEF LInv

(* Steps that change nothing of what is held.                              *)
LEMMA ListsKeep ==
  ASSUME LInv, SInv', UNCHANGED <<plan, written, path, tx, got>>, NEW t \in Tasks,
         tx[t].pc = "idle" \/ UNCHANGED rx, \A u \in Nodes : u # t => rx'[u] = rx[u],
         (Faults = 0)' => Faults = 0
  PROVE  LInv'
<1>1. Apart /\ Addressed /\ Covered
  BY DEF LInv
<1>2. \A x : InHand(t, x)' <=> InHand(t, x)
  BY CallStays
<1>3. Apart' /\ Addressed' /\ Covered'
  BY <1>1, <1>2, CallLets
<1>4. CallsStraight' /\ NothingFailed'
  BY DEF LInv, CallsStraight, NothingFailed, Straight, Sending
<1>5. PathsDirect' /\ ShortLists'
  BY ListsStay DEF LInv, PathsDirect
<1>6. QED BY <1>3, <1>4, <1>5 DEF LInv

LEMMA ListsWait ==
  ASSUME LInv, \/ \E r \in Readers : Timeout(r) \/ NotStarted(r)
               \/ \E n, p \in Nodes : Move(n, p)
               \/ UNCHANGED vars
  PROVE  LInv'
<1>1. SInv /\ TInv /\ Nodes \subseteq Tasks /\ Root \in Nodes /\ Nodes \subseteq Readers /\ DS \notin Nodes
  BY MwifiAssumption DEF LInv, SInv, Tasks, Readers
<1>2. SInv'
  <2>1. [Next]_vars
    BY DEF Next
  <2>2. QED BY <1>1, <2>1, ShortStep
<1>3. ASSUME NEW r \in Readers, Timeout(r) \/ NotStarted(r) PROVE LInv'
  <2>1. UNCHANGED <<plan, written, path, tx>> /\ (r \in Nodes => tx[r].pc = "idle")
    BY <1>1, <1>3 DEF Timeout, NotStarted, Reading
  <2>2. \E e \in Events : e # "move" /\ Happens(e)
    BY <1>3 DEF Timeout, NotStarted, Events
  <2>3. (Faults # 0)'
    BY <1>1, <2>2, FaultsCounted
  <2>4. \A q \in Readers : q # r => rx'[q] = rx[q]
    BY <1>1, <1>3 DEF Timeout, NotStarted, Discard, TInv, ReadersTyped
  <2>5. UNCHANGED got
    <3>1. CASE Timeout(r)
      BY <3>1 DEF Timeout
    <3>2. CASE NotStarted(r)
      <4>1. r # DS
        <5>1. CASE r = DS
          <6>1. used["root_stop"] < plan.limit["root_stop"]
            BY <3>2, <5>1 DEF NotStarted, Happens
          <6>2. used["root_stop"] \in Nat
            BY <1>1 DEF TInv, PlanTyped, Events
          <6>3. plan.limit["root_stop"] = 0
            BY <1>1 DEF SInv, ShortPackets
          <6>4. QED BY <6>1, <6>2, <6>3
        <5>2. QED BY <5>1
      <4>2. QED BY <3>2, <4>1 DEF NotStarted
    <3>3. QED BY <1>3, <3>1, <3>2
  <2>6. CASE r \in Nodes
    <3>1. r \in Tasks /\ tx[r].pc = "idle" /\ \A u \in Nodes : u # r => rx'[u] = rx[u]
      BY <1>1, <2>1, <2>4, <2>6
    <3>2. QED BY <1>2, <2>1, <2>3, <2>5, <3>1, ListsKeep
  <2>7. CASE r \notin Nodes
    <3>1. UNCHANGED <<plan, written, path, tx, got>> /\ (\A u \in Nodes : rx'[u] = rx[u])
      BY <1>1, <2>1, <2>4, <2>5, <2>7
    <3>2. Apart /\ Addressed /\ Covered
      BY DEF LInv
    <3>3. \A x : InHand(Root, x)' <=> InHand(Root, x)
      BY <1>1, <3>1, CallStays
    <3>4. Apart' /\ Addressed' /\ Covered'
      BY <1>1, <2>3, <3>1, <3>2, <3>3, CallLets
    <3>5. CallsStraight' /\ NothingFailed'
      BY <2>1, <2>3 DEF LInv, CallsStraight, NothingFailed, Straight, Sending
    <3>6. PathsDirect' /\ ShortLists'
      BY <2>1, ListsStay DEF LInv, PathsDirect
    <3>7. QED BY <1>2, <3>4, <3>5, <3>6 DEF LInv
  <2>8. QED BY <2>6, <2>7
<1>4. ASSUME NEW n \in Nodes, NEW p \in Nodes, Move(n, p) PROVE LInv'
  <2>1. UNCHANGED <<plan, path, tx, written, rx, got>> /\ Happens("move")
    BY <1>4 DEF Move
  <2>2. Faults' = Faults
    BY <1>1, <2>1, FaultsCounted
  <2>3. QED BY <1>1, <1>2, <2>1, <2>2, ListsKeep
<1>5. ASSUME UNCHANGED vars PROVE LInv'
  <2>1. UNCHANGED <<plan, used, path, tx, written, rx, got>>
    BY <1>5 DEF vars
  <2>2. Faults' = Faults
    BY <1>1, <2>1, FaultsCounted
  <2>3. QED BY <1>1, <1>2, <2>1, <2>2, ListsKeep
<1>6. QED BY <1>3, <1>4, <1>5

(* A fragment is lost.                                                     *)
LEMMA ListsLose ==
  ASSUME LInv, NEW s \in Nodes, NEW r \in Readers, Lose(s, r)
  PROVE  LInv'
<1>1. SInv /\ TInv /\ SInv' /\ Apart /\ Addressed /\ Covered
  BY ShortMesh DEF LInv, SInv
<1>2. PICK p : p = <<s, r>>
  OBVIOUS
<1>3. /\ p \in Nodes \X Readers /\ path[p] # <<>> /\ path' = [path EXCEPT ![p] = Tail(@)]
      /\ UNCHANGED <<plan, parent, tx, written, rx, got>> /\ Happens("loss") /\ "loss" \in Events
  BY <1>2 DEF Lose, Events
<1>4. (Faults # 0)'
  BY <1>1, <1>3, FaultsCounted
<1>5. \A q \in CallPlaces \cup GotPlaces : \A x : Holds(q, x)' <=> Holds(q, x)
  <2>1. ASSUME NEW q \in CallPlaces PROVE \A x : Holds(q, x)' <=> Holds(q, x)
    <3>1. PICK u \in Tasks : q = <<"call", u>>
      BY DEF CallPlaces
    <3>2. \A x : InHand(u, x)' <=> InHand(u, x)
      BY <1>3, CallStays
    <3>3. QED BY <3>1, <3>2, CallPlace
  <2>2. ASSUME NEW q \in GotPlaces PROVE \A x : Holds(q, x)' <=> Holds(q, x)
    <3>1. PICK o \in Readers, k \in Index : q = <<"got", <<o, k>>>>
      BY DEF GotPlaces
    <3>2. \A x : Delivered(o, k, x)' <=> Delivered(o, k, x)
      BY <1>3, GotStays
    <3>3. QED BY <3>1, <3>2, GotPlace
  <2>3. QED BY <2>1, <2>2
<1>6. PICK l \in Index : l = Len(got[r]) + 1
  <2>1. got[r] \in Seq(Seq(Part))
    BY <1>1 DEF SInv, ShortGot
  <2>2. QED BY <2>1 DEF Index
<1>7. PICK to \in GotPlaces : to = <<"got", <<r, l>>>>
  <2>1. <<"got", <<r, l>>>> \in GotPlaces
    BY DEF GotPlaces
  <2>2. QED BY <2>1
<1>8. \A x : ~Holds(to, x)
  <2>1. ~(l <= Len(got[r]))
    <3>1. PICK a : a = Len(got[r])
      OBVIOUS
    <3>2. got[r] \in Seq(Seq(Part))
      BY <1>1 DEF SInv, ShortGot
    <3>3. a \in Nat
      BY <3>1, <3>2
    <3>4. QED BY <1>6, <3>1, <3>3
  <2>2. \A x : ~Delivered(r, l, x)
    BY <2>1 DEF Delivered
  <2>3. QED BY <1>7, <2>2, GotPlace
<1>9. Apart' /\ Addressed' /\ Covered'
  <2>1. \A x \in Pairs : Holds(to, x)' => OnTheWay(p, 1, x)
    BY <1>5, <1>7, <1>8
  <2>2. QED BY <1>1, <1>3, <1>4, <1>5, <1>7, <2>1, HeadTaken
<1>10. PathsDirect'
  BY <1>1, <1>3, DirectStays DEF LInv
<1>11. CallsStraight' /\ NothingFailed'
  BY <1>3, <1>4 DEF LInv, CallsStraight, NothingFailed, Straight, Sending
<1>12. ShortLists'
  BY <1>3, ListsStay DEF LInv
<1>13. QED BY <1>1, <1>9, <1>10, <1>11, <1>12 DEF LInv

LEMMA ListsStart == Init /\ ShortLists => LInv
<1> SUFFICES ASSUME Init, ShortLists PROVE LInv
  OBVIOUS
<1>1. SInv /\ NoCall.pc = "idle"
  BY ShortStart DEF ShortLists, NoCall
<1>2. \A t \in Tasks : tx[t].pc = "idle"
  BY <1>1 DEF Init
<1>3. \A k \in Index : ~(k <= Len(<<>>))
  BY DEF Index
<1>4. ASSUME NEW q \in Places PROVE \A x : ~Holds(q, x)
  <2>1. CASE \E t \in Tasks : q = <<"call", t>>
    <3>1. PICK t \in Tasks : q = <<"call", t>>
      BY <2>1
    <3>2. \A x : ~InHand(t, x)
      BY <1>2 DEF InHand
    <3>3. QED BY <3>1, <3>2, CallPlace
  <2>2. CASE \E p \in Nodes \X Readers, k \in Index : q = <<"path", <<p, k>>>>
    <3>1. PICK p \in Nodes \X Readers, k \in Index : q = <<"path", <<p, k>>>>
      BY <2>2
    <3>2. \A x : ~OnTheWay(p, k, x)
      BY <1>3 DEF Init, OnTheWay
    <3>3. QED BY <3>1, <3>2, PathPlace
  <2>3. CASE \E r \in Readers, k \in Index : q = <<"got", <<r, k>>>>
    <3>1. PICK r \in Readers, k \in Index : q = <<"got", <<r, k>>>>
      BY <2>3
    <3>2. \A x : ~Delivered(r, k, x)
      BY <1>3 DEF Init, Delivered
    <3>3. QED BY <3>1, <3>2, GotPlace
  <2>4. QED BY <2>1, <2>2, <2>3, PlaceKinds
<1>5. WrittenParts = {}
  <2>1. ASSUME NEW z \in WrittenParts PROVE FALSE
    <3>1. z \in Part /\ z[2] <= written[z[1]]
      BY <2>1 DEF WrittenParts
    <3>2. z[1] \in Writers /\ z[2] \in 1 .. MaxWrites
      BY <3>1 DEF Part
    <3>3. written[z[1]] = 0
      BY <3>2 DEF Init
    <3>4. PICK a : a = z[2]
      OBVIOUS
    <3>5. a \in Int /\ 1 <= a /\ a <= 0
      BY <3>1, <3>2, <3>3, <3>4, MwifiAssumption
    <3>6. QED BY <3>5
  <2>2. QED BY <2>1
<1>6. Apart /\ Addressed /\ Covered
  BY <1>4, <1>5 DEF Apart, Addressed, Covered, Tokens
<1>7. CallsStraight /\ NothingFailed
  BY <1>2 DEF CallsStraight, NothingFailed
<1>8. PathsDirect
  BY DEF Init, PathsDirect
<1>9. QED BY <1>1, <1>6, <1>7, <1>8 DEF LInv

LEMMA ListsStep == LInv /\ [Next]_vars => LInv'
<1> SUFFICES ASSUME LInv, [Next]_vars PROVE LInv'
  OBVIOUS
<1>1. CASE \E w \in Writers :
             \/ WriteNode(w) \/ WriteGroup(w) \/ RootWriteEach(w) \/ RootWriteList(w)
             \/ WriteReturns(w)
  BY <1>1, ListsWrite, ListsWriteReturns
<1>2. CASE \E t \in Tasks : Calls(t)
  BY <1>2, ListsLoop, ListsSend, ListsSendFails DEF Calls
<1>3. CASE \E n, s \in Nodes, again \in BOOLEAN : NodeReads(n, s, again)
  BY <1>3, ListsNodeReads
<1>4. CASE \E s \in Nodes, again \in BOOLEAN : RootReads(s, again)
  BY <1>4, ListsRootReads
<1>5. CASE \E n \in Nodes : ForwardReturns(n)
  BY <1>5, ListsForwardReturns
<1>6. CASE (\E r \in Readers : Timeout(r) \/ NotStarted(r)) \/ (\E n, p \in Nodes : Move(n, p))
           \/ UNCHANGED vars
  BY <1>6, ListsWait
<1>7. CASE \E r \in Readers, s \in Nodes : Lose(s, r)
  BY <1>7, ListsLose
<1>8. QED BY <1>1, <1>2, <1>3, <1>4, <1>5, <1>6, <1>7 DEF Next

(* A returned packet is the token of its part and its reader.              *)
LEMMA ReturnedToken ==
  ASSUME LInv, NEW r \in Readers, NEW k \in DOMAIN got[r]
  PROVE  \E z \in WrittenParts :
           /\ got[r][k] = <<z>> /\ got[r][k][1] = z /\ k \in Index /\ <<z, r>> \in Pairs
           /\ <<"got", <<r, k>>>> \in Places /\ Holds(<<"got", <<r, k>>>>, <<z, r>>)
<1>1. got[r] \in Seq(Seq(Part)) /\ SInv
  BY DEF LInv, SInv, ShortGot
<1>2. k \in 1 .. Len(got[r]) /\ k \in Index /\ k <= Len(got[r]) /\ got[r][k] \in Seq(Part)
  BY <1>1 DEF Index
<1>3. Len(got[r][k]) = 1 /\ got[r][k][1] \in WrittenParts
  BY <1>1, <1>2 DEF SInv, ShortGot
<1>4. PICK y \in Seq(Part), z \in WrittenParts : y = got[r][k] /\ z = y[1]
  BY <1>2, <1>3
<1>5. y = <<z>>
  BY <1>3, <1>4
<1>6. PICK x : x = <<z, r>>
  OBVIOUS
<1>7. x[1] = z /\ x[2] = r /\ x \in Pairs
  BY <1>6 DEF Pairs, WrittenParts
<1>8. Delivered(r, k, x)
  BY <1>2, <1>4, <1>7 DEF Delivered
<1>9. <<"got", <<r, k>>>> \in Places /\ Holds(<<"got", <<r, k>>>>, x)
  BY <1>2, <1>8, GotPlace
<1>10. QED BY <1>2, <1>4, <1>5, <1>6, <1>7, <1>9

(* Packets to a node or to a list of nodes that each fit one fragment are  *)
(* returned at most once, and only by the readers they are for, whichever  *)
(* way down the tree they take while nodes change their parent,            *)
(* fragments are lost, and sends, queries and waits fail, when the mesh    *)
(* repeats no fragment: the addresses that mwifi_transmit_write() gives to *)
(* a child leave its list.                                                 *)
THEOREM ShortListsOnce == Spec => [](ShortLists => OnceAndAddressed)
<1> DEFINE I == ShortLists => LInv
<1>1. Init => I
  BY ListsStart
<1>2. I /\ [Next]_vars => I'
  BY ListsStep, PlanStays DEF ShortLists, ShortPackets
<1>3. I => (ShortLists => OnceAndAddressed)
  <2> SUFFICES ASSUME LInv PROVE OnceAndAddressed
    OBVIOUS
  <2>1. TInv /\ Apart /\ Addressed
    BY DEF LInv, SInv
  <2>2. ASSUME NEW r \in Readers, NEW a \in DOMAIN got[r], NEW b \in DOMAIN got[r], got[r][a] = got[r][b]
        PROVE  a = b
    <3>1. PICK z \in WrittenParts :
            /\ got[r][a] = <<z>> /\ got[r][a][1] = z /\ a \in Index /\ <<z, r>> \in Pairs
            /\ <<"got", <<r, a>>>> \in Places /\ Holds(<<"got", <<r, a>>>>, <<z, r>>)
      BY ReturnedToken
    <3>2. PICK y \in WrittenParts :
            /\ got[r][b] = <<y>> /\ got[r][b][1] = y /\ b \in Index /\ <<y, r>> \in Pairs
            /\ <<"got", <<r, b>>>> \in Places /\ Holds(<<"got", <<r, b>>>>, <<y, r>>)
      BY ReturnedToken
    <3>3. y = z
      BY <2>2, <3>1, <3>2
    <3>4. <<"got", <<r, a>>>> = <<"got", <<r, b>>>>
      BY <2>1, <3>1, <3>2, <3>3 DEF Apart
    <3>5. QED BY <3>4
  <2>3. ASSUME NEW r \in Readers, NEW k \in DOMAIN got[r]
        PROVE  \E m \in Written : r \in For(m[1], m[2]) /\ got[r][k][1][1] = m[1]
                                                      /\ got[r][k][1][2] = m[2]
    <3>1. PICK z \in WrittenParts :
            /\ got[r][k] = <<z>> /\ got[r][k][1] = z /\ k \in Index /\ <<z, r>> \in Pairs
            /\ <<"got", <<r, k>>>> \in Places /\ Holds(<<"got", <<r, k>>>>, <<z, r>>)
      BY ReturnedToken
    <3>2. <<z, r>> \in Tokens
      BY <2>1, <3>1 DEF Addressed
    <3>3. r \in For(z[1], z[2])
      BY <3>2 DEF Tokens
    <3>4. PICK m : m = <<z[1], z[2]>>
      OBVIOUS
    <3>5. m[1] = z[1] /\ m[2] = z[2] /\ m \in Written
      BY <3>4 DEF Written, WrittenParts, Part
    <3>6. r \in For(m[1], m[2]) /\ got[r][k][1][1] = m[1] /\ got[r][k][1][2] = m[2]
      BY <3>1, <3>3, <3>5
    <3>7. QED BY <3>5, <3>6
  <2>4. \A r \in Readers : IsInjective(got[r])
    BY <2>2 DEF IsInjective
  <2>5. QED BY <2>3, <2>4 DEF OnceAndAddressed, Undisturbed
<1>4. QED BY <1>1, <1>2, <1>3, PTL DEF Spec

(* And when nothing failed and nothing was lost, every reader such a       *)
(* packet is for has returned it once all calls are over: the addresses    *)
(* that mwifi_transmit_write() finds below none of its children, because   *)
(* they moved while it asked, are sent to directly (the loop over          *)
(* addrs_list that follows the one over the children).                     *)
THEOREM ShortListsReached == Spec => [](ShortLists => AllReached)
<1> DEFINE I == ShortLists => LInv
<1>1. Init => I
  BY ListsStart
<1>2. I /\ [Next]_vars => I'
  BY ListsStep, PlanStays DEF ShortLists, ShortPackets
<1>3. I => (ShortLists => AllReached)
  <2> SUFFICES ASSUME LInv, Quiet, Faults = 0, NEW m \in Written, NEW r \in For(m[1], m[2])
               PROVE  Has(r, m[1], m[2])
    BY DEF AllReached
  <2>1. SInv /\ TInv /\ ShortPackets /\ ShortLists /\ Covered
    BY DEF LInv, SInv
  <2>2. PICK w \in Writers, i \in 1 .. MaxWrites : m = <<w, i>> /\ m[1] = w /\ m[2] = i /\ i <= written[w]
    BY DEF Written
  <2>3. i \in 1 .. Len(plan.writes[w]) /\ i \in DOMAIN plan.writes[w]
    BY <2>1, <2>2, WrittenPlanned
  <2>4. PICK z \in Part : z = <<w, i, 1>> /\ z[1] = w /\ z[2] = i /\ z[3] = 1 /\ Parts(w, i) = <<z>>
    BY <2>1, <2>3, ShortParts
  <2>5. r \in Readers
    <3>1. PICK p : p = plan.writes[w][i]
      OBVIOUS
    <3>2. p \in Packet /\ p.kind # "group" /\ (p.kind = "list" => p.to \subseteq Nodes)
      BY <2>1, <2>3, <3>1, PacketWritten DEF TInv, ShortLists
    <3>3. Nodes \subseteq Readers /\ r \in For(w, i)
      BY <2>2 DEF Readers
    <3>4. CASE p.kind = "node"
      <4>1. p.to \in Readers /\ {p.to} # {Everyone} /\ {p.to} # {Others}
        <5>1. p.to \in Readers
          BY <3>2, <3>4 DEF Packet
        <5>2. QED BY <5>1, MwifiAssumption
      <4>2. For(w, i) = {p.to}
        BY <3>1, <3>4, <4>1 DEF For
      <4>3. QED BY <3>3, <4>1, <4>2
    <3>5. CASE p.kind \in {"each", "list"}
      <4>1. p.to \subseteq Nodes \/ p.to = {Everyone} \/ p.to = {Others}
        BY <3>2, <3>5 DEF Packet
      <4>2. For(w, i) \subseteq Nodes
        BY <3>1, <3>5, <4>1 DEF For
      <4>3. QED BY <3>3, <4>2
    <3>6. QED BY <3>2, <3>4, <3>5 DEF Packet
  <2>6. PICK x : x = <<z, r>>
    OBVIOUS
  <2>7. x[1] = z /\ x[2] = r /\ x \in Tokens
    <3>1. z \in WrittenParts
      BY <2>2, <2>4 DEF WrittenParts
    <3>2. r \in For(w, i)
      BY <2>2
    <3>3. QED BY <2>4, <2>5, <2>6, <3>1, <3>2 DEF Tokens, Pairs
  <2>8. PICK q \in Places : Holds(q, x)
    BY <2>1, <2>7 DEF Covered
  <2>9. PICK o \in Readers, k \in Index : q = <<"got", <<o, k>>>>
    <3>1. ASSUME NEW t \in Tasks, q = <<"call", t>> PROVE FALSE
      <4>1. InHand(t, x)
        BY <2>8, <3>1, CallPlace
      <4>2. QED BY <4>1 DEF InHand, Quiet
    <3>2. ASSUME NEW p \in Nodes \X Readers, NEW k \in Index, q = <<"path", <<p, k>>>> PROVE FALSE
      <4>1. OnTheWay(p, k, x)
        BY <2>8, <3>2, PathPlace
      <4>2. path[p] = <<>>
        BY <2>1 DEF Quiet, TInv, PathsTyped
      <4>3. QED BY <4>1, <4>2 DEF OnTheWay, Index
    <3>3. QED BY <3>1, <3>2, PlaceKinds
  <2>10. o = r /\ k <= Len(got[r]) /\ got[r][k][1] = z
    <3>1. Delivered(o, k, x)
      BY <2>8, <2>9, GotPlace
    <3>2. QED BY <2>7, <3>1 DEF Delivered
  <2>11. k \in DOMAIN got[r]
    <3>1. got[r] \in Seq(Seq(Part))
      BY <2>1, <2>5 DEF SInv, ShortGot
    <3>2. PICK g \in Seq(Seq(Part)) : g = got[r]
      BY <3>1
    <3>3. k \in DOMAIN g
      BY <2>10, <3>2 DEF Index
    <3>4. QED BY <3>2, <3>3
  <2>12. got[r][k] = <<z>>
    BY <2>5, <2>10, <2>11, ReturnedToken
  <2>13. QED BY <2>2, <2>4, <2>11, <2>12 DEF Has, Range
<1>4. QED BY <1>1, <1>2, <1>3, PTL DEF Spec

=============================================================================
