--------------------------- MODULE Mespnow_proofs ---------------------------
(***************************************************************************)
(* Proofs about ESP-NOW packets, for any tasks and nodes, any packets, any *)
(* number of retries and room in the queues.                               *)
(*                                                                         *)
(* AcknowledgedIsHeard: as long as no callback was late and no frame       *)
(* damaged, MDF_OK means that every frame of the packet was received.  The *)
(* send lock keeps other tasks of the node away from the event group, the  *)
(* bits are clear when a frame goes out, and one frame of a node is on the *)
(* air at a time; so an acknowledgement is the one of the frame its task   *)
(* waits for.                                                              *)
(*                                                                         *)
(* PacketsKeepOrder: a reader returns the packets of a writer in their     *)
(* order and once, when the writers of its pipe are tasks of one node: the *)
(* receive callback remembers the last frame only.                         *)
(*                                                                         *)
(* PacketTypes: the types.                                                 *)
(*                                                                         *)
(* PacketsAreWhole: what a reader returns was written, whole and with its  *)
(* frames in their order, under the same condition on its writers: with no *)
(* frame damaged unless it is the only fault, and no more than late        *)
(* callbacks, or than lost frames, otherwise.                              *)
(***************************************************************************)
EXTENDS Mespnow, TLAPS

Pcs     == {"idle", "lock", "frame", "send", "wait"}
Places  == [pc : Pcs, seq : Nat, left : Nat]
Returns == {"OK", "FAIL", "TIMEOUT", "NO_MEM"}

Typed ==
  /\ used \in [Events -> Nat]
  /\ lock \in [Nodes -> Nodes \cup Writers]
  /\ bits \in [Nodes -> SUBSET {"OK", "FAIL"}]
  /\ tx \in [Writers -> Places]
  /\ result \in [Writers -> Seq(Returns)]
  /\ DOMAIN air = Nodes /\ DOMAIN heard = Readers

(* The tasks of a node write one after the other.                          *)
Busy(w) == tx[w].pc \in {"frame", "send", "wait"}
Exclusive == \A w \in Writers : Busy(w) => lock[Home[w]] = w

(* As long as no callback is late, what the radio of a node has is the     *)
(* frame a task waits for, and nothing is left from an earlier one.        *)
Prompt == used["late callback"] = 0
OnAir(n) ==
  air[n] # <<>> =>
    \E w \in Writers :
      /\ Home[w] = n /\ tx[w].pc = "wait" /\ bits[n] = {}
      /\ air[n] = <<Frame(w)>>

Clear(w) == tx[w].pc = "send" => bits[Home[w]] = {}

Reached(w, i, k) == <<w, i, k>> \in heard[Target[w]]

Sent(w) ==
  /\ Busy(w) => \A k \in 0 .. tx[w].seq - 1 : Reached(w, Current(w), k)
  /\ tx[w].pc = "wait" /\ "OK" \in bits[Home[w]] => Reached(w, Current(w), tx[w].seq)
  /\ \A i \in DOMAIN result[w] :
       result[w][i] = "OK" => \A k \in 1 .. Size(w, i) : Reached(w, i, k - 1)

Noticed == Without(Unnoticed)

EInv ==
  /\ Typed /\ Exclusive
  /\ Prompt => /\ \A n \in Nodes : OnAir(n)
               /\ \A w \in Writers : Clear(w)
  /\ Noticed => \A w \in Writers : Sent(w)

LEMMA Homes ==
  /\ \A w \in Writers : Home[w] \in Nodes /\ Target[w] \in Readers
  /\ Nodes \cap Writers = {}
  BY MespnowAssumption DEF MespnowAssumption

LEMMA EStarts == Init => EInv
<1> SUFFICES ASSUME Init PROVE EInv
  OBVIOUS
<1>1. Typed
  BY Homes DEF Init, Typed, Places, Pcs, Returns
<1>2. Exclusive
  BY DEF Init, Exclusive, Busy
<1>3. \A n \in Nodes : OnAir(n)
  BY DEF Init, OnAir
<1>4. \A w \in Writers : Sent(w)
  BY DEF Init, Sent, Busy
<1>5. \A w \in Writers : Clear(w)
  BY DEF Init, Clear
<1>6. QED BY <1>1, <1>2, <1>3, <1>4, <1>5 DEF EInv

LEMMA HappensTyped ==
  ASSUME Typed, NEW e \in Events, Happens(e)
  PROVE  /\ used' \in [Events -> Nat]
         /\ \A k \in Events : used'[k] = 0 => used[k] = 0
         /\ used'[e] # 0
  BY DEF Typed, Happens

(* Nothing but a new frame or an acknowledgement moves a task that waits.  *)
LEMMA AppendResult ==
  ASSUME Typed, NEW w \in Writers, NEW r \in Returns
  PROVE  /\ Append(result[w], r) \in Seq(Returns)
         /\ Len(result[w]) \in Nat
         /\ DOMAIN Append(result[w], r) = 1 .. Current(w)
         /\ Append(result[w], r)[Current(w)] = r
         /\ \A i \in 1 .. Current(w) : i # Current(w) =>
              i \in DOMAIN result[w] /\ Append(result[w], r)[i] = result[w][i]
  BY DEF Typed, Current

(* A return, of a packet whose frames were all received if it is MDF_OK.   *)
LEMMA ReturnSent ==
  ASSUME Typed, NEW w \in Writers, Sent(w), heard' = heard, plan' = plan,
         NEW r \in Returns, Return(w, r),
         r = "OK" => \A k \in 1 .. Size(w, Current(w)) : Reached(w, Current(w), k - 1)
  PROVE  Sent(w)'
<1> DEFINE q == Append(result[w], r)
<1>1. tx'[w].pc = "idle" /\ result'[w] = q
  BY DEF Return, Goto, Typed
<1>2. /\ DOMAIN q = 1 .. Current(w) /\ q[Current(w)] = r
      /\ \A i \in 1 .. Current(w) : i # Current(w) =>
           i \in DOMAIN result[w] /\ q[i] = result[w][i]
  BY AppendResult
<1> HIDE DEF q
<1>3. ASSUME NEW i \in DOMAIN result'[w], result'[w][i] = "OK"
      PROVE  \A k \in 1 .. Size(w, i) : Reached(w, i, k - 1)
  <2>1. CASE i = Current(w)
    BY <1>1, <1>2, <1>3, <2>1
  <2>2. CASE i # Current(w)
    <3>1. i \in DOMAIN result[w] /\ result[w][i] = "OK"
      BY <1>1, <1>2, <1>3, <2>2
    <3>2. QED BY <3>1 DEF Sent
  <2>3. QED BY <2>1, <2>2
<1>4. QED BY <1>1, <1>3 DEF Sent, Busy, Reached, Size

(* The other tasks of the node do not write, those of others are not       *)
(* concerned.                                                              *)
LEMMA OthersSent ==
  ASSUME Typed, NEW w \in Writers, NEW v \in Writers, v # w, Sent(v),
         tx'[v] = tx[v], result'[v] = result[v], heard' = heard, plan' = plan,
         Busy(v) => bits'[Home[v]] = bits[Home[v]]
  PROVE  Sent(v)'
  BY DEF Sent, Busy, Reached, Size, Current

(* A task that does not wait, and that has its node for itself, finds      *)
(* nothing on the air.                                                     *)
LEMMA AirIsClear ==
  ASSUME Exclusive, NEW w \in Writers, OnAir(Home[w]), lock[Home[w]] = w,
         tx[w].pc # "wait"
  PROVE  air[Home[w]] = <<>>
  BY DEF Exclusive, OnAir, Busy

LEMMA ReturnTyped ==
  ASSUME Typed, NEW w \in Writers, NEW r \in Returns,
         Return(w, r)
  PROVE  /\ tx' \in [Writers -> Places]
         /\ result' \in [Writers -> Seq(Returns)]
         /\ tx'[w].pc = "idle"
         /\ \A v \in Writers \ {w} : tx'[v] = tx[v] /\ result'[v] = result[v]
<1>1. tx' = [tx EXCEPT ![w].pc = "idle"]
  BY DEF Return, Goto
<1>2. /\ tx' \in [Writers -> Places]
      /\ tx'[w].pc = "idle" /\ \A v \in Writers \ {w} : tx'[v] = tx[v]
  BY <1>1 DEF Typed, Places, Pcs
<1> DEFINE q == Append(result[w], r)
<1>3. q \in Seq(Returns) /\ result' = [result EXCEPT ![w] = q]
  BY AppendResult DEF Return
<1> HIDE DEF q
<1>4. /\ result' \in [Writers -> Seq(Returns)]
      /\ \A v \in Writers \ {w} : result'[v] = result[v]
  BY <1>3 DEF Typed
<1>5. QED BY <1>2, <1>4

LEMMA TxTyped ==
  ASSUME Typed
  PROVE  tx \in [Writers -> [pc : Pcs, seq : Nat, left : Nat]]
  BY DEF Typed, Places

LEMMA Moves ==
  ASSUME Typed, NEW w \in Writers, NEW t \in Places, tx' = [tx EXCEPT ![w] = t]
  PROVE  /\ tx' \in [Writers -> Places] /\ tx'[w] = t
         /\ \A v \in Writers \ {w} : tx'[v] = tx[v]
  BY DEF Typed

LEMMA SendAgainTyped ==
  ASSUME Typed, NEW w \in Writers, SendAgain(w)
  PROVE  /\ tx' \in [Writers -> Places]
         /\ result' \in [Writers -> Seq(Returns)]
         /\ lock' \in [Nodes -> Nodes \cup Writers]
         /\ \A v \in Writers \ {w} : tx'[v] = tx[v] /\ result'[v] = result[v]
<1>1. CASE Exit(w, "FAIL")
  <2>1. Return(w, "FAIL") /\ "FAIL" \in Returns /\ lock' \in [Nodes -> Nodes \cup Writers]
    BY <1>1, Homes DEF Exit, Typed, Returns
  <2>2. QED BY <2>1, ReturnTyped DEF Returns
<1>2. CASE /\ tx[w].left > 1 /\ tx' = [tx EXCEPT ![w].pc = "send", ![w].left = @ - 1]
           /\ UNCHANGED <<lock, result>>
  <2> DEFINE t == [tx[w] EXCEPT !.pc = "send", !.left = @ - 1]
  <2>1. t \in Places /\ tx' = [tx EXCEPT ![w] = t]
    BY <1>2, TxTyped DEF Places, Pcs
  <2>2. QED BY <1>2, <2>1, Moves DEF Typed
<1>3. QED BY <1>1, <1>2 DEF SendAgain

(***************************************************************************)
(* The steps of a task.                                                    *)
(***************************************************************************)
LEMMA TaskTyped ==
  ASSUME Typed, NEW w \in Writers, Call(w) \/ Writing(w)
  PROVE  Typed'
<1>0. /\ bits' \in [Nodes -> SUBSET {"OK", "FAIL"}] /\ used' \in [Events -> Nat]
      /\ heard' = heard
  <2>1. bits' = bits \/ bits' = [bits EXCEPT ![Home[w]] = {}]
    BY DEF Call, Writing, TakeLock, NoMemory, LockTimeout, SendError, Takes, StartFrame,
       SendFrame, Acked, Unacked, LateCallback
  <2>2. used' = used \/ \E e \in Events : Happens(e)
    BY DEF Call, Writing, TakeLock, NoMemory, LockTimeout, SendError, Takes, StartFrame,
       SendFrame, Acked, Unacked, LateCallback, Events
  <2>3. heard' = heard
    BY DEF Call, Writing, TakeLock, NoMemory, LockTimeout, SendError, Takes, StartFrame,
       SendFrame, Acked, Unacked, LateCallback, At, readVars
  <2>4. QED BY <2>1, <2>2, <2>3, HappensTyped DEF Typed
<1>1. air' = air \/ air' = [air EXCEPT ![Home[w]] = Append(@, Frame(w))]
  BY DEF Call, Writing, TakeLock, NoMemory, LockTimeout, SendError, Takes, StartFrame,
     SendFrame, Acked, Unacked, LateCallback
<1>2. DOMAIN air' = Nodes
  BY <1>1 DEF Typed
<1>3. lock' \in [Nodes -> Nodes \cup Writers]
  <2>1. CASE lock' = lock
    BY <2>1 DEF Typed
  <2>2. CASE Takes(w)
    BY <2>2, Homes DEF Takes, Typed
  <2>3. CASE SendAgain(w)
    BY <2>3, SendAgainTyped
  <2>4. CASE \E r \in Returns : Exit(w, r)
    BY <2>4, Homes DEF Exit, Typed
  <2>5. QED BY <2>1, <2>2, <2>3, <2>4 DEF Call, Writing, TakeLock, NoMemory, LockTimeout,
            SendError, StartFrame, SendFrame, Acked, Unacked, LateCallback, Returns
<1>4. /\ tx' \in [Writers -> Places]
      /\ result' \in [Writers -> Seq(Returns)]
  <2>1. CASE Call(w) \/ SendFrame(w)
    <3>1. PICK pc \in Pcs : tx' = [tx EXCEPT ![w].pc = pc]
      BY <2>1 DEF Call, SendFrame, Goto, Pcs
    <3> DEFINE t == [tx[w] EXCEPT !.pc = pc]
    <3>2. t \in Places /\ tx' = [tx EXCEPT ![w] = t] /\ result' = result
      BY <2>1, <3>1, TxTyped DEF Call, SendFrame, Places
    <3>3. QED BY <3>2, Moves DEF Typed
  <2>2. CASE TakeLock(w)
    <3> DEFINE t == [pc |-> "frame", seq |-> 0, left |-> 0]
    <3>1. t \in Places /\ tx' = [tx EXCEPT ![w] = t] /\ result' = result
      BY <2>2 DEF TakeLock, Places, Pcs
    <3>2. QED BY <3>1, Moves DEF Typed
  <2>3. CASE StartFrame(w)
    <3> DEFINE t == [tx[w] EXCEPT !.pc = "send", !.left = Retry]
    <3>1. t \in Places /\ tx' = [tx EXCEPT ![w] = t] /\ result' = result
      <4>1. Retry \in Nat /\ tx[w] \in Places
        BY MespnowAssumption DEF MespnowAssumption, Typed
      <4>2. ASSUME NEW p \in Places PROVE [p EXCEPT !.pc = "send", !.left = Retry] \in Places
        BY <4>1 DEF Places, Pcs
      <4>3. t \in Places
        BY <4>1, <4>2
      <4>4. tx' = [tx EXCEPT ![w] = t] /\ result' = result
        BY <2>3 DEF StartFrame, Typed
      <4>5. QED BY <4>3, <4>4
    <3>2. QED BY <3>1, Moves DEF Typed
  <2>4. CASE NoMemory(w) \/ LockTimeout(w) \/ SendError(w)
    BY <2>4, ReturnTyped DEF NoMemory, LockTimeout, SendError, Exit, Returns
  <2>5. CASE Acked(w)
    <3>1. CASE Exit(w, "OK")
      BY <3>1, ReturnTyped DEF Exit, Returns
    <3>2. CASE /\ tx' = [tx EXCEPT ![w].pc = "frame", ![w].seq = @ + 1]
               /\ UNCHANGED <<lock, result>>
      <4> DEFINE t == [tx[w] EXCEPT !.pc = "frame", !.seq = @ + 1]
      <4>1. t \in Places /\ tx' = [tx EXCEPT ![w] = t]
        BY <3>2, TxTyped DEF Places, Pcs
      <4>2. QED BY <3>2, <4>1, Moves DEF Typed
    <3>3. QED BY <2>5, <3>1, <3>2 DEF Acked
  <2>6. CASE Unacked(w) \/ LateCallback(w)
    BY <2>6, SendAgainTyped DEF Unacked, LateCallback
  <2>7. QED BY <2>1, <2>2, <2>3, <2>4, <2>5, <2>6 DEF Writing
<1>5. QED BY <1>0, <1>2, <1>3, <1>4 DEF Typed

(* A task writes only with the lock of its node, which others leave alone. *)
LEMMA TaskExclusive ==
  ASSUME Typed, Exclusive, NEW w \in Writers, Call(w) \/ Writing(w)
  PROVE  Exclusive'
<1>1. CASE Call(w)
  BY <1>1 DEF Exclusive, Busy, Call, At, Goto, Typed
<1>2. CASE TakeLock(w)
  BY <1>2, Homes DEF Exclusive, Busy, TakeLock, Takes, At, Typed
<1>3. CASE NoMemory(w)
  <2>1. /\ lock[Home[w]] = Home[w] /\ lock' = [lock EXCEPT ![Home[w]] = w]
        /\ tx'[w].pc = "idle" /\ \A v \in Writers \ {w} : tx'[v] = tx[v]
    BY <1>3, ReturnTyped DEF NoMemory, Takes, Returns
  <2>2. \A v \in Writers : Home[v] = Home[w] => ~Busy(v)
    BY <2>1, Homes DEF Exclusive
  <2>3. QED BY <2>1, <2>2, Homes DEF Exclusive, Busy, Typed
<1>4. CASE LockTimeout(w)
  BY <1>4, ReturnTyped DEF Exclusive, Busy, LockTimeout, At, Typed, Returns
<1>5. CASE StartFrame(w) \/ SendFrame(w)
  BY <1>5 DEF Exclusive, Busy, StartFrame, SendFrame, At, Goto, Typed
<1>6. ASSUME Busy(w), NEW r \in {"OK", "FAIL"}, Exit(w, r) PROVE Exclusive'
  <2>1. lock[Home[w]] = w
    BY <1>6 DEF Exclusive
  <2>2. /\ lock' = [lock EXCEPT ![Home[w]] = Home[w]]
        /\ tx'[w].pc = "idle" /\ \A v \in Writers \ {w} : tx'[v] = tx[v]
    BY <1>6, ReturnTyped DEF Exit, Returns
  <2>3. \A v \in Writers \ {w} : Home[v] = Home[w] => ~Busy(v)
    BY <2>1 DEF Exclusive
  <2>4. QED BY <2>2, <2>3, Homes DEF Exclusive, Busy, Typed
<1>7. ASSUME Busy(w), SendAgain(w) PROVE Exclusive'
  <2>1. CASE Exit(w, "FAIL")
    BY <1>6, <1>7, <2>1
  <2>2. CASE /\ tx' = [tx EXCEPT ![w].pc = "send", ![w].left = @ - 1]
             /\ UNCHANGED <<lock, result>>
    BY <1>7, <2>2 DEF Exclusive, Busy, Typed
  <2>3. QED BY <1>7, <2>1, <2>2 DEF SendAgain
<1>8. CASE SendError(w)
  BY <1>6, <1>8 DEF SendError, At, Busy
<1>9. CASE Acked(w)
  <2>1. CASE Exit(w, "OK")
    BY <1>6, <1>9, <2>1 DEF Acked, At, Busy
  <2>2. CASE /\ tx' = [tx EXCEPT ![w].pc = "frame", ![w].seq = @ + 1]
             /\ UNCHANGED <<lock, result>>
    BY <1>9, <2>2 DEF Acked, At, Exclusive, Busy, Typed
  <2>3. QED BY <1>9, <2>1, <2>2 DEF Acked
<1>10. CASE Unacked(w) \/ LateCallback(w)
  BY <1>7, <1>10 DEF Unacked, LateCallback, At, Busy
<1>11. QED BY <1>1, <1>2, <1>3, <1>4, <1>5, <1>8, <1>9, <1>10 DEF Writing

(* The tasks of other nodes, and those of the same node that wait for the  *)
(* lock, keep what they have.                                              *)
LEMMA OthersKeep ==
  ASSUME Typed, Exclusive, NEW w \in Writers, Call(w) \/ Writing(w),
         NEW v \in Writers, v # w
  PROVE  /\ tx'[v] = tx[v] /\ result'[v] = result[v]
         /\ heard' = heard /\ plan' = plan
         /\ Busy(v) => bits'[Home[v]] = bits[Home[v]]
<1>1. tx'[v] = tx[v] /\ result'[v] = result[v] /\ heard' = heard /\ plan' = plan
  <2>1. CASE Call(w) \/ TakeLock(w) \/ StartFrame(w) \/ SendFrame(w)
    BY <2>1 DEF Call, TakeLock, Takes, StartFrame, SendFrame, At, Goto, readVars, Typed
  <2>2. CASE NoMemory(w) \/ LockTimeout(w) \/ SendError(w)
    BY <2>2, ReturnTyped DEF NoMemory, LockTimeout, SendError, Takes, Exit, At, readVars, Returns
  <2>3. CASE Acked(w)
    BY <2>3, ReturnTyped DEF Acked, Exit, At, readVars, Typed, Returns
  <2>4. CASE Unacked(w) \/ LateCallback(w)
    BY <2>4, SendAgainTyped DEF Unacked, LateCallback, At, readVars
  <2>5. QED BY <2>1, <2>2, <2>3, <2>4 DEF Writing
<1>2. Busy(v) => bits'[Home[v]] = bits[Home[v]]
  <2>1. CASE Busy(w)
    <3>1. Busy(v) => Home[v] # Home[w]
      BY <2>1 DEF Exclusive
    <3>2. bits' = bits \/ bits' = [bits EXCEPT ![Home[w]] = {}]
      BY DEF Call, Writing, TakeLock, NoMemory, LockTimeout, SendError, Takes, StartFrame,
         SendFrame, Acked, Unacked, LateCallback
    <3>3. QED BY <3>1, <3>2, Homes DEF Typed
  <2>2. CASE ~Busy(w)
    BY <2>2 DEF Busy, At, Call, Writing, TakeLock, NoMemory, LockTimeout, SendError, Takes,
       StartFrame, SendFrame, Acked, Unacked, LateCallback
  <2>3. QED BY <2>1, <2>2
<1>3. QED BY <1>1, <1>2

LEMMA TaskOthers ==
  ASSUME Typed, Exclusive, NEW w \in Writers, Call(w) \/ Writing(w),
         NEW v \in Writers, v # w, Sent(v)
  PROVE  Sent(v)'
  BY OthersKeep, OthersSent

(* The event group is clear when a frame goes out.                         *)
LEMMA TaskClear ==
  ASSUME Typed, Exclusive, NEW w \in Writers, Call(w) \/ Writing(w), ~LateCallback(w),
         NEW v \in Writers, Clear(v)
  PROVE  Clear(v)'
<1>1. CASE v # w
  BY <1>1, OthersKeep DEF Clear, Busy
<1>2. CASE v = w
  <2>1. tx'[w].pc = "send" => StartFrame(w) \/ Unacked(w)
    <3>1. CASE Call(w) \/ TakeLock(w) \/ SendFrame(w)
      BY <3>1, TxTyped DEF Call, TakeLock, SendFrame, Goto
    <3>2. CASE NoMemory(w) \/ LockTimeout(w) \/ SendError(w)
      BY <3>2, ReturnTyped DEF NoMemory, LockTimeout, SendError, Exit, Returns
    <3>3. CASE Acked(w)
      <4>1. CASE Exit(w, "OK")
        BY <4>1, ReturnTyped DEF Exit, Returns
      <4>2. CASE tx' = [tx EXCEPT ![w].pc = "frame", ![w].seq = @ + 1]
        BY <4>2, TxTyped
      <4>3. QED BY <3>3, <4>1, <4>2 DEF Acked
    <3>4. QED BY <3>1, <3>2, <3>3 DEF Writing
  <2>2. StartFrame(w) \/ Unacked(w) => bits'[Home[w]] = {}
    BY Homes DEF StartFrame, Unacked, Typed
  <2>3. QED BY <1>2, <2>1, <2>2 DEF Clear
<1>3. QED BY <1>1, <1>2

(* What the task itself knows of its packet.                               *)
LEMMA TaskSent ==
  ASSUME Typed, Exclusive, NEW w \in Writers, Call(w) \/ Writing(w), ~LateCallback(w),
         Clear(w), Sent(w)
  PROVE  Sent(w)'
<1>1. heard' = heard /\ plan' = plan
  BY DEF Call, Writing, TakeLock, NoMemory, LockTimeout, SendError, Takes, StartFrame,
     SendFrame, Acked, Unacked, LateCallback, At, readVars
<1>2. ASSUME NEW r \in {"FAIL", "TIMEOUT", "NO_MEM"}, Return(w, r) PROVE Sent(w)'
  BY <1>1, <1>2, ReturnSent DEF Returns
<1>3. CASE Call(w)
  BY <1>1, <1>3 DEF Call, At, Goto, Typed, Sent, Busy, Reached, Size
<1>4. CASE TakeLock(w)
  BY <1>1, <1>4 DEF TakeLock, Takes, At, Typed, Sent, Busy, Reached, Size
<1>5. CASE NoMemory(w) \/ LockTimeout(w) \/ SendError(w)
  BY <1>2, <1>5 DEF NoMemory, LockTimeout, SendError, Exit
<1>6. CASE StartFrame(w)
  BY <1>1, <1>6, Homes DEF StartFrame, At, Typed, Sent, Busy, Reached, Size, Current
<1>7. CASE SendFrame(w)
  BY <1>1, <1>7, Homes DEF SendFrame, At, Goto, Typed, Clear, Sent, Busy, Reached, Size, Current
<1>8. CASE Acked(w)
  <2>1. \A k \in 0 .. tx[w].seq : Reached(w, Current(w), k)
    <3>1. Reached(w, Current(w), tx[w].seq)
      BY <1>8 DEF Acked, At, Acknowledges, Sent
    <3>2. \A k \in 0 .. tx[w].seq - 1 : Reached(w, Current(w), k)
      BY <1>8 DEF Acked, At, Sent, Busy
    <3>3. tx[w].seq \in Nat
      BY TxTyped
    <3>4. QED BY <3>1, <3>2, <3>3
  <2>2. CASE LastFrame(w) /\ Exit(w, "OK")
    <3>1. \A k \in 1 .. Size(w, Current(w)) : k - 1 \in 0 .. tx[w].seq
      BY <2>2, TxTyped DEF LastFrame
    <3>2. QED BY <1>1, <2>1, <2>2, <3>1, ReturnSent DEF Exit, Returns
  <2>3. CASE /\ tx' = [tx EXCEPT ![w].pc = "frame", ![w].seq = @ + 1]
             /\ UNCHANGED <<lock, result>>
    <3>1. tx'[w].pc = "frame" /\ tx'[w].seq = tx[w].seq + 1 /\ tx[w].seq \in Nat
      BY <2>3, TxTyped
    <3>2. \A k \in 0 .. tx'[w].seq - 1 : Reached(w, Current(w), k)
      BY <2>1, <3>1
    <3>3. QED BY <1>1, <2>3, <3>1, <3>2 DEF Sent, Busy, Reached, Size, Current
  <2>4. QED BY <1>8, <2>2, <2>3 DEF Acked
<1>9. CASE Unacked(w)
  <2>1. CASE Exit(w, "FAIL")
    BY <1>2, <2>1 DEF Exit
  <2>2. CASE /\ tx' = [tx EXCEPT ![w].pc = "send", ![w].left = @ - 1]
             /\ UNCHANGED <<lock, result>>
    <3>1. tx'[w].pc = "send" /\ tx'[w].seq = tx[w].seq /\ bits'[Home[w]] = {} /\ Busy(w)
      BY <1>9, <2>2, Homes DEF Unacked, At, Typed, Busy
    <3>2. QED BY <1>1, <2>2, <3>1 DEF Sent, Busy, Reached, Size, Current
  <2>3. QED BY <1>9, <2>1, <2>2 DEF Unacked, SendAgain
<1>10. QED BY <1>3, <1>4, <1>5, <1>6, <1>7, <1>8, <1>9 DEF Writing

LEMMA TaskOnAir ==
  ASSUME Typed, Exclusive, NEW w \in Writers, Call(w) \/ Writing(w), ~LateCallback(w),
         Clear(w), \A n \in Nodes : OnAir(n)
  PROVE  \A n \in Nodes : OnAir(n)'
<1> SUFFICES ASSUME NEW n \in Nodes PROVE OnAir(n)'
  OBVIOUS
<1>0. \A v \in Writers \ {w} : tx'[v] = tx[v] /\ result'[v] = result[v]
  <2>1. CASE Call(w) \/ TakeLock(w) \/ StartFrame(w) \/ SendFrame(w)
    BY <2>1 DEF Call, TakeLock, Takes, StartFrame, SendFrame, At, Goto, Typed
  <2>2. CASE NoMemory(w) \/ LockTimeout(w) \/ SendError(w)
    BY <2>2, ReturnTyped DEF NoMemory, LockTimeout, SendError, Takes, Exit, Returns
  <2>3. CASE Acked(w)
    BY <2>3, ReturnTyped DEF Acked, Exit, Typed, Returns
  <2>4. CASE Unacked(w)
    BY <2>4, SendAgainTyped DEF Unacked
  <2>5. QED BY <2>1, <2>2, <2>3, <2>4 DEF Writing
<1>1. CASE SendFrame(w)
  <2>1. CASE n = Home[w]
    <3>1. air[n] = <<>> /\ bits[n] = {}
      BY <1>1, <2>1, AirIsClear DEF SendFrame, At, Busy, Exclusive, Clear
    <3>2. /\ tx'[w].pc = "wait" /\ bits' = bits /\ Frame(w)' = Frame(w)
          /\ air'[n] = <<Frame(w)>>
      BY <1>1, <2>1, <3>1, Homes DEF SendFrame, At, Goto, Typed, Frame, Current
    <3>3. QED BY <2>1, <3>1, <3>2 DEF OnAir
  <2>2. CASE n # Home[w]
    <3>1. air'[n] = air[n] /\ bits' = bits
      BY <1>1, <2>2 DEF SendFrame, Typed
    <3>2. SUFFICES ASSUME air[n] # <<>> PROVE OnAir(n)'
      BY <3>1 DEF OnAir
    <3>3. PICK v \in Writers : /\ Home[v] = n /\ tx[v].pc = "wait" /\ bits[n] = {}
                               /\ air[n] = <<Frame(v)>>
      BY <3>2 DEF OnAir
    <3>4. tx'[v] = tx[v] /\ result'[v] = result[v]
      BY <1>0, <2>2, <3>3
    <3>5. QED BY <3>1, <3>3, <3>4 DEF OnAir, Frame, Current
  <2>3. QED BY <2>1, <2>2
<1>2. CASE ~SendFrame(w)
  <2>1. air' = air
    BY <1>2 DEF Call, Writing, TakeLock, NoMemory, LockTimeout, SendError, Takes, StartFrame,
       SendFrame, Acked, Unacked, LateCallback
  <2>2. bits' = bits \/ (n # Home[w] /\ bits'[n] = bits[n]) \/ (Busy(w) /\ n = Home[w])
    BY Homes DEF Call, Writing, TakeLock, NoMemory, LockTimeout, SendError, Takes, StartFrame,
       SendFrame, Acked, Unacked, LateCallback, At, Busy, Typed
  <2>3. SUFFICES ASSUME air[n] # <<>> PROVE OnAir(n)'
    BY <2>1 DEF OnAir
  <2>4. PICK v \in Writers : /\ Home[v] = n /\ tx[v].pc = "wait" /\ bits[n] = {}
                             /\ air[n] = <<Frame(v)>>
    BY <2>3 DEF OnAir
  <2>5. v # w
    BY <1>2, <2>4 DEF Call, Writing, TakeLock, NoMemory, LockTimeout, SendError, Takes,
       StartFrame, SendFrame, Acked, Unacked, LateCallback, At, Acknowledges
  <2>6. ~(Busy(w) /\ n = Home[w])
    BY <2>4, <2>5 DEF Exclusive, Busy
  <2>7. bits'[n] = {} /\ tx'[v] = tx[v] /\ result'[v] = result[v]
    BY <1>0, <2>2, <2>4, <2>5, <2>6
  <2>8. QED BY <2>1, <2>4, <2>7 DEF OnAir, Frame, Current
<1>3. QED BY <1>1, <1>2

(***************************************************************************)
(* The radio and the readers.                                              *)
(***************************************************************************)
LEMMA RadioKeeps ==
  ASSUME EInv, NEW n \in Nodes, Sending(n)
  PROVE  EInv'
<1> USE DEF EInv
<1>1. PICK ack \in {"OK", "FAIL"} : Radio(n, ack)
  BY DEF Sending, Delivered, AckLost, Lost, Damaged
<1>2. /\ air[n] # <<>> /\ air' = [air EXCEPT ![n] = Tail(@)]
      /\ bits' = [bits EXCEPT ![n] = @ \cup {ack}]
      /\ plan' = plan /\ lock' = lock /\ tx' = tx /\ result' = result
  BY <1>1 DEF Radio
<1>3. /\ used' \in [Events -> Nat]
      /\ Prompt' => Prompt
      /\ Noticed' => Noticed /\ Prompt' /\ ~Damaged(n)
  <2>1. CASE used' = used /\ ~Damaged(n)
    BY <2>1 DEF Typed, Prompt, Noticed, Without, Unnoticed
  <2>2. CASE Damaged(n)
    BY <2>2, HappensTyped DEF Damaged, Prompt, Noticed, Without, Events, Unnoticed
  <2>3. CASE ~Damaged(n) /\ (Happens("ack loss") \/ Happens("loss"))
    BY <2>3, HappensTyped DEF Prompt, Noticed, Without, Events, Unnoticed
  <2>4. QED BY <2>1, <2>2, <2>3 DEF Sending, Delivered, AckLost, Lost
<1>4. DOMAIN heard' = Readers /\ \A r \in Readers : heard[r] \subseteq heard'[r]
  <2>1. heard' = heard \/ heard' = [heard EXCEPT ![For(n)] = @ \cup {Head(air[n])}]
    BY DEF Sending, Delivered, AckLost, Lost, Damaged, Receive, ReceiveDamaged, readVars
  <2>2. QED BY <2>1 DEF Typed
<1>5. Typed'
  BY <1>2, <1>3, <1>4 DEF Typed
<1>6. Exclusive'
  BY <1>2 DEF Exclusive, Busy
<1>7. ASSUME Prompt'
      PROVE  /\ \A m \in Nodes : OnAir(m)'
             /\ \A w \in Writers : Clear(w)'
             /\ Noticed' => \A w \in Writers : Sent(w)'
  <2>1. /\ \A m \in Nodes : OnAir(m)
        /\ \A w \in Writers : Clear(w)
    BY <1>3, <1>7
  <2>2. PICK w \in Writers : /\ Home[w] = n /\ tx[w].pc = "wait" /\ bits[n] = {}
                             /\ air[n] = <<Frame(w)>>
    BY <1>2, <2>1 DEF OnAir
  <2>3. air'[n] = <<>>
    BY <1>2, <2>2 DEF Typed
  <2>4. \A m \in Nodes : OnAir(m)'
    <3>1. ASSUME NEW m \in Nodes, m # n PROVE OnAir(m)'
      BY <1>2, <2>1, <3>1 DEF OnAir, Typed, Frame, Current
    <3>2. QED BY <2>3, <3>1 DEF OnAir
  <2>5. \A v \in Writers : Busy(v) /\ v # w =>
          Home[v] # n /\ bits'[Home[v]] = bits[Home[v]]
    BY <1>2, <2>2, Homes DEF Exclusive, Busy, Typed
  <2>6. \A v \in Writers : Clear(v)'
    BY <1>2, <2>1, <2>2, <2>5 DEF Clear, Busy
  <2>7. ASSUME Noticed', NEW v \in Writers PROVE Sent(v)'
    <3>1. heard[Target[v]] \subseteq heard'[Target[v]]
      BY <1>4, Homes
    <3>2. Sent(v)
      BY <1>3, <2>7
    <3>3. Busy(v) => \A k \in 0 .. tx[v].seq - 1 : <<v, Current(v), k>> \in heard'[Target[v]]
      BY <3>1, <3>2 DEF Sent, Reached
    <3>4. CASE v # w
      <4>1. tx[v].pc = "wait" /\ "OK" \in bits'[Home[v]] =>
              <<v, Current(v), tx[v].seq>> \in heard'[Target[v]]
        BY <2>5, <3>1, <3>2, <3>4 DEF Sent, Reached, Busy
      <4>2. \A i \in DOMAIN result[v] : result[v][i] = "OK" =>
              \A k \in 1 .. Size(v, i) : <<v, i, k - 1>> \in heard'[Target[v]]
        BY <3>1, <3>2 DEF Sent, Reached
      <4>3. QED BY <1>2, <3>3, <4>1, <4>2 DEF Sent, Busy, Current, Size, Reached
    <3>5. CASE v = w
      <4>1. "OK" \in bits'[n] => <<w, Current(w), tx[w].seq>> \in heard'[Target[w]]
        <5>1. CASE Delivered(n)
          <6>1. For(n) = Target[w] /\ Head(air[n]) = Frame(w)
            BY <2>2 DEF For, Frame
          <6>2. Frame(w) \in heard'[Target[w]]
            BY <5>1, <6>1, Homes DEF Delivered, Receive, Typed
          <6>3. QED BY <6>2 DEF Frame
        <5>2. CASE AckLost(n) \/ Lost(n)
          <6>1. bits' = [bits EXCEPT ![n] = @ \cup {"FAIL"}]
            BY <5>2 DEF AckLost, Lost, Radio
          <6>2. bits'[n] = {"FAIL"}
            BY <2>2, <6>1 DEF Typed
          <6>3. QED BY <6>2
        <5>3. QED BY <1>3, <2>7, <5>1, <5>2 DEF Sending
      <4>2. \A i \in DOMAIN result[v] : result[v][i] = "OK" =>
              \A k \in 1 .. Size(v, i) : <<v, i, k - 1>> \in heard'[Target[v]]
        BY <3>1, <3>2 DEF Sent, Reached
      <4>3. QED BY <1>2, <2>2, <3>3, <3>5, <4>1, <4>2 DEF Sent, Busy, Current, Size, Reached
    <3>6. QED BY <3>4, <3>5
  <2>8. QED BY <2>4, <2>6, <2>7
<1>8. QED BY <1>3, <1>5, <1>6, <1>7

(* Nothing that the tasks and the radio have to do with changes.           *)
LEMMA EInvSame ==
  ASSUME EInv, plan' = plan, lock' = lock, bits' = bits, tx' = tx, result' = result,
         air' = air, heard' = heard, used' \in [Events -> Nat],
         Prompt' => Prompt, Noticed' => Noticed
  PROVE  EInv'
<1>1. Typed' /\ Exclusive'
  BY DEF EInv, Typed, Exclusive, Busy
<1>2. ASSUME Prompt'
      PROVE  (\A n \in Nodes : OnAir(n)') /\ (\A w \in Writers : Clear(w)')
  <2>1. (\A n \in Nodes : OnAir(n)) /\ (\A w \in Writers : Clear(w))
    BY <1>2 DEF EInv
  <2>2. QED BY <2>1 DEF OnAir, Clear, Frame, Current
<1>3. ASSUME Noticed', NEW w \in Writers PROVE Sent(w)'
  <2>1. Sent(w)
    BY <1>3 DEF EInv
  <2>2. QED BY <2>1 DEF Sent, Busy, Reached, Size, Current
<1>4. QED BY <1>1, <1>2, <1>3 DEF EInv

LEMMA ReadKeeps ==
  ASSUME EInv, NEW r \in Readers, ReadFirst(r) \/ ReadNext(r) \/ ReadTimeout(r)
  PROVE  EInv'
<1>1. /\ plan' = plan /\ lock' = lock /\ bits' = bits /\ tx' = tx /\ result' = result
      /\ air' = air /\ heard' = heard
  BY DEF ReadFirst, ReadNext, ReadTimeout, Dequeue, writeVars
<1>2. used' \in [Events -> Nat] /\ (Prompt' => Prompt) /\ (Noticed' => Noticed)
  <2>1. used' = used \/ Happens("read timeout")
    BY DEF ReadFirst, ReadNext, ReadTimeout, Dequeue
  <2>2. CASE used' = used
    BY <2>2 DEF EInv, Typed, Prompt, Noticed, Without
  <2>3. CASE Happens("read timeout")
    BY <2>3, HappensTyped DEF EInv, Prompt, Noticed, Without, Events, Unnoticed
  <2>4. QED BY <2>1, <2>2, <2>3
<1>3. QED BY <1>1, <1>2, EInvSame

LEMMA TaskKeeps ==
  ASSUME EInv, NEW w \in Writers, Call(w) \/ Writing(w)
  PROVE  EInv'
<1> USE DEF EInv
<1>1. Typed' /\ Exclusive'
  BY TaskTyped, TaskExclusive
<1>2. /\ Prompt' => Prompt /\ ~LateCallback(w)
      /\ Noticed' => Noticed /\ Prompt'
  <2>1. used' = used \/ \E e \in Events : Happens(e)
    BY DEF Call, Writing, TakeLock, NoMemory, LockTimeout, SendError, Takes, StartFrame,
       SendFrame, Acked, Unacked, LateCallback, Events
  <2>2. (Prompt' => Prompt) /\ (Noticed' => Noticed /\ Prompt')
    BY <2>1, HappensTyped DEF Prompt, Noticed, Without, Events, Unnoticed
  <2>3. LateCallback(w) => ~Prompt'
    BY HappensTyped DEF LateCallback, Prompt, Events
  <2>4. QED BY <2>2, <2>3
<1>3. ASSUME Prompt'
      PROVE  /\ \A n \in Nodes : OnAir(n)'
             /\ \A v \in Writers : Clear(v)'
             /\ Noticed' => \A v \in Writers : Sent(v)'
  <2>1. /\ ~LateCallback(w) /\ \A n \in Nodes : OnAir(n)
        /\ \A v \in Writers : Clear(v)
    BY <1>2, <1>3
  <2>2. \A n \in Nodes : OnAir(n)'
    BY <2>1, TaskOnAir
  <2>3. \A v \in Writers : Clear(v)'
    BY <2>1, TaskClear
  <2>4. ASSUME Noticed' PROVE \A v \in Writers : Sent(v)'
    <3>1. \A v \in Writers : Sent(v)
      BY <1>2, <2>4
    <3>2. Sent(w)'
      BY <2>1, <3>1, TaskSent
    <3>3. \A v \in Writers \ {w} : Sent(v)'
      BY <3>1, TaskOthers
    <3>4. QED BY <3>2, <3>3
  <2>5. QED BY <2>2, <2>3, <2>4
<1>4. QED BY <1>1, <1>2, <1>3

LEMMA EKeeps ==
  ASSUME EInv, [Next]_vars
  PROVE  EInv'
<1>1. CASE UNCHANGED vars
  <2>1. used' \in [Events -> Nat] /\ (Prompt' => Prompt) /\ (Noticed' => Noticed)
    BY <1>1 DEF vars, EInv, Typed, Prompt, Noticed, Without
  <2>2. QED BY <1>1, <2>1, EInvSame DEF vars, writeVars, readVars
<1>2. CASE Next
  BY <1>2, TaskKeeps, RadioKeeps, ReadKeeps DEF Next
<1>3. QED BY <1>1, <1>2

(* The tasks of a node write their packets one after the other, and MDF_OK *)
(* means that every frame was received: a callback is not taken for that   *)
(* of another frame (mespnow.c:233-264) while none comes too late.         *)
THEOREM AcknowledgedIsHeard == Spec => []AckedHeard
<1>1. Init => EInv
  BY EStarts
<1>2. EInv /\ [Next]_vars => EInv'
  BY EKeeps
<1>3. EInv => AckedHeard
  <2> SUFFICES ASSUME EInv, Noticed, NEW w \in Writers, NEW i \in DOMAIN result[w],
                      result[w][i] = "OK", NEW f \in Range(Parts(w, i))
               PROVE  f \in heard[Target[w]]
    BY DEF AckedHeard, Noticed
  <2>1. PICK k \in 1 .. Size(w, i) : f = <<w, i, k - 1>>
    BY DEF Range, Parts
  <2>2. QED BY <2>1 DEF EInv, Sent, Reached
<1>4. QED BY <1>1, <1>2, <1>3, PTL DEF Spec

(***************************************************************************)
(* The order of the packets.  The filter of mespnow_recv_cb() remembers    *)
(* one frame.  That is enough when the frames for a reader come from one   *)
(* node: copies of a frame follow one another, since a task sends the next *)
(* frame only when it is past the last one, and the frames for a reader    *)
(* that are taken from the air after a copy are the same frame or new.     *)
(***************************************************************************)
(* The tasks that write to one reader are on one node.                     *)
OneSender == \A v, w \in Writers : Target[v] = Target[w] => Home[v] = Home[w]

Frames == Writers \X Nat \X Nat

(* The writer has come to this frame, or is past it.                       *)
Past(f) ==
  \/ f[2] < Current(f[1])
  \/ f[2] = Current(f[1]) /\ Busy(f[1]) /\ f[3] <= tx[f[1]].seq

Passed == {f \in Frames : Past(f)}

(* What a node sends: the packets of a task in order, and the copies of a  *)
(* frame one after the other, until its task is past it.                   *)
Lined(n) ==
  LET q == air[n]
  IN  /\ q \in Seq(Frames)
      /\ \A i \in DOMAIN q : Home[q[i][1]] = n /\ q[i] \in Passed
      /\ \A i, j \in DOMAIN q : i < j /\ q[i][1] = q[j][1] => q[i][2] <= q[j][2]
      /\ \A i, j \in DOMAIN q : i < j /\ q[i] = q[j] => \A k \in i .. j : q[k] = q[i]
      /\ \A w \in Writers : Home[w] = n /\ Busy(w) =>
           \A i, j \in DOMAIN q : i < j /\ q[i] = Frame(w) => q[j] = Frame(w)

(* The frames of q up to the j-th that are for r are f.                    *)
OnlyBefore(q, j, r, f) == \A i \in 1 .. j : Target[q[i][1]] = r => q[i] = f

(* A frame that was heard comes again only while it is the last one heard, *)
(* with no other frame for its reader in between.                          *)
Remembered(r, f) ==
  LET w == f[1]
      q == air[Home[w]]
  IN  /\ Target[w] = r /\ f \in Passed
      /\ \A j \in DOMAIN q : q[j][1] = w => f[2] <= q[j][2]
      /\ \A j \in DOMAIN q : q[j] = f => last[r] = f /\ OnlyBefore(q, j, r, f)
      /\ Busy(w) /\ Frame(w) = f => last[r] = f /\ OnlyBefore(q, Len(q), r, f)

Heard(r) == heard[r] \subseteq Frames /\ \A f \in heard[r] : Remembered(r, f)

(* The first frames of packets, returned, begun and waiting, in order.     *)
Later(g, f) == g[1] = f[1] => g[2] < f[2]

Begins(r, f) == f \in heard[r] /\ f[3] = 0

Returned(r) ==
  /\ got[r] \in Seq(Seq(Frames) \ {<<>>})
  /\ \A k \in DOMAIN got[r] : Begins(r, got[r][k][1])
  /\ \A j, k \in DOMAIN got[r] : j < k => Later(got[r][j][1], got[r][k][1])

Begun(r) ==
  /\ rx[r] \in Seq(Frames)
  /\ rx[r] # <<>> =>
       /\ Begins(r, rx[r][1])
       /\ \A k \in DOMAIN got[r] : Later(got[r][k][1], rx[r][1])

Waiting(r) ==
  LET q == queue[r]
  IN  /\ q \in Seq(Frames)
      /\ \A i \in DOMAIN q : q[i] \in heard[r]
      /\ \A i \in DOMAIN q : q[i][3] = 0 =>
           /\ \A k \in DOMAIN got[r] : Later(got[r][k][1], q[i])
           /\ rx[r] # <<>> => Later(rx[r][1], q[i])
           /\ \A h \in DOMAIN q : h < i /\ q[h][3] = 0 => Later(q[h], q[i])

InOrder(r) == Returned(r) /\ Begun(r) /\ Waiting(r)

OTyped ==
  /\ DOMAIN air = Nodes /\ DOMAIN heard = Readers /\ DOMAIN queue = Readers
  /\ DOMAIN rx = Readers /\ DOMAIN got = Readers /\ DOMAIN last = Readers

OInv ==
  /\ OTyped
  /\ \A n \in Nodes : Lined(n)
  /\ \A r \in Readers : Heard(r) /\ InOrder(r)

-----------------------------------------------------------------------------
(* A task keeps its frame, or comes to one it never sent, or returns.      *)
Stays(w)    == Busy(w)' = Busy(w) /\ tx'[w].seq = tx[w].seq /\ result'[w] = result[w]
Enters(w)   == ~Busy(w) /\ Busy(w)' /\ result'[w] = result[w]
Advances(w) == /\ Busy(w) /\ Busy(w)' /\ tx'[w].seq = tx[w].seq + 1
               /\ result'[w] = result[w]
Leaves(w)   == ~Busy(w)' /\ Current(w)' = Current(w) + 1

LEMMA ReturnsNow ==
  ASSUME Typed, NEW w \in Writers, NEW r \in Returns, Return(w, r)
  PROVE  Leaves(w)
<1>1. Len(Append(result[w], r)) = Len(result[w]) + 1
  BY DEF Typed
<1>2. result'[w] = Append(result[w], r)
  BY DEF Return, Typed
<1>3. tx'[w].pc = "idle"
  BY ReturnTyped
<1>4. QED BY <1>1, <1>2, <1>3 DEF Leaves, Busy, Current

LEMMA TaskMoves ==
  ASSUME Typed, NEW w \in Writers, Call(w) \/ Writing(w)
  PROVE  /\ \A v \in Writers \ {w} : tx'[v] = tx[v] /\ result'[v] = result[v]
         /\ Stays(w) \/ Enters(w) \/ Advances(w) \/ Leaves(w)
<1>0. tx \in [Writers -> [pc : Pcs, seq : Nat, left : Nat]]
  BY TxTyped
<1>1. CASE Call(w) \/ TakeLock(w) \/ StartFrame(w) \/ SendFrame(w)
  BY <1>0, <1>1 DEF Call, TakeLock, Takes, StartFrame, SendFrame, At, Goto, Stays, Enters, Busy
<1>2. CASE NoMemory(w) \/ LockTimeout(w) \/ SendError(w)
  BY <1>2, ReturnTyped, ReturnsNow DEF NoMemory, LockTimeout, SendError, Exit, Returns
<1>3. CASE Acked(w)
  <2>1. CASE Exit(w, "OK")
    BY <2>1, ReturnTyped, ReturnsNow DEF Exit, Returns
  <2>2. CASE /\ tx' = [tx EXCEPT ![w].pc = "frame", ![w].seq = @ + 1]
             /\ UNCHANGED <<lock, result>>
    BY <1>0, <1>3, <2>2 DEF Acked, At, Advances, Busy
  <2>3. QED BY <1>3, <2>1, <2>2 DEF Acked
<1>4. CASE Unacked(w) \/ LateCallback(w)
  <2>1. CASE Exit(w, "FAIL")
    BY <2>1, ReturnTyped, ReturnsNow DEF Exit, Returns
  <2>2. CASE /\ tx' = [tx EXCEPT ![w].pc = "send", ![w].left = @ - 1]
             /\ UNCHANGED <<lock, result>>
    <3>1. tx'[w].pc = "send" /\ tx[w].pc = "wait" /\ tx'[w].seq = tx[w].seq
      BY <1>0, <1>4, <2>2 DEF Unacked, LateCallback, At
    <3>2. Stays(w)
      BY <2>2, <3>1 DEF Stays, Busy
    <3>3. \A v \in Writers \ {w} : tx'[v] = tx[v] /\ result'[v] = result[v]
      BY <1>0, <2>2
    <3>4. QED BY <3>2, <3>3
  <2>3. QED BY <1>4, <2>1, <2>2 DEF Unacked, LateCallback, SendAgain
<1>5. QED BY <1>1, <1>2, <1>3, <1>4 DEF Writing

(* So what was past stays past, and a new frame was not.                   *)
Fresh(v) == (Busy(v) /\ Frame(v)' = Frame(v)) \/ Frame(v)' \notin Passed

LEMMA PastStays ==
  ASSUME Typed, NEW w \in Writers, Call(w) \/ Writing(w)
  PROVE  /\ Passed \subseteq Passed'
         /\ \A v \in Writers : Busy(v)' => Fresh(v)
<1>0. \A v \in Writers : tx[v].seq \in Nat /\ Len(result[v]) \in Nat
  BY TxTyped DEF Typed
<1>1. ASSUME NEW f \in Frames, Past(f) PROVE Past(f)'
  <2>1. f[1] \in Writers /\ f[2] \in Nat /\ f[3] \in Nat
    BY DEF Frames
  <2>2. CASE f[1] # w
    <3>1. tx'[f[1]] = tx[f[1]] /\ result'[f[1]] = result[f[1]]
      BY <2>1, <2>2, TaskMoves
    <3>2. QED BY <1>1, <3>1 DEF Past, Current, Busy
  <2>3. CASE f[1] = w
    <3>1. Stays(w) \/ Enters(w) \/ Advances(w) \/ Leaves(w)
      BY TaskMoves
    <3>2. CASE Stays(w)
      BY <1>1, <2>3, <3>2 DEF Stays, Past, Current
    <3>3. CASE Enters(w)
      BY <1>1, <2>3, <3>3 DEF Enters, Past, Current
    <3>4. CASE Advances(w)
      BY <1>0, <1>1, <2>1, <2>3, <3>4 DEF Advances, Past, Current
    <3>5. CASE Leaves(w)
      <4>1. Current(w) \in Nat /\ f[2] <= Current(w)
        BY <1>0, <1>1, <2>1, <2>3 DEF Past, Current
      <4>2. f[2] < Current(w)'
        BY <2>1, <3>5, <4>1 DEF Leaves
      <4>3. QED BY <2>3, <4>2 DEF Past
    <3>6. QED BY <3>1, <3>2, <3>3, <3>4, <3>5
  <2>4. QED BY <2>2, <2>3
<1>2. ASSUME NEW v \in Writers, Busy(v)' PROVE Fresh(v)
  <2>1. CASE v # w
    <3>1. tx'[v] = tx[v] /\ result'[v] = result[v]
      BY <2>1, TaskMoves
    <3>2. QED BY <1>2, <3>1 DEF Fresh, Frame, Busy, Current
  <2>2. CASE v = w
    <3>1. Stays(w) \/ Enters(w) \/ Advances(w)
      BY <1>2, <2>2, TaskMoves DEF Leaves
    <3>2. CASE Stays(w)
      BY <1>2, <2>2, <3>2 DEF Stays, Fresh, Frame, Current
    <3>3. CASE Enters(w)
      BY <1>0, <2>2, <3>3 DEF Enters, Fresh, Passed, Past, Frame, Current
    <3>4. CASE Advances(w)
      BY <1>0, <2>2, <3>4 DEF Advances, Fresh, Passed, Past, Frame, Current
    <3>5. QED BY <3>1, <3>2, <3>3, <3>4
  <2>3. QED BY <2>1, <2>2
<1>3. QED BY <1>1, <1>2 DEF Passed

(* The frames that wait for the radio while a task runs.                   *)
LEMMA Appended ==
  ASSUME NEW S, NEW q \in Seq(S), NEW f \in S, NEW p, p = Append(q, f)
  PROVE  /\ p \in Seq(S) /\ Len(q) \in Nat /\ Len(p) = Len(q) + 1
         /\ DOMAIN p = 1 .. Len(q) + 1 /\ DOMAIN q = 1 .. Len(q)
         /\ p[Len(q) + 1] = f
         /\ \A i \in 1 .. Len(q) : p[i] = q[i]
  OBVIOUS

LEMMA Shortened ==
  ASSUME NEW S, NEW q \in Seq(S), q # <<>>, NEW p, p = Tail(q)
  PROVE  /\ p \in Seq(S) /\ Len(q) \in Nat \ {0} /\ Len(p) = Len(q) - 1
         /\ DOMAIN p = 1 .. Len(q) - 1 /\ DOMAIN q = 1 .. Len(q)
         /\ q[1] \in S /\ Head(q) = q[1]
         /\ \A i \in DOMAIN p : i + 1 \in DOMAIN q /\ p[i] = q[i + 1]
  OBVIOUS

Appends(w) == /\ Busy(w) /\ Busy(w)' /\ Frame(w)' = Frame(w)
              /\ air' = [air EXCEPT ![Home[w]] = Append(@, Frame(w))]
              /\ readVars' = readVars

LEMMA SendsOnly ==
  ASSUME Typed, NEW w \in Writers, Call(w) \/ Writing(w)
  PROVE  \/ ~SendFrame(w) /\ air' = air
         \/ SendFrame(w) /\ Appends(w)
<1>1. CASE SendFrame(w)
  <2>1. tx[w].pc = "send" /\ tx'[w] = [tx[w] EXCEPT !.pc = "wait"] /\ result' = result
    BY <1>1 DEF SendFrame, At, Goto, Typed
  <2>2. tx'[w].pc = "wait" /\ tx'[w].seq = tx[w].seq
    BY <2>1, TxTyped
  <2>3. air' = [air EXCEPT ![Home[w]] = Append(@, Frame(w))] /\ readVars' = readVars
    BY <1>1 DEF SendFrame, At
  <2>4. QED BY <1>1, <2>1, <2>2, <2>3 DEF Appends, Busy, Frame, Current
<1>2. CASE ~SendFrame(w)
  BY <1>2 DEF Call, Writing, TakeLock, NoMemory, LockTimeout, SendError, Takes, StartFrame,
     Acked, Unacked, LateCallback
<1>3. QED BY <1>1, <1>2

LEMMA AirMoves ==
  ASSUME Typed, NEW w \in Writers, Call(w) \/ Writing(w)
  PROVE  air' = air \/ Appends(w)
BY SendsOnly

FramePast(v) == Busy(v) => Frame(v) \in Passed

LEMMA FrameIsPast ==
  ASSUME Typed, NEW v \in Writers
  PROVE  FramePast(v)
<1>1. tx[v].seq \in Nat /\ Len(result[v]) \in Nat
  BY TxTyped DEF Typed
<1>2. QED BY <1>1 DEF FramePast, Frame, Passed, Frames, Past, Current

LEMMA TaskLined ==
  ASSUME Typed, Exclusive, OTyped, NEW w \in Writers, Call(w) \/ Writing(w),
         NEW n \in Nodes, Lined(n)
  PROVE  Lined(n)'
<1> DEFINE q == air[n]
<1>1. /\ q \in Seq(Frames)
      /\ \A i \in DOMAIN q : q[i] \in Frames /\ Home[q[i][1]] = n /\ q[i] \in Passed
  BY DEF Lined
<1>2. \A i \in DOMAIN q : q[i] \in Passed'
  BY <1>1, PastStays
<1>3. ASSUME NEW v \in Writers, Home[v] = n, Busy(v)',
             NEW i \in DOMAIN q, NEW j \in DOMAIN q, i < j, q[i] = Frame(v)'
      PROVE  q[j] = Frame(v)'
  <2>1. Frame(v)' = Frame(v) /\ Busy(v)
    BY <1>1, <1>3, PastStays DEF Fresh
  <2>2. QED BY <1>3, <2>1 DEF Lined
<1>4. CASE air'[n] = q
  BY <1>2, <1>3, <1>4 DEF Lined
<1>5. CASE /\ n = Home[w] /\ Busy(w) /\ Busy(w)' /\ Frame(w)' = Frame(w)
           /\ air'[n] = Append(q, Frame(w))
  <2> DEFINE f == Frame(w)
             p == air'[n]
             N == Len(q)
  <2>0. f \in Frames /\ f[1] = w /\ f[2] = Current(w) /\ f \in Passed'
    BY <1>5, FrameIsPast, PastStays DEF FramePast, Frame, Passed
  <2>1. /\ p \in Seq(Frames) /\ N \in Nat
        /\ DOMAIN p = 1 .. N + 1 /\ DOMAIN q = 1 .. N /\ p[N + 1] = f
        /\ \A i \in 1 .. N : p[i] = q[i]
    BY <1>1, <1>5, <2>0, Appended
  <2>2. \A i \in DOMAIN q : q[i] = f => \A j \in DOMAIN q : i < j => q[j] = f
    BY <1>5 DEF Lined
  <2>3. \A i \in DOMAIN q : q[i][1] = w => q[i][2] <= f[2]
    <3>1. ASSUME NEW i \in DOMAIN q, q[i][1] = w PROVE q[i][2] <= f[2]
      <4>1. Past(q[i]) /\ q[i][2] \in Nat /\ Current(w) \in Nat
        BY <1>1 DEF Typed, Current, Frames, Passed
      <4>2. QED BY <2>0, <3>1, <4>1 DEF Past
    <3>2. QED BY <3>1
  <2> HIDE DEF f, p, q, N
  <2>4. \A i \in DOMAIN p : Home[p[i][1]] = n /\ p[i] \in Passed'
    BY <1>1, <1>2, <1>5, <2>0, <2>1
  <2>5. \A i, j \in DOMAIN p : i < j /\ p[i][1] = p[j][1] => p[i][2] <= p[j][2]
    <3>1. \A i, j \in DOMAIN q : i < j /\ q[i][1] = q[j][1] => q[i][2] <= q[j][2]
      BY DEF Lined, q
    <3>2. QED BY <2>0, <2>1, <2>3, <3>1
  <2>6. \A i, j \in DOMAIN p : i < j /\ p[i] = p[j] => \A k \in i .. j : p[k] = p[i]
    <3>1. \A i, j \in DOMAIN q : i < j /\ q[i] = q[j] => \A k \in i .. j : q[k] = q[i]
      BY DEF Lined, q
    <3>2. QED BY <2>1, <2>2, <3>1
  <2>7. ASSUME NEW v \in Writers, Home[v] = n, Busy(v)',
               NEW i \in DOMAIN p, NEW j \in DOMAIN p, i < j, p[i] = Frame(v)'
        PROVE  p[j] = Frame(v)'
    <3>1. v = w
      BY <1>5, <2>7, TaskExclusive DEF Exclusive
    <3>2. QED BY <1>3, <1>5, <2>1, <2>7, <3>1 DEF f, q
  <2>8. QED BY <2>1, <2>4, <2>5, <2>6, <2>7 DEF Lined, p
<1>6. QED BY <1>4, <1>5, AirMoves, Homes DEF OTyped, Appends

LEMMA TaskHeard ==
  ASSUME Typed, Exclusive, OTyped, NEW w \in Writers, Call(w) \/ Writing(w),
         NEW r \in Readers, Heard(r), \A n \in Nodes : Lined(n)
  PROVE  Heard(r)'
<1>1. heard' = heard /\ last' = last
  BY DEF Call, Writing, TakeLock, NoMemory, LockTimeout, SendError, Takes, StartFrame,
     SendFrame, Acked, Unacked, LateCallback, At, readVars
<1>2. SUFFICES ASSUME NEW f \in heard[r] PROVE Remembered(r, f)'
  BY <1>1 DEF Heard
<1> DEFINE v == f[1]
           n == Home[v]
           q == air[n]
<1>3. /\ Remembered(r, f) /\ f \in Frames /\ v \in Writers /\ n \in Nodes
      /\ f \in Passed /\ f \in Passed' /\ q \in Seq(Frames)
  BY Homes, PastStays DEF Heard, Remembered, Frames, Lined
<1>4. ASSUME Busy(v)', Frame(v)' = f PROVE Busy(v) /\ Frame(v) = f
  BY <1>3, <1>4, PastStays DEF Fresh
<1>5. CASE air'[n] = q
  BY <1>1, <1>3, <1>4, <1>5 DEF Remembered, OnlyBefore
<1>6. CASE /\ n = Home[w] /\ Busy(w) /\ Busy(w)' /\ Frame(w)' = Frame(w)
           /\ air'[n] = Append(q, Frame(w))
  <2> DEFINE g == Frame(w)
             p == air'[n]
             N == Len(q)
  <2>0. g \in Frames /\ g[1] = w /\ g[2] = Current(w)
    BY <1>6, FrameIsPast DEF FramePast, Frame, Passed
  <2>1. /\ p \in Seq(Frames) /\ N \in Nat /\ Len(p) = N + 1
        /\ DOMAIN p = 1 .. N + 1 /\ DOMAIN q = 1 .. N /\ p[N + 1] = g
        /\ \A i \in 1 .. N : p[i] = q[i]
    BY <1>3, <1>6, <2>0, Appended
  <2>2. v = w => f[2] <= g[2]
    <3>1. v = w => Past(f) /\ f[2] \in Nat /\ Current(w) \in Nat
      BY <1>3 DEF Typed, Current, Frames, Passed
    <3>2. QED BY <2>0, <3>1 DEF Past
  <2>3. g = f => last[r] = f /\ OnlyBefore(q, N, r, f)
    BY <1>3, <1>6, <2>0 DEF Remembered
  <2>4. Busy(v)' => v = w
    BY <1>6, TaskExclusive, <1>3 DEF Exclusive
  <2> HIDE DEF g, p, q, N
  <2>5. \A j \in DOMAIN p : p[j][1] = v => f[2] <= p[j][2]
    <3>1. \A j \in DOMAIN q : q[j][1] = v => f[2] <= q[j][2]
      BY <1>3 DEF Remembered, q
    <3>2. QED BY <2>0, <2>1, <2>2, <3>1
  <2>6. \A j \in DOMAIN p : p[j] = f => last[r] = f /\ OnlyBefore(p, j, r, f)
    <3>1. \A j \in DOMAIN q : q[j] = f => last[r] = f /\ OnlyBefore(q, j, r, f)
      BY <1>3 DEF Remembered, q
    <3>2. ASSUME NEW j \in 1 .. N, OnlyBefore(q, j, r, f) PROVE OnlyBefore(p, j, r, f)
      BY <2>1, <3>2 DEF OnlyBefore
    <3>3. p[N + 1] = f => last[r] = f /\ OnlyBefore(p, N + 1, r, f)
      BY <2>1, <2>3 DEF OnlyBefore
    <3>4. QED BY <2>1, <3>1, <3>2, <3>3
  <2>7. Busy(v)' /\ Frame(v)' = f => last[r] = f /\ OnlyBefore(p, Len(p), r, f)
    <3>1. Busy(v)' /\ Frame(v)' = f => g = f
      BY <1>4, <2>4 DEF g
    <3>2. QED BY <2>1, <2>3, <3>1 DEF OnlyBefore
  <2>8. Target[v] = r
    BY <1>3 DEF Remembered
  <2>9. QED BY <1>1, <1>3, <2>5, <2>6, <2>7, <2>8 DEF Remembered, p
<1>7. QED BY <1>3, <1>5, <1>6, AirMoves, Homes DEF OTyped, Appends

LEMMA TaskOrders ==
  ASSUME Typed, Exclusive, OInv, NEW w \in Writers, Call(w) \/ Writing(w)
  PROVE  OInv'
<1>1. /\ heard' = heard /\ last' = last /\ queue' = queue /\ rx' = rx /\ got' = got
      /\ DOMAIN air' = Nodes
  BY TaskTyped DEF Call, Writing, TakeLock, NoMemory, LockTimeout, SendError, Takes, StartFrame,
     SendFrame, Acked, Unacked, LateCallback, At, readVars, Typed
<1>2. OTyped'
  BY <1>1 DEF OInv, OTyped
<1>3. \A r \in Readers : InOrder(r)'
  BY <1>1 DEF OInv, InOrder, Returned, Begun, Waiting, Begins
<1>4. \A n \in Nodes : Lined(n)'
  BY TaskLined DEF OInv
<1>5. \A r \in Readers : Heard(r)'
  BY TaskHeard DEF OInv
<1>6. QED BY <1>2, <1>3, <1>4, <1>5 DEF OInv

-----------------------------------------------------------------------------
(* The radio takes the first frame of a node.                              *)
LEMMA LinedNext ==
  ASSUME NEW n \in Nodes, NEW p \in Seq(Frames), air'[n] = p,
         \A i \in DOMAIN p : Home[p[i][1]] = n /\ p[i] \in Passed',
         \A i, j \in DOMAIN p : i < j /\ p[i][1] = p[j][1] => p[i][2] <= p[j][2],
         \A i, j \in DOMAIN p : i < j /\ p[i] = p[j] => \A k \in i .. j : p[k] = p[i],
         \A w \in Writers : Home[w] = n /\ Busy(w)' =>
           \A i, j \in DOMAIN p : i < j /\ p[i] = Frame(w)' => p[j] = Frame(w)'
  PROVE  Lined(n)'
  BY DEF Lined

LEMMA AirSame ==
  ASSUME tx' = tx, result' = result, NEW n \in Nodes, Lined(n), air'[n] = air[n]
  PROVE  Lined(n)'
<1> DEFINE p == air[n]
<1>1. Passed' = Passed /\ \A v \in Writers : Frame(v)' = Frame(v) /\ Busy(v)' = Busy(v)
  BY DEF Passed, Past, Busy, Current, Frame
<1>2. \A i \in DOMAIN p : Home[p[i][1]] = n /\ p[i] \in Passed'
  BY <1>1 DEF Lined
<1>3. ASSUME NEW w \in Writers, Home[w] = n, Busy(w)', NEW i \in DOMAIN p,
             NEW j \in DOMAIN p, i < j, p[i] = Frame(w)'
      PROVE  p[j] = Frame(w)'
  <2>1. Busy(w) /\ Frame(w)' = Frame(w)
    BY <1>1, <1>3
  <2>2. QED BY <1>3, <2>1 DEF Lined
<1>4. /\ p \in Seq(Frames)
      /\ \A i, j \in DOMAIN p : i < j /\ p[i][1] = p[j][1] => p[i][2] <= p[j][2]
      /\ \A i, j \in DOMAIN p : i < j /\ p[i] = p[j] => \A k \in i .. j : p[k] = p[i]
  BY DEF Lined
<1>5. QED BY <1>2, <1>3, <1>4, LinedNext

LEMMA RadioLined ==
  ASSUME OTyped, NEW n \in Nodes, air[n] # <<>>, air' = [air EXCEPT ![n] = Tail(@)],
         tx' = tx, result' = result, NEW m \in Nodes, Lined(m)
  PROVE  Lined(m)' /\ Passed' = Passed
<1>1. Passed' = Passed /\ \A v \in Writers : Frame(v)' = Frame(v) /\ Busy(v)' = Busy(v)
  BY DEF Passed, Past, Busy, Current, Frame
<1>2. CASE m # n
  BY <1>1, <1>2, AirSame DEF OTyped
<1>3. CASE m = n
  <2> DEFINE q == air[n]
             p == air'[n]
             N == Len(q)
  <2>1. q \in Seq(Frames) /\ q # <<>> /\ p = Tail(q)
    BY <1>3 DEF Lined, OTyped
  <2>2. /\ p \in Seq(Frames) /\ N \in Nat \ {0}
        /\ DOMAIN p = 1 .. N - 1 /\ DOMAIN q = 1 .. N
        /\ \A i \in DOMAIN p : i + 1 \in DOMAIN q /\ p[i] = q[i + 1]
    <3> HIDE DEF p, q
    <3>1. QED BY <2>1, Shortened
  <2>3. /\ \A i \in DOMAIN q : Home[q[i][1]] = n /\ q[i] \in Passed
        /\ \A i, j \in DOMAIN q : i < j /\ q[i][1] = q[j][1] => q[i][2] <= q[j][2]
        /\ \A i, j \in DOMAIN q : i < j /\ q[i] = q[j] => \A k \in i .. j : q[k] = q[i]
        /\ \A w \in Writers : Home[w] = n /\ Busy(w) =>
             \A i, j \in DOMAIN q : i < j /\ q[i] = Frame(w) => q[j] = Frame(w)
    <3>1. Lined(n)
      BY <1>3
    <3>2. QED BY <3>1 DEF Lined
  <2> HIDE DEF p, q, N
  <2>4. \A i \in DOMAIN p : Home[p[i][1]] = n /\ p[i] \in Passed'
    BY <1>1, <2>2, <2>3
  <2>5. \A i, j \in DOMAIN p : i < j /\ p[i][1] = p[j][1] => p[i][2] <= p[j][2]
    BY <2>2, <2>3
  <2>6. ASSUME NEW i \in DOMAIN p, NEW j \in DOMAIN p, i < j, p[i] = p[j],
               NEW k \in i .. j
        PROVE  p[k] = p[i]
    <3>1. k \in DOMAIN p /\ k + 1 \in (i + 1) .. (j + 1) /\ i + 1 < j + 1
      BY <2>2, <2>6
    <3>2. q[i + 1] = q[j + 1]
      BY <2>2, <2>6
    <3>3. q[k + 1] = q[i + 1]
      BY <2>2, <2>3, <3>1, <3>2
    <3>4. QED BY <2>2, <3>1, <3>3
  <2>7. ASSUME NEW w \in Writers, Home[w] = n, Busy(w)',
               NEW i \in DOMAIN p, NEW j \in DOMAIN p, i < j, p[i] = Frame(w)'
        PROVE  p[j] = Frame(w)'
    <3>1. Busy(w) /\ Frame(w)' = Frame(w)
      BY <1>1, <2>7
    <3>2. q[i + 1] = Frame(w) /\ i + 1 < j + 1
      BY <2>2, <2>7, <3>1
    <3>3. q[j + 1] = Frame(w)
      BY <2>2, <2>3, <2>7, <3>1, <3>2
    <3>4. QED BY <2>2, <3>1, <3>3
  <2>8. Lined(n)'
    <3>1. p = air'[n]
      BY DEF p
    <3>2. \A i, j \in DOMAIN p : i < j /\ p[i] = p[j] => \A k \in i .. j : p[k] = p[i]
      BY <2>6
    <3>3. \A w \in Writers : Home[w] = n /\ Busy(w)' =>
            \A i, j \in DOMAIN p : i < j /\ p[i] = Frame(w)' => p[j] = Frame(w)'
      BY <2>7
    <3>4. p \in Seq(Frames)
      BY <2>2
    <3>5. QED BY <2>4, <2>5, <3>1, <3>2, <3>3, <3>4, LinedNext
  <2>9. QED BY <1>1, <1>3, <2>8
<1>4. QED BY <1>2, <1>3, <1>1

(* What was heard is heard again only as the last frame, as long as the    *)
(* frames of a reader come from one node.                                  *)
LEMMA RadioRemembers ==
  ASSUME OneSender, OTyped, NEW n \in Nodes, air[n] # <<>>, Lined(n),
         air' = [air EXCEPT ![n] = Tail(@)], tx' = tx, result' = result,
         NEW r \in Readers, NEW f \in Frames, Remembered(r, f), air[Home[f[1]]] \in Seq(Frames),
         last'[r] = last[r] \/ (r = For(n) /\ last'[r] = Head(air[n]))
  PROVE  Remembered(r, f)'
<1> DEFINE v == f[1]
           q == air[Home[v]]
           p == air'[Home[v]]
           h == Head(air[n])
<1>1. /\ v \in Writers /\ Target[v] = r /\ f \in Passed'
      /\ Busy(v)' = Busy(v) /\ Frame(v)' = Frame(v)
  <2>1. Passed' = Passed
    BY DEF Passed, Past, Busy, Current
  <2>2. QED BY <2>1 DEF Remembered, Frames, Busy, Frame, Current
<1>2. /\ \A j \in DOMAIN q : q[j][1] = v => f[2] <= q[j][2]
      /\ \A j \in DOMAIN q : q[j] = f => last[r] = f /\ OnlyBefore(q, j, r, f)
      /\ Busy(v) /\ Frame(v) = f => last[r] = f /\ OnlyBefore(q, Len(q), r, f)
  BY DEF Remembered
<1>3. h \in Frames /\ Home[h[1]] = n
  <2>1. air[n] \in Seq(Frames) /\ 1 \in DOMAIN air[n] /\ h = air[n][1]
    BY DEF Lined
  <2>2. QED BY <2>1 DEF Lined
<1>4. CASE Home[v] # n
  <2>1. p = q
    BY <1>4 DEF OTyped
  <2>2. last'[r] = last[r]
    <3>1. r = For(n) => Home[v] = n
      BY <1>1, <1>3 DEF For, OneSender, Frames
    <3>2. QED BY <1>4, <3>1
  <2> HIDE DEF p, q
  <2>3. QED BY <1>1, <1>2, <2>1, <2>2 DEF Remembered, p
<1>5. CASE Home[v] = n
  <2> DEFINE N == Len(q)
  <2>1. /\ p \in Seq(Frames) /\ N \in Nat \ {0} /\ Len(p) = N - 1
        /\ DOMAIN p = 1 .. N - 1 /\ DOMAIN q = 1 .. N /\ h = q[1]
        /\ \A i \in DOMAIN p : i + 1 \in DOMAIN q /\ p[i] = q[i + 1]
    <3>1. q \in Seq(Frames) /\ q # <<>> /\ p = Tail(q) /\ h = Head(q)
      BY <1>5 DEF Lined, OTyped
    <3> HIDE DEF p, q, h
    <3>2. QED BY <3>1, Shortened
  <2>2. last'[r] = last[r] \/ (Target[h[1]] = r /\ last'[r] = h)
    BY DEF For
  <2> HIDE DEF p, q, N, h
  <2>3. ASSUME NEW j \in 1 .. N, last[r] = f, OnlyBefore(q, j, r, f) PROVE last'[r] = f
    BY <2>1, <2>2, <2>3 DEF OnlyBefore
  <2>4. \A j \in DOMAIN p : p[j][1] = v => f[2] <= p[j][2]
    BY <1>2, <2>1
  <2>5. ASSUME NEW j \in 1 .. N, OnlyBefore(q, j, r, f) PROVE OnlyBefore(p, j - 1, r, f)
    <3>1. \A i \in 1 .. j - 1 : i \in DOMAIN p /\ i + 1 \in 1 .. j
      BY <2>1
    <3>2. QED BY <2>1, <2>5, <3>1 DEF OnlyBefore
  <2>6. ASSUME NEW j \in DOMAIN p, p[j] = f PROVE last'[r] = f /\ OnlyBefore(p, j, r, f)
    <3>1. j + 1 \in 1 .. N /\ q[j + 1] = f /\ (j + 1) - 1 = j
      BY <2>1, <2>6
    <3>2. last[r] = f /\ OnlyBefore(q, j + 1, r, f)
      BY <1>2, <2>1, <3>1
    <3>3. OnlyBefore(p, (j + 1) - 1, r, f)
      BY <2>5, <3>1, <3>2
    <3>4. QED BY <2>3, <3>1, <3>2, <3>3
  <2>7. Busy(v) /\ Frame(v) = f => last'[r] = f /\ OnlyBefore(p, Len(p), r, f)
    <3>1. N \in 1 .. N /\ N = Len(q)
      BY <2>1 DEF N
    <3>2. QED BY <1>2, <2>1, <2>3, <2>5, <3>1
  <2>8. QED BY <1>1, <2>4, <2>6, <2>7 DEF Remembered, p
<1>6. QED BY <1>4, <1>5

(* The copies of a frame follow one another, until its task is past it.    *)
LEMMA RadioHears ==
  ASSUME OTyped, NEW n \in Nodes, air[n] # <<>>, Lined(n),
         air' = [air EXCEPT ![n] = Tail(@)], tx' = tx, result' = result,
         NEW r, r = For(n), NEW h, h = Head(air[n]), last'[r] = h
  PROVE  h \in Frames /\ Remembered(r, h)'
<1> DEFINE q == air[n]
           p == air'[n]
           N == Len(q)
<1>1. /\ p \in Seq(Frames) /\ N \in Nat \ {0} /\ Len(p) = N - 1
      /\ DOMAIN p = 1 .. N - 1 /\ DOMAIN q = 1 .. N /\ h = q[1] /\ h \in Frames
      /\ \A i \in DOMAIN p : i + 1 \in DOMAIN q /\ p[i] = q[i + 1]
  <2>1. q \in Seq(Frames) /\ q # <<>> /\ p = Tail(q) /\ h = Head(q)
    BY DEF Lined, OTyped
  <2> HIDE DEF p, q
  <2>2. QED BY <2>1, Shortened
<1>2. /\ \A i \in DOMAIN q : Home[q[i][1]] = n /\ q[i] \in Passed
      /\ \A i, j \in DOMAIN q : i < j /\ q[i][1] = q[j][1] => q[i][2] <= q[j][2]
      /\ \A i, j \in DOMAIN q : i < j /\ q[i] = q[j] => \A k \in i .. j : q[k] = q[i]
      /\ \A w \in Writers : Home[w] = n /\ Busy(w) =>
           \A i, j \in DOMAIN q : i < j /\ q[i] = Frame(w) => q[j] = Frame(w)
  BY DEF Lined
<1>3. r = Target[h[1]] /\ last'[r] = h
  BY DEF For
<1>4. /\ Passed' = Passed
      /\ \A v \in Writers : Busy(v)' = Busy(v) /\ Frame(v)' = Frame(v)
  BY DEF Passed, Past, Busy, Current, Frame
<1> HIDE DEF p, q, N
<1>5. Home[h[1]] = n /\ h \in Passed' /\ h[1] \in Writers
  <2>1. 1 \in DOMAIN q /\ h = q[1]
    BY <1>1
  <2>2. Home[h[1]] = n /\ h \in Passed'
    BY <1>2, <1>4, <2>1
  <2>3. QED BY <1>1, <2>2 DEF Frames
<1>6. ASSUME NEW j \in DOMAIN p, p[j][1] = h[1] PROVE h[2] <= p[j][2]
  <2>1. 1 \in DOMAIN q /\ j + 1 \in DOMAIN q /\ 1 < j + 1 /\ q[1] = h /\ q[j + 1] = p[j]
    BY <1>1, <1>6
  <2>2. QED BY <1>2, <1>6, <2>1
<1>7. ASSUME NEW j \in DOMAIN p, p[j] = h PROVE OnlyBefore(p, j, r, h)
  <2>1. \A k \in 1 .. j + 1 : q[k] = h
    <3>1. 1 \in DOMAIN q /\ j + 1 \in DOMAIN q /\ 1 < j + 1 /\ q[1] = q[j + 1]
      BY <1>1, <1>7
    <3>2. QED BY <1>1, <1>2, <3>1
  <2>2. \A i \in 1 .. j : i \in DOMAIN p /\ i + 1 \in 1 .. j + 1
    BY <1>1
  <2>3. QED BY <1>1, <2>1, <2>2 DEF OnlyBefore
<1>8. ASSUME Busy(h[1]), Frame(h[1]) = h PROVE OnlyBefore(p, Len(p), r, h)
  <2>1. \A j \in DOMAIN p : q[j + 1] = h
    BY <1>1, <1>2, <1>5, <1>8
  <2>2. QED BY <1>1, <2>1 DEF OnlyBefore
<1>9. p = air'[Home[h[1]]]
  BY <1>5 DEF p
<1>10. Remembered(r, h)'
  BY <1>3, <1>4, <1>5, <1>6, <1>7, <1>8, <1>9 DEF Remembered
<1>11. QED BY <1>1, <1>10

(* A frame that is not the last one heard was never heard, and a first     *)
(* frame is that of a later packet.                                        *)
LEMMA NewIsLater ==
  ASSUME NEW n \in Nodes, air[n] # <<>>, Lined(n), NEW r, r = For(n), Heard(r),
         NEW h, h = Head(air[n]), h # last[r]
  PROVE  h \in Frames /\ \A g \in heard[r] : g[3] = 0 /\ h[3] = 0 => Later(g, h)
<1>1. 1 \in DOMAIN air[n] /\ h = air[n][1] /\ h \in Frames /\ Home[h[1]] = n
  <2>1. air[n] \in Seq(Frames) /\ 1 \in DOMAIN air[n] /\ h = air[n][1]
    BY DEF Lined
  <2>2. QED BY <2>1 DEF Lined
<1>2. ASSUME NEW g \in heard[r], g[3] = 0, h[3] = 0, g[1] = h[1] PROVE g[2] < h[2]
  <2>1. g \in Frames /\ Remembered(r, g)
    BY DEF Heard
  <2>2. g # h /\ g[2] <= h[2]
    BY <1>1, <1>2, <2>1 DEF Remembered
  <2>3. g = <<g[1], g[2], g[3]>> /\ h = <<h[1], h[2], h[3]>> /\ g[2] \in Nat /\ h[2] \in Nat
    BY <1>1, <2>1 DEF Frames
  <2>4. QED BY <1>2, <2>2, <2>3
<1>3. QED BY <1>1, <1>2 DEF Later

LEMMA ReceiveInOrder ==
  ASSUME NEW r \in Readers, InOrder(r), NEW h \in Frames, h \in heard'[r],
         heard[r] \subseteq heard'[r], rx' = rx, got' = got,
         \/ queue'[r] = queue[r]
         \/ /\ queue'[r] = Append(queue[r], h)
            /\ \A g \in heard[r] : g[3] = 0 /\ h[3] = 0 => Later(g, h)
  PROVE  InOrder(r)'
<1>1. Returned(r)' /\ Begun(r)'
  BY DEF InOrder, Returned, Begun, Begins
<1>2. CASE queue'[r] = queue[r]
  BY <1>1, <1>2 DEF InOrder, Waiting
<1>3. CASE /\ queue'[r] = Append(queue[r], h)
           /\ \A g \in heard[r] : g[3] = 0 /\ h[3] = 0 => Later(g, h)
  <2> DEFINE q == queue[r]
             p == queue'[r]
             N == Len(q)
  <2>1. /\ q \in Seq(Frames) /\ \A i \in DOMAIN q : q[i] \in heard[r]
        /\ \A i \in DOMAIN q : q[i][3] = 0 =>
             /\ \A k \in DOMAIN got[r] : Later(got[r][k][1], q[i])
             /\ rx[r] # <<>> => Later(rx[r][1], q[i])
             /\ \A j \in DOMAIN q : j < i /\ q[j][3] = 0 => Later(q[j], q[i])
    BY DEF InOrder, Waiting
  <2>2. p = Append(q, h)
    BY <1>3
  <2>3. /\ \A k \in DOMAIN got[r] : got[r][k][1] \in heard[r] /\ got[r][k][1][3] = 0
        /\ rx[r] # <<>> => rx[r][1] \in heard[r] /\ rx[r][1][3] = 0
    BY DEF InOrder, Returned, Begun, Begins
  <2> HIDE DEF p, q, N
  <2>4. /\ p \in Seq(Frames) /\ N \in Nat /\ DOMAIN p = 1 .. N + 1 /\ DOMAIN q = 1 .. N
        /\ p[N + 1] = h /\ \A i \in 1 .. N : p[i] = q[i]
    BY <2>1, <2>2, Appended DEF N
  <2>5. \A i \in DOMAIN p : p[i] \in heard'[r]
    BY <2>1, <2>4
  <2>6. ASSUME NEW i \in DOMAIN p, p[i][3] = 0
        PROVE  /\ \A k \in DOMAIN got[r] : Later(got[r][k][1], p[i])
               /\ rx[r] # <<>> => Later(rx[r][1], p[i])
               /\ \A j \in DOMAIN p : j < i /\ p[j][3] = 0 => Later(p[j], p[i])
    <3>1. CASE i = N + 1
      <4>1. h[3] = 0 /\ \A g \in heard[r] : g[3] = 0 => Later(g, h)
        BY <1>3, <2>4, <2>6, <3>1
      <4>2. /\ \A k \in DOMAIN got[r] : Later(got[r][k][1], h)
            /\ rx[r] # <<>> => Later(rx[r][1], h)
        BY <2>3, <4>1
      <4>3. \A j \in DOMAIN q : q[j][3] = 0 => Later(q[j], h)
        BY <2>1, <4>1
      <4>4. \A j \in DOMAIN p : j < i => j \in DOMAIN q /\ p[j] = q[j]
        BY <2>4, <3>1
      <4>5. QED BY <2>4, <3>1, <4>2, <4>3, <4>4
    <3>2. CASE i # N + 1
      BY <2>1, <2>4, <2>6, <3>2
    <3>3. QED BY <3>1, <3>2
  <2>7. Waiting(r)'
    BY <2>4, <2>5, <2>6 DEF Waiting, p, Later
  <2>8. QED BY <1>1, <2>7 DEF InOrder
<1>4. QED BY <1>2, <1>3

LEMMA RadioOrders ==
  ASSUME OneSender, OInv, NEW n \in Nodes, Sending(n)
  PROVE  OInv'
<1> DEFINE h == Head(air[n])
           r == For(n)
<1>1. /\ air[n] # <<>> /\ air' = [air EXCEPT ![n] = Tail(@)]
      /\ tx' = tx /\ result' = result /\ rx' = rx /\ got' = got
  BY DEF Sending, Delivered, AckLost, Lost, Damaged, Radio, Receive, ReceiveDamaged, readVars
<1>2. \A m \in Nodes : Lined(m)'
  BY <1>1, RadioLined DEF OInv
<1>3. \/ Receive(r, h)
      \/ heard' = heard /\ queue' = queue /\ (last' = last \/ last' = [last EXCEPT ![r] = h])
  BY DEF Sending, Delivered, AckLost, Lost, Damaged, ReceiveDamaged, readVars
<1>4. /\ last' = last \/ last' = [last EXCEPT ![r] = h]
      /\ heard' = heard \/ heard' = [heard EXCEPT ![r] = @ \cup {h}]
      /\ queue' = queue \/ queue' = [queue EXCEPT ![r] = Append(@, h)] \/ queue' = [queue EXCEPT ![r] = @]
  BY <1>3 DEF Receive
<1>5. OTyped'
  BY <1>1, <1>4 DEF OInv, OTyped
<1>6. h \in Frames /\ r \in Readers
  <2>1. h = air[n][1] /\ air[n][1] \in Frames
    BY <1>1 DEF OInv, Lined
  <2>2. QED BY <2>1, Homes DEF For, Frames
<1>7. ASSUME NEW s \in Readers, NEW f \in heard[s] PROVE f \in Frames /\ Remembered(s, f)'
  <2>1. f \in Frames /\ Remembered(s, f)
    BY DEF OInv, Heard
  <2>2. air[Home[f[1]]] \in Seq(Frames)
    BY <2>1, Homes DEF OInv, Lined, Frames
  <2>3. last'[s] = last[s] \/ (s = r /\ last'[s] = h)
    BY <1>4 DEF OInv, OTyped
  <2> HIDE DEF r, h
  <2>4. QED BY <1>1, <2>1, <2>2, <2>3, RadioRemembers DEF OInv, r, h
<1>8. \A s \in Readers : Heard(s)'
  <2>1. CASE heard' = heard
    BY <1>7, <2>1 DEF Heard
  <2>2. CASE Receive(r, h)
    <3>1. /\ last'[r] = h /\ heard'[r] = heard[r] \cup {h}
          /\ \A s \in Readers \ {r} : heard'[s] = heard[s]
      BY <1>6, <2>2 DEF Receive, OInv, OTyped
    <3>2. ASSUME NEW s \in Readers, NEW f \in Frames, s = r, f = h PROVE Remembered(s, f)'
      BY <1>1, <3>1, <3>2, RadioHears DEF OInv
    <3>3. ASSUME NEW s \in Readers, NEW f \in heard'[s]
          PROVE  f \in Frames /\ Remembered(s, f)'
      BY <1>6, <1>7, <3>1, <3>2, <3>3
    <3>4. QED BY <3>3 DEF Heard
  <2>3. QED BY <1>3, <2>1, <2>2
<1>9. ASSUME NEW s \in Readers PROVE InOrder(s)'
  <2>1. CASE heard' = heard /\ queue' = queue
    BY <1>1, <2>1 DEF OInv, InOrder, Returned, Begun, Waiting, Begins
  <2>2. CASE Receive(r, h) /\ s # r
    <3>1. heard'[s] = heard[s] /\ queue'[s] = queue[s]
      BY <2>2 DEF Receive, OInv, OTyped
    <3>2. QED BY <1>1, <3>1 DEF OInv, InOrder, Returned, Begun, Waiting, Begins
  <2>3. CASE Receive(r, h) /\ s = r
    <3>1. heard'[s] = heard[s] \cup {h}
      BY <2>3 DEF Receive, OInv, OTyped
    <3>2. queue'[s] = queue[s] \/ (h # last[s] /\ queue'[s] = Append(queue[s], h))
      BY <2>3 DEF Receive, OInv, OTyped
    <3>3. InOrder(s) /\ Heard(s) /\ Lined(n)
      BY DEF OInv
    <3>4. h # last[s] => \A g \in heard[s] : g[3] = 0 /\ h[3] = 0 => Later(g, h)
      BY <1>1, <2>3, <3>3, NewIsLater
    <3> HIDE DEF h, r
    <3>5. QED BY <1>1, <1>6, <3>1, <3>2, <3>3, <3>4, ReceiveInOrder
  <2>4. QED BY <1>3, <2>1, <2>2, <2>3
<1>10. QED BY <1>2, <1>5, <1>8, <1>9 DEF OInv

-----------------------------------------------------------------------------
(* A reader takes a frame, and with it ends a packet or goes on with one.  *)
LEMMA Shifted ==
  ASSUME NEW r \in Readers, Waiting(r), NEW q, q = queue[r], q # <<>>,
         NEW p, p = Tail(q), NEW f, f = Head(q)
  PROVE  /\ f \in Frames /\ f \in heard[r]
         /\ p \in Seq(Frames) /\ \A i \in DOMAIN p : p[i] \in heard[r]
         /\ f[3] = 0 => /\ \A k \in DOMAIN got[r] : Later(got[r][k][1], f)
                        /\ \A i \in DOMAIN p : p[i][3] = 0 => Later(f, p[i])
         /\ \A i \in DOMAIN p : p[i][3] = 0 =>
              /\ \A k \in DOMAIN got[r] : Later(got[r][k][1], p[i])
              /\ rx[r] # <<>> => Later(rx[r][1], p[i])
              /\ \A h \in DOMAIN p : h < i /\ p[h][3] = 0 => Later(p[h], p[i])
<1> DEFINE N == Len(q)
<1>1. /\ q \in Seq(Frames) /\ \A i \in DOMAIN q : q[i] \in heard[r]
      /\ \A i \in DOMAIN q : q[i][3] = 0 =>
           /\ \A k \in DOMAIN got[r] : Later(got[r][k][1], q[i])
           /\ rx[r] # <<>> => Later(rx[r][1], q[i])
           /\ \A h \in DOMAIN q : h < i /\ q[h][3] = 0 => Later(q[h], q[i])
  BY DEF Waiting
<1>2. /\ p \in Seq(Frames) /\ N \in Nat \ {0}
      /\ DOMAIN p = 1 .. N - 1 /\ DOMAIN q = 1 .. N /\ f = q[1] /\ f \in Frames
      /\ \A i \in DOMAIN p : i + 1 \in DOMAIN q /\ p[i] = q[i + 1]
  <2>1. /\ p \in Seq(Frames) /\ Len(q) \in Nat \ {0} /\ Len(p) = Len(q) - 1
        /\ DOMAIN p = 1 .. Len(q) - 1 /\ DOMAIN q = 1 .. Len(q)
        /\ q[1] \in Frames /\ Head(q) = q[1]
        /\ \A i \in DOMAIN p : i + 1 \in DOMAIN q /\ p[i] = q[i + 1]
    BY <1>1, Shortened
  <2>2. QED BY <2>1
<1>3. 1 \in DOMAIN q /\ \A i \in DOMAIN p : 1 < i + 1
  BY <1>2
<1>4. \A i, h \in DOMAIN p : h < i => h + 1 < i + 1
  BY <1>2
<1> HIDE DEF N
<1>5. \A i \in DOMAIN p : p[i] \in heard[r]
  BY <1>1, <1>2
<1>6. ASSUME NEW i \in DOMAIN p, p[i][3] = 0
      PROVE  /\ \A k \in DOMAIN got[r] : Later(got[r][k][1], p[i])
             /\ rx[r] # <<>> => Later(rx[r][1], p[i])
             /\ \A h \in DOMAIN p : h < i /\ p[h][3] = 0 => Later(p[h], p[i])
  BY <1>1, <1>2, <1>4, <1>6
<1>7. f[3] = 0 => /\ \A k \in DOMAIN got[r] : Later(got[r][k][1], f)
                  /\ \A i \in DOMAIN p : p[i][3] = 0 => Later(f, p[i])
  BY <1>1, <1>2, <1>3
<1>8. f \in heard[r]
  BY <1>1, <1>2, <1>3
<1>9. QED BY <1>2, <1>5, <1>6, <1>7, <1>8

LEMMA WaitsOn ==
  ASSUME NEW r \in Readers, Returned(r), Waiting(r), heard' = heard, got'[r] = got[r],
         queue[r] # <<>>, queue'[r] = Tail(queue[r]),
         rx'[r] = <<>> \/ (rx'[r] = rx[r] /\ Begun(r))
  PROVE  InOrder(r)'
<1>1. Returned(r)'
  BY DEF Returned, Begins
<1>2. Begun(r)'
  <2>1. CASE rx'[r] = <<>>
    BY <2>1 DEF Begun
  <2>2. CASE rx'[r] = rx[r] /\ Begun(r)
    BY <2>2 DEF Begun, Begins, Later
  <2>3. QED BY <2>1, <2>2
<1>3. Waiting(r)'
  <2> DEFINE p == queue'[r]
  <2>1. /\ p \in Seq(Frames) /\ \A i \in DOMAIN p : p[i] \in heard[r]
        /\ \A i \in DOMAIN p : p[i][3] = 0 =>
             /\ \A k \in DOMAIN got[r] : Later(got[r][k][1], p[i])
             /\ rx[r] # <<>> => Later(rx[r][1], p[i])
             /\ \A h \in DOMAIN p : h < i /\ p[h][3] = 0 => Later(p[h], p[i])
    BY Shifted
  <2> HIDE DEF p
  <2>2. QED BY <2>1 DEF Waiting, p, Later
<1>4. QED BY <1>1, <1>2, <1>3 DEF InOrder

LEMMA GathersInOrder ==
  ASSUME OTyped, NEW r \in Readers, Returned(r), Waiting(r), heard' = heard,
         queue[r] # <<>>, queue'[r] = Tail(queue[r]),
         NEW b \in Seq(Frames) \ {<<>>}, Gather(r, b), Begins(r, b[1]),
         \A k \in DOMAIN got[r] : Later(got[r][k][1], b[1]),
         \A i \in DOMAIN queue'[r] : queue'[r][i][3] = 0 => Later(b[1], queue'[r][i])
  PROVE  InOrder(r)'
<1> DEFINE p == queue'[r]
<1>1. /\ p \in Seq(Frames) /\ \A i \in DOMAIN p : p[i] \in heard[r]
      /\ \A i \in DOMAIN p : p[i][3] = 0 =>
           /\ \A k \in DOMAIN got[r] : Later(got[r][k][1], p[i])
           /\ \A h \in DOMAIN p : h < i /\ p[h][3] = 0 => Later(p[h], p[i])
  BY Shifted
<1>2. \A i \in DOMAIN p : p[i][3] = 0 => Later(b[1], p[i])
  OBVIOUS
<1> HIDE DEF p
<1>3. CASE got' = got /\ rx'[r] = b
  <2>1. Returned(r)' /\ Begun(r)'
    BY <1>3 DEF Returned, Begun, Begins
  <2>2. Waiting(r)'
    BY <1>1, <1>2, <1>3 DEF Waiting, p, Later
  <2>3. QED BY <2>1, <2>2 DEF InOrder
<1>4. CASE got'[r] = Append(got[r], b) /\ rx'[r] = <<>>
  <2> DEFINE g == got[r]
             c == got'[r]
             N == Len(g)
  <2>1. g \in Seq(Seq(Frames) \ {<<>>}) /\ c = Append(g, b)
    BY <1>4 DEF Returned
  <2>2. /\ \A k \in DOMAIN g : Begins(r, g[k][1])
        /\ \A j, k \in DOMAIN g : j < k => Later(g[j][1], g[k][1])
        /\ \A k \in DOMAIN g : Later(g[k][1], b[1])
        /\ \A i \in DOMAIN p : p[i][3] = 0 => \A k \in DOMAIN g : Later(g[k][1], p[i])
    BY <1>1 DEF Returned
  <2> HIDE DEF g, c
  <2>3. /\ c \in Seq(Seq(Frames) \ {<<>>}) /\ N \in Nat
        /\ DOMAIN c = 1 .. N + 1 /\ DOMAIN g = 1 .. N
        /\ c[N + 1] = b /\ \A i \in 1 .. N : c[i] = g[i]
    BY <2>1, Appended
  <2> HIDE DEF N
  <2>4. \A k \in DOMAIN c : (k \in DOMAIN g /\ c[k] = g[k]) \/ c[k] = b
    BY <2>3
  <2>5. \A k \in DOMAIN c : Begins(r, c[k][1])
    BY <2>2, <2>4
  <2>6. ASSUME NEW j \in DOMAIN c, NEW k \in DOMAIN c, j < k
        PROVE  Later(c[j][1], c[k][1])
    <3>1. j \in DOMAIN g /\ c[j] = g[j]
      BY <2>3, <2>6
    <3>2. CASE k \in DOMAIN g /\ c[k] = g[k]
      BY <2>2, <2>6, <3>1, <3>2
    <3>3. CASE c[k] = b
      BY <2>2, <3>1, <3>3
    <3>4. QED BY <2>4, <3>2, <3>3
  <2>7. ASSUME NEW i \in DOMAIN p, p[i][3] = 0, NEW k \in DOMAIN c
        PROVE  Later(c[k][1], p[i])
    <3>1. CASE k \in DOMAIN g /\ c[k] = g[k]
      BY <2>2, <2>7, <3>1
    <3>2. CASE c[k] = b
      BY <1>2, <2>7, <3>2
    <3>3. QED BY <2>4, <3>1, <3>2
  <2>8. Returned(r)'
    BY <2>3, <2>5, <2>6 DEF Returned, Begins, c, Later
  <2>9. Begun(r)' /\ Waiting(r)'
    <3>1. Begun(r)'
      BY <1>4 DEF Begun
    <3>2. Waiting(r)'
      BY <1>1, <1>4, <2>7 DEF Waiting, c, p, Later
    <3>3. QED BY <3>1, <3>2
  <2>10. QED BY <2>8, <2>9 DEF InOrder
<1>5. QED BY <1>3, <1>4 DEF Gather, OTyped

LEMMA ReadInOrder ==
  ASSUME OTyped, NEW r \in Readers, InOrder(r), ReadFirst(r) \/ ReadNext(r) \/ ReadTimeout(r)
  PROVE  InOrder(r)'
<1>1. heard' = heard
  BY DEF ReadFirst, ReadNext, ReadTimeout, Dequeue
<1>2. CASE ReadTimeout(r)
  BY <1>1, <1>2 DEF ReadTimeout, InOrder, Returned, Begun, Waiting, Begins, OTyped
<1>3. CASE ReadFirst(r) \/ ReadNext(r)
  <2> DEFINE f == Head(queue[r])
             p == queue'[r]
  <2>1. /\ queue[r] # <<>> /\ p = Tail(queue[r])
        /\ Returned(r) /\ Begun(r) /\ Waiting(r)
    BY <1>3 DEF ReadFirst, ReadNext, Dequeue, OTyped, InOrder
  <2>2. /\ f \in Frames /\ f \in heard[r]
        /\ f[3] = 0 => /\ \A k \in DOMAIN got[r] : Later(got[r][k][1], f)
                       /\ \A i \in DOMAIN p : p[i][3] = 0 => Later(f, p[i])
        /\ \A i \in DOMAIN p : p[i][3] = 0 /\ rx[r] # <<>> => Later(rx[r][1], p[i])
    BY <2>1, Shifted
  <2> HIDE DEF p
  <2>3. CASE got' = got /\ (rx' = rx \/ rx' = [rx EXCEPT ![r] = <<>>])
    BY <1>1, <2>1, <2>3, WaitsOn DEF OTyped, p
  <2>4. CASE ReadFirst(r) /\ f[3] = 0 /\ Gather(r, <<f>>)
    <3>1. <<f>> \in Seq(Frames) \ {<<>>} /\ <<f>>[1] = f
      BY <2>2
    <3>2. Begins(r, f)
      BY <2>2, <2>4 DEF Begins
    <3> HIDE DEF f
    <3>3. QED BY <1>1, <2>1, <2>2, <2>4, <3>1, <3>2, GathersInOrder DEF p
  <2>5. CASE ReadNext(r) /\ Gather(r, Append(rx[r], f))
    <3> DEFINE b == Append(rx[r], f)
    <3>1. rx[r] # <<>> /\ rx[r] \in Seq(Frames) /\ f \in Frames
      BY <2>1, <2>2, <2>5 DEF ReadNext, Begun
    <3>2. b \in Seq(Frames) \ {<<>>} /\ b[1] = rx[r][1]
      BY <3>1
    <3>3. Begins(r, b[1]) /\ \A k \in DOMAIN got[r] : Later(got[r][k][1], b[1])
      BY <2>1, <3>1, <3>2 DEF Begun
    <3>4. \A i \in DOMAIN p : p[i][3] = 0 => Later(b[1], p[i])
      BY <2>2, <3>1, <3>2
    <3>5. Gather(r, b)
      BY <2>5
    <3> HIDE DEF b
    <3>6. QED BY <1>1, <2>1, <3>2, <3>3, <3>4, <3>5, GathersInOrder DEF p
  <2>6. QED BY <1>3, <2>3, <2>4, <2>5 DEF ReadFirst, ReadNext
<1>4. QED BY <1>2, <1>3

LEMMA HeardSame ==
  ASSUME OInv, air' = air, heard' = heard, last' = last, tx' = tx, result' = result
  PROVE  \A s \in Readers : Heard(s)'
<1>1. Passed' = Passed /\ \A v \in Writers : Frame(v)' = Frame(v) /\ Busy(v)' = Busy(v)
  BY DEF Passed, Past, Busy, Current, Frame
<1>2. QED BY <1>1 DEF OInv, Heard, Remembered, Frames

LEMMA Unmoved ==
  ASSUME OInv, UNCHANGED vars
  PROVE  OInv'
<1>1. /\ air' = air /\ heard' = heard /\ last' = last /\ tx' = tx /\ result' = result
      /\ queue' = queue /\ rx' = rx /\ got' = got
  BY DEF vars, writeVars, readVars
<1>2. OTyped' /\ \A s \in Readers : InOrder(s)'
  BY <1>1 DEF OInv, OTyped, InOrder, Returned, Begun, Waiting, Begins
<1>3. QED BY <1>1, <1>2, AirSame, HeardSame DEF OInv

LEMMA ReadOrders ==
  ASSUME OInv, NEW r \in Readers, ReadFirst(r) \/ ReadNext(r) \/ ReadTimeout(r)
  PROVE  OInv'
<1>1. /\ air' = air /\ heard' = heard /\ last' = last /\ tx' = tx /\ result' = result
  BY DEF ReadFirst, ReadNext, ReadTimeout, Dequeue, writeVars
<1>2. /\ queue' = queue \/ queue' = [queue EXCEPT ![r] = Tail(@)]
      /\ rx' = rx \/ \E b : rx' = [rx EXCEPT ![r] = b]
      /\ got' = got \/ \E b : got' = [got EXCEPT ![r] = Append(@, b)]
  BY DEF ReadFirst, ReadNext, ReadTimeout, Dequeue, Gather
<1>3. OTyped'
  BY <1>1, <1>2 DEF OInv, OTyped
<1>4. /\ \A n \in Nodes : Lined(n)'
      /\ \A s \in Readers : Heard(s)'
  BY <1>1, AirSame, HeardSame DEF OInv
<1>5. ASSUME NEW s \in Readers, s # r PROVE InOrder(s)'
  <2>1. queue'[s] = queue[s] /\ rx'[s] = rx[s] /\ got'[s] = got[s]
    BY <1>2, <1>5 DEF OInv, OTyped
  <2>2. QED BY <1>1, <2>1 DEF OInv, InOrder, Returned, Begun, Waiting, Begins
<1>6. InOrder(r)'
  BY ReadInOrder DEF OInv
<1>7. QED BY <1>3, <1>4, <1>5, <1>6 DEF OInv

LEMMA OKeeps ==
  ASSUME OneSender, Typed, Exclusive, OInv, [Next]_vars
  PROVE  OInv'
<1>1. CASE UNCHANGED vars
  BY <1>1, Unmoved
<1>2. CASE Next
  BY <1>2, TaskOrders, RadioOrders, ReadOrders DEF Next
<1>3. QED BY <1>1, <1>2

LEMMA OStarts == Init => OInv
  BY DEF Init, OInv, OTyped, Lined, Heard, InOrder, Returned, Begun, Waiting

(* The packets of a task are returned in the order they were written, and  *)
(* none twice, although frames are sent again: the packet filter needs the *)
(* last frame only (mespnow.c:118-123), when no other node sends to the    *)
(* same pipe.                                                              *)
THEOREM PacketsKeepOrder ==
  ASSUME OneSender
  PROVE  Spec => []InOrderOnce
<1>1. Init => EInv /\ OInv
  BY EStarts, OStarts
<1>2. EInv /\ OInv /\ [Next]_vars => (EInv /\ OInv)'
  BY EKeeps, OKeeps DEF EInv
<1>3. OInv => InOrderOnce
  BY DEF OInv, InOrder, Returned, InOrderOnce, Later
<1>4. QED BY <1>1, <1>2, <1>3, PTL DEF Spec

(***************************************************************************)
(* The types.                                                              *)
(***************************************************************************)
(* A task that was called has a packet to send, and one of its frames.     *)
Placed(w) ==
  /\ tx[w].left <= Retry
  /\ tx[w].pc # "idle" => Current(w) <= Len(plan.sizes[w])
  /\ Busy(w) => tx[w].seq < Size(w, Current(w))

Fits(r) == queue[r] \in Seq(Frames) /\ Len(queue[r]) <= QueueCap

TInv ==
  /\ plan \in Plans /\ OTyped
  /\ \A w \in Writers : Placed(w)
  /\ \A n \in Nodes : Lined(n)
  /\ \A r \in Readers : Fits(r)

LEMMA Sizes ==
  ASSUME plan \in Plans, NEW w \in Writers
  PROVE  /\ Len(plan.sizes[w]) \in Nat
         /\ \A i \in 1 .. Len(plan.sizes[w]) : Size(w, i) \in Nat \ {0}
<1>1. plan.sizes \in [Writers -> Seq(Nat \ {0})]
  BY MespnowAssumption DEF MespnowAssumption
<1>2. plan.sizes[w] \in Seq(Nat \ {0})
  BY <1>1
<1>3. QED BY <1>2 DEF Size

LEMMA TaskPlaced ==
  ASSUME Typed, plan \in Plans, NEW w \in Writers, Placed(w), Call(w) \/ Writing(w)
  PROVE  Placed(w)'
<1>0. /\ tx \in [Writers -> [pc : Pcs, seq : Nat, left : Nat]]
      /\ Retry \in Nat \ {0} /\ Len(result[w]) \in Nat /\ plan' = plan
  <2>1. plan' = plan
    BY DEF At, Call, Writing, TakeLock, NoMemory, LockTimeout, SendError, Takes, StartFrame,
       SendFrame, Acked, Unacked, LateCallback
  <2>2. QED BY <2>1, TxTyped, MespnowAssumption DEF MespnowAssumption, Typed
<1>1. ASSUME NEW r \in Returns, Return(w, r) PROVE Placed(w)'
  <2>1. tx'[w] = [tx[w] EXCEPT !.pc = "idle"]
    BY <1>1 DEF Return, Goto, Typed
  <2>2. tx'[w].pc = "idle" /\ tx'[w].left = tx[w].left
    BY <1>0, <2>1
  <2>3. QED BY <2>2 DEF Placed, Busy
<1>2. ASSUME SendAgain(w), Busy(w) PROVE Placed(w)'
  <2>1. CASE /\ tx' = [tx EXCEPT ![w].pc = "send", ![w].left = @ - 1]
             /\ UNCHANGED <<lock, result>>
    <3>1. tx'[w].seq = tx[w].seq /\ tx'[w].left = tx[w].left - 1 /\ result'[w] = result[w]
      BY <1>0, <2>1
    <3>2. Busy(w) /\ tx[w].pc # "idle" /\ tx[w].left \in Nat
      BY <1>0, <1>2 DEF Busy
    <3>3. QED BY <1>0, <3>1, <3>2 DEF Placed, Size, Current
  <2>2. QED BY <1>1, <1>2, <2>1 DEF SendAgain, Exit, Returns
<1>3. CASE Call(w)
  <2>1. /\ tx'[w].pc = "lock" /\ tx'[w].left = tx[w].left /\ result'[w] = result[w]
        /\ Current(w) <= Len(plan.sizes[w])
    BY <1>0, <1>3 DEF Call, Goto
  <2>2. QED BY <1>0, <2>1 DEF Placed, Busy, Current
<1>4. CASE TakeLock(w)
  <2>1. /\ tx'[w] = [pc |-> "frame", seq |-> 0, left |-> 0] /\ result'[w] = result[w]
        /\ Current(w) <= Len(plan.sizes[w])
    BY <1>0, <1>4 DEF TakeLock, Takes, At, Placed
  <2>2. 0 < Size(w, Current(w))
    BY <1>0, <2>1, Sizes DEF Current
  <2>3. QED BY <1>0, <2>1, <2>2 DEF Placed, Size, Current
<1>5. CASE NoMemory(w) \/ LockTimeout(w) \/ SendError(w)
  BY <1>1, <1>5 DEF NoMemory, LockTimeout, SendError, Exit, Returns
<1>6. CASE StartFrame(w)
  <2>1. /\ tx[w].pc = "frame" /\ tx'[w].seq = tx[w].seq /\ tx'[w].left = Retry
        /\ result'[w] = result[w]
    BY <1>0, <1>6 DEF StartFrame, At
  <2>2. QED BY <1>0, <2>1 DEF Placed, Busy, Size, Current
<1>7. CASE SendFrame(w)
  <2>1. /\ tx[w].pc = "send" /\ tx'[w].seq = tx[w].seq /\ tx'[w].left = tx[w].left
        /\ result'[w] = result[w]
    BY <1>0, <1>7 DEF SendFrame, At, Goto
  <2>2. QED BY <1>0, <2>1 DEF Placed, Busy, Size, Current
<1>8. CASE Acked(w)
  <2>1. CASE Exit(w, "OK")
    BY <1>1, <2>1 DEF Exit, Returns
  <2>2. CASE /\ ~LastFrame(w) /\ tx' = [tx EXCEPT ![w].pc = "frame", ![w].seq = @ + 1]
             /\ UNCHANGED <<lock, result>>
    <3>1. /\ tx[w].pc = "wait" /\ tx'[w].seq = tx[w].seq + 1 /\ tx'[w].left = tx[w].left
          /\ result'[w] = result[w] /\ tx[w].seq \in Nat
      BY <1>0, <1>8, <2>2 DEF Acked, At
    <3>2. /\ Current(w) <= Len(plan.sizes[w]) /\ tx[w].seq < Size(w, Current(w))
          /\ tx[w].left <= Retry
      BY <3>1 DEF Placed, Busy
    <3>3. Size(w, Current(w)) \in Nat
      BY <1>0, <3>2, Sizes DEF Current
    <3>4. tx'[w].seq < Size(w, Current(w))
      BY <2>2, <3>1, <3>2, <3>3 DEF LastFrame
    <3>5. QED BY <1>0, <3>1, <3>2, <3>4 DEF Placed, Size, Current
  <2>3. QED BY <1>8, <2>1, <2>2 DEF Acked
<1>9. CASE Unacked(w) \/ LateCallback(w)
  BY <1>2, <1>9 DEF Unacked, LateCallback, At, Busy
<1>10. QED BY <1>3, <1>4, <1>5, <1>6, <1>7, <1>8, <1>9 DEF Writing

LEMMA TaskPlaces ==
  ASSUME Typed, Exclusive, TInv, NEW w \in Writers, Call(w) \/ Writing(w)
  PROVE  TInv'
<1>1. /\ heard' = heard /\ last' = last /\ queue' = queue /\ rx' = rx /\ got' = got
      /\ plan' = plan /\ DOMAIN air' = Nodes
  BY TaskTyped DEF Call, Writing, TakeLock, NoMemory, LockTimeout, SendError, Takes, StartFrame,
     SendFrame, Acked, Unacked, LateCallback, At, readVars, Typed
<1>2. \A n \in Nodes : Lined(n)'
  BY TaskLined DEF TInv
<1>3. \A v \in Writers : Placed(v)'
  <2>1. ASSUME NEW v \in Writers, v # w PROVE Placed(v)'
    <3>1. tx'[v] = tx[v] /\ result'[v] = result[v] /\ Placed(v)
      BY <2>1, TaskMoves DEF TInv
    <3>2. QED BY <1>1, <3>1 DEF Placed, Busy, Size, Current
  <2>2. Placed(w)'
    BY TaskPlaced DEF TInv
  <2>3. QED BY <2>1, <2>2
<1>4. QED BY <1>1, <1>2, <1>3 DEF TInv, OTyped, Fits

LEMMA RadioPlaces ==
  ASSUME TInv, NEW n \in Nodes, Sending(n)
  PROVE  TInv'
<1> DEFINE h == Head(air[n])
           r == For(n)
<1>1. /\ air[n] # <<>> /\ air' = [air EXCEPT ![n] = Tail(@)] /\ plan' = plan
      /\ tx' = tx /\ result' = result /\ rx' = rx /\ got' = got
  BY DEF Sending, Delivered, AckLost, Lost, Damaged, Radio, Receive, ReceiveDamaged, readVars
<1>2. \A m \in Nodes : Lined(m)'
  BY <1>1, RadioLined DEF TInv
<1>3. /\ last' = last \/ last' = [last EXCEPT ![r] = h]
      /\ heard' = heard \/ heard' = [heard EXCEPT ![r] = @ \cup {h}]
      /\ \/ queue' = queue
         \/ queue' = [queue EXCEPT ![r] = @]
         \/ Len(queue[r]) < QueueCap /\ queue' = [queue EXCEPT ![r] = Append(@, h)]
  BY DEF Sending, Delivered, AckLost, Lost, Damaged, Receive, ReceiveDamaged, readVars
<1>4. OTyped'
  BY <1>1, <1>3 DEF TInv, OTyped
<1>5. h \in Frames
  <2>1. h = air[n][1] /\ air[n][1] \in Frames
    BY <1>1 DEF TInv, Lined
  <2>2. QED BY <2>1
<1> HIDE DEF h, r
<1>6. ASSUME NEW s \in Readers PROVE Fits(s)'
  <2>1. Fits(s) /\ QueueCap \in Nat
    BY MespnowAssumption DEF MespnowAssumption, TInv
  <2>2. CASE queue'[s] = queue[s]
    BY <2>1, <2>2 DEF Fits
  <2>3. CASE Len(queue[s]) < QueueCap /\ queue'[s] = Append(queue[s], h)
    <3>1. queue'[s] \in Seq(Frames) /\ Len(queue'[s]) = Len(queue[s]) + 1 /\ Len(queue[s]) \in Nat
      BY <1>5, <2>1, <2>3, Appended DEF Fits
    <3>2. QED BY <2>1, <2>3, <3>1 DEF Fits
  <2>4. QED BY <1>3, <2>2, <2>3 DEF TInv, OTyped
<1>7. \A w \in Writers : Placed(w)'
  BY <1>1 DEF TInv, Placed, Busy, Size, Current
<1>8. QED BY <1>1, <1>2, <1>4, <1>6, <1>7 DEF TInv

LEMMA ReadPlaces ==
  ASSUME TInv, NEW r \in Readers, ReadFirst(r) \/ ReadNext(r) \/ ReadTimeout(r)
  PROVE  TInv'
<1>1. /\ air' = air /\ heard' = heard /\ last' = last /\ tx' = tx /\ result' = result
      /\ plan' = plan
  BY DEF ReadFirst, ReadNext, ReadTimeout, Dequeue, writeVars
<1>2. /\ queue' = queue \/ (queue[r] # <<>> /\ queue' = [queue EXCEPT ![r] = Tail(@)])
      /\ rx' = rx \/ \E b : rx' = [rx EXCEPT ![r] = b]
      /\ got' = got \/ \E b : got' = [got EXCEPT ![r] = Append(@, b)]
  BY DEF ReadFirst, ReadNext, ReadTimeout, Dequeue, Gather
<1>3. OTyped'
  BY <1>1, <1>2 DEF TInv, OTyped
<1>4. \A n \in Nodes : Lined(n)'
  BY <1>1, AirSame DEF TInv
<1>5. ASSUME NEW s \in Readers PROVE Fits(s)'
  <2>1. Fits(s) /\ QueueCap \in Nat
    BY MespnowAssumption DEF MespnowAssumption, TInv
  <2>2. CASE queue'[s] = queue[s]
    BY <2>1, <2>2 DEF Fits
  <2>3. CASE queue[s] # <<>> /\ queue'[s] = Tail(queue[s])
    <3>1. queue'[s] \in Seq(Frames) /\ Len(queue'[s]) = Len(queue[s]) - 1 /\ Len(queue[s]) \in Nat
      BY <2>1, <2>3, Shortened DEF Fits
    <3>2. QED BY <2>1, <3>1 DEF Fits
  <2>4. QED BY <1>2, <2>2, <2>3 DEF TInv, OTyped
<1>6. \A w \in Writers : Placed(w)'
  BY <1>1 DEF TInv, Placed, Busy, Size, Current
<1>7. QED BY <1>1, <1>3, <1>4, <1>5, <1>6 DEF TInv

LEMMA TStarts == Init => TInv
<1> SUFFICES ASSUME Init PROVE TInv
  OBVIOUS
<1>1. Retry \in Nat /\ QueueCap \in Nat
  BY MespnowAssumption DEF MespnowAssumption
<1>2. \A w \in Writers : Placed(w)
  BY <1>1 DEF Init, Placed, Busy
<1>3. \A r \in Readers : Fits(r)
  BY <1>1 DEF Init, Fits
<1>4. QED BY <1>2, <1>3 DEF Init, TInv, OTyped, Lined

LEMMA TKeeps ==
  ASSUME EInv, TInv, [Next]_vars
  PROVE  TInv'
<1>1. Typed /\ Exclusive
  BY DEF EInv
<1>2. CASE UNCHANGED vars
  <2>1. \A n \in Nodes : Lined(n)'
    BY <1>2, AirSame DEF vars, writeVars, readVars, TInv
  <2>2. QED BY <1>2, <2>1 DEF vars, writeVars, readVars, TInv, OTyped, Placed, Fits, Busy,
              Size, Current
<1>3. CASE Next
  BY <1>1, <1>3, TaskPlaces, RadioPlaces, ReadPlaces DEF Next
<1>4. QED BY <1>2, <1>3

(* Every variable of the model has its type: a task that was called has a  *)
(* frame of its packet to send, with no more attempts than                 *)
(* CONFIG_MESPNOW_RETRANSMIT_NUM, and a queue holds what it has room for.  *)
THEOREM PacketTypes == Spec => []TypeOK
<1>1. Init => EInv /\ TInv
  BY EStarts, TStarts
<1>2. EInv /\ TInv /\ [Next]_vars => (EInv /\ TInv)'
  BY EKeeps, TKeeps
<1>3. EInv /\ TInv => TypeOK
  <2> SUFFICES ASSUME EInv, TInv PROVE TypeOK
    OBVIOUS
  <2>1. \A w \in Writers :
          /\ tx[w].pc \in Pcs /\ tx[w].left \in 0 .. Retry
          /\ tx[w].pc \notin {"idle", "lock"} => Busy(w)
    <3>1. tx \in [Writers -> [pc : Pcs, seq : Nat, left : Nat]] /\ Retry \in Nat
      BY TxTyped, MespnowAssumption DEF MespnowAssumption, EInv
    <3>2. QED BY <3>1 DEF TInv, Placed, Busy, Pcs
  <2>2. QED BY <2>1 DEF EInv, Typed, TInv, Placed, Fits, TypeOK, Pcs, Busy
<1>4. QED BY <1>1, <1>2, <1>3, PTL DEF Spec

-----------------------------------------------------------------------------
(***************************************************************************)
(* Packets as they were written.  What a reader takes from its queue next  *)
(* either begins a packet or goes on with the one it has, or it has a      *)
(* number that the reader does not accept.  That is so when, as heard by   *)
(* the radio, a frame follows the one before it in its packet or begins a  *)
(* packet: as long as no callback is late, since a task goes on when its   *)
(* frame was received (InTurn); and as long as none is lost, since the     *)
(* frames are received in the order they were sent (Chained, Ended).       *)
(*                                                                         *)
(* After a damaged frame there is a gap of one.  The reader sees it when   *)
(* the packet that it has is not whole: its next frame has another number. *)
(* When the damaged frame begins a packet, the reader has none: without    *)
(* another fault no packet is given up (Kept), so that the one before is   *)
(* whole, and returned.                                                    *)
(***************************************************************************)
Real == {f \in Frames : <<f[1], f[2]>> \in Written}

Carried ==
  /\ \A n \in Nodes : air[n] \in Seq(Real)
  /\ \A r \in Readers : /\ queue[r] \in Seq(Real) /\ rx[r] \in Seq(Real)
                        /\ last[r] \in Real \cup {NoFrame}
                        /\ got[r] \in Seq(Seq(Frames))

Succ(f) == <<f[1], f[2], f[3] + 1>>
Ends(f) == f[3] + 1 = TotalSize(f)

(* Frame b begins a packet, or it is z again, or the one after it.         *)
After(z, b) == b[3] = 0 \/ b = z \/ (z \in Frames /\ b = Succ(z))

InTurn(w) ==
  LET z == last[Target[w]]
  IN  Busy(w) => /\ After(z, Frame(w))
                 /\ tx[w].pc = "wait" /\ "OK" \in bits[Home[w]] => z = Frame(w)

Lossless == Without({"damage", "loss"})

Chained(n) ==
  LET q == air[n]
  IN  /\ q # <<>> => After(last[Target[q[1][1]]], q[1])
      /\ \A i, j \in DOMAIN q : j = i + 1 => After(q[i], q[j])

(* The newest frame of those that a task and its reader have in common.    *)
End(w) ==
  LET q == air[Home[w]] IN IF q = <<>> THEN last[Target[w]] ELSE q[Len(q)]

Ended(w) ==
  Busy(w) => /\ After(End(w), Frame(w))
             /\ tx[w].pc = "wait" => End(w) = Frame(w)

Perfect == Without(Events)

NoFail(n) == "FAIL" \notin bits[n]

Kept(r) ==
  \/ last[r] = NoFrame
  \/ Ends(last[r])
  \/ \E w \in Writers : /\ Busy(w) /\ Target[w] = r
                        /\ last[r] = Frame(w) \/ Succ(last[r]) = Frame(w)

(* Frame b behind frame a does not make a packet go on with another.       *)
Joint(a, b) == b[3] = a[3] + 1 => b = Succ(a) \/ Ends(a)

(* The newest frame a of a reader, and the last one its radio heard.       *)
Close(r, a) ==
  /\ a = last[r] \/ last[r][3] = a[3] + 1 \/ Ends(a)
  /\ Perfect => a = last[r]

Partial(r) ==
  LET b == rx[r]
  IN  b # <<>> => /\ \A k \in DOMAIN b : b[k] = <<b[1][1], b[1][2], k - 1>>
                  /\ Len(b) < TotalSize(b[1])

Stream(r) ==
  LET q == queue[r]
      b == rx[r]
  IN  /\ Partial(r)
      /\ \A i, j \in DOMAIN q : j = i + 1 => Joint(q[i], q[j])
      /\ q # <<>> /\ b # <<>> => Joint(b[Len(b)], q[1])
      /\ q # <<>> => Close(r, q[Len(q)])
      /\ q = <<>> /\ b # <<>> => Close(r, b[Len(b)])

Wholes(r) == \A k \in DOMAIN got[r] : \E m \in Written : got[r][k] = Parts(m[1], m[2])

Good(r) ==
  full[r] = {} /\ (\/ Without({"damage", "late callback"})
                  \/ Without({"damage", "loss"})
                  \/ Single)

WInv ==
  /\ Carried /\ DOMAIN full = Readers
  /\ Prompt => \A w \in Writers : InTurn(w)
  /\ Lossless => /\ \A n \in Nodes : Chained(n)
                 /\ \A w \in Writers : Ended(w)
  /\ Perfect => /\ \A n \in Nodes : NoFail(n)
                /\ \A r \in Readers : Kept(r)
  /\ \A r \in Readers : Good(r) => Stream(r) /\ Wholes(r)

-----------------------------------------------------------------------------
(* What was counted stays counted.                                         *)
Fewer ==
  /\ used \in [Events -> Nat] /\ used' \in [Events -> Nat]
  /\ \A e \in Events : used[e] <= used'[e]

LEMMA NeverFewer ==
  ASSUME Typed, [Next]_vars
  PROVE  Fewer
<1>1. used' = used \/ \E e \in Events : Happens(e)
  <2>1. ASSUME NEW w \in Writers, Call(w) \/ Writing(w)
        PROVE  used' = used \/ \E e \in Events : Happens(e)
    BY <2>1 DEF Call, Writing, TakeLock, NoMemory, LockTimeout, SendError, Takes, StartFrame,
       SendFrame, Acked, Unacked, LateCallback, Events
  <2>2. ASSUME NEW n \in Nodes, Sending(n)
        PROVE  used' = used \/ \E e \in Events : Happens(e)
    BY <2>2 DEF Sending, Delivered, AckLost, Lost, Damaged, Events
  <2>3. ASSUME NEW r \in Readers, ReadFirst(r) \/ ReadNext(r) \/ ReadTimeout(r)
        PROVE  used' = used \/ \E e \in Events : Happens(e)
    BY <2>3 DEF ReadFirst, ReadNext, ReadTimeout, Dequeue, Events
  <2>4. QED BY <2>1, <2>2, <2>3 DEF Next, vars
<1>2. CASE used' = used
  BY <1>2 DEF Typed, Fewer
<1>3. ASSUME NEW e \in Events, Happens(e) PROVE Fewer
  <2>1. used \in [Events -> Nat] /\ used' = [used EXCEPT ![e] = @ + 1]
    BY <1>3 DEF Typed, Happens
  <2>2. used' \in [Events -> Nat] /\ \A k \in Events : used[k] <= used'[k]
    BY <2>1
  <2>3. QED BY <2>1, <2>2 DEF Fewer
<1>4. QED BY <1>1, <1>2, <1>3

LEMMA WithoutBefore ==
  ASSUME Fewer, NEW S \in SUBSET Events, Without(S)'
  PROVE  Without(S)
<1>1. \A e \in S : used[e] \in Nat /\ used[e] <= used'[e] /\ used'[e] = 0
  BY DEF Fewer, Without
<1>2. QED BY <1>1 DEF Without

LEMMA GoodBefore ==
  ASSUME Fewer
  PROVE  /\ Prompt' => Prompt
         /\ Lossless' => Lossless
         /\ Perfect' => Perfect /\ used' = used
         /\ Single' => Single
         /\ \A r \in Readers : full[r] \subseteq full'[r] /\ Good(r)' => Good(r)
<1>1. Prompt' => Prompt
  <2>1. "late callback" \in Events
    BY DEF Events
  <2>2. QED BY <2>1, WithoutBefore DEF Prompt, Without
<1>2. Lossless' => Lossless
  BY WithoutBefore DEF Lossless, Events
<1>3. Perfect' => Perfect /\ used' = used
  <2> SUFFICES ASSUME Perfect' PROVE Perfect /\ used' = used
    OBVIOUS
  <2>1. Perfect
    BY WithoutBefore DEF Perfect
  <2>2. \A e \in Events : used[e] = 0 /\ used'[e] = 0
    BY <2>1 DEF Perfect, Without
  <2>3. QED BY <2>1, <2>2 DEF Fewer
<1>4. Single' => Single
  <2> SUFFICES ASSUME Single' PROVE Single
    OBVIOUS
  <2>1. PICK e \in Events : used'[e] <= 1 /\ Without(Events \ {e})'
    BY DEF Single, Without
  <2>2. used[e] <= 1
    <3>1. used[e] \in Nat /\ used'[e] \in Nat /\ used[e] <= used'[e] /\ used'[e] <= 1
      BY <2>1 DEF Fewer
    <3>2. QED BY <3>1
  <2>3. QED BY <2>1, <2>2, WithoutBefore DEF Single
<1>5. ASSUME NEW r \in Readers, full[r] \subseteq full'[r], Good(r)' PROVE Good(r)
  <2>0. full[r] = {}
    BY <1>5 DEF Good
  <2>1. Without({"damage", "late callback"})' => Without({"damage", "late callback"})
    BY WithoutBefore DEF Events
  <2>2. Without({"damage", "loss"})' => Without({"damage", "loss"})
    BY WithoutBefore DEF Events
  <2>3. QED BY <1>4, <1>5, <2>0, <2>1, <2>2 DEF Good
<1>6. QED BY <1>1, <1>2, <1>3, <1>4, <1>5

(* One of the two reasons holds where packets are expected whole.          *)
LEMMA GoodIsOrdered ==
  ASSUME Typed, NEW r \in Readers, Good(r)
  PROVE  Prompt \/ Lossless
<1>1. CASE Single
  <2>1. PICK e \in Events : Without(Events \ {e})
    BY <1>1 DEF Single
  <2>2. CASE e = "late callback"
    BY <2>1, <2>2 DEF Without, Lossless, Events
  <2>3. CASE e # "late callback"
    BY <2>1, <2>3 DEF Without, Prompt, Events
  <2>4. QED BY <2>2, <2>3
<1>2. QED BY <1>1 DEF Good, Without, Prompt, Lossless

-----------------------------------------------------------------------------
(* The frames of packets that were written.                                *)
LEMMA TaskReads ==
  ASSUME NEW w \in Writers, Call(w) \/ Writing(w)
  PROVE  /\ plan' = plan /\ queue' = queue /\ last' = last /\ rx' = rx /\ got' = got
         /\ full' = full
  BY DEF Call, Writing, TakeLock, NoMemory, LockTimeout, SendError, Takes, StartFrame,
     SendFrame, Acked, Unacked, LateCallback, At, readVars

LEMMA WrittenStays ==
  ASSUME Typed, NEW w \in Writers, Call(w) \/ Writing(w)
  PROVE  Written \subseteq Written' /\ Real \subseteq Real'
<1>1. \A v \in Writers :
        Current(v) \in Nat /\ Current(v)' \in Nat /\ Current(v) <= Current(v)'
  <2>1. ASSUME NEW v \in Writers PROVE Current(v) \in Nat
    BY DEF Typed, Current
  <2>2. ASSUME NEW v \in Writers \ {w} PROVE Current(v)' = Current(v)
    BY TaskMoves DEF Current
  <2>3. Current(w)' = Current(w) \/ Current(w)' = Current(w) + 1
    BY TaskMoves DEF Stays, Enters, Advances, Leaves, Current
  <2>4. QED BY <2>1, <2>2, <2>3
<1>2. plan' = plan
  BY TaskReads
<1>3. ASSUME NEW m \in Written PROVE m \in Written'
  <2>1. /\ m \in Writers \X (1 .. MaxWrites) /\ m[1] \in Writers /\ m[2] \in Nat
        /\ m[2] <= Current(m[1]) /\ m[2] <= Len(plan.sizes[m[1]])
    BY MespnowAssumption DEF Written, MespnowAssumption
  <2>2. m[2] <= Current(m[1])'
    <3>1. PICK v \in Writers : v = m[1]
      BY <2>1
    <3>2. Current(v) \in Nat /\ Current(v)' \in Nat /\ Current(v) <= Current(v)'
      BY <1>1
    <3>3. m[2] <= Current(v)'
      BY <2>1, <3>1, <3>2
    <3>4. QED BY <3>1, <3>3
  <2>3. QED BY <1>2, <2>1, <2>2 DEF Written
<1>4. QED BY <1>3 DEF Real

LEMMA FrameReal ==
  ASSUME Typed, plan \in Plans, NEW w \in Writers, Placed(w), Busy(w)
  PROVE  Frame(w) \in Real
<1>1. Current(w) \in Nat \ {0} /\ tx[w].seq \in Nat
  BY TxTyped DEF Typed, Current
<1>2. Current(w) <= Len(plan.sizes[w]) /\ Len(plan.sizes[w]) <= MaxWrites
  BY MespnowAssumption DEF MespnowAssumption, Placed, Busy
<1>3. Len(plan.sizes[w]) \in Nat /\ MaxWrites \in Nat
  BY Sizes, MespnowAssumption DEF MespnowAssumption
<1>4. Current(w) \in 1 .. MaxWrites
  BY <1>1, <1>2, <1>3
<1>5. <<w, Current(w)>> \in Written
  BY <1>1, <1>2, <1>4 DEF Written
<1>6. QED BY <1>1, <1>5 DEF Real, Frame, Frames

LEMMA Wider ==
  ASSUME NEW S, NEW T, S \subseteq T
  PROVE  Seq(S) \subseteq Seq(T)
  OBVIOUS

LEMMA TaskCarried ==
  ASSUME Typed, TInv, Carried, NEW w \in Writers, Call(w) \/ Writing(w)
  PROVE  Carried'
<1>1. Real \subseteq Real' /\ Seq(Real) \subseteq Seq(Real')
  BY WrittenStays, Wider
<1>2. /\ queue' = queue /\ last' = last /\ rx' = rx /\ got' = got
  BY TaskReads
<1>3. ASSUME NEW n \in Nodes PROVE air'[n] \in Seq(Real')
  <2>1. CASE air'[n] = air[n]
    BY <1>1, <2>1 DEF Carried
  <2>2. CASE Busy(w) /\ air'[n] = Append(air[n], Frame(w))
    <3>1. Frame(w) \in Real /\ air[n] \in Seq(Real)
      BY <2>2, FrameReal DEF TInv, Carried
    <3>2. Append(air[n], Frame(w)) \in Seq(Real)
      BY <3>1
    <3>3. QED BY <1>1, <2>2, <3>2
  <2>3. QED BY <2>1, <2>2, AirMoves DEF Appends, TInv, OTyped
<1>4. ASSUME NEW r \in Readers
      PROVE  /\ queue'[r] \in Seq(Real') /\ rx'[r] \in Seq(Real')
             /\ last'[r] \in Real' \cup {NoFrame}
             /\ got'[r] \in Seq(Seq(Frames))
  BY <1>1, <1>2 DEF Carried
<1>5. QED BY <1>3, <1>4 DEF Carried

(* What the radio of a node does with its first frame.                     *)
LEMMA RadioMoves ==
  ASSUME TInv, Carried, DOMAIN full = Readers, NEW n \in Nodes, Sending(n),
         NEW h, h = Head(air[n]), NEW r, r = For(n)
  PROVE  /\ air[n] # <<>> /\ air' = [air EXCEPT ![n] = Tail(@)]
         /\ plan' = plan /\ lock' = lock /\ tx' = tx /\ result' = result
         /\ rx' = rx /\ got' = got
         /\ h \in Real /\ h[1] \in Writers /\ Home[h[1]] = n
         /\ r \in Readers /\ r = Target[h[1]] /\ h = air[n][1]
         /\ \A s \in Readers \ {r} : /\ last'[s] = last[s] /\ queue'[s] = queue[s]
                                     /\ full'[s] = full[s]
         /\ DOMAIN full' = Readers /\ full[r] \subseteq full'[r]
         /\ \/ last'[r] = last[r] /\ queue'[r] = queue[r] /\ Lost(n)
            \/ last'[r] = h /\ queue'[r] = queue[r] /\ Damaged(n)
            \/ /\ last'[r] = h
               /\ Delivered(n) \/ AckLost(n)
               /\ \/ h = last[r] /\ queue'[r] = queue[r]
                  \/ h # last[r] /\ queue'[r] = Append(queue[r], h)
                  \/ full'[r] # {} /\ queue'[r] = queue[r]
<1>1. /\ air[n] # <<>> /\ air' = [air EXCEPT ![n] = Tail(@)]
      /\ plan' = plan /\ lock' = lock /\ tx' = tx /\ result' = result
      /\ rx' = rx /\ got' = got
  BY DEF Sending, Delivered, AckLost, Lost, Damaged, Radio, Receive, ReceiveDamaged, readVars
<1>2. /\ h \in Real /\ h[1] \in Writers /\ Home[h[1]] = n /\ h = air[n][1]
      /\ r \in Readers /\ r = Target[h[1]]
  <2>1. air[n] \in Seq(Real) /\ 1 \in DOMAIN air[n] /\ h = air[n][1] /\ h \in Real
    BY <1>1 DEF Carried
  <2>2. Home[h[1]] = n /\ h[1] \in Writers
    BY <2>1 DEF TInv, Lined, Real, Frames
  <2>3. QED BY <2>1, <2>2, Homes DEF For
<1>3. OTyped /\ DOMAIN full = Readers
  BY DEF TInv
<1>4. CASE Lost(n)
  BY <1>1, <1>2, <1>3, <1>4 DEF Lost, readVars
<1>5. CASE Damaged(n)
  BY <1>1, <1>2, <1>3, <1>5 DEF Damaged, ReceiveDamaged, OTyped
<1>6. CASE Delivered(n) \/ AckLost(n)
  <2>1. Receive(r, h)
    BY <1>6 DEF Delivered, AckLost
  <2>2. /\ last' = [last EXCEPT ![r] = h]
        /\ queue' = [queue EXCEPT ![r] =
                        IF h # last[r] /\ Len(@) < QueueCap THEN Append(@, h) ELSE @]
        /\ full' = [full EXCEPT ![r] =
                       IF h # last[r] /\ Len(queue[r]) = QueueCap THEN @ \cup {h} ELSE @]
    BY <2>1 DEF Receive
  <2>3. /\ last'[r] = h /\ full[r] \subseteq full'[r] /\ DOMAIN full' = Readers
        /\ \A s \in Readers \ {r} : /\ last'[s] = last[s] /\ queue'[s] = queue[s]
                                    /\ full'[s] = full[s]
    BY <1>2, <1>3, <2>2 DEF OTyped
  <2>4. Len(queue[r]) < QueueCap \/ Len(queue[r]) = QueueCap
    <3>1. Len(queue[r]) \in Nat /\ Len(queue[r]) <= QueueCap /\ QueueCap \in Nat
      BY <1>2, MespnowAssumption DEF MespnowAssumption, TInv, Fits
    <3>2. QED BY <3>1
  <2>5. \/ h = last[r] /\ queue'[r] = queue[r]
        \/ h # last[r] /\ queue'[r] = Append(queue[r], h)
        \/ full'[r] # {} /\ queue'[r] = queue[r]
    <3>1. CASE h = last[r]
      BY <1>2, <1>3, <2>2, <3>1 DEF OTyped
    <3>2. CASE h # last[r] /\ Len(queue[r]) < QueueCap
      BY <1>2, <1>3, <2>2, <3>2 DEF OTyped
    <3>3. CASE h # last[r] /\ Len(queue[r]) = QueueCap
      BY <1>2, <1>3, <2>2, <3>3 DEF OTyped
    <3>4. QED BY <2>4, <3>1, <3>2, <3>3
  <2>6. QED BY <1>1, <1>2, <1>6, <2>3, <2>5
<1>7. QED BY <1>4, <1>5, <1>6 DEF Sending

LEMMA RealSame ==
  ASSUME plan' = plan, result' = result
  PROVE  Written' = Written /\ Real' = Real
  BY DEF Written, Real, Current

LEMMA RadioCarried ==
  ASSUME TInv, Carried, DOMAIN full = Readers, NEW n \in Nodes, Sending(n),
         NEW h, h = Head(air[n]), NEW r, r = For(n)
  PROVE  Carried'
<1>0. /\ air[n] # <<>> /\ air' = [air EXCEPT ![n] = Tail(@)]
      /\ plan' = plan /\ result' = result /\ rx' = rx /\ got' = got
      /\ h \in Real /\ r \in Readers
  BY RadioMoves
<1>1. /\ \A s \in Readers \ {r} : last'[s] = last[s] /\ queue'[s] = queue[s]
      /\ last'[r] = last[r] \/ last'[r] = h
      /\ queue'[r] = queue[r] \/ queue'[r] = Append(queue[r], h)
  BY RadioMoves
<1>2. Real' = Real
  BY <1>0, RealSame
<1>3. ASSUME NEW m \in Nodes PROVE air'[m] \in Seq(Real)
  <2>1. air'[m] = IF m = n THEN Tail(air[n]) ELSE air[m]
    BY <1>0 DEF TInv, OTyped
  <2>2. air[m] \in Seq(Real) /\ air[n] \in Seq(Real) /\ air[n] # <<>>
    BY <1>0 DEF Carried
  <2>3. QED BY <2>1, <2>2, Shortened
<1>4. ASSUME NEW s \in Readers
      PROVE  /\ queue'[s] \in Seq(Real) /\ last'[s] \in Real \cup {NoFrame}
  <2>1. queue[s] \in Seq(Real) /\ last[s] \in Real \cup {NoFrame}
    BY DEF Carried
  <2>2. Append(queue[s], h) \in Seq(Real) /\ h \in Real
    BY <1>0, <2>1
  <2>3. CASE s = r
    BY <1>1, <2>1, <2>2, <2>3
  <2>4. CASE s # r
    BY <1>1, <2>1, <2>4
  <2>5. QED BY <2>3, <2>4
<1>5. QED BY <1>0, <1>1, <1>2, <1>3, <1>4 DEF Carried

(* What a reader does: it takes a frame and drops what it has, or goes on  *)
(* with it, or has a packet; or it has waited for too long.                *)
Frames1(r) == <<Head(queue[r])>>
FramesN(r) == Append(rx[r], Head(queue[r]))

Gathers(r, b) ==
  \/ Len(b) >= TotalSize(b[1]) /\ got'[r] = Append(got[r], b) /\ rx'[r] = <<>>
  \/ ~(Len(b) >= TotalSize(b[1])) /\ got'[r] = got[r] /\ rx'[r] = b

LEMMA ReadMoves ==
  ASSUME OTyped, NEW r \in Readers, ReadFirst(r) \/ ReadNext(r) \/ ReadTimeout(r)
  PROVE  /\ plan' = plan /\ tx' = tx /\ result' = result /\ lock' = lock /\ bits' = bits
         /\ air' = air /\ last' = last /\ full' = full
         /\ \A s \in Readers \ {r} : /\ rx'[s] = rx[s] /\ queue'[s] = queue[s]
                                     /\ got'[s] = got[s]
         /\ \/ rx'[r] = <<>> /\ queue'[r] = queue[r] /\ queue[r] = <<>> /\ got'[r] = got[r]
            \/ /\ queue[r] # <<>> /\ queue'[r] = Tail(queue[r])
               /\ \/ rx'[r] = <<>> /\ got'[r] = got[r]
                  \/ rx[r] = <<>> /\ Head(queue[r])[3] = 0 /\ Gathers(r, Frames1(r))
                  \/ /\ rx[r] # <<>> /\ Head(queue[r])[3] = Len(rx[r])
                     /\ Gathers(r, FramesN(r))
<1>1. ASSUME NEW b, Gather(r, b)
      PROVE  Gathers(r, b) /\ \A s \in Readers \ {r} : rx'[s] = rx[s] /\ got'[s] = got[s]
  BY <1>1 DEF Gather, Gathers, OTyped
<1>2. CASE ReadTimeout(r)
  BY <1>2 DEF ReadTimeout, writeVars, OTyped
<1>3. CASE ReadFirst(r)
  BY <1>1, <1>3 DEF ReadFirst, Dequeue, writeVars, OTyped, Frames1
<1>4. CASE ReadNext(r)
  BY <1>1, <1>4 DEF ReadNext, Dequeue, Follows, writeVars, OTyped, FramesN
<1>5. QED BY <1>2, <1>3, <1>4

LEMMA ReadCarried ==
  ASSUME TInv, Carried, NEW r \in Readers, ReadFirst(r) \/ ReadNext(r) \/ ReadTimeout(r)
  PROVE  Carried'
<1>1. /\ plan' = plan /\ result' = result /\ air' = air /\ last' = last
      /\ \A s \in Readers \ {r} : rx'[s] = rx[s] /\ queue'[s] = queue[s] /\ got'[s] = got[s]
  BY ReadMoves DEF TInv
<1>2. Real' = Real
  BY <1>1, RealSame
<1>3. queue[r] \in Seq(Real) /\ rx[r] \in Seq(Real) /\ got[r] \in Seq(Seq(Frames))
  BY DEF Carried
<1>4. /\ queue[r] # <<>> =>
           /\ Tail(queue[r]) \in Seq(Real)
           /\ Frames1(r) \in Seq(Real) /\ FramesN(r) \in Seq(Real)
      /\ <<>> \in Seq(Real)
  BY <1>3 DEF Frames1, FramesN
<1>5. ASSUME NEW b \in Seq(Real), Gathers(r, b)
      PROVE  rx'[r] \in Seq(Real) /\ got'[r] \in Seq(Seq(Frames))
  <2>1. b \in Seq(Frames)
    <3>1. Real \subseteq Frames
      BY DEF Real
    <3>2. QED BY <3>1, Wider
  <2>2. Append(got[r], b) \in Seq(Seq(Frames))
    BY <1>3, <2>1
  <2>3. QED BY <1>3, <1>4, <1>5, <2>2 DEF Gathers
<1>6. queue'[r] \in Seq(Real) /\ rx'[r] \in Seq(Real) /\ got'[r] \in Seq(Seq(Frames))
  <2>1. \/ rx'[r] = <<>> /\ queue'[r] = queue[r] /\ got'[r] = got[r]
        \/ /\ queue[r] # <<>> /\ queue'[r] = Tail(queue[r])
           /\ \/ rx'[r] = <<>> /\ got'[r] = got[r]
              \/ Gathers(r, Frames1(r))
              \/ Gathers(r, FramesN(r))
    BY ReadMoves DEF TInv
  <2>2. QED BY <1>3, <1>4, <1>5, <2>1
<1>7. QED BY <1>1, <1>2, <1>6 DEF Carried
-----------------------------------------------------------------------------
(* While no callback is late, a task goes on when its frame was received.  *)
LEMMA LastReal ==
  ASSUME Carried, NEW r \in Readers
  PROVE  /\ last[r] \in Frames \cup {NoFrame}
         /\ last[r] \in Frames => last[r][3] \in Nat
  BY DEF Carried, Real, Frames

LEMMA FrameParts ==
  ASSUME Typed, NEW w \in Writers
  PROVE  /\ Frame(w) \in Frames /\ Frame(w)[1] = w /\ Frame(w)[2] = Current(w)
         /\ Frame(w)[3] = tx[w].seq /\ tx[w].seq \in Nat /\ Current(w) \in Nat
  BY TxTyped DEF Typed, Frame, Frames, Current

(* The frame of a task after its step.                                     *)
LEMMA FrameMoves ==
  ASSUME Typed, NEW w \in Writers, Call(w) \/ Writing(w), Busy(w)'
  PROVE  \/ Busy(w) /\ Frame(w)' = Frame(w) /\ (tx'[w].pc = "wait" => SendFrame(w))
         \/ tx'[w].pc = "frame" /\ Frame(w)'[3] = 0
         \/ Acked(w) /\ tx'[w].pc = "frame" /\ Frame(w)' = Succ(Frame(w)) /\ Busy(w)
<1>1. CASE Call(w)
  BY <1>1 DEF Call, Goto, Typed, Busy
<1>2. CASE TakeLock(w)
  <2>1. tx'[w] = [pc |-> "frame", seq |-> 0, left |-> 0]
    BY <1>2 DEF TakeLock, Typed
  <2>2. QED BY <2>1 DEF Frame
<1>3. CASE NoMemory(w) \/ LockTimeout(w) \/ SendError(w)
  BY <1>3, ReturnTyped DEF NoMemory, LockTimeout, SendError, Exit, Returns, Busy
<1>4. CASE StartFrame(w) \/ SendFrame(w)
  <2>1. /\ Busy(w) /\ tx'[w].seq = tx[w].seq /\ result' = result
        /\ tx'[w].pc = "wait" => SendFrame(w)
    BY <1>4, TxTyped DEF StartFrame, SendFrame, At, Goto, Busy
  <2>2. QED BY <2>1 DEF Frame, Current
<1>5. CASE Acked(w)
  <2>1. CASE Exit(w, "OK")
    BY <2>1, ReturnTyped DEF Exit, Returns, Busy
  <2>2. CASE tx' = [tx EXCEPT ![w].pc = "frame", ![w].seq = @ + 1] /\ result' = result
    <3>1. /\ tx'[w].pc = "frame" /\ tx'[w].seq = tx[w].seq + 1 /\ Busy(w)
      BY <1>5, <2>2, TxTyped DEF Acked, At, Busy
    <3>2. Frame(w)' = <<w, Current(w), tx[w].seq + 1>>
      BY <2>2, <3>1 DEF Frame, Current
    <3>3. QED BY <1>5, <3>1, <3>2 DEF Frame, Succ
  <2>3. QED BY <1>5, <2>1, <2>2 DEF Acked
<1>6. CASE Unacked(w) \/ LateCallback(w)
  <2>1. CASE Exit(w, "FAIL")
    BY <2>1, ReturnTyped DEF Exit, Returns, Busy
  <2>2. CASE tx' = [tx EXCEPT ![w].pc = "send", ![w].left = @ - 1] /\ result' = result
    <3>1. /\ tx'[w].pc = "send" /\ tx'[w].seq = tx[w].seq /\ Busy(w)
      BY <1>6, <2>2, TxTyped DEF Unacked, LateCallback, At, Busy
    <3>2. QED BY <2>2, <3>1 DEF Frame, Current
  <2>3. QED BY <1>6, <2>1, <2>2 DEF Unacked, LateCallback, SendAgain
<1>7. QED BY <1>1, <1>2, <1>3, <1>4, <1>5, <1>6 DEF Writing

LEMMA TaskInTurn ==
  ASSUME Typed, Exclusive, NEW w \in Writers, Call(w) \/ Writing(w),
         NEW v \in Writers, Clear(v), InTurn(v)
  PROVE  InTurn(v)'
<1>1. last' = last
  BY TaskReads
<1>2. CASE v # w
  <2>1. tx'[v] = tx[v] /\ result'[v] = result[v] /\ (Busy(v) => bits'[Home[v]] = bits[Home[v]])
    BY <1>2, OthersKeep
  <2>2. QED BY <1>1, <2>1 DEF InTurn, Busy, Frame, Current, After
<1>3. CASE v = w
  <2> SUFFICES ASSUME Busy(w)'
               PROVE  /\ After(last[Target[w]], Frame(w)')
                      /\ tx'[w].pc = "wait" => "OK" \notin bits'[Home[w]]
    BY <1>1, <1>3 DEF InTurn, After
  <2>1. CASE Busy(w) /\ Frame(w)' = Frame(w) /\ (tx'[w].pc = "wait" => SendFrame(w))
    <3>1. After(last[Target[w]], Frame(w))
      BY <1>3, <2>1 DEF InTurn
    <3>2. SendFrame(w) => bits'[Home[w]] = {}
      BY <1>3 DEF SendFrame, At, Clear
    <3>3. QED BY <2>1, <3>1, <3>2
  <2>2. CASE tx'[w].pc = "frame" /\ Frame(w)'[3] = 0
    BY <2>2 DEF After
  <2>3. CASE Acked(w) /\ tx'[w].pc = "frame" /\ Frame(w)' = Succ(Frame(w)) /\ Busy(w)
    <3>1. last[Target[w]] = Frame(w)
      BY <1>3, <2>3 DEF Acked, At, Acknowledges, InTurn
    <3>2. QED BY <2>3, <3>1, FrameParts DEF After
  <2>4. QED BY <2>1, <2>2, <2>3, FrameMoves
<1>4. QED BY <1>2, <1>3

LEMMA RadioInTurn ==
  ASSUME OneSender, Typed, Exclusive, TInv, Carried, DOMAIN full = Readers, NEW n \in Nodes, Sending(n),
         OnAir(n), NEW v \in Writers, InTurn(v)
  PROVE  InTurn(v)'
<1>1. PICK h, r : h = Head(air[n]) /\ r = For(n)
  OBVIOUS
<1>2. /\ air[n] # <<>> /\ tx' = tx /\ result' = result /\ h = air[n][1]
      /\ r = Target[h[1]] /\ h[1] \in Writers /\ Home[h[1]] = n
      /\ \A s \in Readers \ {r} : last'[s] = last[s]
      /\ last'[r] = h \/ (last'[r] = last[r] /\ Lost(n))
  BY <1>1, RadioMoves
<1>3. PICK ack \in {"OK", "FAIL"} : bits' = [bits EXCEPT ![n] = @ \cup {ack}]
  BY DEF Sending, Delivered, AckLost, Lost, Damaged, Radio
<1>4. Lost(n) => bits' = [bits EXCEPT ![n] = @ \cup {"FAIL"}]
  BY DEF Lost, Radio
<1>5. PICK w \in Writers : /\ Home[w] = n /\ tx[w].pc = "wait" /\ bits[n] = {}
                           /\ air[n] = <<Frame(w)>>
  BY <1>2 DEF OnAir
<1>6. h = Frame(w) /\ r = Target[w]
  BY <1>2, <1>5, FrameParts
<1>7. Frame(v)' = Frame(v) /\ (Busy(v)' <=> Busy(v)) /\ tx'[v].pc = tx[v].pc
  BY <1>2 DEF Frame, Current, Busy
<1>8. CASE v = w
  <2>1. CASE last'[r] = h
    BY <1>6, <1>7, <1>8, <2>1 DEF InTurn, After
  <2>2. CASE last'[r] = last[r] /\ Lost(n)
    <3>1. bits'[n] = {"FAIL"}
      BY <1>4, <1>5, <2>2 DEF Typed
    <3>2. QED BY <1>5, <1>6, <1>7, <1>8, <2>2, <3>1 DEF InTurn, After
  <2>3. QED BY <1>2, <2>1, <2>2
<1>9. CASE v # w
  <2>1. Busy(v) => Home[v] # n
    BY <1>5, <1>9 DEF Exclusive, Busy
  <2>2. Busy(v) => Target[v] # r /\ bits'[Home[v]] = bits[Home[v]]
    BY <1>3, <1>5, <1>6, <2>1, Homes DEF OneSender, Typed
  <2>3. Busy(v) => last'[Target[v]] = last[Target[v]]
    BY <1>2, <2>2, Homes
  <2>4. QED BY <1>7, <2>2, <2>3 DEF InTurn, After
<1>10. QED BY <1>8, <1>9

(* So the frame that is heard next follows the last one.                   *)
LEMMA HeadInTurn ==
  ASSUME Typed, NEW n \in Nodes, air[n] # <<>>, OnAir(n), \A w \in Writers : InTurn(w),
         NEW h, h = air[n][1]
  PROVE  After(last[Target[h[1]]], h)
<1>1. PICK w \in Writers : tx[w].pc = "wait" /\ air[n] = <<Frame(w)>>
  BY DEF OnAir
<1>2. QED BY <1>1, FrameParts DEF InTurn, Busy
-----------------------------------------------------------------------------
(* While none is lost, frames are heard in the order they were sent.       *)
LEMMA TaskChained ==
  ASSUME Typed, TInv, Carried, NEW w \in Writers, Call(w) \/ Writing(w),
         Ended(w), NEW n \in Nodes, Chained(n)
  PROVE  Chained(n)'
<1> DEFINE q == air[n]
<1>1. last' = last
  BY TaskReads
<1>2. CASE air'[n] = q
  BY <1>1, <1>2 DEF Chained, After
<1>3. CASE n = Home[w] /\ Busy(w) /\ air'[n] = Append(q, Frame(w))
  <2> DEFINE f == Frame(w)
             p == air'[n]
             N == Len(q)
  <2>1. f \in Frames /\ f[1] = w /\ q \in Seq(Frames)
    BY FrameParts DEF TInv, Lined
  <2>2. After(End(w), f) /\ End(w) = IF q = <<>> THEN last[Target[w]] ELSE q[N]
    BY <1>3 DEF Ended, End
  <2>3. /\ q # <<>> => After(last[Target[q[1][1]]], q[1])
        /\ \A i, j \in DOMAIN q : j = i + 1 => After(q[i], q[j])
    BY DEF Chained
  <2>4. p = Append(q, f)
    BY <1>3
  <2> HIDE DEF f, p, q
  <2>5. /\ p # <<>> /\ N \in Nat
        /\ DOMAIN p = 1 .. N + 1 /\ DOMAIN q = 1 .. N /\ p[N + 1] = f
        /\ \A i \in 1 .. N : p[i] = q[i]
        /\ q = <<>> <=> N = 0
    BY <2>1, <2>4
  <2> HIDE DEF N
  <2>6. After(last[Target[p[1][1]]], p[1])
    BY <2>1, <2>2, <2>3, <2>5
  <2>7. ASSUME NEW i \in DOMAIN p, NEW j \in DOMAIN p, j = i + 1 PROVE After(p[i], p[j])
    <3>1. i \in 1 .. N /\ N # 0
      BY <2>5, <2>7
    <3>2. CASE j \in 1 .. N
      BY <2>3, <2>5, <2>7, <3>1, <3>2
    <3>3. CASE j = N + 1
      <4>1. i = N
        BY <2>5, <2>7, <3>3
      <4>2. QED BY <2>2, <2>5, <3>1, <3>3, <4>1
    <3>4. QED BY <2>5, <3>2, <3>3
  <2>8. Chained(n)'
    BY <1>1, <2>6, <2>7 DEF Chained, After, p
  <2>9. QED BY <2>8
<1>4. QED BY <1>2, <1>3, AirMoves DEF Appends, TInv, OTyped

LEMMA TaskEnded ==
  ASSUME Typed, Exclusive, TInv, Carried, NEW w \in Writers, Call(w) \/ Writing(w),
         NEW v \in Writers, Ended(v)
  PROVE  Ended(v)'
<1>1. last' = last
  BY TaskReads
<1>2. CASE v # w
  <2>1. Frame(v)' = Frame(v) /\ (Busy(v)' <=> Busy(v)) /\ tx'[v].pc = tx[v].pc
    BY <1>2, OthersKeep DEF Frame, Current, Busy
  <2>2. Busy(v)' => air'[Home[v]] = air[Home[v]]
    <3>1. Appends(w) /\ Busy(v)' => Home[v] # Home[w]
      BY <1>2, TaskExclusive DEF Exclusive, Appends
    <3>2. QED BY <3>1, AirMoves, Homes DEF Appends, TInv, OTyped
  <2>3. QED BY <1>1, <2>1, <2>2 DEF Ended, End, After
<1>3. CASE v = w
  <2> SUFFICES ASSUME Busy(w)'
               PROVE  /\ After(End(w)', Frame(w)')
                      /\ tx'[w].pc = "wait" => End(w)' = Frame(w)'
    BY <1>3 DEF Ended, After
  <2>1. ~SendFrame(w) => End(w)' = End(w)
    BY <1>1, SendsOnly DEF End
  <2>2. CASE Busy(w) /\ Frame(w)' = Frame(w) /\ (tx'[w].pc = "wait" => SendFrame(w))
    <3>1. CASE ~SendFrame(w)
      BY <1>3, <2>1, <2>2, <3>1 DEF Ended
    <3>2. CASE SendFrame(w)
      <4> DEFINE q == air[Home[w]]
      <4>1. air'[Home[w]] = Append(q, Frame(w)) /\ q \in Seq(Frames) /\ Frame(w) \in Frames
        BY <3>2, SendsOnly, FrameParts, Homes DEF Appends, TInv, OTyped, Lined
      <4> HIDE DEF q
      <4>2. LET p == Append(q, Frame(w)) IN p # <<>> /\ p[Len(p)] = Frame(w)
        BY <4>1
      <4>3. End(w)' = Frame(w)
        BY <4>1, <4>2 DEF End
      <4>4. QED BY <2>2, <4>3 DEF After
    <3>3. QED BY <3>1, <3>2
  <2>3. CASE tx'[w].pc = "frame" /\ Frame(w)'[3] = 0
    BY <2>3 DEF After
  <2>4. CASE Acked(w) /\ tx'[w].pc = "frame" /\ Frame(w)' = Succ(Frame(w)) /\ Busy(w)
    <3>1. End(w) = Frame(w) /\ ~SendFrame(w)
      BY <1>3, <2>4 DEF Acked, SendFrame, At, Ended
    <3>2. QED BY <2>1, <2>4, <3>1, FrameParts DEF After
  <2>5. QED BY <2>2, <2>3, <2>4, FrameMoves
<1>4. QED BY <1>2, <1>3

(* The radio of a node brings the readers of its frames forward only.      *)
LEMMA OtherReaders ==
  ASSUME OneSender, NEW n \in Nodes, NEW h, h[1] \in Writers, Home[h[1]] = n,
         NEW w \in Writers, Home[w] # n
  PROVE  Target[w] # Target[h[1]]
  BY DEF OneSender

LEMMA RadioChained ==
  ASSUME OneSender, TInv, Carried, DOMAIN full = Readers, NEW n \in Nodes, Sending(n),
         ~Lost(n), Chained(n), NEW m \in Nodes, Chained(m)
  PROVE  Chained(m)'
<1>1. PICK h, r : h = Head(air[n]) /\ r = For(n)
  OBVIOUS
<1>2. /\ air[n] # <<>> /\ air' = [air EXCEPT ![n] = Tail(@)] /\ h = air[n][1]
      /\ r = Target[h[1]] /\ h[1] \in Writers /\ Home[h[1]] = n
      /\ \A s \in Readers \ {r} : last'[s] = last[s]
      /\ last'[r] = h
  BY <1>1, RadioMoves
<1>3. CASE m # n
  <2>1. air'[m] = air[m]
    BY <1>2, <1>3 DEF TInv, OTyped
  <2>2. air[m] # <<>> => last'[Target[air[m][1][1]]] = last[Target[air[m][1][1]]]
    <3> SUFFICES ASSUME air[m] # <<>>
                 PROVE  last'[Target[air[m][1][1]]] = last[Target[air[m][1][1]]]
      OBVIOUS
    <3>1. air[m][1][1] \in Writers /\ Home[air[m][1][1]] = m
      <4>1. air[m] \in Seq(Frames) /\ 1 \in DOMAIN air[m]
        BY DEF TInv, Lined
      <4>2. QED BY <4>1 DEF TInv, Lined, Frames
    <3>2. Target[air[m][1][1]] # r
      BY <1>2, <1>3, <3>1, OtherReaders
    <3>3. QED BY <1>2, <3>1, <3>2, Homes
  <2>3. QED BY <2>1, <2>2 DEF Chained, After
<1>4. CASE m = n
  <2> DEFINE q == air[n]
             p == air'[n]
             N == Len(q)
  <2>1. q \in Seq(Frames) /\ q # <<>> /\ p = Tail(q)
    BY <1>2 DEF TInv, OTyped, Lined
  <2>2. \A i, j \in DOMAIN q : j = i + 1 => After(q[i], q[j])
    BY DEF Chained
  <2>3. h = q[1]
    BY <1>2
  <2> HIDE DEF p, q
  <2>4. /\ p \in Seq(Frames) /\ N \in Nat \ {0} /\ Len(p) = N - 1
        /\ DOMAIN p = 1 .. N - 1 /\ DOMAIN q = 1 .. N
        /\ \A i \in DOMAIN p : i + 1 \in DOMAIN q /\ p[i] = q[i + 1]
    BY <2>1, Shortened
  <2> HIDE DEF N
  <2>5. \A i, j \in DOMAIN p : j = i + 1 => After(p[i], p[j])
    <3> SUFFICES ASSUME NEW i \in DOMAIN p, NEW j \in DOMAIN p, j = i + 1
                 PROVE  After(p[i], p[j])
      OBVIOUS
    <3>1. i + 1 \in DOMAIN q /\ j + 1 \in DOMAIN q /\ j + 1 = (i + 1) + 1
      BY <2>4
    <3>2. QED BY <2>2, <2>4, <3>1
  <2>6. p # <<>> => After(last'[Target[p[1][1]]], p[1])
    <3> SUFFICES ASSUME p # <<>> PROVE After(last'[Target[p[1][1]]], p[1])
      OBVIOUS
    <3>1. 1 \in DOMAIN q /\ 2 \in DOMAIN q /\ p[1] = q[2]
      BY <2>4
    <3>2. After(q[1], q[2])
      <4>1. \A j \in DOMAIN q : j = 1 + 1 => After(q[1], q[j])
        BY <2>2, <3>1
      <4>2. QED BY <3>1, <4>1
    <3>3. CASE q[2][3] = 0
      BY <3>1, <3>3 DEF After
    <3>4. CASE q[2][1] = q[1][1]
      BY <1>2, <2>3, <3>1, <3>2, <3>4
    <3>5. QED BY <3>2, <3>3, <3>4 DEF After, Succ
  <2>7. QED BY <1>4, <2>5, <2>6 DEF Chained, After, p
<1>5. QED BY <1>3, <1>4

LEMMA RadioEnded ==
  ASSUME OneSender, Typed, TInv, Carried, DOMAIN full = Readers, NEW n \in Nodes, Sending(n),
         ~Lost(n), NEW w \in Writers, Ended(w)
  PROVE  Ended(w)'
<1>1. PICK h, r : h = Head(air[n]) /\ r = For(n)
  OBVIOUS
<1>2. /\ air[n] # <<>> /\ air' = [air EXCEPT ![n] = Tail(@)] /\ h = air[n][1]
      /\ tx' = tx /\ result' = result
      /\ r = Target[h[1]] /\ h[1] \in Writers /\ Home[h[1]] = n
      /\ \A s \in Readers \ {r} : last'[s] = last[s]
      /\ last'[r] = h
  BY <1>1, RadioMoves
<1>3. Frame(w)' = Frame(w) /\ (Busy(w)' <=> Busy(w)) /\ tx'[w].pc = tx[w].pc
  BY <1>2 DEF Frame, Current, Busy
<1>4. CASE Home[w] # n
  <2>1. Target[w] # r
    BY <1>2, <1>4, OtherReaders
  <2>2. last'[Target[w]] = last[Target[w]] /\ air'[Home[w]] = air[Home[w]]
    BY <1>2, <1>4, <2>1, Homes DEF TInv, OTyped
  <2>3. QED BY <1>3, <2>2 DEF Ended, End, After
<1>5. CASE Home[w] = n
  <2> DEFINE q == air[n]
  <2>1. q \in Seq(Frames) /\ q # <<>> /\ air'[n] = Tail(q) /\ q[1] = h
    BY <1>2 DEF TInv, OTyped, Lined
  <2>2. End(w) = q[Len(q)]
    BY <1>5, <2>1 DEF End
  <2> HIDE DEF q
  <2>3. CASE Tail(q) # <<>>
    <3>1. Tail(q)[Len(Tail(q))] = q[Len(q)]
      BY <2>1, <2>3
    <3>2. End(w)' = End(w)
      BY <1>5, <2>1, <2>2, <2>3, <3>1 DEF End
    <3>3. QED BY <1>3, <3>2 DEF Ended, After
  <2>4. CASE Tail(q) = <<>>
    <3>1. q[Len(q)] = h
      <4>1. Len(Tail(q)) = Len(q) - 1 /\ Len(q) \in Nat /\ Len(Tail(q)) = 0
        BY <2>1, <2>4, Shortened
      <4>2. Len(q) = 1
        BY <4>1
      <4>3. QED BY <2>1, <4>2
    <3>2. h[1] = w => End(w)' = h
      BY <1>2, <1>5, <2>1, <2>4 DEF End
    <3>3. h = Frame(w) \/ Frame(w) = Succ(h) => h[1] = w
      BY FrameParts DEF Succ, Frame
    <3>4. Busy(w) => After(h, Frame(w)) /\ (tx[w].pc = "wait" => h = Frame(w))
      BY <2>2, <3>1 DEF Ended
    <3>5. CASE h[1] = w
      BY <1>3, <3>2, <3>4, <3>5 DEF Ended, After
    <3>6. CASE h[1] # w
      BY <1>3, <3>3, <3>4, <3>6 DEF Ended, After
    <3>7. QED BY <3>5, <3>6
  <2>5. QED BY <2>3, <2>4
<1>6. QED BY <1>4, <1>5
-----------------------------------------------------------------------------
(* Without a fault every packet is sent to its end.                        *)
LEMMA NothingHappens ==
  ASSUME Typed, used' = used, NEW e \in Events, Happens(e)
  PROVE  FALSE
<1>1. used[e] \in Nat /\ used'[e] = used[e] + 1
  BY DEF Typed, Happens
<1>2. QED BY <1>1

LEMMA TaskKept ==
  ASSUME Typed, Exclusive, NEW w \in Writers, Call(w) \/ Writing(w), used' = used,
         \A n \in Nodes : NoFail(n), InTurn(w), NEW r \in Readers, Kept(r)
  PROVE  Kept(r)' /\ \A n \in Nodes : NoFail(n)'
<1>1. last' = last /\ plan' = plan
  BY TaskReads
<1>2. Call(w) \/ TakeLock(w) \/ LockTimeout(w) \/ StartFrame(w) \/ SendFrame(w) \/ Acked(w)
  <2>1. ~Unacked(w)
    BY Homes DEF Unacked, NoFail
  <2>2. ~NoMemory(w) /\ ~SendError(w) /\ ~LateCallback(w)
    BY NothingHappens DEF NoMemory, SendError, LateCallback, Events
  <2>3. QED BY <2>1, <2>2 DEF Writing
<1>3. \A n \in Nodes : NoFail(n)'
  <2>1. bits' = bits \/ bits' = [bits EXCEPT ![Home[w]] = {}]
    BY <1>2 DEF Call, TakeLock, Takes, LockTimeout, StartFrame, SendFrame, Acked
  <2>2. QED BY <2>1 DEF NoFail, Typed
<1>4. CASE last[r] = NoFrame
  BY <1>1, <1>3, <1>4 DEF Kept
<1>5. CASE Ends(last[r])
  BY <1>1, <1>3, <1>5 DEF Kept, Ends, TotalSize, Size
<1>6. ASSUME NEW v \in Writers, Busy(v), Target[v] = r,
             last[r] = Frame(v) \/ Succ(last[r]) = Frame(v)
      PROVE  Kept(r)'
  <2>1. CASE v # w
    <3>1. Busy(v)' /\ Frame(v)' = Frame(v)
      BY <1>6, <2>1, OthersKeep DEF Busy, Frame, Current
    <3>2. QED BY <1>1, <1>6, <3>1 DEF Kept, Succ
  <2>2. CASE v = w /\ ~Acked(w)
    <3>1. StartFrame(w) \/ SendFrame(w)
      BY <1>2, <1>6, <2>2 DEF Call, TakeLock, Takes, LockTimeout, At, Busy
    <3>2. Busy(w)' /\ Frame(w)' = Frame(w)
      <4>1. /\ tx'[w].pc \in {"send", "wait"} /\ tx'[w].seq = tx[w].seq /\ result' = result
        BY <3>1, TxTyped DEF StartFrame, SendFrame, Goto
      <4>2. QED BY <4>1 DEF Busy, Frame, Current
    <3>3. QED BY <1>1, <1>6, <2>2, <3>2 DEF Kept, Succ
  <2>3. CASE v = w /\ Acked(w)
    <3>1. last[r] = Frame(w)
      BY <1>6, <2>3 DEF Acked, At, Acknowledges, InTurn
    <3>2. CASE LastFrame(w)
      <4>1. Ends(last[r])
        BY <3>1, <3>2 DEF LastFrame, Ends, TotalSize, Frame
      <4>2. QED BY <1>1, <4>1 DEF Kept, Ends, TotalSize, Size
    <3>3. CASE ~LastFrame(w)
      <4>1. tx'[w].pc = "frame"
        BY <2>3, <3>3, TxTyped DEF Acked
      <4>2. Busy(w)'
        BY <4>1 DEF Busy
      <4>3. Frame(w)' = Succ(Frame(w))
        <5>1. tx'[w].seq = tx[w].seq + 1 /\ result' = result
          BY <2>3, <3>3, TxTyped DEF Acked
        <5>2. QED BY <5>1 DEF Frame, Current, Succ
      <4>4. QED BY <1>1, <1>6, <2>3, <3>1, <4>2, <4>3 DEF Kept, Succ
    <3>4. QED BY <3>2, <3>3
  <2>4. QED BY <2>1, <2>2, <2>3
<1>7. QED BY <1>3, <1>4, <1>5, <1>6 DEF Kept

LEMMA RadioKept ==
  ASSUME Typed, TInv, Carried, DOMAIN full = Readers, NEW n \in Nodes, Sending(n), used' = used,
         \A m \in Nodes : NoFail(m), OnAir(n), NEW s \in Readers, Kept(s)
  PROVE  Kept(s)' /\ \A m \in Nodes : NoFail(m)'
<1>1. Delivered(n)
  BY NothingHappens DEF Sending, AckLost, Lost, Damaged, Events
<1>2. \A m \in Nodes : NoFail(m)'
  <2>1. bits' = [bits EXCEPT ![n] = @ \cup {"OK"}]
    BY <1>1 DEF Delivered, Radio
  <2>2. QED BY <2>1 DEF NoFail, Typed
<1>3. PICK h, r : h = Head(air[n]) /\ r = For(n)
  OBVIOUS
<1>4. /\ air[n] # <<>> /\ h = air[n][1] /\ tx' = tx /\ result' = result /\ plan' = plan
      /\ r = Target[h[1]] /\ \A t \in Readers \ {r} : last'[t] = last[t]
      /\ last'[r] = h \/ Lost(n)
  BY <1>3, RadioMoves
<1>5. \A v \in Writers : (Busy(v)' <=> Busy(v)) /\ Frame(v)' = Frame(v)
  BY <1>4 DEF Busy, Frame, Current
<1>6. CASE s = r
  <2>1. PICK w \in Writers : tx[w].pc = "wait" /\ air[n] = <<Frame(w)>>
    BY <1>4 DEF OnAir
  <2>2. Busy(w) /\ h = Frame(w) /\ Target[w] = s
    BY <1>4, <1>6, <2>1, FrameParts DEF Busy
  <2>3. last'[s] = h
    BY <1>4, <1>6, NothingHappens DEF Lost, Events
  <2>4. QED BY <1>2, <1>5, <2>2, <2>3 DEF Kept
<1>7. CASE s # r
  <2>1. last'[s] = last[s]
    BY <1>4, <1>7
  <2>2. QED BY <1>2, <1>4, <1>5, <2>1 DEF Kept, Ends, TotalSize, Size, Succ
<1>8. QED BY <1>6, <1>7

LEMMA FirstAfterWhole ==
  ASSUME OneSender, Typed, Exclusive, Carried, NEW n \in Nodes, air[n] # <<>>, OnAir(n),
         NEW h, h = air[n][1], h[3] = 0, NEW r, r = Target[h[1]], Kept(r), r \in Readers
  PROVE  last[r] = h \/ last[r] = NoFrame \/ Ends(last[r])
<1>1. PICK w \in Writers : Home[w] = n /\ tx[w].pc = "wait" /\ air[n] = <<Frame(w)>>
  BY DEF OnAir
<1>2. h = Frame(w) /\ Target[w] = r /\ Busy(w)
  BY <1>1, FrameParts DEF Busy
<1>3. ASSUME NEW v \in Writers, Busy(v), Target[v] = r PROVE v = w
  BY <1>2, <1>3 DEF OneSender, Exclusive
<1>4. last[r] # NoFrame => Succ(last[r]) # Frame(w)
  <2> SUFFICES ASSUME last[r] # NoFrame, Succ(last[r]) = Frame(w) PROVE FALSE
    OBVIOUS
  <2>1. last[r][3] \in Nat
    BY LastReal
  <2>2. Succ(last[r])[3] = last[r][3] + 1
    BY DEF Succ
  <2>3. Frame(w)[3] = 0
    BY <1>2
  <2>4. last[r][3] + 1 = 0
    BY <2>2, <2>3
  <2>5. QED BY <2>1, <2>4
<1>5. QED BY <1>2, <1>3, <1>4 DEF Kept
-----------------------------------------------------------------------------
(* What a reader has, and what waits for it.                               *)
LEMMA FrameFields ==
  ASSUME NEW f \in Frames
  PROVE  /\ f = <<f[1], f[2], f[3]>> /\ f[1] \in Writers /\ f[2] \in Nat /\ f[3] \in Nat
         /\ f # NoFrame
<1>1. f = <<f[1], f[2], f[3]>> /\ f[1] \in Writers /\ f[2] \in Nat /\ f[3] \in Nat
  BY DEF Frames
<1>2. f # <<>>
  <2>1. \A a, b, c : <<a, b, c>> # <<>>
    OBVIOUS
  <2>2. QED BY <1>1, <2>1
<1>3. QED BY <1>1, <1>2 DEF NoFrame

LEMMA StreamSame ==
  ASSUME NEW r \in Readers, Stream(r), queue'[r] = queue[r], rx'[r] = rx[r],
         last'[r] = last[r], plan' = plan, Perfect' => Perfect
  PROVE  Stream(r)'
  BY DEF Stream, Partial, Joint, Close, Ends, TotalSize, Size, Succ

LEMMA WholesSame ==
  ASSUME NEW r \in Readers, Wholes(r), got'[r] = got[r], plan' = plan, Written \subseteq Written'
  PROVE  Wholes(r)'
<1>1. \A m : Parts(m[1], m[2])' = Parts(m[1], m[2])
  BY DEF Parts, Size
<1>2. ASSUME NEW k \in DOMAIN got[r]
      PROVE  \E m \in Written' : got[r][k] = Parts(m[1], m[2])
  BY <1>2 DEF Wholes
<1>3. QED BY <1>1, <1>2 DEF Wholes

(* A new frame fits behind those of its reader, wherever they stand.       *)
LEMMA JointNext ==
  ASSUME Carried, NEW r \in Readers, NEW a \in Frames, Close(r, a), NEW h \in Frames,
         After(last[r], h), h # last[r]
  PROVE  Joint(a, h)
<1>1. a[3] \in Nat /\ h[3] \in Nat
  BY FrameFields
<1>2. CASE h[3] = 0
  BY <1>1, <1>2 DEF Joint
<1>3. CASE last[r] \in Frames /\ h = Succ(last[r])
  <2>1. h[3] = last[r][3] + 1 /\ last[r][3] \in Nat
    BY <1>3, FrameFields DEF Succ
  <2>2. a = last[r] => Joint(a, h)
    BY <1>3 DEF Joint
  <2>3. last[r][3] = a[3] + 1 => Joint(a, h)
    BY <1>1, <2>1 DEF Joint
  <2>4. QED BY <2>2, <2>3 DEF Close, Joint
<1>4. QED BY <1>2, <1>3 DEF After

LEMMA StreamGrows ==
  ASSUME Carried, NEW r \in Readers, Stream(r), plan' = plan, NEW h \in Frames,
         After(last[r], h), h # last[r],
         rx'[r] = rx[r], last'[r] = h, queue'[r] = Append(queue[r], h)
  PROVE  Stream(r)'
<1> DEFINE q == queue[r]
           b == rx[r]
           p == queue'[r]
           N == Len(q)
<1>1. q \in Seq(Frames) /\ b \in Seq(Frames)
  <2>1. Real \subseteq Frames
    BY DEF Real
  <2>2. QED BY <2>1, Wider DEF Carried
<1>2. p = Append(q, h)
  OBVIOUS
<1>3. /\ \A i, j \in DOMAIN q : j = i + 1 => Joint(q[i], q[j])
      /\ q # <<>> /\ b # <<>> => Joint(b[Len(b)], q[1])
      /\ q # <<>> => Close(r, q[Len(q)])
      /\ q = <<>> /\ b # <<>> => Close(r, b[Len(b)])
  BY DEF Stream
<1>4. Partial(r)'
  BY DEF Stream, Partial, TotalSize, Size
<1> HIDE DEF q, b, p
<1>5. /\ N \in Nat /\ (q = <<>> <=> N = 0)
      /\ b # <<>> => b[Len(b)] \in Frames
  BY <1>1
<1>6. /\ p # <<>> /\ Len(p) = N + 1
      /\ DOMAIN p = 1 .. N + 1 /\ DOMAIN q = 1 .. N /\ p[N + 1] = h
      /\ \A i \in 1 .. N : p[i] = q[i] /\ q[i] \in Frames
  <2>1. /\ DOMAIN p = 1 .. N + 1 /\ Len(p) = N + 1 /\ DOMAIN q = 1 .. N /\ p[N + 1] = h
        /\ \A i \in 1 .. N : p[i] = q[i]
    BY <1>1, <1>2, Appended
  <2>2. p # <<>> /\ \A i \in 1 .. N : q[i] \in Frames
    BY <1>1, <1>2
  <2>3. QED BY <2>1, <2>2
<1>7. N = Len(q)
  OBVIOUS
<1> HIDE DEF N
<1>8. N # 0 => Joint(q[N], h)
  BY <1>3, <1>5, <1>6, <1>7, JointNext
<1>9. ASSUME NEW i \in DOMAIN p, NEW j \in DOMAIN p, j = i + 1 PROVE Joint(p[i], p[j])
  <2>1. i \in 1 .. N /\ N # 0
    BY <1>5, <1>6, <1>9
  <2>2. CASE j \in 1 .. N
    BY <1>3, <1>5, <1>6, <1>9, <2>1, <2>2
  <2>3. CASE j = N + 1
    <3>1. i = N
      BY <1>5, <1>6, <1>9, <2>3
    <3>2. QED BY <1>5, <1>6, <1>8, <2>1, <2>3, <3>1
  <2>4. QED BY <1>5, <1>6, <2>2, <2>3
<1>10. b # <<>> => Joint(b[Len(b)], p[1])
  <2>1. CASE N = 0
    BY <1>3, <1>5, <1>6, <2>1, JointNext
  <2>2. CASE N # 0
    BY <1>3, <1>5, <1>6, <2>2
  <2>3. QED BY <2>1, <2>2
<1>11. /\ p = queue'[r] /\ b = rx'[r]
  BY DEF p, b
<1>12. Close(r, queue[r][Len(queue[r])])'
  <2>1. queue'[r][Len(queue'[r])] = last'[r]
    BY <1>5, <1>6, <1>11
  <2>2. QED BY <2>1 DEF Close
<1>13. \A i, j \in DOMAIN queue'[r] : j = i + 1 => Joint(queue[r][i], queue[r][j])'
  BY <1>9, <1>11 DEF Joint, Ends, TotalSize, Size
<1>14. rx'[r] # <<>> => Joint(rx[r][Len(rx[r])], queue[r][1])'
  BY <1>10, <1>11 DEF Joint, Ends, TotalSize, Size
<1>15. queue'[r] # <<>>
  BY <1>5, <1>6, <1>11
<1>16. QED BY <1>4, <1>12, <1>13, <1>14, <1>15 DEF Stream

(* A damaged frame, the only fault there is, opens a gap of one frame.     *)
LEMMA DamageAlone ==
  ASSUME Typed, Fewer, NEW n \in Nodes, Damaged(n), NEW r \in Readers, Good(r)'
  PROVE  Perfect /\ ~Perfect'
<1>1. "damage" \in Events /\ used["damage"] \in Nat /\ used'["damage"] = used["damage"] + 1
  BY DEF Damaged, Happens, Typed, Events
<1>2. used'["damage"] \in Nat /\ used'["damage"] # 0
  BY <1>1
<1>3. PICK e \in Events : used'[e] <= 1 /\ Without(Events \ {e})'
  <2>1. Single'
    BY <1>2 DEF Good, Without
  <2>2. QED BY <2>1 DEF Single, Without
<1>4. e = "damage"
  BY <1>1, <1>2, <1>3 DEF Without
<1>5. used["damage"] = 0
  BY <1>1, <1>3, <1>4
<1>6. Without(Events \ {e})
  BY <1>3, WithoutBefore
<1>7. QED BY <1>1, <1>2, <1>4, <1>5, <1>6 DEF Perfect, Without

LEMMA StreamGap ==
  ASSUME Carried, NEW r \in Readers, Stream(r), plan' = plan, NEW h \in Frames,
         After(last[r], h), Perfect, ~Perfect',
         h[3] = 0 => last[r] = h \/ last[r] = NoFrame \/ Ends(last[r]),
         rx'[r] = rx[r], last'[r] = h, queue'[r] = queue[r]
  PROVE  Stream(r)'
<1>1. ASSUME NEW a \in Frames, Close(r, a) PROVE Close(r, a)'
  <2>1. a = last[r]
    BY <1>1 DEF Close
  <2>2. a = h \/ h[3] = a[3] + 1 \/ Ends(a)
    BY <2>1, FrameFields DEF After, Succ
  <2>3. QED BY <2>2 DEF Close, Ends, TotalSize, Size
<1>2. /\ queue[r] # <<>> => queue[r][Len(queue[r])] \in Frames
      /\ rx[r] # <<>> => rx[r][Len(rx[r])] \in Frames
  <2>1. queue[r] \in Seq(Frames) /\ rx[r] \in Seq(Frames)
    <3>1. Real \subseteq Frames
      BY DEF Real
    <3>2. QED BY <3>1, Wider DEF Carried
  <2>2. QED BY <2>1
<1>3. Partial(r)'
  BY DEF Stream, Partial, TotalSize, Size
<1>4. \A f, g : Joint(f, g)' <=> Joint(f, g)
  BY DEF Joint, Ends, TotalSize, Size
<1>5. QED BY <1>1, <1>2, <1>3, <1>4 DEF Stream
(* A frame that the reader goes on with is the next one of its packet.     *)
LEMMA Fitting ==
  ASSUME plan \in Plans, Carried, NEW r \in Readers, Stream(r), queue[r] # <<>>,
         NEW f, f = Head(queue[r]), NEW b,
         \/ rx[r] = <<>> /\ f[3] = 0 /\ b = <<f>>
         \/ rx[r] # <<>> /\ f[3] = Len(rx[r]) /\ b = Append(rx[r], f)
  PROVE  /\ b \in Seq(Frames) /\ b # <<>> /\ b[Len(b)] = queue[r][1]
         /\ \A k \in DOMAIN b : b[k] = <<b[1][1], b[1][2], k - 1>>
         /\ <<b[1][1], b[1][2]>> \in Written
         /\ Len(b) <= TotalSize(b[1]) /\ TotalSize(b[1]) \in Nat
<1>1. f \in Real /\ f \in Frames /\ f = queue[r][1]
  <2>1. queue[r] \in Seq(Real)
    BY DEF Carried
  <2>2. Head(queue[r]) \in Real /\ Head(queue[r]) = queue[r][1]
    BY <2>1
  <2>3. QED BY <2>2 DEF Real
<1>2. rx[r] \in Seq(Real) /\ rx[r] \in Seq(Frames)
  <2>1. Real \subseteq Frames
    BY DEF Real
  <2>2. QED BY <2>1, Wider DEF Carried
<1>3. \A g \in Real : <<g[1], g[2]>> \in Written /\ TotalSize(g) \in Nat \ {0}
  <2>1. ASSUME NEW g \in Real PROVE TotalSize(g) \in Nat \ {0}
    <3>1. g[1] \in Writers /\ g[2] \in 1 .. MaxWrites /\ g[2] <= Len(plan.sizes[g[1]])
      BY DEF Real, Written
    <3>2. g[2] \in 1 .. Len(plan.sizes[g[1]])
      BY <3>1, Sizes, MespnowAssumption DEF MespnowAssumption
    <3>3. QED BY <3>1, <3>2, Sizes DEF TotalSize
  <2>2. QED BY <2>1 DEF Real
<1>4. CASE rx[r] = <<>> /\ f[3] = 0 /\ b = <<f>>
  <2>1. b \in Seq(Frames) /\ b # <<>> /\ Len(b) = 1 /\ DOMAIN b = {1} /\ b[1] = f
    BY <1>1, <1>4
  <2>2. f = <<f[1], f[2], 1 - 1>>
    BY <1>1, <1>4, FrameFields
  <2>3. QED BY <1>1, <1>3, <2>1, <2>2
<1>5. CASE rx[r] # <<>> /\ f[3] = Len(rx[r]) /\ b = Append(rx[r], f)
  <2> DEFINE c == rx[r]
             N == Len(c)
  <2>1. /\ \A k \in DOMAIN c : c[k] = <<c[1][1], c[1][2], k - 1>>
        /\ N < TotalSize(c[1]) /\ Joint(c[N], f)
    BY <1>1, <1>5 DEF Stream, Partial
  <2>2. /\ c \in Seq(Frames) /\ N = Len(c) /\ c[1] \in Real
        /\ c # <<>> /\ f[3] = N /\ b = Append(c, f)
    BY <1>2, <1>5
  <2> HIDE DEF c, N
  <2>3. /\ b \in Seq(Frames) /\ b # <<>> /\ N \in Nat \ {0} /\ Len(b) = N + 1
        /\ DOMAIN b = 1 .. N + 1 /\ DOMAIN c = 1 .. N /\ b[N + 1] = f
        /\ \A k \in 1 .. N : b[k] = c[k]
    BY <1>1, <2>2
  <2>4. TotalSize(c[1]) \in Nat /\ <<c[1][1], c[1][2]>> \in Written
    BY <1>3, <2>2
  <2>5. c[N] = <<c[1][1], c[1][2], N - 1>>
    BY <2>1, <2>3
  <2>6. f = Succ(c[N])
    <3>1. ~Ends(c[N])
      BY <2>1, <2>3, <2>4, <2>5 DEF Ends, TotalSize
    <3>2. f[3] = c[N][3] + 1
      BY <2>2, <2>3, <2>5
    <3>3. QED BY <2>1, <3>1, <3>2 DEF Joint
  <2>7. f = <<c[1][1], c[1][2], (N + 1) - 1>>
    BY <2>3, <2>5, <2>6 DEF Succ
  <2>8. b[1] = c[1]
    BY <2>3
  <2>9. \A k \in DOMAIN b : b[k] = <<b[1][1], b[1][2], k - 1>>
    <3>1. \A k \in 1 .. N : b[k] = <<b[1][1], b[1][2], k - 1>>
      BY <2>1, <2>3, <2>8
    <3>2. b[N + 1] = <<b[1][1], b[1][2], (N + 1) - 1>>
      BY <2>3, <2>7, <2>8
    <3>3. QED BY <2>3, <3>1, <3>2
  <2>10. QED BY <1>1, <2>1, <2>3, <2>4, <2>8, <2>9
<1>6. QED BY <1>4, <1>5

LEMMA StreamOn ==
  ASSUME Carried, NEW r \in Readers, Stream(r), queue[r] # <<>>, queue'[r] = Tail(queue[r]),
         last' = last, plan' = plan, Perfect' => Perfect,
         \/ rx'[r] = <<>>
         \/ rx'[r][Len(rx'[r])] = queue[r][1] /\ Partial(r)'
  PROVE  Stream(r)'
<1> DEFINE q == queue[r]
           p == queue'[r]
           N == Len(q)
<1>1. /\ \A i, j \in DOMAIN q : j = i + 1 => Joint(q[i], q[j])
      /\ Close(r, q[N])
  BY DEF Stream
<1>2. q \in Seq(Real) /\ q # <<>> /\ p = Tail(q) /\ N = Len(q)
  BY DEF Carried
<1>3. p = queue'[r]
  OBVIOUS
<1> HIDE DEF q, p, N
<1>4. /\ N \in Nat \ {0} /\ Len(p) = N - 1 /\ (p = <<>> <=> N = 1)
      /\ DOMAIN p = 1 .. N - 1 /\ DOMAIN q = 1 .. N
      /\ \A i \in DOMAIN p : i + 1 \in DOMAIN q /\ p[i] = q[i + 1]
  BY <1>2, Shortened
<1>5. ASSUME NEW i \in DOMAIN p, NEW j \in DOMAIN p, j = i + 1 PROVE Joint(p[i], p[j])
  <2>1. i + 1 \in DOMAIN q /\ j + 1 \in DOMAIN q /\ j + 1 = (i + 1) + 1
    BY <1>4, <1>5
  <2>2. QED BY <1>1, <1>4, <2>1
<1>6. p # <<>> => Joint(q[1], p[1])
  <2>1. p # <<>> => 1 \in DOMAIN q /\ 1 + 1 \in DOMAIN q /\ p[1] = q[1 + 1]
    BY <1>4
  <2>2. \A j \in DOMAIN q : 1 \in DOMAIN q /\ j = 1 + 1 => Joint(q[1], q[j])
    BY <1>1
  <2>3. QED BY <2>1, <2>2
<1>7. p # <<>> => p[Len(p)] = q[N]
  BY <1>4
<1>8. \A i, j \in DOMAIN queue'[r] : j = i + 1 => Joint(queue[r][i], queue[r][j])'
  BY <1>3, <1>5 DEF Joint, Ends, TotalSize, Size
<1>9. queue'[r] # <<>> => Close(r, queue[r][Len(queue[r])])'
  BY <1>1, <1>3, <1>7 DEF Close, Ends, TotalSize, Size
<1>10. CASE rx'[r] = <<>>
  BY <1>8, <1>9, <1>10 DEF Stream, Partial
<1>11. CASE rx'[r][Len(rx'[r])] = q[1] /\ Partial(r)'
  <2>1. queue'[r] # <<>> => Joint(rx[r][Len(rx[r])], queue[r][1])'
    BY <1>3, <1>6, <1>11 DEF Joint, Ends, TotalSize, Size
  <2>2. queue'[r] = <<>> => Close(r, rx[r][Len(rx[r])])'
    BY <1>1, <1>3, <1>4, <1>11 DEF Close, Ends, TotalSize, Size
  <2>3. QED BY <1>8, <1>9, <1>11, <2>1, <2>2 DEF Stream
<1>12. QED BY <1>10, <1>11 DEF q

(* And a packet with as many frames as it announces is whole.              *)
LEMMA ReadStream ==
  ASSUME TInv, Carried, NEW r \in Readers, ReadFirst(r) \/ ReadNext(r) \/ ReadTimeout(r),
         Stream(r), Wholes(r), Perfect' => Perfect
  PROVE  Stream(r)' /\ Wholes(r)'
<1>1. plan' = plan /\ result' = result /\ last' = last /\ Written' = Written /\ plan \in Plans
  BY ReadMoves, RealSame DEF TInv
<1>2. CASE rx'[r] = <<>> /\ queue'[r] = queue[r] /\ queue[r] = <<>> /\ got'[r] = got[r]
  <2>1. Wholes(r)'
    BY <1>1, <1>2, WholesSame
  <2>2. QED BY <1>2, <2>1 DEF Stream, Partial
<1>3. CASE /\ queue[r] # <<>> /\ queue'[r] = Tail(queue[r])
           /\ rx'[r] = <<>> /\ got'[r] = got[r]
  BY <1>1, <1>3, StreamOn, WholesSame
<1>4. ASSUME NEW b, queue[r] # <<>>, queue'[r] = Tail(queue[r]),
             NEW f, f = Head(queue[r]), Gathers(r, b),
             \/ rx[r] = <<>> /\ f[3] = 0 /\ b = <<f>>
             \/ rx[r] # <<>> /\ f[3] = Len(rx[r]) /\ b = Append(rx[r], f)
      PROVE  Stream(r)' /\ Wholes(r)'
  <2>1. /\ b \in Seq(Frames) /\ b # <<>> /\ b[Len(b)] = queue[r][1]
        /\ \A k \in DOMAIN b : b[k] = <<b[1][1], b[1][2], k - 1>>
        /\ <<b[1][1], b[1][2]>> \in Written
        /\ Len(b) <= TotalSize(b[1]) /\ TotalSize(b[1]) \in Nat
    BY <1>1, <1>4, Fitting
  <2>2. CASE ~(Len(b) >= TotalSize(b[1])) /\ got'[r] = got[r] /\ rx'[r] = b
    <3>1. Partial(r)'
      <4>1. Len(b) < TotalSize(b[1])
        BY <2>1, <2>2
      <4>2. QED BY <1>1, <2>1, <2>2, <4>1 DEF Partial, TotalSize, Size
    <3>2. QED BY <1>1, <1>4, <2>1, <2>2, <3>1, StreamOn, WholesSame
  <2>3. CASE /\ Len(b) >= TotalSize(b[1]) /\ got'[r] = Append(got[r], b) /\ rx'[r] = <<>>
    <3> DEFINE i == b[1][1]
               j == b[1][2]
    <3>1. b = Parts(i, j)
      <4>1. Len(b) = Size(i, j) /\ DOMAIN b = 1 .. Len(b)
        BY <2>1, <2>3 DEF TotalSize
      <4>2. b = [k \in 1 .. Len(b) |-> b[k]]
        BY <2>1
      <4>3. QED BY <2>1, <4>1, <4>2 DEF Parts
    <3>2. got[r] \in Seq(Seq(Frames))
      BY DEF Carried
    <3>3. DOMAIN got'[r] = 1 .. Len(got[r]) + 1 /\ got'[r][Len(got[r]) + 1] = b
          /\ \A k \in 1 .. Len(got[r]) : k \in DOMAIN got[r] /\ got'[r][k] = got[r][k]
      <4>1. b \in Seq(Frames)
        BY <2>1
      <4>2. QED BY <2>3, <3>2, <4>1, Appended
    <3>4. \A k \in DOMAIN got'[r] : \E m \in Written : got'[r][k] = Parts(m[1], m[2])
      <4>1. \A k \in 1 .. Len(got[r]) : \E m \in Written : got'[r][k] = Parts(m[1], m[2])
        BY <3>3 DEF Wholes
      <4>2. <<i, j>> \in Written /\ got'[r][Len(got[r]) + 1] = Parts(<<i, j>>[1], <<i, j>>[2])
        BY <2>1, <3>1, <3>3
      <4>3. Len(got[r]) \in Nat
        BY <3>2
      <4> HIDE DEF i, j
      <4>4. QED BY <3>3, <4>1, <4>2, <4>3
    <3>5. Wholes(r)'
      BY <1>1, <3>4 DEF Wholes, Parts, Size
    <3>6. QED BY <1>1, <1>4, <2>3, <3>5, StreamOn
  <2>4. QED BY <1>4, <2>2, <2>3 DEF Gathers
<1>5. QED BY <1>2, <1>3, <1>4, ReadMoves DEF Frames1, FramesN, TInv
-----------------------------------------------------------------------------
LEMMA WStarts == Init => WInv
<1> SUFFICES ASSUME Init PROVE WInv
  OBVIOUS
<1>1. Carried /\ DOMAIN full = Readers
  BY DEF Init, Carried
<1>2. \A w \in Writers : InTurn(w) /\ Ended(w)
  BY DEF Init, InTurn, Ended, Busy
<1>3. \A n \in Nodes : Chained(n) /\ NoFail(n)
  BY DEF Init, Chained, NoFail
<1>4. \A r \in Readers : Kept(r) /\ Stream(r) /\ Wholes(r)
  BY DEF Init, Kept, Stream, Partial, Wholes
<1>5. QED BY <1>1, <1>2, <1>3, <1>4 DEF WInv

LEMMA TaskWholes ==
  ASSUME EInv, TInv, WInv, NEW w \in Writers, Call(w) \/ Writing(w), Fewer
  PROVE  WInv'
<1>1. Typed /\ Exclusive /\ Carried
  BY DEF EInv, WInv
<1>2. /\ plan' = plan /\ queue' = queue /\ last' = last /\ rx' = rx /\ got' = got
      /\ full' = full
  BY TaskReads
<1>3. Carried' /\ DOMAIN full' = Readers
  BY <1>1, <1>2, TaskCarried DEF WInv
<1>4. ASSUME Prompt' PROVE \A v \in Writers : InTurn(v)'
  <2>1. Prompt
    BY <1>4, GoodBefore
  <2>2. QED BY <1>1, <2>1, TaskInTurn DEF EInv, WInv
<1>5. ASSUME Lossless' PROVE (\A n \in Nodes : Chained(n)') /\ (\A v \in Writers : Ended(v)')
  <2>1. Lossless
    BY <1>5, GoodBefore
  <2>2. (\A n \in Nodes : Chained(n)) /\ (\A v \in Writers : Ended(v))
    BY <2>1 DEF WInv
  <2>3. QED BY <1>1, <2>2, TaskChained, TaskEnded
<1>6. ASSUME Perfect' PROVE (\A n \in Nodes : NoFail(n)') /\ (\A r \in Readers : Kept(r)')
  <2>1. Perfect /\ used' = used
    BY <1>6, GoodBefore
  <2>2. Prompt
    BY <2>1 DEF Perfect, Without, Prompt, Events
  <2>3. /\ InTurn(w) /\ \A n \in Nodes : NoFail(n)
        /\ \A r \in Readers : Kept(r)
    BY <2>1, <2>2 DEF WInv
  <2>4. \A r \in Readers : Kept(r)'
    BY <1>1, <2>1, <2>3, TaskKept
  <2>5. \A n \in Nodes : NoFail(n)'
    <3>1. Target[w] \in Readers
      BY Homes
    <3>2. QED BY <1>1, <2>1, <2>3, <3>1, TaskKept
  <2>6. QED BY <2>4, <2>5
<1>7. ASSUME NEW r \in Readers, Good(r)' PROVE Stream(r)' /\ Wholes(r)'
  <2>1. Good(r) /\ (Perfect' => Perfect)
    BY <1>2, <1>7, GoodBefore
  <2>2. Stream(r) /\ Wholes(r)
    BY <2>1 DEF WInv
  <2>3. Written \subseteq Written'
    BY <1>1, WrittenStays
  <2>4. QED BY <1>2, <2>1, <2>2, <2>3, StreamSame, WholesSame
<1>8. QED BY <1>3, <1>4, <1>5, <1>6, <1>7 DEF WInv

(* What the radio brings to the reader of its first frame.                 *)
LEMMA RadioStream ==
  ASSUME OneSender, EInv, TInv, WInv, NEW n \in Nodes, Sending(n), Fewer,
         NEW h, h = Head(air[n]), NEW r, r = For(n), Good(r)', Good(r)
  PROVE  Stream(r)'
<1>1. Typed /\ Exclusive /\ Carried /\ DOMAIN full = Readers
  BY DEF EInv, WInv
<1>2. /\ air[n] # <<>> /\ plan' = plan /\ rx' = rx /\ h \in Real /\ h = air[n][1]
      /\ r \in Readers /\ r = Target[h[1]]
  BY <1>1, RadioMoves
<1>3. /\ \/ last'[r] = last[r] /\ queue'[r] = queue[r]
         \/ last'[r] = h /\ queue'[r] = queue[r] /\ Damaged(n)
         \/ last'[r] = h /\ h # last[r] /\ queue'[r] = Append(queue[r], h)
         \/ full'[r] # {}
  BY <1>1, RadioMoves
<1>4. Stream(r) /\ full'[r] = {} /\ h \in Frames
  BY <1>2 DEF WInv, Good, Real
<1>5. Perfect' => Perfect
  BY GoodBefore
<1>6. After(last[r], h)
  <2>1. CASE Prompt
    BY <1>1, <1>2, <2>1, HeadInTurn DEF EInv, WInv
  <2>2. CASE Lossless
    BY <1>2, <2>2 DEF WInv, Chained
  <2>3. QED BY <1>1, <1>2, <2>1, <2>2, GoodIsOrdered
<1>7. CASE last'[r] = last[r] /\ queue'[r] = queue[r]
  BY <1>2, <1>4, <1>5, <1>7, StreamSame
<1>8. CASE last'[r] = h /\ queue'[r] = queue[r] /\ Damaged(n)
  <2>1. Perfect /\ ~Perfect'
    BY <1>1, <1>2, <1>8, DamageAlone
  <2>2. Prompt
    BY <2>1 DEF Perfect, Without, Prompt, Events
  <2>3. OnAir(n) /\ Kept(r)
    BY <1>2, <2>1, <2>2 DEF EInv, WInv
  <2>4. h[3] = 0 => last[r] = h \/ last[r] = NoFrame \/ Ends(last[r])
    BY <1>1, <1>2, <2>3, FirstAfterWhole
  <2>5. QED BY <1>1, <1>2, <1>4, <1>6, <1>8, <2>1, <2>4, StreamGap
<1>9. CASE last'[r] = h /\ h # last[r] /\ queue'[r] = Append(queue[r], h)
  BY <1>1, <1>2, <1>4, <1>6, <1>9, StreamGrows
<1>10. QED BY <1>3, <1>4, <1>7, <1>8, <1>9

LEMMA RadioWholes ==
  ASSUME OneSender, EInv, TInv, WInv, NEW n \in Nodes, Sending(n), Fewer
  PROVE  WInv'
<1>1. PICK h, r : h = Head(air[n]) /\ r = For(n)
  OBVIOUS
<1>2. Typed /\ Exclusive /\ Carried /\ DOMAIN full = Readers
  BY DEF EInv, WInv
<1>3. /\ plan' = plan /\ result' = result /\ rx' = rx /\ got' = got /\ r \in Readers
      /\ \A s \in Readers \ {r} : /\ last'[s] = last[s] /\ queue'[s] = queue[s]
                                  /\ full'[s] = full[s]
      /\ DOMAIN full' = Readers /\ full[r] \subseteq full'[r]
  BY <1>1, <1>2, RadioMoves
<1>4. Carried' /\ DOMAIN full' = Readers
  BY <1>1, <1>2, <1>3, RadioCarried
<1>5. ASSUME Prompt' PROVE \A v \in Writers : InTurn(v)'
  <2>1. Prompt
    BY <1>5, GoodBefore
  <2>2. OnAir(n) /\ \A v \in Writers : InTurn(v)
    BY <2>1 DEF EInv, WInv
  <2>3. QED BY <1>2, <2>2, RadioInTurn
<1>6. ASSUME Lossless' PROVE (\A m \in Nodes : Chained(m)') /\ (\A v \in Writers : Ended(v)')
  <2>1. Lossless
    BY <1>6, GoodBefore
  <2>2. (\A m \in Nodes : Chained(m)) /\ (\A v \in Writers : Ended(v))
    BY <2>1 DEF WInv
  <2>3. ~Lost(n) /\ ~Damaged(n)
    <3>1. ASSUME NEW e \in {"loss", "damage"}, Happens(e) PROVE FALSE
      <4>1. used[e] \in Nat /\ used'[e] = used[e] + 1 /\ used'[e] = 0
        BY <1>2, <1>6, <3>1 DEF Typed, Happens, Lossless, Without, Events
      <4>2. QED BY <4>1
    <3>2. QED BY <3>1 DEF Lost, Damaged
  <2>4. QED BY <1>2, <2>2, <2>3, RadioChained, RadioEnded
<1>7. ASSUME Perfect' PROVE (\A m \in Nodes : NoFail(m)') /\ (\A s \in Readers : Kept(s)')
  <2>1. Perfect /\ used' = used
    BY <1>7, GoodBefore
  <2>2. Prompt
    BY <2>1 DEF Perfect, Without, Prompt, Events
  <2>3. /\ OnAir(n) /\ \A m \in Nodes : NoFail(m)
        /\ \A s \in Readers : Kept(s)
    BY <2>1, <2>2 DEF EInv, WInv
  <2>4. \A s \in Readers : Kept(s)' /\ \A m \in Nodes : NoFail(m)'
    BY <1>2, <2>1, <2>3, RadioKept
  <2>5. QED BY <1>3, <2>4
<1>8. ASSUME NEW s \in Readers, Good(s)' PROVE Stream(s)' /\ Wholes(s)'
  <2>1. full[s] \subseteq full'[s]
    BY <1>3
  <2>2. Good(s) /\ (Perfect' => Perfect)
    BY <1>8, <2>1, GoodBefore
  <2>3. Stream(s) /\ Wholes(s)
    BY <2>2 DEF WInv
  <2>4. Wholes(s)'
    BY <1>3, <2>3, RealSame, WholesSame
  <2>5. CASE s = r
    BY <1>1, <1>8, <2>2, <2>4, <2>5, RadioStream
  <2>6. CASE s # r
    BY <1>3, <2>2, <2>3, <2>4, <2>6, StreamSame
  <2>7. QED BY <2>5, <2>6
<1>9. QED BY <1>4, <1>5, <1>6, <1>7, <1>8 DEF WInv

(* A reader disturbs nothing of what is on its way to it.                  *)
LEMMA LinesSame ==
  ASSUME plan' = plan, tx' = tx, result' = result, bits' = bits, air' = air,
         last' = last, full' = full
  PROVE  /\ \A w \in Writers : /\ InTurn(w) => InTurn(w)'
                               /\ Ended(w) => Ended(w)'
         /\ \A n \in Nodes : /\ Chained(n) => Chained(n)'
                             /\ NoFail(n) => NoFail(n)'
         /\ \A r \in Readers : Kept(r) => Kept(r)'
<1>1. \A f : TotalSize(f)' = TotalSize(f) /\ Ends(f)' = Ends(f)
  BY DEF TotalSize, Size, Ends
<1>2. \A z, f : After(z, f)' = After(z, f)
  BY DEF After, Succ
<1>3. \A w \in Writers : /\ Frame(w)' = Frame(w) /\ Busy(w)' = Busy(w) /\ End(w)' = End(w)
  BY DEF Frame, Busy, Current, End
<1>4. \A w \in Writers : InTurn(w) => InTurn(w)'
  BY <1>2, <1>3 DEF InTurn
<1>5. \A w \in Writers : Ended(w) => Ended(w)'
  BY <1>2, <1>3 DEF Ended
<1>6. \A n \in Nodes : Chained(n) => Chained(n)'
  BY <1>2 DEF Chained
<1>7. \A n \in Nodes : NoFail(n) => NoFail(n)'
  BY <1>3 DEF NoFail
<1>8. \A r \in Readers : Kept(r) => Kept(r)'
  BY <1>1, <1>3 DEF Kept
<1>9. QED BY <1>4, <1>5, <1>6, <1>7, <1>8

LEMMA ReadWholes ==
  ASSUME EInv, TInv, WInv, NEW r \in Readers, ReadFirst(r) \/ ReadNext(r) \/ ReadTimeout(r),
         Fewer
  PROVE  WInv'
<1>1. /\ plan' = plan /\ tx' = tx /\ result' = result /\ bits' = bits
      /\ air' = air /\ last' = last /\ full' = full
      /\ \A s \in Readers \ {r} : /\ rx'[s] = rx[s] /\ queue'[s] = queue[s]
                                  /\ got'[s] = got[s]
  BY ReadMoves DEF TInv
<1>2. Carried' /\ DOMAIN full' = Readers
  BY <1>1, ReadCarried DEF WInv
<1>3. \A w \in Writers : /\ InTurn(w) => InTurn(w)'
                         /\ Ended(w) => Ended(w)'
  BY <1>1, LinesSame
<1>4. /\ \A n \in Nodes : /\ Chained(n) => Chained(n)'
                          /\ NoFail(n) => NoFail(n)'
      /\ \A s \in Readers : Kept(s) => Kept(s)'
  BY <1>1, LinesSame
<1>5. ASSUME NEW s \in Readers, Good(s)' PROVE Stream(s)' /\ Wholes(s)'
  <2>1. Good(s) /\ (Perfect' => Perfect)
    BY <1>1, <1>5, GoodBefore
  <2>2. Stream(s) /\ Wholes(s)
    BY <2>1 DEF WInv
  <2>3. CASE s = r
    BY <2>1, <2>2, <2>3, ReadStream DEF WInv
  <2>4. CASE s # r
    BY <1>1, <2>1, <2>2, <2>4, StreamSame, WholesSame, RealSame
  <2>5. QED BY <2>3, <2>4
<1>6. QED BY <1>2, <1>3, <1>4, <1>5, GoodBefore DEF WInv

LEMMA WKeeps ==
  ASSUME OneSender, EInv, TInv, WInv, [Next]_vars
  PROVE  WInv'
<1>1. Fewer
  BY NeverFewer DEF EInv
<1>2. CASE UNCHANGED vars
  <2>1. /\ plan' = plan /\ tx' = tx /\ result' = result /\ bits' = bits /\ used' = used
        /\ air' = air /\ last' = last /\ full' = full
        /\ rx' = rx /\ queue' = queue /\ got' = got
    BY <1>2 DEF vars, writeVars, readVars
  <2>2. Carried' /\ DOMAIN full' = Readers
    BY <2>1, RealSame DEF WInv, Carried
  <2>3. \A w \in Writers : /\ InTurn(w) => InTurn(w)'
                           /\ Ended(w) => Ended(w)'
    BY <2>1, LinesSame
  <2>4. /\ \A n \in Nodes : /\ Chained(n) => Chained(n)'
                            /\ NoFail(n) => NoFail(n)'
        /\ \A s \in Readers : Kept(s) => Kept(s)'
    BY <2>1, LinesSame
  <2>5. \A s \in Readers : Good(s)' => Stream(s)' /\ Wholes(s)'
    BY <1>1, <2>1, GoodBefore, StreamSame, WholesSame, RealSame DEF WInv
  <2>6. QED BY <1>1, <2>2, <2>3, <2>4, <2>5, GoodBefore DEF WInv
<1>3. CASE Next
  BY <1>1, <1>3, TaskWholes, RadioWholes, ReadWholes DEF Next
<1>4. QED BY <1>2, <1>3

(* A reader is given whole packets, each as it was written, when the       *)
(* writers of its pipe are tasks of one node: whatever is lost and however *)
(* often it is sent again, if no frame is damaged and no callback late;    *)
(* however late callbacks are, if no frame is damaged or lost; and with    *)
(* one damaged frame and no other fault (mespnow.c:262-276, 339-373).      *)
THEOREM PacketsAreWhole ==
  ASSUME OneSender
  PROVE  Spec => []Whole
<1>1. Init => EInv /\ TInv /\ WInv
  BY EStarts, TStarts, WStarts
<1>2. EInv /\ TInv /\ WInv /\ [Next]_vars => (EInv /\ TInv /\ WInv)'
  BY EKeeps, TKeeps, WKeeps
<1>3. WInv => Whole
  BY DEF WInv, Good, Wholes, Whole
<1>4. QED BY <1>1, <1>2, <1>3, PTL DEF Spec
=============================================================================
