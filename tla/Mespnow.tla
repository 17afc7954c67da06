------------------------------ MODULE Mespnow -------------------------------
(***************************************************************************)
(* Packets over ESP-NOW (components/mespnow/mespnow.c): a packet is cut    *)
(* into frames, each is sent until the radio of the receiver acknowledged  *)
(* it, and the receiver puts the frames of a pipe together again.          *)
(*                                                                         *)
(* Writers are the tasks that call mespnow_write().  Tasks of one node     *)
(* share the send lock and the bits of the send callback.  A reader is the *)
(* task that calls mespnow_read() in a loop for one pipe of a node.        *)
(*                                                                         *)
(* A frame is <<writer, number of its packet, number in the packet>>; its  *)
(* magic is as good as its name.  Every frame but the last is full, so     *)
(* read_size and total_size are counted in frames.                         *)
(***************************************************************************)
EXTENDS Naturals, FiniteSets, Sequences, Functions

CONSTANTS
  Readers,
  Writers, Home, Target, \* the tasks that write, their nodes and readers
  Retry,      \* CONFIG_MESPNOW_RETRANSMIT_NUM
  QueueCap,   \* g_espnow_queue_size of the pipe
  Room,       \* what fits the buffer of a reader, in frames
  MaxWrites,  \* a bound of the packets of one writer
  Plans       \* the sizes written and how often each event may happen

Nodes  == Range(Home)
Events == {"loss", "ack loss", "damage", "late callback", "send error",
           "no memory", "lock timeout", "read timeout"}

ASSUME MespnowAssumption ==
  /\ Home \in [Writers -> Nodes] /\ Target \in [Writers -> Readers]
  /\ Nodes \cap Writers = {}
  /\ Retry \in Nat \ {0} /\ QueueCap \in Nat \ {0} /\ Room \in Nat
  /\ MaxWrites \in Nat
  /\ \A p \in Plans : /\ p.sizes \in [Writers -> Seq(Nat \ {0})]
                      /\ \A w \in Writers : Len(p.sizes[w]) <= MaxWrites
                      /\ p.limit \in [Events -> Nat]

VARIABLES
  plan,    \* one of Plans, chosen at the start
  used,    \* how often each event has happened
  lock,    \* s_send_lock of each node: who has it, or the node when nobody
  bits,    \* g_event_group of each node
  tx,      \* where a writer stands in mespnow_write()
  result,  \* what its calls returned
  air,     \* the frames esp_now_send() took, in order
  queue,   \* g_espnow_queue of each reader
  last,    \* g_last_magic of each reader
  rx,      \* the frames mespnow_read() has of a packet
  got,     \* the packets it returned
  heard,   \* history: the frames that reached each reader undamaged
  full     \* history: the frames a full queue turned away

writeVars == <<lock, bits, tx, result>>
readVars  == <<queue, last, rx, got, heard, full>>
vars == <<plan, used, writeVars, air, readVars>>

NoFrame == <<>>

Init ==
  /\ plan \in Plans
  /\ used = [e \in Events |-> 0]
  /\ lock = [n \in Nodes |-> n]
  /\ bits = [n \in Nodes |-> {}]
  /\ tx = [w \in Writers |-> [pc |-> "idle", seq |-> 0, left |-> 0]]
  /\ result = [w \in Writers |-> <<>>]
  /\ air = [n \in Nodes |-> <<>>]
  /\ queue = [r \in Readers |-> <<>>]
  /\ last = [r \in Readers |-> NoFrame]
  /\ rx = [r \in Readers |-> <<>>]
  /\ got = [r \in Readers |-> <<>>]
  /\ heard = [r \in Readers |-> {}]
  /\ full = [r \in Readers |-> {}]

Happens(e) ==
  /\ used[e] < plan.limit[e]
  /\ used' = [used EXCEPT ![e] = @ + 1]

-----------------------------------------------------------------------------
(* mespnow_write()                                                         *)

Current(w) == Len(result[w]) + 1
Size(w, i) == plan.sizes[w][i]
Frame(w)   == <<w, Current(w), tx[w].seq>>

At(w, pc) == tx[w].pc = pc /\ UNCHANGED <<plan, readVars>>
Goto(w, pc) == tx' = [tx EXCEPT ![w].pc = pc]

Return(w, ret) ==
  /\ Goto(w, "idle")
  /\ result' = [result EXCEPT ![w] = Append(@, ret)]

Call(w) ==
  /\ At(w, "idle") /\ Current(w) <= Len(plan.sizes[w])
  /\ Goto(w, "lock")
  /\ UNCHANGED <<used, lock, bits, result, air>>

(* xSemaphoreTake(), with the memory for a frame or without it: then the   *)
(* lock is kept.                                                           *)
Takes(w) ==
  /\ At(w, "lock") /\ lock[Home[w]] = Home[w]
  /\ lock' = [lock EXCEPT ![Home[w]] = w]
  /\ UNCHANGED <<bits, air>>

TakeLock(w) ==
  /\ Takes(w)
  /\ tx' = [tx EXCEPT ![w] = [pc |-> "frame", seq |-> 0, left |-> 0]]
  /\ UNCHANGED <<used, result>>

NoMemory(w) ==
  Takes(w) /\ Happens("no memory") /\ Return(w, "NO_MEM")

(* The call that has the lock of node n returned: none will ever get it.   *)
KeptForGood(n) == lock[n] # n /\ tx[lock[n]].pc \in {"idle", "lock"}

LockTimeout(w) ==
  /\ At(w, "lock") /\ lock[Home[w]] # Home[w]
  /\ IF KeptForGood(Home[w]) THEN UNCHANGED used ELSE Happens("lock timeout")
  /\ Return(w, "TIMEOUT")
  /\ UNCHANGED <<lock, bits, air>>

(* The exit: the lock is given back whatever happened.                     *)
ExitKeepsLock(w, ret) ==                                          \* mutant
  Return(w, ret) /\ lock' = [lock EXCEPT ![Home[w]] =
                               IF ret = "OK" THEN Home[w] ELSE @]
Exit(w, ret) ==
  Return(w, ret) /\ lock' = [lock EXCEPT ![Home[w]] = Home[w]]

(* The next frame: the bits that earlier frames left are cleared.          *)
StartFrame(w) ==
  /\ At(w, "frame")
  /\ tx' = [tx EXCEPT ![w].pc = "send", ![w].left = Retry]
  /\ bits' = [bits EXCEPT ![Home[w]] = {}]
  /\ UNCHANGED <<used, lock, result, air>>

SendFrame(w) ==
  /\ At(w, "send")
  /\ air' = [air EXCEPT ![Home[w]] = Append(@, Frame(w))]
  /\ Goto(w, "wait")
  /\ UNCHANGED <<used, lock, bits, result>>

SendError(w) ==
  /\ At(w, "send")
  /\ Happens("send error") /\ Exit(w, "FAIL")
  /\ UNCHANGED <<bits, air>>

AcknowledgesAny(b) == b # {}                                      \* mutant
Acknowledges(b) == "OK" \in b

LastFrameAndOne(w) == tx[w].seq = Size(w, Current(w))             \* mutant
LastFrame(w) == tx[w].seq + 1 = Size(w, Current(w))

(* xEventGroupWaitBits() returns both bits and clears them.  The frame is  *)
(* acknowledged: the next one, or the end.                                 *)
Acked(w) ==
  /\ At(w, "wait") /\ Acknowledges(bits[Home[w]])
  /\ bits' = [bits EXCEPT ![Home[w]] = {}]
  /\ IF LastFrame(w)
       THEN Exit(w, "OK")
       ELSE /\ tx' = [tx EXCEPT ![w].pc = "frame", ![w].seq = @ + 1]
            /\ UNCHANGED <<lock, result>>
  /\ UNCHANGED <<used, air>>

(* It is not: the frame is sent again, Retry times in all.                 *)
SendAgain(w) ==
  IF tx[w].left > 1
    THEN /\ tx' = [tx EXCEPT ![w].pc = "send", ![w].left = @ - 1]
         /\ UNCHANGED <<lock, result>>
    ELSE Exit(w, "FAIL")

Unacked(w) ==
  /\ At(w, "wait") /\ bits[Home[w]] = {"FAIL"}
  /\ bits' = [bits EXCEPT ![Home[w]] = {}]
  /\ SendAgain(w)
  /\ UNCHANGED <<used, air>>

(* write_ticks have passed and the callback has not come.                  *)
LateCallback(w) ==
  /\ At(w, "wait") /\ bits[Home[w]] = {}
  /\ Happens("late callback")
  /\ SendAgain(w)
  /\ UNCHANGED <<bits, air>>

-----------------------------------------------------------------------------
(* mespnow_recv_cb() takes a frame for reader r, or drops it.              *)
ReceiveRepeated(r, f) ==                                          \* mutant
  /\ heard' = [heard EXCEPT ![r] = @ \cup {f}]
  /\ last' = [last EXCEPT ![r] = f]
  /\ queue' = [queue EXCEPT ![r] =
                 IF Len(@) = QueueCap THEN @ ELSE Append(@, f)]
  /\ full' = [full EXCEPT ![r] =
                 IF Len(queue[r]) = QueueCap THEN @ \cup {f} ELSE @]
  /\ UNCHANGED <<rx, got>>
Receive(r, f) ==
  /\ heard' = [heard EXCEPT ![r] = @ \cup {f}]
  /\ last' = [last EXCEPT ![r] = f]
  /\ LET new == f # last[r]
     IN  /\ queue' = [queue EXCEPT ![r] =
                 IF new /\ Len(@) < QueueCap THEN Append(@, f) ELSE @]
         /\ full' = [full EXCEPT ![r] =
                 IF new /\ Len(queue[r]) = QueueCap THEN @ \cup {f} ELSE @]
  /\ UNCHANGED <<rx, got>>

(* The magic is remembered before the checksum is seen to be wrong.        *)
ReceiveDamaged(r, f) ==
  /\ last' = [last EXCEPT ![r] = f]
  /\ UNCHANGED <<queue, rx, got, heard, full>>

(* The radio of node n is done with a frame and runs mespnow_send_cb().    *)
Radio(n, ack) ==
  /\ air[n] # <<>>
  /\ air' = [air EXCEPT ![n] = Tail(@)]
  /\ bits' = [bits EXCEPT ![n] = @ \cup {ack}]
  /\ UNCHANGED <<plan, lock, tx, result>>

For(n) == Target[Head(air[n])[1]]

Delivered(n) ==
  Radio(n, "OK") /\ Receive(For(n), Head(air[n])) /\ UNCHANGED used
AckLost(n) ==
  Radio(n, "FAIL") /\ Receive(For(n), Head(air[n])) /\ Happens("ack loss")
Lost(n) ==
  Radio(n, "FAIL") /\ UNCHANGED readVars /\ Happens("loss")
Damaged(n) ==
  /\ \E ack \in {"OK", "FAIL"} : Radio(n, ack)
  /\ ReceiveDamaged(For(n), Head(air[n]))
  /\ Happens("damage")

-----------------------------------------------------------------------------
(* mespnow_read()                                                          *)

TotalSize(f) == Size(f[1], f[2])

Dequeue(r) ==
  /\ queue[r] # <<>>
  /\ queue' = [queue EXCEPT ![r] = Tail(@)]
  /\ UNCHANGED <<plan, used, writeVars, air, last, heard, full>>

(* Frames of one packet as far as the reader knows: it returns when they   *)
(* are as many as the first one announces.                                 *)
Gather(r, frames) ==
  IF Len(frames) >= TotalSize(frames[1])
    THEN /\ got' = [got EXCEPT ![r] = Append(@, frames)]
         /\ rx' = [rx EXCEPT ![r] = <<>>]
    ELSE /\ rx' = [rx EXCEPT ![r] = frames]
         /\ UNCHANGED got

(* Any frame but the first of a packet that fits is thrown away.           *)
ReadFirst(r) ==
  /\ rx[r] = <<>>
  /\ Dequeue(r)
  /\ LET f == Head(queue[r])
     IN  IF f[3] = 0 /\ TotalSize(f) < Room
           THEN Gather(r, <<f>>)
           ELSE UNCHANGED <<rx, got>>

(* Then they must follow one another: the one that does not is lost too.   *)
FollowsAny(r, f) == TRUE                                          \* mutant
Follows(r, f) == f[3] = Len(rx[r])

ReadNext(r) ==
  /\ rx[r] # <<>>
  /\ Dequeue(r)
  /\ LET f == Head(queue[r])
     IN  IF Follows(r, f)
           THEN Gather(r, Append(rx[r], f))
           ELSE rx' = [rx EXCEPT ![r] = <<>>] /\ UNCHANGED got

ReadTimeout(r) ==
  /\ rx[r] # <<>> /\ queue[r] = <<>>
  /\ Happens("read timeout")
  /\ rx' = [rx EXCEPT ![r] = <<>>]
  /\ UNCHANGED <<plan, writeVars, air, queue, last, got, heard, full>>

-----------------------------------------------------------------------------
Writing(w) ==
  \/ TakeLock(w) \/ NoMemory(w) \/ LockTimeout(w) \/ StartFrame(w)
  \/ SendFrame(w) \/ SendError(w) \/ Acked(w) \/ Unacked(w) \/ LateCallback(w)

Sending(n) == Delivered(n) \/ AckLost(n) \/ Lost(n) \/ Damaged(n)

Next ==
  \/ \E w \in Writers : Call(w) \/ Writing(w)
  \/ \E n \in Nodes : Sending(n)
  \/ \E r \in Readers : ReadFirst(r) \/ ReadNext(r) \/ ReadTimeout(r)

Spec == Init /\ [][Next]_vars

(* Tasks run on and the radio gives its callback for every frame.  A lock  *)
(* that stays free is taken, but no wait for it is forced to time out:     *)
(* wait_ticks may be portMAX_DELAY.                                        *)
FairSpec ==
  /\ Spec
  /\ \A w \in Writers : /\ WF_vars(TakeLock(w))
                         /\ WF_vars(Writing(w) /\ tx[w].pc # "lock")
  /\ \A n \in Nodes : WF_vars(Sending(n))

-----------------------------------------------------------------------------
Parts(w, i) == [k \in 1 .. Size(w, i) |-> <<w, i, k - 1>>]

Written == {m \in Writers \X (1 .. MaxWrites) :
              m[2] <= Current(m[1]) /\ m[2] <= Len(plan.sizes[m[1]])}

(* The type of every variable; a queue holds what it has room for.         *)
TypeOK ==
  /\ plan \in Plans /\ used \in [Events -> Nat]
  /\ lock \in [Nodes -> Nodes \cup Writers]
  /\ bits \in [Nodes -> SUBSET {"OK", "FAIL"}]
  /\ \A w \in Writers :
       /\ tx[w].pc \in {"idle", "lock", "frame", "send", "wait"}
       /\ tx[w].left \in 0 .. Retry
       /\ tx[w].pc \notin {"idle", "lock"} =>
            Current(w) <= Len(plan.sizes[w])
              /\ tx[w].seq < Size(w, Current(w))
  /\ \A r \in Readers : Len(queue[r]) <= QueueCap

Without(kinds) == \A e \in kinds : used[e] = 0
Single == \E e \in Events : used[e] <= 1 /\ Without(Events \ {e})

(* A frame goes missing without its writer knowing: in a full queue, or    *)
(* damaged, or when a late callback is taken for that of the next frame.   *)
Unnoticed == {"damage", "late callback"}

(* What mespnow_read() returns is one packet as it was written, whatever   *)
(* is lost and however often a frame goes out: a writer gives a packet up  *)
(* when it cannot send a frame, so that a reader with a part of it sees a  *)
(* first frame next (lines 272-276, 363-367), and the tasks of a node hold *)
(* the lock for whole packets.  No reader compares total_size or the       *)
(* sender: a frame that goes missing unnoticed joins a packet to one that  *)
(* was given up.  So a damaged frame is the only fault here, and callbacks *)
(* come late only while no frame is lost.                                  *)
Whole ==
  \A r \in Readers :
    full[r] = {} /\ (\/ Without({"damage", "late callback"})
                    \/ Without({"damage", "loss"})
                    \/ Single) =>
    \A k \in DOMAIN got[r] :
      \E m \in Written : got[r][k] = Parts(m[1], m[2])

(* The packets of a writer are returned in the order they were written,    *)
(* none of them twice, although a frame whose acknowledgement is lost or   *)
(* late goes out again (lines 118-123, 257-276).                           *)
InOrderOnce ==
  \A r \in Readers : \A j, k \in DOMAIN got[r] :
    (j < k /\ got[r][j][1][1] = got[r][k][1][1])
      => got[r][j][1][2] < got[r][k][1][2]

(* MDF_OK means that every frame was received: a callback is never taken   *)
(* for that of another frame (lines 255, 264).  Without a callback that    *)
(* comes too late, and frames that no receiver could use apart.            *)
AckedHeard ==
  Without(Unnoticed) =>
    \A w \in Writers : \A i \in DOMAIN result[w] :
      result[w][i] = "OK" => Range(Parts(w, i)) \subseteq heard[Target[w]]

Quiet ==
  /\ \A w \in Writers : tx[w].pc = "idle" /\ Len(result[w]) = Len(plan.sizes[w])
  /\ \A n \in Nodes : air[n] = <<>>
  /\ \A r \in Readers : queue[r] = <<>>

Missed(r) ==
  {m \in Written : Target[m[1]] = r /\ Size(m[1], m[2]) < Room
                     /\ Parts(m[1], m[2]) \notin Range(got[r])}

(* A fault costs a reader the packet it hits and at most the next one, and *)
(* a lost frame or a lost acknowledgement costs none: it is sent again.    *)
(* But a queue that was full is not asked for, nor memory that ran out:    *)
(* this costs every later packet of the node, whose lock the call that     *)
(* returned at line 237 keeps.                                             *)
Repaired == {"loss", "ack loss"}
FaultCosts ==
  Quiet /\ Single /\ Without({"no memory"}) /\ (\A r \in Readers : full[r] = {}) =>
    \A r \in Readers :
      Cardinality(Missed(r)) <= IF Without(Events \ Repaired) THEN 0 ELSE 2

(* Every call of mespnow_write() returns, also when it waits for the lock  *)
(* and when every attempt of another call fails, as long as memory never   *)
(* ran out (line 237 keeps the lock).                                      *)
WritesReturn ==
  \A w \in Writers :
    (tx[w].pc # "idle")
      ~> (tx[w].pc = "idle" \/ used["no memory"] > 0)
=============================================================================
