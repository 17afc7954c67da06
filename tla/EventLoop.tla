------------------------------ MODULE EventLoop ------------------------------
(***************************************************************************)
(* The event loop (components/mcommon/mdf_event_loop.c) and the callbacks  *)
(* that feed it (esp_ip_event_cb() and esp_mesh_event_cb() of              *)
(* components/mwifi/mwifi.c).  An event carries a pointer: the callbacks   *)
(* copy its data to a static buffer, one for the events of IP and a small  *)
(* ring for those of the mesh, and the handler reads it later.             *)
(*                                                                         *)
(* A call of a callback takes its buffer once or twice, in turns: it may   *)
(* copy data there and not send it (an event of IP that is not told to the *)
(* app, the state of the network), or send it without data of its own (an  *)
(* event of the mesh that carries none).                                   *)
(*                                                                         *)
(* Data is abstracted to the number of the turn that copied it, counted    *)
(* for each source.  A task that sends values, not pointers, is a source   *)
(* with a buffer for each of its events; one that sends NULL is a source   *)
(* whose turns copy nothing.                                               *)
(***************************************************************************)
EXTENDS Integers, FiniteSets, Sequences

CONSTANTS
  Kinds, Source, \* the events, and the callback or task each comes from
  Turns,         \* what each call of a callback does, turn by turn
  Buffers,       \* the static buffers of each source: 1 and 3 in the code
  QueueNum,      \* EVENT_QUEUE_NUM
  Senders, Task, \* the tasks that send, and which one each source runs on
  Delayed        \* the timer task, which sends delayed events

Sources == DOMAIN Buffers
Calls   == DOMAIN Turns
Turn    == [kind : Kinds, copies : BOOLEAN, sends : BOOLEAN]
On(turn) == Task[Source[turn.kind]]

ASSUME EventLoopAssumption ==
  /\ Buffers \in [Sources -> Nat \ {0}] /\ QueueNum \in Nat \ {0}
  /\ Source \in [Kinds -> Sources] /\ Task \in [Sources -> Senders]
  /\ Delayed \in Senders
  /\ Turns \in [Calls -> Seq(Turn)]
  /\ \A c \in Calls :
       /\ Turns[c] # <<>>
       /\ \A i \in DOMAIN Turns[c] : On(Turns[c][i]) = On(Head(Turns[c]))

VARIABLES
  events,   \* g_event_queue_handle
  posting,  \* the event each task is about to queue, if any
  callback, \* the turns that are left of the call each task is in
  posted,   \* how many turns of each source there were
  infos,    \* s_event_info and s_evet_info
  index     \* evet_info_index

loopVars == <<events, posting, callback, posted, infos, index>>

(* data: it carries data of its own.                                       *)
Event == [kind : Kinds, n : Nat, slot : Nat, data : BOOLEAN]

EventInit ==
  /\ events = <<>> /\ posting = [t \in Senders |-> {}]
  /\ callback = [t \in Senders |-> <<>>]
  /\ posted = [s \in Sources |-> 0]
  /\ infos = [s \in Sources |-> [i \in 0 .. Buffers[s] - 1 |-> 0]]
  /\ index = [s \in Sources |-> 0]

(* The next buffer of the ring.                                            *)
NextStays(s) == index[s]                                          \* mutant
NextBuffer(s) == (index[s] + 1) % Buffers[s]

(* One turn: the data is copied; when it is to be sent, a full queue loses *)
(* its oldest event, else the callback steps to the next buffer.           *)
Take(t, turns) ==
  LET turn == Head(turns)
      s == Source[turn.kind]
      e == [kind |-> turn.kind, n |-> posted[s] + 1, slot |-> index[s],
            data |-> turn.copies]
  IN  /\ posting[t] = {}
      /\ callback' = [callback EXCEPT ![t] = Tail(turns)]
      /\ posted' = [posted EXCEPT ![s] = @ + 1]
      /\ infos' = IF turn.copies THEN [infos EXCEPT ![s][index[s]] = e.n] ELSE infos
      /\ \/ /\ turn.sends
            /\ posting' = [posting EXCEPT ![t] = {e}]
            /\ events' = IF Len(events) = QueueNum THEN Tail(events) ELSE events
            /\ UNCHANGED index
         \/ /\ ~turn.sends
            /\ index' = [index EXCEPT ![s] = NextBuffer(s)]
            /\ UNCHANGED <<events, posting>>

Post(c)  == LET t == On(Head(Turns[c]))
            IN  callback[t] = <<>> /\ Take(t, Turns[c])
GoOn(t)  == callback[t] # <<>> /\ Take(t, callback[t])

(* Another task may have taken the room: then this one waits, or loses its *)
(* event when it is the timer task.                                        *)
Queue(t) ==
  /\ \E e \in posting[t] :
       /\ \/ Len(events) < QueueNum /\ events' = Append(events, e)
          \/ Len(events) = QueueNum /\ t = Delayed /\ UNCHANGED events
       /\ index' = [index EXCEPT ![Source[e.kind]] = NextBuffer(Source[e.kind])]
  /\ posting' = [posting EXCEPT ![t] = {}]
  /\ UNCHANGED <<callback, posted, infos>>

(* mdf_event_loop_task() takes the oldest event.                           *)
Dispatch ==
  /\ events # <<>> /\ events' = Tail(events)
  /\ UNCHANGED <<posting, callback, posted, infos, index>>

EventNext ==
  \/ \E c \in Calls : Post(c)
  \/ \E t \in Senders : GoOn(t) \/ Queue(t)
  \/ Dispatch

EventSpec == EventInit /\ [][EventNext]_loopVars

-----------------------------------------------------------------------------
Waiting(s) ==
  {e \in {events[i] : i \in DOMAIN events} \cup UNION {posting[t] : t \in Senders} :
     Source[e.kind] = s}

(* An event that carries data finds it while its callbacks took fewer      *)
(* buffers since than their source has others, whatever was dropped or is  *)
(* late (mwifi.c:137-157, 170-290).  A turn counts that sends nothing (140 *)
(* for most events of IP, 265 and 273 for the state of the network) and    *)
(* one that copies nothing (285).  The queue takes 20 events, the ring has *)
(* 3 buffers, and the events of IP share one.                              *)
OwnData ==
  \A s \in Sources : \A e \in Waiting(s) :
    e.data /\ posted[s] - e.n < Buffers[s] => infos[s][e.slot] = e.n
=============================================================================
