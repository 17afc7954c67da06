-------------------------- MODULE EventLoop_proofs --------------------------
(***************************************************************************)
(* A proof about the event loop, for every queue, every number of buffers  *)
(* of each source, every number of tasks and whatever turns their calls    *)
(* consist of: an event that carries data finds its own while fewer        *)
(* buffers were taken since than the source has others.                    *)
(*                                                                         *)
(* The argument: an event that lies back by d turns of its source has its  *)
(* data d places behind the buffer in use, going round the ring, or d + 1  *)
(* behind the next one; so the next buffer holds the data of an event that *)
(* lies back too far to be asked for.                                      *)
(***************************************************************************)
EXTENDS EventLoop, TLAPS

Ring(s) == 0 .. Buffers[s] - 1

Typed ==
  /\ events \in Seq(Event)
  /\ posting \in [Senders -> SUBSET Event]
  /\ callback \in [Senders -> Seq(Turn)]
  /\ \A t \in Senders : \A i \in DOMAIN callback[t] : On(callback[t][i]) = t
  /\ posted \in [Sources -> Nat]
  /\ index \in [Sources -> Nat]
  /\ DOMAIN infos = Sources
  /\ \A s \in Sources : index[s] \in Ring(s) /\ infos[s] \in [Ring(s) -> Nat]

(* A task is about to queue one event at most, the latest of its source.   *)
Single ==
  \A t \in Senders : \A e \in posting[t] :
    /\ posting[t] = {e}
    /\ Task[Source[e.kind]] = t
    /\ e.n = posted[Source[e.kind]] /\ e.slot = index[Source[e.kind]]

(* The places from buffer i to the buffer in use.                          *)
Behind(s, i) == IF i <= index[s] THEN index[s] - i ELSE index[s] - i + Buffers[s]
(* ... and to the next one, when the event of the former is queued.        *)
Ahead(s, i)  == IF i < index[s] THEN index[s] - i ELSE index[s] - i + Buffers[s]

Pending(s) == \E e \in posting[Task[s]] : Source[e.kind] = s
Age(s, e)  == posted[s] - e.n

Placed(s, e) ==
  /\ e.n <= posted[s] /\ e.slot \in Ring(s)
  /\ Age(s, e) < Buffers[s] =>
       /\ e.data => infos[s][e.slot] = e.n
       /\ IF Pending(s) THEN Behind(s, e.slot) = Age(s, e)
          ELSE Ahead(s, e.slot) = Age(s, e) + 1

IInv ==
  /\ Typed /\ Single
  /\ \A s \in Sources : \A e \in Waiting(s) : Placed(s, e)

(***************************************************************************)
(* Sequences and the ring.                                                 *)
(***************************************************************************)
Elems(q) == {q[i] : i \in DOMAIN q}

LEMMA TailElems ==
  ASSUME NEW q \in Seq(Event), q # <<>>
  PROVE  Tail(q) \in Seq(Event) /\ Elems(Tail(q)) \subseteq Elems(q)
<1>1. /\ Tail(q) \in Seq(Event) /\ Len(Tail(q)) = Len(q) - 1
      /\ \A i \in 1 .. Len(q) - 1 : Tail(q)[i] = q[i + 1]
  OBVIOUS
<1>2. QED BY <1>1 DEF Elems

LEMMA AppendElems ==
  ASSUME NEW q \in Seq(Event), NEW e \in Event
  PROVE  Append(q, e) \in Seq(Event) /\ Elems(Append(q, e)) \subseteq Elems(q) \cup {e}
  BY DEF Elems

LEMMA NextInRing ==
  ASSUME NEW B \in Nat \ {0}, NEW i \in 0 .. B - 1
  PROVE  (i + 1) % B = IF i + 1 = B THEN 0 ELSE i + 1
  OBVIOUS

LEMMA BuffersThere == \A s \in Sources : Buffers[s] \in Nat \ {0} /\ Task[s] \in Senders
  BY EventLoopAssumption DEF EventLoopAssumption

LEMMA SourceThere == \A e \in Event : Source[e.kind] \in Sources
  BY EventLoopAssumption DEF EventLoopAssumption, Event

LEMMA WaitingIs ==
  ASSUME NEW s \in Sources, NEW e
  PROVE  e \in Waiting(s) <=>
           /\ Source[e.kind] = s
           /\ e \in Elems(events) \/ \E t \in Senders : e \in posting[t]
  BY DEF Waiting, Elems

LEMMA WaitingTyped ==
  ASSUME Typed, NEW s \in Sources, NEW e \in Waiting(s)
  PROVE  e \in Event /\ Source[e.kind] = s
  BY WaitingIs DEF Typed, Elems

LEMMA WaitingIsNext ==
  ASSUME NEW s \in Sources, NEW e
  PROVE  (e \in Waiting(s))' <=>
           /\ Source[e.kind] = s
           /\ e \in Elems(events') \/ \E t \in Senders : e \in posting'[t]
  BY DEF Waiting, Elems

(***************************************************************************)
(* The invariant.                                                          *)
(***************************************************************************)
LEMMA Starts == EventInit => IInv
<1> SUFFICES ASSUME EventInit PROVE IInv
  OBVIOUS
<1>1. Typed
  BY BuffersThere DEF EventInit, Typed, Ring
<1>2. Single
  BY DEF EventInit, Single
<1>3. \A s \in Sources : Waiting(s) = {}
  BY DEF EventInit, Waiting
<1>4. QED BY <1>1, <1>2, <1>3 DEF IInv

(* One turn of a call: its event joins those that wait, or the ring turns; *)
(* every other event lies back by one more.                                *)
LEMMA TakeKeeps ==
  ASSUME IInv, NEW t \in Senders, NEW turns \in Seq(Turn), turns # <<>>,
         \A i \in DOMAIN turns : On(turns[i]) = t, Take(t, turns)
  PROVE  IInv'
<1>0. PICK turn, s : turn = Head(turns) /\ s = Source[turn.kind]
  OBVIOUS
<1> DEFINE e == [kind |-> turn.kind, n |-> posted[s] + 1, slot |-> index[s],
                 data |-> turn.copies]
<1>1. /\ turn \in Turn /\ turn.kind \in Kinds /\ turn.copies \in BOOLEAN
      /\ turn.sends \in BOOLEAN /\ s \in Sources /\ Task[s] = t
      /\ Buffers[s] \in Nat \ {0}
  <2>1. turn \in Turn /\ turn = turns[1] /\ 1 \in DOMAIN turns
    BY <1>0
  <2>2. turn.kind \in Kinds /\ turn.copies \in BOOLEAN /\ turn.sends \in BOOLEAN
    BY <2>1 DEF Turn
  <2>3. s \in Sources
    BY <1>0, <2>2, EventLoopAssumption DEF EventLoopAssumption
  <2>4. Task[s] = t
    BY <1>0, <2>1 DEF On
  <2>5. QED BY <2>1, <2>2, <2>3, <2>4, BuffersThere
<1>2. /\ posting[t] = {}
      /\ callback' = [callback EXCEPT ![t] = Tail(turns)]
      /\ posted' = [posted EXCEPT ![s] = @ + 1]
      /\ infos' = IF turn.copies THEN [infos EXCEPT ![s] = [@ EXCEPT ![index[s]] = e.n]]
                  ELSE infos
      /\ \/ /\ turn.sends /\ posting' = [posting EXCEPT ![t] = {e}] /\ index' = index
            /\ events' = IF Len(events) = QueueNum THEN Tail(events) ELSE events
         \/ /\ ~turn.sends /\ index' = [index EXCEPT ![s] = NextBuffer(s)]
            /\ events' = events /\ posting' = posting
  BY <1>0 DEF Take
<1>3. events' \in Seq(Event) /\ Elems(events') \subseteq Elems(events)
  <2>1. events \in Seq(Event) /\ QueueNum \in Nat \ {0}
    BY EventLoopAssumption DEF IInv, Typed, EventLoopAssumption
  <2>2. CASE events' = events
    BY <2>1, <2>2
  <2>3. CASE Len(events) = QueueNum /\ events' = Tail(events)
    <3>1. events # <<>>
      BY <2>1, <2>3
    <3>2. QED BY <2>1, <2>3, <3>1, TailElems
  <2>4. QED BY <1>2, <2>2, <2>3
<1>4. /\ e \in Event /\ e.n = posted[s] + 1 /\ e.slot = index[s] /\ Source[e.kind] = s
      /\ e.data = turn.copies
  BY <1>0, <1>1 DEF Event, IInv, Typed
<1>5. posted'[s] = posted[s] + 1 /\ \A r \in Sources \ {s} : posted'[r] = posted[r]
  BY <1>1, <1>2 DEF IInv, Typed
<1>6. /\ index[s] \in Ring(s) /\ posted[s] \in Nat
      /\ NextBuffer(s) = IF index[s] + 1 = Buffers[s] THEN 0 ELSE index[s] + 1
      /\ NextBuffer(s) \in Ring(s) /\ NextBuffer(s) \in Nat
  <2>1. index[s] \in 0 .. Buffers[s] - 1 /\ posted[s] \in Nat
    BY <1>1 DEF IInv, Typed, Ring
  <2>2. NextBuffer(s) = IF index[s] + 1 = Buffers[s] THEN 0 ELSE index[s] + 1
    BY <1>1, <2>1, NextInRing DEF NextBuffer
  <2>3. PICK B, i, n : B = Buffers[s] /\ i = index[s] /\ n = NextBuffer(s)
    OBVIOUS
  <2>4. n \in 0 .. B - 1 /\ n \in Nat
    BY <1>1, <2>1, <2>2, <2>3
  <2>5. QED BY <2>1, <2>2, <2>3, <2>4 DEF Ring
<1>7. /\ infos'[s] \in [Ring(s) -> Nat] /\ DOMAIN infos' = Sources
      /\ \A r \in Sources \ {s} : infos'[r] = infos[r]
      /\ turn.copies => infos'[s][index[s]] = e.n
      /\ \A i \in Ring(s) \ {index[s]} : infos'[s][i] = infos[s][i]
  <2>1. PICK m, n, i : m = infos[s] /\ n = e.n /\ i = index[s]
    OBVIOUS
  <2>2. DOMAIN infos = Sources /\ m \in [Ring(s) -> Nat] /\ n \in Nat /\ i \in Ring(s)
    BY <1>1, <1>4, <1>6, <2>1 DEF IInv, Typed
  <2>3. CASE turn.copies
    <3>1. infos' = [infos EXCEPT ![s] = [m EXCEPT ![i] = n]]
      BY <1>2, <2>1, <2>3
    <3>2. infos'[s] = [m EXCEPT ![i] = n] /\ DOMAIN infos' = Sources
          /\ \A r \in Sources \ {s} : infos'[r] = infos[r]
      BY <1>1, <2>2, <3>1
    <3>3. QED BY <2>1, <2>2, <2>3, <3>2
  <2>4. CASE ~turn.copies
    <3>1. infos' = infos
      BY <1>2, <2>4
    <3>2. QED BY <2>1, <2>2, <2>4, <3>1
  <2>5. QED BY <2>3, <2>4
<1>8. /\ index' \in [Sources -> Nat]
      /\ index'[s] = IF turn.sends THEN index[s] ELSE NextBuffer(s)
      /\ \A r \in Sources \ {s} : index'[r] = index[r]
  <2>1. index \in [Sources -> Nat]
    BY DEF IInv, Typed
  <2>2. CASE turn.sends
    BY <1>2, <2>1, <2>2
  <2>3. CASE ~turn.sends
    BY <1>1, <1>2, <1>6, <2>1, <2>3
  <2>4. QED BY <2>2, <2>3
<1>9. /\ posting' \in [Senders -> SUBSET Event]
      /\ posting'[t] = IF turn.sends THEN {e} ELSE {}
      /\ \A u \in Senders \ {t} : posting'[u] = posting[u]
  <2>1. posting \in [Senders -> SUBSET Event]
    BY DEF IInv, Typed
  <2> HIDE DEF e
  <2>2. CASE turn.sends
    BY <1>2, <1>4, <2>1, <2>2
  <2>3. CASE ~turn.sends
    BY <1>2, <2>1, <2>3
  <2>4. QED BY <2>2, <2>3
<1> HIDE DEF e
<1>10. Typed'
  <2>1. callback' \in [Senders -> Seq(Turn)]
    BY <1>2 DEF IInv, Typed
  <2>2. \A u \in Senders : \A i \in DOMAIN callback'[u] : On(callback'[u][i]) = u
    <3> SUFFICES ASSUME NEW u \in Senders, NEW i \in DOMAIN callback'[u]
                 PROVE  On(callback'[u][i]) = u
      OBVIOUS
    <3>1. CASE u = t
      <4>1. callback'[u] = Tail(turns)
        BY <1>2, <3>1 DEF IInv, Typed
      <4>2. i + 1 \in DOMAIN turns /\ callback'[u][i] = turns[i + 1]
        BY <4>1
      <4>3. QED BY <3>1, <4>2
    <3>2. CASE u # t
      <4>1. callback'[u] = callback[u]
        BY <1>2, <3>2 DEF IInv, Typed
      <4>2. QED BY <4>1 DEF IInv, Typed
    <3>3. QED BY <3>1, <3>2
  <2>3. posted' \in [Sources -> Nat]
    BY <1>1, <1>2 DEF IInv, Typed
  <2>4. \A r \in Sources : index'[r] \in Ring(r) /\ infos'[r] \in [Ring(r) -> Nat]
    <3> SUFFICES ASSUME NEW r \in Sources
                 PROVE  index'[r] \in Ring(r) /\ infos'[r] \in [Ring(r) -> Nat]
      OBVIOUS
    <3>1. CASE r = s
      BY <1>6, <1>7, <1>8, <3>1
    <3>2. CASE r # s
      BY <1>7, <1>8, <3>2 DEF IInv, Typed
    <3>3. QED BY <3>1, <3>2
  <2>5. QED BY <1>3, <1>7, <1>8, <1>9, <2>1, <2>2, <2>3, <2>4 DEF Typed, Ring
<1>11. Single'
  <2> SUFFICES ASSUME NEW u \in Senders, NEW f \in posting'[u]
               PROVE  /\ posting'[u] = {f}
                      /\ Task[Source[f.kind]] = u
                      /\ f.n = posted'[Source[f.kind]]
                      /\ f.slot = index'[Source[f.kind]]
    BY DEF Single
  <2>1. CASE u = t
    BY <2>1, <1>1, <1>4, <1>5, <1>8, <1>9
  <2>2. CASE u # t
    <3>1. posting'[u] = posting[u]
      BY <2>2, <1>9
    <3>2. f \in Event
      BY <3>1 DEF IInv, Typed
    <3>3. Source[f.kind] \in Sources \ {s}
      BY <3>1, <3>2, <2>2, <1>1, SourceThere DEF IInv, Single
    <3>4. QED BY <3>1, <3>3, <1>5, <1>8 DEF IInv, Single
  <2>3. QED BY <2>1, <2>2
<1>12. ASSUME NEW r \in Sources, NEW f, (f \in Waiting(r))'
       PROVE  Placed(r, f)'
  <2>1. Source[f.kind] = r /\ (f \in Waiting(r) \/ (f = e /\ turn.sends))
    BY <1>12, <1>3, <1>9, WaitingIs, WaitingIsNext
  <2>2. CASE f \notin Waiting(r)
    <3>1. r = s /\ f = e /\ f \in posting'[Task[s]]
      BY <2>1, <2>2, <1>1, <1>4, <1>9
    <3>2. Pending(s)'
      BY <3>1, <2>1 DEF Pending
    <3>3. f.n = posted'[s] /\ f.slot = index'[s] /\ f.slot = index[s]
          /\ f.data = turn.copies /\ posted'[s] \in Nat /\ index'[s] \in Ring(s)
      BY <3>1, <2>1, <2>2, <1>4, <1>5, <1>6, <1>8
    <3>4. (Age(s, f))' = 0 /\ (Behind(s, f.slot))' = 0
      <4>1. index'[s] \in Nat
        BY <1>1, <3>3 DEF Ring
      <4>2. QED BY <3>3, <4>1 DEF Age, Behind
    <3>5. f.data => infos'[s][f.slot] = f.n
      BY <3>1, <3>3, <1>7
    <3>6. f.n <= posted'[s]
      BY <3>3
    <3>7. QED BY <3>1, <3>2, <3>3, <3>4, <3>5, <3>6 DEF Placed
  <2>3. CASE f \in Waiting(r)
    <3>1. Placed(r, f) /\ f \in Event
      BY <2>3, WaitingTyped DEF IInv
    <3>2. f.n \in Nat /\ f.slot \in Ring(r) /\ posted[r] \in Nat
          /\ index[r] \in Ring(r) /\ Buffers[r] \in Nat \ {0}
      BY <3>1, BuffersThere DEF Placed, IInv, Typed, Event
    <3>3. CASE r = s
      <4>1. ~Pending(s) /\ (Pending(s)' <=> turn.sends)
        BY <1>1, <1>2, <1>4, <1>9 DEF Pending
      <4>2. ASSUME f.slot # index[s] PROVE infos'[s][f.slot] = infos[s][f.slot]
        BY <4>2, <3>2, <3>3, <1>7
      <4>3. PICK B, i, k, m, a :
              B = Buffers[s] /\ i = f.slot /\ k = index[s] /\ m = index'[s] /\ a = Age(s, f)
        OBVIOUS
      <4>4. /\ B \in Nat \ {0} /\ i \in 0 .. B - 1 /\ k \in 0 .. B - 1 /\ a \in Nat
            /\ (Age(s, f))' = a + 1 /\ f.n <= posted'[s]
            /\ a < B => (f.data => infos[s][i] = f.n)
            /\ a < B => (IF i < k THEN k - i ELSE k - i + B) = a + 1
        BY <4>1, <4>3, <3>1, <3>2, <3>3, <1>5 DEF Placed, Ahead, Age, Ring
      <4>5. a + 1 < B => i # k
        BY <4>4
      <4>6. a + 1 < B => (f.data => infos'[s][i] = f.n)
        BY <4>2, <4>3, <4>4, <4>5
      <4>7. CASE turn.sends
        <5>1. m = k
          BY <4>3, <4>7, <1>8
        <5>2. a + 1 < B => (IF i <= m THEN m - i ELSE m - i + B) = a + 1
          BY <5>1, <4>4
        <5>3. (Behind(s, i))' = IF i <= m THEN m - i ELSE m - i + B
          BY <4>3 DEF Behind
        <5>4. QED BY <4>1, <4>3, <4>4, <4>6, <4>7, <5>2, <5>3, <3>2, <3>3 DEF Placed
      <4>8. CASE ~turn.sends
        <5>1. m = IF k + 1 = B THEN 0 ELSE k + 1
          BY <4>3, <4>8, <1>6, <1>8
        <5>2. a + 1 < B => (IF i < m THEN m - i ELSE m - i + B) = a + 2
          BY <5>1, <4>4
        <5>3. (Ahead(s, i))' = IF i < m THEN m - i ELSE m - i + B
          BY <4>3 DEF Ahead
        <5>4. a + 1 < B => (Ahead(s, i))' = (a + 1) + 1
          BY <5>2, <5>3, <4>4
        <5>5. QED BY <4>1, <4>3, <4>4, <4>6, <4>8, <5>4, <3>2, <3>3 DEF Placed
      <4>9. QED BY <4>7, <4>8
    <3>4. CASE r # s
      <4>1. posted'[r] = posted[r] /\ infos'[r] = infos[r] /\ index'[r] = index[r]
        BY <3>4, <1>5, <1>7, <1>8
      <4>2. Pending(r)' <=> Pending(r)
        BY <3>4, <1>1, <1>2, <1>4, <1>9, BuffersThere DEF Pending
      <4>3. QED BY <4>1, <4>2, <3>1 DEF Placed, Behind, Ahead, Age
    <3>5. QED BY <3>3, <3>4
  <2>4. QED BY <2>2, <2>3
<1>13. QED BY <1>10, <1>11, <1>12 DEF IInv

(* A call begins, or goes on.                                              *)
LEMMA PostKeeps ==
  ASSUME IInv, NEW c \in Calls, Post(c)
  PROVE  IInv'
<1>1. /\ Turns[c] \in Seq(Turn) /\ Turns[c] # <<>>
      /\ \A i \in DOMAIN Turns[c] : On(Turns[c][i]) = On(Head(Turns[c]))
  BY EventLoopAssumption DEF EventLoopAssumption
<1>2. On(Head(Turns[c])) \in Senders
  <2>1. PICK turn : turn = Head(Turns[c])
    OBVIOUS
  <2>2. turn \in Turn
    BY <1>1, <2>1
  <2>3. turn.kind \in Kinds
    BY <2>2 DEF Turn
  <2>4. Source[turn.kind] \in Sources
    BY <2>3, EventLoopAssumption DEF EventLoopAssumption
  <2>5. QED BY <2>1, <2>4, BuffersThere DEF On
<1>3. QED BY <1>1, <1>2, TakeKeeps DEF Post

LEMMA GoingOnKeeps ==
  ASSUME IInv, NEW t \in Senders, GoOn(t)
  PROVE  IInv'
<1>1. /\ callback[t] \in Seq(Turn) /\ callback[t] # <<>>
      /\ \A i \in DOMAIN callback[t] : On(callback[t][i]) = t
  BY DEF IInv, Typed, GoOn
<1>2. QED BY <1>1, TakeKeeps DEF GoOn

(* Of the task that queues, nothing is left; the ring of its source turns. *)
LEMMA QueueKeeps ==
  ASSUME IInv, NEW t \in Senders, Queue(t)
  PROVE  IInv'
<1>1. PICK e \in posting[t] :
        /\ \/ Len(events) < QueueNum /\ events' = Append(events, e)
           \/ Len(events) = QueueNum /\ t = Delayed /\ UNCHANGED events
        /\ index' = [index EXCEPT ![Source[e.kind]] = NextBuffer(Source[e.kind])]
  BY DEF Queue
<1> DEFINE s == Source[e.kind]
<1>2. e \in Event /\ s \in Sources /\ Task[s] = t /\ posting[t] = {e}
      /\ Buffers[s] \in Nat \ {0}
  BY SourceThere, BuffersThere DEF IInv, Typed, Single
<1>3. posting' = [posting EXCEPT ![t] = {}] /\ posted' = posted /\ infos' = infos
      /\ callback' = callback
  BY DEF Queue
<1>4. events' \in Seq(Event) /\ Elems(events') \subseteq Elems(events) \cup {e}
  <2>1. CASE events' = Append(events, e)
    BY <2>1, <1>2, AppendElems DEF IInv, Typed
  <2>2. CASE events' = events
    BY <2>2 DEF IInv, Typed
  <2>3. QED BY <2>1, <2>2, <1>1
<1>5. /\ index'[s] = IF index[s] + 1 = Buffers[s] THEN 0 ELSE index[s] + 1
      /\ \A r \in Sources \ {s} : index'[r] = index[r]
  BY <1>1, <1>2, NextInRing DEF NextBuffer, IInv, Typed, Ring
<1>6. Typed'
  <2>1. index' \in [Sources -> Nat]
    <3>1. NextBuffer(s) \in Nat
      BY <1>2, NextInRing DEF NextBuffer, IInv, Typed, Ring
    <3>2. QED BY <3>1, <1>1 DEF IInv, Typed
  <2>2. \A r \in Sources : index'[r] \in Ring(r)
    <3> SUFFICES ASSUME NEW r \in Sources
                 PROVE  index'[r] \in Ring(r)
      OBVIOUS
    <3>1. CASE r # s
      BY <1>5, <3>1 DEF IInv, Typed
    <3>2. CASE r = s
      <4>1. index[s] \in 0 .. Buffers[s] - 1
        BY <1>2 DEF IInv, Typed, Ring
      <4>2. index'[s] \in 0 .. Buffers[s] - 1
        BY <1>2, <1>5, <4>1
      <4>3. QED BY <3>2, <4>2 DEF Ring
    <3>3. QED BY <3>1, <3>2
  <2>3. QED BY <2>1, <2>2, <1>2, <1>3, <1>4 DEF IInv, Typed
<1>7. Single'
  <2> SUFFICES ASSUME NEW u \in Senders, NEW f \in posting'[u]
               PROVE  /\ posting'[u] = {f}
                      /\ Task[Source[f.kind]] = u
                      /\ f.n = posted'[Source[f.kind]]
                      /\ f.slot = index'[Source[f.kind]]
    BY DEF Single
  <2>1. u # t /\ posting'[u] = posting[u]
    BY <1>3 DEF IInv, Typed
  <2>2. f \in Event /\ Source[f.kind] \in Sources \ {s}
    BY <2>1, <1>2, SourceThere DEF IInv, Typed, Single
  <2>3. QED BY <2>1, <2>2, <1>3, <1>5 DEF IInv, Single
<1>8. ASSUME NEW r \in Sources, NEW f, (f \in Waiting(r))'
      PROVE  Placed(r, f)'
  <2>1. f \in Waiting(r) /\ Source[f.kind] = r
    BY <1>8, <1>2, <1>3, <1>4, WaitingIs, WaitingIsNext DEF IInv, Typed
  <2>2. Placed(r, f) /\ f \in Event
    BY <2>1, WaitingTyped DEF IInv
  <2>3. f.n \in Nat /\ f.slot \in Ring(r) /\ posted[r] \in Nat
        /\ index[r] \in Ring(r) /\ Buffers[r] \in Nat \ {0}
    BY <2>2, BuffersThere DEF Placed, IInv, Typed, Event
  <2>4. CASE r = s
    <3>1. Pending(s) /\ ~Pending(s)'
      BY <1>2, <1>3 DEF Pending, IInv, Typed
    <3>2. QED BY <3>1, <2>2, <2>3, <2>4, <1>3, <1>5
              DEF Placed, Behind, Ahead, Age, Ring
  <2>5. CASE r # s
    <3>1. index'[r] = index[r]
      BY <2>5, <1>5
    <3>2. Pending(r)' <=> Pending(r)
      BY <2>5, <1>2, <1>3, BuffersThere DEF Pending, IInv, Typed
    <3>3. QED BY <3>1, <3>2, <2>2, <1>3 DEF Placed, Behind, Ahead, Age
  <2>6. QED BY <2>4, <2>5
<1>9. QED BY <1>6, <1>7, <1>8 DEF IInv

(* A step after which no event waits that did not wait before.             *)
LEMMA FewerKeep ==
  ASSUME IInv, UNCHANGED <<posting, callback, posted, infos, index>>,
         events' \in Seq(Event), Elems(events') \subseteq Elems(events)
  PROVE  IInv'
<1>1. Typed' /\ Single'
  BY DEF IInv, Typed, Single
<1>2. ASSUME NEW r \in Sources, NEW f, (f \in Waiting(r))'
      PROVE  Placed(r, f)'
  <2>1. f \in Waiting(r)
    BY <1>2, WaitingIs, WaitingIsNext
  <2>2. Placed(r, f)
    BY <2>1 DEF IInv
  <2>3. QED BY <2>2 DEF Placed, Behind, Ahead, Age, Pending
<1>3. QED BY <1>1, <1>2 DEF IInv

LEMMA StepKeeps == IInv /\ [EventNext]_loopVars => IInv'
<1> SUFFICES ASSUME IInv, [EventNext]_loopVars PROVE IInv'
  OBVIOUS
<1>1. CASE \E c \in Calls : Post(c)
  BY <1>1, PostKeeps
<1>2. CASE \E t \in Senders : GoOn(t) \/ Queue(t)
  BY <1>2, GoingOnKeeps, QueueKeeps
<1>3. CASE Dispatch
  BY <1>3, TailElems, FewerKeep DEF Dispatch, IInv, Typed
<1>4. CASE UNCHANGED loopVars
  BY <1>4, FewerKeep DEF loopVars, IInv, Typed
<1>5. QED BY <1>1, <1>2, <1>3, <1>4 DEF EventNext

LEMMA PlacedOwnData == IInv => OwnData
  BY DEF IInv, OwnData, Placed, Age

(* An event that carries data finds it while its callbacks took fewer      *)
(* buffers since than their source has others, whatever was dropped or is  *)
(* late, and however many turns their calls take (mwifi.c:137-157, 170-290 *)
(* and mdf_event_loop.c:66-108).                                           *)
THEOREM EventsFindTheirData == EventSpec => []OwnData
<1>1. EventInit => IInv
  BY Starts
<1>2. IInv /\ [EventNext]_loopVars => IInv'
  BY StepKeeps
<1>3. QED BY <1>1, <1>2, PlacedOwnData, PTL DEF EventSpec
=============================================================================
