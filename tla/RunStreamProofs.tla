--------------------------- MODULE RunStreamProofs ---------------------------
(***************************************************************************)
(* Proofs about RunStream, for any buffers, number of events and updaters, *)
(* and any set of events of unknown type.                                  *)
(*                                                                         *)
(* The events are in three places at once: what the client got, what was   *)
(* published to its subscription, and what is still with the server.  They *)
(* are in order, within each place and from one to the next; and whatever  *)
(* lies between two of them and is in none of the places was skipped or    *)
(* lost.                                                                   *)
(***************************************************************************)
EXTENDS RunStream, TLAPS

\* The goroutines of the server begin together, and what is to be sent was read.
Shape ==
    /\ reader = "send" => cursor # 0
    /\ reader = "off" <=> proxy = "off"
    /\ reader = "off" => buffer = <<>>

\* The messages of the inbox that are events.
IsEvent(k) == inbox[k].n # 0

\* Until the proxy starts nothing is forwarded; before the subscription and after
\* the connection nothing is received.
Quiet ==
    /\ proxy = "off" => got = <<>> /\ lost = {} /\ \A k \in 1 .. Len(inbox) : ~IsEvent(k)
    /\ client # "on" => inbox = <<>>
    /\ client \in {"off", "snapshot"} => got = <<>>

IInv ==
    /\ TypeOK
    /\ Shape
    /\ Quiet

\* A full channel of the subscription: what is left when its next message is dropped.
LEMMA DropFacts ==
    ASSUME NEW S, NEW s \in Seq(S), NEW i \in 1 .. Len(s)
    PROVE  /\ RemoveAt(s, i) \in Seq(S)
           /\ Len(RemoveAt(s, i)) = Len(s) - 1
           /\ \A k \in 1 .. Len(s) - 1 : RemoveAt(s, i)[k] = IF k < i THEN s[k] ELSE s[k + 1]
<1> DEFINE front == SubSeq(s, 1, i - 1)
           back == SubSeq(s, i + 1, Len(s))
<1>1. Len(s) \in Nat
  OBVIOUS
<1>2. front \in Seq(S) /\ Len(front) = i - 1 /\ \A k \in 1 .. i - 1 : front[k] = s[k]
  BY <1>1
<1>3. /\ back \in Seq(S) /\ Len(back) = Len(s) - i
      /\ \A k \in 1 .. Len(s) - i : back[k] = s[k + i]
  BY <1>1
<1>4. RemoveAt(s, i) = front \o back
  BY DEF RemoveAt
<1> HIDE DEF front, back
<1>5. front \o back \in Seq(S) /\ Len(front \o back) = Len(s) - 1
  <2>1. front \in Seq(S) /\ back \in Seq(S)
    BY <1>2, <1>3
  <2>2. front \o back \in Seq(S)
    BY <2>1
  <2>3. Len(front \o back) = Len(front) + Len(back)
    BY <2>1
  <2> QED BY <1>1, <1>2, <1>3, <2>2, <2>3
<1>6. \A k \in 1 .. Len(s) - 1 :
         (front \o back)[k] = IF k < i THEN front[k] ELSE back[k - (i - 1)]
  BY <1>1, <1>2, <1>3
<1>7. \A k \in 1 .. Len(s) - 1 : k >= i => back[k - (i - 1)] = s[k + 1]
  <2> SUFFICES ASSUME NEW k \in 1 .. Len(s) - 1, k >= i PROVE back[k - (i - 1)] = s[k + 1]
    OBVIOUS
  <2>1. k - (i - 1) \in 1 .. Len(s) - i /\ (k - (i - 1)) + i = k + 1
    BY <1>1
  <2> QED BY <1>3, <2>1
<1> QED BY <1>1, <1>2, <1>4, <1>5, <1>6, <1>7


LEMMA InitOK == Init => IInv
<1> SUFFICES ASSUME Init PROVE IInv
  OBVIOUS
<1>1. /\ buffer \in Seq(Events) /\ Len(buffer) <= BufferSize
      /\ inbox \in Seq(Message) /\ got \in Seq(Events) /\ Len(inbox) = 0
  BY RunStreamAssumption DEF Init
<1>2. emitted \in 0 .. Complete /\ cursor \in 0 .. Complete
  BY RunStreamAssumption DEF Init, Complete
<1>3. TypeOK
  BY <1>1, <1>2, RunStreamAssumption DEF Init, TypeOK
<1> QED BY <1>1, <1>3 DEF Init, IInv, Shape, Quiet

\* Goroutines, engine and updates: nothing reaches the client.
LEMMA ServerOK ==
    ASSUME IInv,
           \/ \E u \in Updaters : Write(u)
           \/ Emit \/ Close \/ Connect \/ ReadEvent \/ StreamEnded \/ Tick
    PROVE  IInv'
<1>1. UNCHANGED <<buffer, client, shown, inbox, got, lost>>
  BY DEF Write, Emit, Close, Connect, ReadEvent, StreamEnded, Tick, engine, pump, browser
<1>2. cursor' \in 0 .. Complete /\ emitted' \in 0 .. Complete
  BY RunStreamAssumption DEF IInv, TypeOK, Write, Emit, Close, Connect, ReadEvent, StreamEnded, Tick,
                             engine, pump, Complete
<1>3. /\ status' \in Statuses /\ update' \in [Updaters -> Statuses \cup {None, "done"}]
      /\ closed' \in BOOLEAN /\ reader' \in {"off", "read", "send", "done"}
      /\ proxy' \in {"off", "select", "done"}
  BY DEF IInv, TypeOK, Write, Emit, Close, Connect, ReadEvent, StreamEnded, Tick, engine, pump
<1>4. TypeOK'
  BY <1>1, <1>2, <1>3 DEF IInv, TypeOK
<1>5. Shape'
  BY RunStreamAssumption
     DEF IInv, TypeOK, Shape, Write, Emit, Close, Connect, ReadEvent, StreamEnded, Tick, engine, pump
<1>6. proxy' = "off" => proxy = "off"
  BY DEF Write, Emit, Close, Connect, ReadEvent, StreamEnded, Tick, engine, pump
<1>7. Quiet'
  BY <1>1, <1>6 DEF IInv, Quiet, IsEvent
<1> QED BY <1>4, <1>5, <1>7 DEF IInv

LEMMA SendEventOK ==
    ASSUME IInv, SendEvent
    PROVE  IInv'
<1>1. UNCHANGED <<status, update, emitted, closed, cursor, proxy, client, shown, inbox, got, lost>>
  BY DEF SendEvent, engine, browser
<1>2. /\ reader = "send" /\ cursor \in Events /\ reader' \in {"read", "done"}
      /\ buffer \in Seq(Events) /\ Len(buffer) \in Nat /\ Len(buffer) <= BufferSize
  BY DEF IInv, TypeOK, Shape, SendEvent, Events
<1>3. buffer' \in Seq(Events) /\ Len(buffer') <= BufferSize
  BY <1>2, RunStreamAssumption DEF SendEvent
<1>4. TypeOK'
  BY <1>1, <1>2, <1>3 DEF IInv, TypeOK
<1> QED BY <1>1, <1>2, <1>4 DEF IInv, Shape, Quiet, IsEvent

\* A message is appended to the inbox of a client that has subscribed.
LEMMA PublishOK ==
    ASSUME IInv, NEW m \in Message, Publish(m), m.n # 0 => proxy # "off"
    PROVE  /\ inbox' \in Seq(Message)
           /\ client # "on" => inbox' = <<>>
           /\ proxy = "off" => \A k \in 1 .. Len(inbox') : inbox'[k].n = 0
<1>1. inbox \in Seq(Message) /\ Len(inbox) \in Nat
  BY DEF IInv, TypeOK
<1>2. CASE client = "on" /\ inbox' = Append(inbox, m)
  <2>1. /\ inbox' \in Seq(Message) /\ Len(inbox') = Len(inbox) + 1
        /\ inbox'[Len(inbox) + 1] = m /\ \A k \in 1 .. Len(inbox) : inbox'[k] = inbox[k]
    BY <1>1, <1>2
  <2> QED BY <1>1, <1>2, <2>1 DEF IInv, Quiet, IsEvent
<1>3. CASE client # "on" /\ inbox' = inbox
  BY <1>1, <1>3 DEF IInv, Quiet, IsEvent
<1> QED BY <1>2, <1>3 DEF Publish

LEMMA UpdateMessageOK ==
    ASSUME IInv, NEW u \in Updaters, PublishUpdate(u)
    PROVE  UpdateMessage(update[u]) \in Message /\ UpdateMessage(update[u]).n = 0
<1>1. update[u] \in Statuses
  BY DEF PublishUpdate, IInv, TypeOK
<1> QED BY <1>1, RunStreamAssumption DEF UpdateMessage, Message, Complete

LEMMA PublishUpdateOK ==
    ASSUME IInv, NEW u \in Updaters, PublishUpdate(u)
    PROVE  IInv'
<1> DEFINE m == UpdateMessage(update[u])
<1>1. /\ UNCHANGED <<status, emitted, closed, reader, cursor, buffer, proxy, client, shown,
                     got, lost>>
      /\ update' = [update EXCEPT ![u] = "done"]
      /\ Publish(m) \/ inbox' = inbox
  BY DEF PublishUpdate, engine, pump
<1>2. m \in Message /\ m.n = 0
  BY UpdateMessageOK
<1> HIDE DEF m
<1>3. /\ inbox' \in Seq(Message)
      /\ client # "on" => inbox' = <<>>
      /\ proxy = "off" => \A k \in 1 .. Len(inbox') : inbox'[k].n = 0
  <2>1. CASE Publish(m)
    BY <1>2, <2>1, PublishOK
  <2>2. CASE inbox' = inbox
    BY <2>2 DEF IInv, TypeOK, Quiet, IsEvent
  <2> QED BY <1>1, <2>1, <2>2
<1>4. TypeOK'
  BY <1>1, <1>3 DEF IInv, TypeOK
<1> QED BY <1>1, <1>3, <1>4 DEF IInv, Shape, Quiet, IsEvent

\* What a Forward takes from the buffer, and where it goes.
LEMMA ForwardFacts ==
    ASSUME IInv, Forward
    PROVE  /\ UNCHANGED <<status, update, emitted, closed, reader, cursor, client, shown, got>>
           /\ buffer # <<>> /\ buffer' = Tail(buffer) /\ proxy = "select"
           /\ proxy' \in {"select", "done"}
           /\ buffer \in Seq(Events) /\ Len(buffer) \in Nat \ {0}
           /\ buffer[1] \in Events /\ buffer[1] \in Nat \ {0}
           /\ EventMessage(buffer[1]) \in Message /\ EventMessage(buffer[1]).n = buffer[1]
           /\ \/ buffer[1] \notin Unknown /\ Publish(EventMessage(buffer[1])) /\ lost' = lost
              \/ inbox' = inbox /\ lost' = lost \cup {buffer[1]}
              \/ buffer[1] \in Unknown /\ inbox' = inbox /\ lost' = lost
<1>1. /\ UNCHANGED <<status, update, emitted, closed, reader, cursor, client, shown, got>>
      /\ buffer # <<>> /\ buffer' = Tail(buffer) /\ proxy = "select"
      /\ proxy' \in {"select", "done"}
  BY DEF Forward, engine
<1>2. /\ buffer \in Seq(Events) /\ Len(buffer) \in Nat \ {0} /\ Head(buffer) = buffer[1]
      /\ buffer[1] \in Events
  BY <1>1 DEF IInv, TypeOK
<1>3. buffer[1] \in Nat \ {0} /\ buffer[1] \in 0 .. Complete
  BY <1>2, RunStreamAssumption DEF Events, Complete
<1>4. EventMessage(buffer[1]) \in Message /\ EventMessage(buffer[1]).n = buffer[1]
  BY <1>3 DEF EventMessage, Message
<1>5. \/ buffer[1] \notin Unknown /\ Publish(EventMessage(buffer[1])) /\ lost' = lost
      \/ inbox' = inbox /\ lost' = lost \cup {buffer[1]}
      \/ buffer[1] \in Unknown /\ inbox' = inbox /\ lost' = lost
  BY <1>2 DEF Forward
<1> QED BY <1>1, <1>2, <1>3, <1>4, <1>5

LEMMA ForwardOK ==
    ASSUME IInv, Forward
    PROVE  IInv'
<1> DEFINE m == EventMessage(buffer[1])
<1>1. /\ UNCHANGED <<status, update, emitted, closed, reader, cursor, client, shown, got>>
      /\ buffer # <<>> /\ buffer' = Tail(buffer) /\ proxy = "select"
      /\ proxy' \in {"select", "done"}
      /\ m \in Message /\ (Publish(m) \/ inbox' = inbox)
      /\ lost' \subseteq lost \cup {buffer[1]} /\ buffer[1] \in Events
      /\ buffer \in Seq(Events) /\ Len(buffer) \in Nat \ {0}
  BY ForwardFacts
<1> HIDE DEF m
<1>2. buffer' \in Seq(Events) /\ Len(buffer') <= BufferSize
  BY <1>1, RunStreamAssumption DEF IInv, TypeOK
<1>3. inbox' \in Seq(Message) /\ (client # "on" => inbox' = <<>>)
  <2>1. CASE Publish(m)
    BY <1>1, <2>1, PublishOK
  <2>2. CASE inbox' = inbox
    BY <2>2 DEF IInv, TypeOK, Quiet
  <2> QED BY <1>1, <2>1, <2>2
<1>4. lost' \subseteq Events
  BY <1>1 DEF IInv, TypeOK
<1>5. TypeOK'
  BY <1>1, <1>2, <1>3, <1>4 DEF IInv, TypeOK
<1>6. Shape'
  BY <1>1 DEF IInv, Shape
<1> QED BY <1>1, <1>3, <1>5, <1>6 DEF IInv, Quiet

\* Before and after the subscription there is nothing to keep in order.
LEMMA ClientOK ==
    ASSUME IInv, Snapshot \/ Subscribe \/ Disconnect
    PROVE  IInv'
<1>1. UNCHANGED <<status, update, emitted, closed, reader, cursor, buffer, proxy, got, lost>>
  BY DEF Snapshot, Subscribe, Disconnect, engine, pump
<1>2. shown' \in Statuses \cup {None} /\ client' \in {"off", "snapshot", "on", "gone"}
  BY DEF IInv, TypeOK, Snapshot, Subscribe, Disconnect
<1>3. inbox' \in Seq(Message) /\ inbox' = <<>> /\ Len(inbox') = 0
  <2>1. client # "on" => inbox = <<>>
    BY DEF IInv, Quiet
  <2>2. inbox' = <<>>
    BY <2>1 DEF Snapshot, Subscribe, Disconnect
  <2> QED BY <2>2
<1>4. TypeOK'
  BY <1>1, <1>2, <1>3 DEF IInv, TypeOK
<1>5. client' \in {"off", "snapshot", "on"} => got' = <<>>
  BY <1>1 DEF IInv, Quiet, Snapshot, Subscribe, Disconnect
<1> QED BY <1>1, <1>3, <1>4, <1>5 DEF IInv, Shape, Quiet

\* What a Deliver takes from the inbox.
LEMMA DeliverFacts ==
    ASSUME IInv, Deliver
    PROVE  /\ UNCHANGED <<status, update, emitted, closed, reader, cursor, buffer, proxy, client, lost>>
           /\ client = "on"
           /\ inbox \in Seq(Message) /\ Len(inbox) \in Nat \ {0} /\ inbox[1] \in Message
           /\ inbox' \in Seq(Message) /\ Len(inbox') = Len(inbox) - 1
           /\ \A k \in 1 .. Len(inbox) - 1 : inbox'[k] = inbox[k + 1]
           /\ \/ inbox[1].n # 0 /\ got' = Append(got, inbox[1].n) /\ shown' = shown
              \/ inbox[1].n = 0 /\ got' = got /\ shown' = inbox[1].status
<1>1. /\ UNCHANGED <<status, update, emitted, closed, reader, cursor, buffer, proxy, client, lost>>
      /\ client = "on" /\ inbox # <<>> /\ inbox' = Tail(inbox)
  BY DEF Deliver, engine, pump
<1>2. /\ inbox \in Seq(Message) /\ Len(inbox) \in Nat \ {0} /\ Head(inbox) = inbox[1]
      /\ inbox[1] \in Message
  BY <1>1 DEF IInv, TypeOK
<1>3. /\ inbox' \in Seq(Message) /\ Len(inbox') = Len(inbox) - 1
      /\ \A k \in 1 .. Len(inbox) - 1 : inbox'[k] = inbox[k + 1]
  BY <1>1, <1>2
<1>4. \/ inbox[1].n # 0 /\ got' = Append(got, inbox[1].n) /\ shown' = shown
      \/ inbox[1].n = 0 /\ got' = got /\ shown' = inbox[1].status
  BY <1>2 DEF Deliver
<1> QED BY <1>1, <1>2, <1>3, <1>4

LEMMA DeliverOK ==
    ASSUME IInv, Deliver
    PROVE  IInv'
<1> DEFINE n == Len(inbox)
<1>1. /\ UNCHANGED <<status, update, emitted, closed, reader, cursor, buffer, proxy, client, lost>>
      /\ client = "on"
      /\ inbox \in Seq(Message) /\ n \in Nat \ {0} /\ inbox[1] \in Message
      /\ inbox' \in Seq(Message) /\ Len(inbox') = n - 1
      /\ \A k \in 1 .. n - 1 : inbox'[k] = inbox[k + 1]
      /\ \/ inbox[1].n # 0 /\ got' = Append(got, inbox[1].n) /\ shown' = shown
         \/ inbox[1].n = 0 /\ got' = got /\ shown' = inbox[1].status
  BY DeliverFacts
<1>2. inbox[1].n # 0 => inbox[1].n \in Events
  BY <1>1, RunStreamAssumption DEF Message, Events, Complete
<1>3. got' \in Seq(Events)
  <2>1. got \in Seq(Events)
    BY DEF IInv, TypeOK
  <2>2. \A e \in Events : Append(got, e) \in Seq(Events)
    BY <2>1
  <2> QED BY <1>1, <1>2, <2>1, <2>2
<1>4. shown' \in Statuses \cup {None}
  BY <1>1 DEF IInv, TypeOK, Message
<1>5. TypeOK'
  BY <1>1, <1>3, <1>4 DEF IInv, TypeOK
<1>6. proxy = "off" => got' = <<>> /\ \A k \in 1 .. n - 1 : inbox'[k].n = 0
  <2>1. proxy = "off" => \A k \in 1 .. n : inbox[k].n = 0
    BY DEF IInv, Quiet, IsEvent
  <2>2. 1 \in 1 .. n /\ \A k \in 1 .. n - 1 : k + 1 \in 1 .. n
    BY <1>1
  <2> QED BY <1>1, <2>1, <2>2 DEF IInv, Quiet
<1> QED BY <1>1, <1>5, <1>6 DEF IInv, Shape, Quiet, IsEvent

\* What an Overflow drops from the inbox.
LEMMA OverflowFacts ==
    ASSUME IInv, Overflow, NEW d, d = InboxSize + 1
    PROVE  /\ UNCHANGED <<status, update, emitted, closed, reader, cursor, buffer, proxy, client, shown,
                          got>>
           /\ client = "on" /\ d \in 1 .. Len(inbox)
           /\ inbox \in Seq(Message) /\ Len(inbox) \in Nat \ {0} /\ inbox[d] \in Message
           /\ inbox' \in Seq(Message) /\ Len(inbox') = Len(inbox) - 1
           /\ \A k \in 1 .. Len(inbox) - 1 : inbox'[k] = IF k < d THEN inbox[k] ELSE inbox[k + 1]
           /\ lost' = lost \cup ({inbox[d].n} \ {0})
<1>1. /\ UNCHANGED <<status, update, emitted, closed, reader, cursor, buffer, proxy, client, shown, got>>
      /\ client = "on" /\ Len(inbox) > InboxSize /\ inbox' = RemoveAt(inbox, d)
      /\ lost' = lost \cup ({inbox[d].n} \ {0})
  BY DEF Overflow, engine, pump
<1>2. inbox \in Seq(Message) /\ Len(inbox) \in Nat
  BY DEF IInv, TypeOK
<1>3. d \in 1 .. Len(inbox) /\ Len(inbox) # 0
  BY <1>1, <1>2, RunStreamAssumption
<1>4. inbox[d] \in Message
  BY <1>2, <1>3
<1>5. /\ inbox' \in Seq(Message) /\ Len(inbox') = Len(inbox) - 1
      /\ \A k \in 1 .. Len(inbox) - 1 : inbox'[k] = IF k < d THEN inbox[k] ELSE inbox[k + 1]
  BY <1>1, <1>2, <1>3, DropFacts
<1> QED BY <1>1, <1>2, <1>3, <1>4, <1>5

LEMMA OverflowOK ==
    ASSUME IInv, Overflow
    PROVE  IInv'
<1> DEFINE n == Len(inbox)
           d == InboxSize + 1
<1>1. /\ UNCHANGED <<status, update, emitted, closed, reader, cursor, buffer, proxy, client, shown, got>>
      /\ client = "on" /\ d \in 1 .. n
      /\ inbox \in Seq(Message) /\ n \in Nat \ {0} /\ inbox[d] \in Message
      /\ inbox' \in Seq(Message) /\ Len(inbox') = n - 1
      /\ \A k \in 1 .. n - 1 : inbox'[k] = IF k < d THEN inbox[k] ELSE inbox[k + 1]
      /\ lost' = lost \cup ({inbox[d].n} \ {0})
  BY OverflowFacts
<1> HIDE DEF d
<1>2. {inbox[d].n} \ {0} \subseteq Events
  BY <1>1, RunStreamAssumption DEF Message, Events, Complete
<1>3. lost' \subseteq Events
  BY <1>1, <1>2 DEF IInv, TypeOK
<1>4. TypeOK'
  BY <1>1, <1>3 DEF IInv, TypeOK
<1>5. proxy = "off" => lost' = {} /\ \A k \in 1 .. n - 1 : inbox'[k].n = 0
  <2>1. proxy = "off" => lost = {} /\ \A k \in 1 .. n : inbox[k].n = 0
    BY DEF IInv, Quiet, IsEvent
  <2>2. \A k \in 1 .. n - 1 : k \in 1 .. n /\ k + 1 \in 1 .. n
    BY <1>1
  <2> QED BY <1>1, <2>1, <2>2
<1> QED BY <1>1, <1>4, <1>5 DEF IInv, Shape, Quiet, IsEvent

LEMMA NextOK == IInv /\ [Next]_vars => IInv'
<1> SUFFICES ASSUME IInv, [Next]_vars PROVE IInv'
  OBVIOUS
<1>1. CASE Next
  BY <1>1, ServerOK, PublishUpdateOK, SendEventOK, ForwardOK, ClientOK, DeliverOK, OverflowOK
     DEF Next
<1>2. CASE UNCHANGED vars
  BY <1>2 DEF IInv, TypeOK, Shape, Quiet, IsEvent, vars, engine, pump, browser
<1> QED BY <1>1, <1>2

THEOREM Invariant == Spec => []IInv
BY InitOK, NextOK, PTL DEF Spec

-----------------------------------------------------------------------------

\* Every value of the state stays in its type: in particular the channel between
\* reader and proxy never holds more than its buffer does.
THEOREM StreamTypeCorrect == Spec => []TypeOK
BY Invariant, PTL DEF IInv

(***************************************************************************)
(* The order of the events.                                                *)
(***************************************************************************)

\* The events the client got or may get from Redis, and those still with the server.
Sent == {got[k] : k \in 1 .. Len(got)} \cup
        {inbox[k].n : k \in {i \in 1 .. Len(inbox) : IsEvent(i)}}

Pending == {buffer[k] : k \in 1 .. Len(buffer)} \cup {c \in {cursor} : reader = "send"}

Ordered ==
    /\ cursor <= emitted
    /\ \A e \in Sent, p \in Pending : e < p
    /\ \A e \in Sent \cup Pending : e <= cursor
    /\ \A j, k \in 1 .. Len(buffer) : j < k => buffer[j] < buffer[k]
    /\ reader = "send" => \A k \in 1 .. Len(buffer) : buffer[k] < cursor
    /\ \A j, k \in 1 .. Len(inbox) : j < k /\ IsEvent(j) /\ IsEvent(k) => inbox[j].n < inbox[k].n
    /\ \A g \in 1 .. Len(got), k \in 1 .. Len(inbox) : IsEvent(k) => got[g] < inbox[k].n

LEMMA Numbers ==
    ASSUME TypeOK
    PROVE  /\ cursor \in Nat /\ emitted \in Nat
           /\ Len(got) \in Nat /\ Len(inbox) \in Nat /\ Len(buffer) \in Nat
           /\ \A k \in 1 .. Len(got) : got[k] \in Events
           /\ \A k \in 1 .. Len(inbox) : inbox[k] \in Message /\ inbox[k].n \in Nat
           /\ \A k \in 1 .. Len(inbox) : IsEvent(k) => inbox[k].n \in Events
           /\ \A k \in 1 .. Len(buffer) : buffer[k] \in Events
           /\ Events \subseteq Nat \ {0}
<1>1. Complete \in Nat /\ Events \subseteq Nat \ {0}
  BY RunStreamAssumption DEF Complete, Events
<1>2. \A m \in Message : m.n \in Nat /\ (m.n # 0 => m.n \in Events)
  BY <1>1 DEF Message, Events
<1> QED BY <1>1, <1>2 DEF TypeOK, IsEvent

\* Events that stay where they are, or leave, keep their order.
LEMMA FewerInOrder ==
    ASSUME Ordered, UNCHANGED <<cursor, got>>, emitted' = emitted,
           inbox' = inbox \/ inbox' = <<>>, buffer' = buffer,
           reader' = "send" => reader = "send"
    PROVE  Ordered'
<1>1. Sent' \subseteq Sent /\ Pending' \subseteq Pending
  BY DEF Sent, Pending, IsEvent
<1>2. \A j \in 1 .. Len(inbox') : j \in 1 .. Len(inbox) /\ inbox'[j] = inbox[j]
  OBVIOUS
<1> QED BY <1>1, <1>2 DEF Ordered, IsEvent

\* The engine emits one more; a message that is no event is delivered.
LEMMA NoEventMoves ==
    ASSUME IInv, Ordered, UNCHANGED <<cursor, got, buffer, reader>>,
           emitted' \in {emitted, emitted + 1},
           \/ inbox' = inbox
           \/ \E m \in Message : m.n = 0 /\ inbox' = Append(inbox, m)
    PROVE  Ordered'
<1>1. cursor <= emitted'
  BY Numbers DEF IInv, Ordered
<1>2. inbox \in Seq(Message) /\ Len(inbox) \in Nat
  BY DEF IInv, TypeOK
<1>3. \A k \in 1 .. Len(inbox') : IsEvent(k)' =>
         k \in 1 .. Len(inbox) /\ inbox'[k] = inbox[k] /\ IsEvent(k)
  <2>1. CASE inbox' = inbox
    BY <2>1 DEF IsEvent
  <2>2. ASSUME NEW m \in Message, m.n = 0, inbox' = Append(inbox, m)
        PROVE  \A k \in 1 .. Len(inbox') : IsEvent(k)' =>
                  k \in 1 .. Len(inbox) /\ inbox'[k] = inbox[k] /\ IsEvent(k)
    <3>1. /\ Len(inbox') = Len(inbox) + 1 /\ inbox'[Len(inbox) + 1] = m
          /\ \A k \in 1 .. Len(inbox) : inbox'[k] = inbox[k]
      BY <1>2, <2>2
    <3> QED BY <1>2, <2>2, <3>1 DEF IsEvent
  <2> QED BY <2>1, <2>2
<1>4. Sent' \subseteq Sent /\ Pending' = Pending
  BY <1>3 DEF Sent, Pending
<1> QED BY <1>1, <1>3, <1>4 DEF Ordered

LEMMA ReadInOrder ==
    ASSUME IInv, Ordered, ReadEvent
    PROVE  Ordered'
<1>1. UNCHANGED <<emitted, buffer, inbox, got>> /\ reader = "read"
  BY DEF ReadEvent, engine, browser
<1>2. cursor \in Nat /\ emitted \in Nat
  BY Numbers DEF IInv
<1>3. CASE cursor < emitted /\ reader' = "send" /\ cursor' = cursor + 1
  <2>1. Sent' = Sent /\ Pending' = Pending \cup {cursor + 1}
    BY <1>1, <1>3 DEF Sent, Pending, IsEvent
  <2>2. \A e \in Sent \cup Pending : e \in Nat /\ e < cursor + 1
    <3>1. \A e \in Sent \cup Pending : e \in Nat
      BY Numbers DEF IInv, Sent, Pending
    <3> QED BY <1>2, <3>1 DEF Ordered
  <2>3. \A e \in Sent', p \in Pending' : e < p
    BY <2>1, <2>2 DEF Ordered
  <2>4. \A e \in (Sent \cup Pending)' : e <= cursor'
    BY <1>2, <1>3, <2>1, <2>2
  <2>5. \A k \in 1 .. Len(buffer) : buffer[k] < cursor'
    BY <1>3, <2>2 DEF Pending
  <2>6. cursor' <= emitted'
    BY <1>1, <1>2, <1>3
  <2> QED BY <1>1, <2>3, <2>4, <2>5, <2>6 DEF Ordered, IsEvent
<1>4. CASE reader' = "done" /\ cursor' = cursor
  BY <1>1, <1>4, FewerInOrder
<1> QED BY <1>3, <1>4 DEF ReadEvent

LEMMA SendInOrder ==
    ASSUME IInv, Ordered, SendEvent
    PROVE  Ordered'
<1>1. UNCHANGED <<emitted, cursor, inbox, got>> /\ reader = "send"
  BY DEF SendEvent, engine, browser
<1>2. buffer \in Seq(Events) /\ Len(buffer) \in Nat /\ cursor \in Events
  <2>1. cursor # 0
    BY <1>1 DEF IInv, Shape
  <2> QED BY <2>1 DEF IInv, TypeOK, Events
<1>3. CASE buffer' = Append(buffer, cursor) /\ reader' = "read"
  <2>1. /\ Len(buffer') = Len(buffer) + 1 /\ buffer'[Len(buffer) + 1] = cursor
        /\ \A k \in 1 .. Len(buffer) : buffer'[k] = buffer[k]
    BY <1>2, <1>3
  <2>2. \A k \in 1 .. Len(buffer') : k \in 1 .. Len(buffer) \/ k = Len(buffer) + 1
    BY <1>2, <2>1
  <2>3. Sent' = Sent
    BY <1>1 DEF Sent, IsEvent
  <2>4. Pending' \subseteq Pending
    <3> SUFFICES ASSUME NEW p \in Pending' PROVE p \in Pending
      OBVIOUS
    <3>1. PICK k \in 1 .. Len(buffer') : p = buffer'[k]
      BY <1>3 DEF Pending
    <3> QED BY <1>1, <2>1, <2>2, <3>1 DEF Pending
  <2>5. \A j, k \in 1 .. Len(buffer') : j < k => buffer'[j] < buffer'[k]
    <3> SUFFICES ASSUME NEW j \in 1 .. Len(buffer'), NEW k \in 1 .. Len(buffer'), j < k
                 PROVE  buffer'[j] < buffer'[k]
      OBVIOUS
    <3>1. j \in 1 .. Len(buffer)
      BY <1>2, <2>1
    <3> QED BY <1>1, <2>1, <2>2, <3>1 DEF Ordered
  <2> QED BY <1>1, <1>3, <2>3, <2>4, <2>5 DEF Ordered, IsEvent
<1>4. CASE reader' = "done" /\ buffer' = buffer
  BY <1>1, <1>4, FewerInOrder
<1> QED BY <1>3, <1>4 DEF SendEvent

LEMMA ForwardInOrder ==
    ASSUME IInv, Ordered, Forward
    PROVE  Ordered'
<1> DEFINE e == buffer[1]
           m == EventMessage(e)
           n == Len(inbox)
<1>1. UNCHANGED <<emitted, reader, cursor, got>> /\ buffer # <<>> /\ buffer' = Tail(buffer)
  BY DEF Forward, engine
<1>2. /\ buffer \in Seq(Events) /\ Len(buffer) \in Nat \ {0} /\ Head(buffer) = e
      /\ e \in Events /\ e \in Nat \ {0} /\ e \in Pending
      /\ inbox \in Seq(Message) /\ n \in Nat
  <2>1. buffer \in Seq(Events) /\ Len(buffer) \in Nat \ {0} /\ inbox \in Seq(Message)
    BY <1>1 DEF IInv, TypeOK
  <2> QED BY <2>1, Numbers DEF IInv, Pending
<1>3. Len(buffer') = Len(buffer) - 1 /\ \A k \in 1 .. Len(buffer') : buffer'[k] = buffer[k + 1]
  BY <1>1, <1>2
<1>4. \A k \in 1 .. Len(buffer') : k + 1 \in 1 .. Len(buffer) /\ 1 < k + 1 /\ e < buffer[k + 1]
  <2>1. \A k \in 1 .. Len(buffer') : k + 1 \in 1 .. Len(buffer) /\ 1 < k + 1 /\ 1 \in 1 .. Len(buffer)
    BY <1>2, <1>3
  <2> QED BY <2>1 DEF Ordered
<1>5. Pending' \subseteq Pending /\ \A p \in Pending' : e < p
  <2> SUFFICES ASSUME NEW p \in Pending' PROVE p \in Pending /\ e < p
    OBVIOUS
  <2>1. CASE \E k \in 1 .. Len(buffer') : p = buffer'[k]
    BY <1>3, <1>4, <2>1 DEF Pending
  <2>2. CASE p = cursor /\ reader = "send"
    <3>1. 1 \in 1 .. Len(buffer)
      BY <1>2
    <3> QED BY <2>2, <3>1 DEF Pending, Ordered
  <2> QED BY <1>1, <2>1, <2>2 DEF Pending
<1>6. \A j, k \in 1 .. Len(buffer') : j < k => buffer'[j] < buffer'[k]
  <2> SUFFICES ASSUME NEW j \in 1 .. Len(buffer'), NEW k \in 1 .. Len(buffer'), j < k
               PROVE  buffer'[j] < buffer'[k]
    OBVIOUS
  <2>1. j + 1 < k + 1
    BY <1>2, <1>3
  <2> QED BY <1>3, <1>4, <2>1 DEF Ordered
<1>7. reader = "send" => \A k \in 1 .. Len(buffer') : buffer'[k] < cursor
  BY <1>3, <1>4 DEF Ordered
<1>8. CASE inbox' = inbox
  <2>1. Sent' = Sent
    BY <1>1, <1>8 DEF Sent, IsEvent
  <2> QED BY <1>1, <1>5, <1>6, <1>7, <1>8, <2>1 DEF Ordered, IsEvent
<1>9. CASE inbox' = Append(inbox, m)
  <2>1. m \in Message /\ m.n = e
    BY <1>2, RunStreamAssumption DEF EventMessage, Message, Events, Complete
  <2> HIDE DEF m
  <2>2. /\ Len(inbox') = n + 1 /\ inbox'[n + 1] = m
        /\ \A k \in 1 .. n : inbox'[k] = inbox[k]
    BY <1>2, <1>9, <2>1
  <2>3. \A k \in 1 .. n + 1 : k \in 1 .. n \/ k = n + 1
    BY <1>2
  <2>4. Sent' \subseteq Sent \cup {e}
    <3> SUFFICES ASSUME NEW x \in Sent' PROVE x \in Sent \cup {e}
      OBVIOUS
    <3>1. CASE \E k \in 1 .. Len(got) : x = got[k]
      BY <3>1 DEF Sent
    <3>2. CASE \E k \in 1 .. n + 1 : IsEvent(k)' /\ x = inbox'[k].n
      BY <2>1, <2>2, <2>3, <3>2 DEF Sent, IsEvent
    <3> QED BY <1>1, <2>2, <3>1, <3>2 DEF Sent
  <2>5. \A x \in Sent : x < e
    BY <1>2 DEF Ordered
  <2>6. \A x \in Sent', p \in Pending' : x < p
    BY <1>5, <2>4 DEF Ordered
  <2>7. \A x \in (Sent \cup Pending)' : x <= cursor'
    BY <1>1, <1>2, <1>5, <2>4 DEF Ordered
  <2>8. ASSUME NEW j \in 1 .. n + 1, NEW k \in 1 .. n + 1, j < k, IsEvent(j)', IsEvent(k)'
        PROVE  inbox'[j].n < inbox'[k].n
    <3>1. j \in 1 .. n /\ IsEvent(j) /\ inbox'[j] = inbox[j] /\ inbox[j].n \in Sent
      <4>1. j \in 1 .. n
        BY <1>2, <2>8
      <4> QED BY <2>2, <2>8, <4>1 DEF IsEvent, Sent
    <3>2. CASE k = n + 1
      BY <2>1, <2>2, <2>5, <3>1, <3>2
    <3>3. CASE k \in 1 .. n
      BY <2>2, <2>8, <3>1, <3>3 DEF Ordered, IsEvent
    <3> QED BY <2>3, <3>2, <3>3
  <2>9. ASSUME NEW g \in 1 .. Len(got), NEW k \in 1 .. n + 1, IsEvent(k)'
        PROVE  got[g] < inbox'[k].n
    <3>1. CASE k = n + 1
      <4>1. got[g] \in Sent
        BY DEF Sent
      <4> QED BY <2>1, <2>2, <2>5, <3>1, <4>1
    <3>2. CASE k \in 1 .. n
      BY <2>2, <2>9, <3>2 DEF Ordered, IsEvent
    <3> QED BY <2>3, <3>1, <3>2
  <2> QED BY <1>1, <1>6, <1>7, <2>2, <2>6, <2>7, <2>8, <2>9 DEF Ordered
<1> QED BY <1>2, <1>8, <1>9 DEF Forward, Publish

\* The head of the inbox, and those behind it.
LEMMA DeliverInOrder ==
    ASSUME IInv, Ordered, Deliver
    PROVE  Ordered'
<1> DEFINE e == inbox[1].n
           n == Len(inbox)
<1>1. /\ UNCHANGED <<emitted, reader, cursor, buffer>>
      /\ inbox # <<>> /\ inbox' = Tail(inbox)
  BY DEF Deliver, engine, pump
<1>2. /\ inbox \in Seq(Message) /\ n \in Nat \ {0} /\ Head(inbox) = inbox[1]
      /\ got \in Seq(Events) /\ Len(got) \in Nat
  BY <1>1 DEF IInv, TypeOK
<1>3. Len(inbox') = n - 1 /\ \A k \in 1 .. n - 1 : inbox'[k] = inbox[k + 1]
  BY <1>1, <1>2
<1>4. \A k \in 1 .. n - 1 : k + 1 \in 1 .. n /\ 1 < k + 1 /\ (IsEvent(k)' <=> IsEvent(k + 1))
  BY <1>2, <1>3 DEF IsEvent
<1>5. \A j, k \in 1 .. n - 1 : j < k /\ IsEvent(j)' /\ IsEvent(k)' => inbox'[j].n < inbox'[k].n
  <2> SUFFICES ASSUME NEW j \in 1 .. n - 1, NEW k \in 1 .. n - 1, j < k, IsEvent(j)', IsEvent(k)'
               PROVE  inbox'[j].n < inbox'[k].n
    OBVIOUS
  <2>1. j + 1 < k + 1
    BY <1>2
  <2> QED BY <1>3, <1>4, <2>1 DEF Ordered
<1>6. Pending' = Pending
  BY <1>1 DEF Pending
<1>7. \A k \in 1 .. n - 1 : IsEvent(k)' => inbox'[k].n \in Sent
  BY <1>3, <1>4 DEF Sent
<1>8. CASE e # 0 /\ got' = Append(got, e)
  <2>1. 1 \in 1 .. n /\ IsEvent(1) /\ e \in Events
    BY <1>2, <1>8, Numbers DEF IInv, IsEvent
  <2>2. /\ Len(got') = Len(got) + 1 /\ got'[Len(got) + 1] = e
        /\ \A k \in 1 .. Len(got) : got'[k] = got[k]
    BY <1>2, <1>8, <2>1
  <2>3. \A g \in 1 .. Len(got) + 1 : g \in 1 .. Len(got) \/ g = Len(got) + 1
    BY <1>2
  <2>4. Sent' \subseteq Sent
    <3> SUFFICES ASSUME NEW x \in Sent' PROVE x \in Sent
      OBVIOUS
    <3>1. CASE \E g \in 1 .. Len(got) + 1 : x = got'[g]
      BY <2>1, <2>2, <2>3, <3>1 DEF Sent
    <3>2. CASE \E k \in 1 .. n - 1 : IsEvent(k)' /\ x = inbox'[k].n
      BY <1>7, <3>2
    <3> QED BY <1>3, <2>2, <3>1, <3>2 DEF Sent
  <2>5. ASSUME NEW g \in 1 .. Len(got) + 1, NEW k \in 1 .. n - 1, IsEvent(k)'
        PROVE  got'[g] < inbox'[k].n
    <3>1. k + 1 \in 1 .. n /\ 1 < k + 1 /\ IsEvent(k + 1) /\ inbox'[k] = inbox[k + 1]
      BY <1>3, <1>4, <2>5
    <3>2. CASE g = Len(got) + 1
      BY <2>1, <2>2, <3>1, <3>2 DEF Ordered
    <3>3. CASE g \in 1 .. Len(got)
      BY <2>2, <3>1, <3>3 DEF Ordered
    <3> QED BY <2>3, <3>2, <3>3
  <2> QED BY <1>1, <1>3, <1>5, <1>6, <2>2, <2>4, <2>5 DEF Ordered
<1>9. CASE e = 0 /\ got' = got
  <2>1. Sent' \subseteq Sent
    <3> SUFFICES ASSUME NEW x \in Sent' PROVE x \in Sent
      OBVIOUS
    <3>1. CASE \E g \in 1 .. Len(got) : x = got[g]
      BY <3>1 DEF Sent
    <3>2. CASE \E k \in 1 .. n - 1 : IsEvent(k)' /\ x = inbox'[k].n
      BY <1>7, <3>2
    <3> QED BY <1>3, <1>9, <3>1, <3>2 DEF Sent
  <2>2. \A g \in 1 .. Len(got), k \in 1 .. n - 1 : IsEvent(k)' => got[g] < inbox'[k].n
    BY <1>3, <1>4 DEF Ordered
  <2> QED BY <1>1, <1>3, <1>5, <1>6, <1>9, <2>1, <2>2 DEF Ordered
<1> QED BY <1>2, <1>8, <1>9 DEF Deliver

LEMMA ConnectInOrder ==
    ASSUME IInv, Ordered, Connect
    PROVE  Ordered'
<1>1. /\ UNCHANGED <<emitted, buffer, inbox, got>> /\ cursor' = emitted /\ reader' = "read"
      /\ proxy = "off" /\ reader = "off" /\ buffer = <<>> /\ got = <<>>
      /\ \A k \in 1 .. Len(inbox) : ~IsEvent(k)
  BY DEF IInv, Shape, Quiet, Connect, engine, browser
<1>2. Sent' = {} /\ Pending' = {}
  BY <1>1 DEF Sent, Pending, IsEvent
<1>3. emitted \in Nat
  BY Numbers DEF IInv
<1> QED BY <1>1, <1>2, <1>3 DEF Ordered, IsEvent

LEMMA OverflowInOrder ==
    ASSUME IInv, Ordered, Overflow
    PROVE  Ordered'
<1> DEFINE n == Len(inbox)
           d == InboxSize + 1
           at(k) == IF k < d THEN k ELSE k + 1
<1>1. /\ UNCHANGED <<emitted, reader, cursor, buffer, got>>
      /\ d \in 1 .. n /\ n \in Nat \ {0} /\ Len(inbox') = n - 1
      /\ \A k \in 1 .. n - 1 : inbox'[k] = IF k < d THEN inbox[k] ELSE inbox[k + 1]
  BY OverflowFacts
<1> HIDE DEF d
<1>2. \A k \in 1 .. n - 1 : at(k) \in 1 .. n /\ inbox'[k] = inbox[at(k)]
  BY <1>1
<1>3. \A j, k \in 1 .. n - 1 : j < k => at(j) < at(k)
  BY <1>1
<1> HIDE DEF at
<1>4. \A k \in 1 .. n - 1 : IsEvent(k)' => IsEvent(at(k))
  BY <1>2 DEF IsEvent
<1>5. Sent' \subseteq Sent
  <2> SUFFICES ASSUME NEW x \in Sent' PROVE x \in Sent
    OBVIOUS
  <2>1. CASE \E g \in 1 .. Len(got) : x = got[g]
    BY <2>1 DEF Sent
  <2>2. CASE \E k \in 1 .. n - 1 : IsEvent(k)' /\ x = inbox'[k].n
    BY <1>2, <1>4, <2>2 DEF Sent
  <2> QED BY <1>1, <2>1, <2>2 DEF Sent
<1>6. Pending' = Pending
  BY <1>1 DEF Pending
<1>7. \A j, k \in 1 .. n - 1 : j < k /\ IsEvent(j)' /\ IsEvent(k)' => inbox'[j].n < inbox'[k].n
  <2> SUFFICES ASSUME NEW j \in 1 .. n - 1, NEW k \in 1 .. n - 1, j < k, IsEvent(j)', IsEvent(k)'
               PROVE  inbox'[j].n < inbox'[k].n
    OBVIOUS
  <2>1. /\ at(j) \in 1 .. n /\ at(k) \in 1 .. n /\ at(j) < at(k) /\ IsEvent(at(j)) /\ IsEvent(at(k))
        /\ inbox'[j] = inbox[at(j)] /\ inbox'[k] = inbox[at(k)]
    BY <1>2, <1>3, <1>4
  <2> QED BY <2>1 DEF Ordered
<1>8. \A g \in 1 .. Len(got), k \in 1 .. n - 1 : IsEvent(k)' => got[g] < inbox'[k].n
  BY <1>2, <1>4 DEF Ordered
<1> QED BY <1>1, <1>5, <1>6, <1>7, <1>8 DEF Ordered

LEMMA InitInOrder == Init => Ordered
BY DEF Init, Ordered, Sent, Pending

LEMMA NextInOrder == IInv /\ Ordered /\ [Next]_vars => Ordered'
<1> SUFFICES ASSUME IInv, Ordered, [Next]_vars PROVE Ordered'
  OBVIOUS
<1>1. ASSUME NEW u \in Updaters, Write(u) PROVE Ordered'
  BY <1>1, NoEventMoves DEF Write, engine, pump, browser
<1>2. ASSUME NEW u \in Updaters, PublishUpdate(u) PROVE Ordered'
  <2> DEFINE m == UpdateMessage(update[u])
  <2>1. m \in Message /\ m.n = 0
    <3>1. update[u] \in Statuses
      BY <1>2 DEF PublishUpdate, IInv, TypeOK
    <3> QED BY <3>1, RunStreamAssumption DEF UpdateMessage, Message, Complete
  <2> HIDE DEF m
  <2>2. UNCHANGED <<emitted, cursor, got, buffer, reader>>
        /\ (inbox' = inbox \/ inbox' = Append(inbox, m))
    BY <1>2 DEF PublishUpdate, Publish, engine, pump, m
  <2> QED BY <2>1, <2>2, NoEventMoves
<1>3. CASE Emit \/ Close
  BY <1>3, NoEventMoves DEF Emit, Close, pump, browser
<1>4. CASE StreamEnded \/ Tick \/ Snapshot \/ Subscribe \/ Disconnect
  <2>1. /\ UNCHANGED <<emitted, cursor, got, buffer, reader>>
        /\ inbox' = inbox \/ inbox' = <<>>
    BY <1>4 DEF StreamEnded, Tick, Snapshot, Subscribe, Disconnect, engine, pump, browser
  <2> QED BY <2>1, FewerInOrder
<1>5. CASE UNCHANGED vars
  BY <1>5, NoEventMoves DEF vars, engine, pump, browser
<1> QED BY <1>1, <1>2, <1>3, <1>4, <1>5, ConnectInOrder, ReadInOrder, SendInOrder, ForwardInOrder,
           DeliverInOrder, OverflowInOrder DEF Next

\* What is lost is in no place any more and does not come back; what is sent is of a
\* known type.
Apart ==
    /\ \A e \in lost : e <= cursor /\ e \notin Sent \cup Pending
    /\ \A e \in Sent : e \notin Unknown

\* The event e is in one of the places, or there is a reason why it is not.
Accounted(e) == e \in Sent \cup Pending \cup Unknown \cup lost

\* Between the events that were seen no event is missing without a reason, and as long
\* as the proxy runs none after them.
Covered ==
    /\ \A y, x \in Sent \cup Pending, e \in Events : y < e /\ e < x => Accounted(e)
    /\ proxy # "done" => \A y \in Sent \cup Pending, e \in Events :
                             y < e /\ e <= cursor => Accounted(e)

Whole ==
    /\ Apart
    /\ client # "gone" => Covered
    /\ \A j, k \in 1 .. Len(got) : j < k => got[j] < got[k]
    /\ NoGaps

\* The numbers of the places.
LEMMA PlacesAreNumbers ==
    ASSUME IInv
    PROVE  Sent \subseteq Events /\ Pending \subseteq Events /\ Events \subseteq Nat \ {0}
           /\ cursor \in Nat /\ lost \subseteq Events
<1>1. reader = "send" => cursor \in Events
  BY DEF IInv, TypeOK, Shape, Events
<1> QED BY <1>1, Numbers DEF IInv, TypeOK, Sent, Pending

\* No event is added to the places, and one that leaves is the last of a proxy that is
\* done or the first of those not yet sent.
LEMMA StaysCovered ==
    ASSUME IInv, IInv', Covered, cursor' = cursor,
           (Sent \cup Pending)' \subseteq Sent \cup Pending,
           proxy' # "done" => proxy # "done",
           \A e \in Events : Accounted(e) =>
              \/ Accounted(e)'
              \/ proxy' = "done" /\ \A x \in (Sent \cup Pending)' : x <= e
              \/ \A y \in (Sent \cup Pending)' : e <= y
    PROVE  Covered'
<1> DEFINE all == Sent \cup Pending
           acc(e) == Accounted(e)
<1>1. Events \subseteq Nat /\ all' \subseteq Events /\ all' \subseteq all
  BY PlacesAreNumbers
<1>2. \A e \in Events : acc(e) =>
         acc(e)' \/ (proxy' = "done" /\ \A x \in all' : x <= e) \/ \A y \in all' : e <= y
  OBVIOUS
<1>3. /\ \A y, x \in all, e \in Events : y < e /\ e < x => acc(e)
      /\ proxy # "done" => \A y \in all, e \in Events : y < e /\ e <= cursor => acc(e)
  BY DEF Covered
<1> HIDE DEF all, acc
<1>4. \A y, x \in all', e \in Events : y < e /\ e < x => acc(e)'
  BY <1>1, <1>2, <1>3
<1>5. proxy' # "done" => \A y \in all', e \in Events : y < e /\ e <= cursor => acc(e)'
  BY <1>1, <1>2, <1>3
<1> QED BY <1>4, <1>5 DEF Covered, all, acc

\* The events stay where they are.
LEMMA SameWhole ==
    ASSUME IInv, IInv', Whole, cursor' = cursor, got' = got, lost' = lost,
           Sent' = Sent, Pending' = Pending,
           proxy' # "done" => proxy # "done", client' # "gone" => client # "gone"
    PROVE  Whole'
<1>1. Apart'
  BY DEF Whole, Apart
<1>2. \A e \in Events : Accounted(e) => Accounted(e)'
  BY DEF Accounted
<1>3. client' # "gone" => Covered'
  BY <1>2, StaysCovered DEF Whole
<1> QED BY <1>1, <1>3 DEF Whole, NoGaps, Skipped

LEMMA ReadWhole ==
    ASSUME IInv, IInv', Ordered, Whole, ReadEvent
    PROVE  Whole'
<1>1. UNCHANGED <<buffer, proxy, client, inbox, got, lost>> /\ reader = "read"
  BY DEF ReadEvent, browser
<1>2. Sent' = Sent
  BY <1>1 DEF Sent, IsEvent
<1>3. CASE proxy = "select" /\ reader' = "send" /\ cursor' = cursor + 1
  <2>1. Pending' = Pending \cup {cursor + 1}
    BY <1>1, <1>3 DEF Pending
  <2>2. /\ Sent \subseteq Events /\ Pending \subseteq Events /\ Events \subseteq Nat /\ cursor \in Nat
        /\ \A e \in Sent \cup Pending : e <= cursor
    BY PlacesAreNumbers DEF Ordered
  <2>3. Apart'
    <3>1. \A e \in lost : e \in Nat /\ e <= cursor /\ e \notin Sent \cup Pending
      BY PlacesAreNumbers DEF Whole, Apart
    <3>2. \A e \in lost : e <= cursor + 1 /\ e # cursor + 1
      BY <2>2, <3>1
    <3> QED BY <1>1, <1>2, <1>3, <2>1, <3>1, <3>2 DEF Whole, Apart
  <2>4. \A e \in Events : (Accounted(e) => Accounted(e)')
    BY <1>1, <1>2, <2>1 DEF Accounted
  <2>5. ASSUME Covered PROVE Covered'
    <3>1. \A y, x \in (Sent \cup Pending)', e \in Events : y < e /\ e < x => Accounted(e)'
      <4> SUFFICES ASSUME NEW y \in (Sent \cup Pending)', NEW x \in (Sent \cup Pending)',
                          NEW e \in Events, y < e, e < x
                   PROVE  Accounted(e)'
        OBVIOUS
      <4>1. y \in Sent \cup Pending /\ e <= cursor
        BY <1>2, <2>1, <2>2
      <4> QED BY <1>3, <2>4, <2>5, <4>1 DEF Covered
    <3>2. \A y \in (Sent \cup Pending)', e \in Events : y < e /\ e <= cursor' => Accounted(e)'
      <4> SUFFICES ASSUME NEW y \in (Sent \cup Pending)', NEW e \in Events, y < e, e <= cursor'
                   PROVE  Accounted(e)'
        OBVIOUS
      <4>1. CASE e = cursor + 1
        BY <2>1, <4>1 DEF Accounted
      <4>2. CASE e # cursor + 1
        <5>1. y \in Sent \cup Pending /\ e <= cursor
          BY <1>2, <1>3, <2>1, <2>2, <4>2
        <5> QED BY <1>3, <2>4, <2>5, <5>1 DEF Covered
      <4> QED BY <4>1, <4>2
    <3> QED BY <3>1, <3>2 DEF Covered
  <2> QED BY <1>1, <2>3, <2>5 DEF Whole, NoGaps, Skipped
<1>4. CASE reader' = "done" /\ cursor' = cursor
  <2>1. Pending' = Pending
    BY <1>1, <1>4 DEF Pending
  <2> QED BY <1>1, <1>2, <1>4, <2>1, SameWhole
<1> QED BY <1>3, <1>4 DEF ReadEvent

LEMMA SendWhole ==
    ASSUME IInv, IInv', Ordered, Whole, SendEvent
    PROVE  Whole'
<1>1. UNCHANGED <<cursor, proxy, client, inbox, got, lost>> /\ reader = "send"
  BY DEF SendEvent, browser
<1>2. Sent' = Sent
  BY <1>1 DEF Sent, IsEvent
<1>3. CASE buffer' = Append(buffer, cursor) /\ reader' = "read"
  <2>1. buffer \in Seq(Events) /\ Len(buffer) \in Nat /\ cursor \in Events
    BY <1>1 DEF IInv, TypeOK, Shape, Events
  <2>2. /\ Len(buffer') = Len(buffer) + 1 /\ buffer'[Len(buffer) + 1] = cursor
        /\ \A k \in 1 .. Len(buffer) : buffer'[k] = buffer[k]
    BY <1>3, <2>1
  <2>3. \A k : k \in 1 .. Len(buffer) + 1 <=> k \in 1 .. Len(buffer) \/ k = Len(buffer) + 1
    BY <2>1
  <2>4. Pending' = Pending
    BY <1>1, <1>3, <2>2, <2>3 DEF Pending
  <2> QED BY <1>1, <1>2, <2>4, SameWhole
<1>4. CASE proxy = "done" /\ reader' = "done" /\ buffer' = buffer
  <2>1. Pending' \subseteq Pending /\ Pending \subseteq Pending' \cup {cursor}
    BY <1>1, <1>4 DEF Pending
  <2>2. Apart'
    BY <1>1, <1>2, <2>1 DEF Whole, Apart
  <2>3. \A x \in (Sent \cup Pending)' : x <= cursor
    BY <1>2, <2>1 DEF Ordered
  <2>4. \A e \in Events : Accounted(e) => Accounted(e)' \/ e = cursor
    BY <1>1, <1>2, <2>1 DEF Accounted
  <2>5. Covered => Covered'
    BY <1>1, <1>2, <1>4, <2>1, <2>3, <2>4, StaysCovered
  <2> QED BY <1>1, <2>2, <2>5 DEF Whole, NoGaps, Skipped
<1> QED BY <1>3, <1>4 DEF SendEvent

LEMMA ForwardWhole ==
    ASSUME IInv, IInv', Ordered, Whole, Forward
    PROVE  Whole'
<1> DEFINE b == buffer[1]
           m == EventMessage(b)
<1>1. /\ UNCHANGED <<cursor, reader, client, got>>
      /\ buffer' = Tail(buffer) /\ proxy = "select"
      /\ buffer \in Seq(Events) /\ Len(buffer) \in Nat \ {0} /\ b \in Events /\ b \in Nat \ {0}
      /\ m \in Message /\ m.n = b
      /\ \/ b \notin Unknown /\ Publish(m) /\ lost' = lost
         \/ inbox' = inbox /\ lost' = lost \cup {b}
         \/ b \in Unknown /\ inbox' = inbox /\ lost' = lost
  BY ForwardFacts
<1> HIDE DEF m
<1>2. /\ Len(buffer') = Len(buffer) - 1 /\ \A k \in 1 .. Len(buffer') : buffer'[k] = buffer[k + 1]
  BY <1>1
<1>3. \A k \in 1 .. Len(buffer) : k = 1 \/ (k - 1 \in 1 .. Len(buffer') /\ (k - 1) + 1 = k)
  BY <1>1, <1>2
<1>4. \A k \in 1 .. Len(buffer') : k + 1 \in 1 .. Len(buffer) /\ b < buffer[k + 1]
  <2>1. \A k \in 1 .. Len(buffer') : k + 1 \in 1 .. Len(buffer) /\ 1 < k + 1 /\ 1 \in 1 .. Len(buffer)
    BY <1>1, <1>2
  <2> QED BY <2>1 DEF Ordered
<1>5. b \in Pending /\ Pending' \subseteq Pending /\ Pending \subseteq Pending' \cup {b}
  BY <1>1, <1>2, <1>3, <1>4 DEF Pending
<1>6. \A p \in Pending' : b < p
  <2>1. reader = "send" => b < cursor
    <3>1. 1 \in 1 .. Len(buffer)
      BY <1>1
    <3> QED BY <3>1 DEF Ordered
  <2> QED BY <1>1, <1>2, <1>4, <2>1 DEF Pending
<1>7. (\A y \in Sent : y < b) /\ b <= cursor /\ b \notin lost
  BY <1>5 DEF Ordered, Whole, Apart
<1>8. \A x \in Pending' : x # b
  <2>1. Pending \subseteq Nat
    BY PlacesAreNumbers
  <2> QED BY <1>1, <1>5, <1>6, <2>1
<1>9. b \notin Sent
  <2>1. Sent \subseteq Nat
    BY PlacesAreNumbers
  <2> QED BY <1>1, <1>7, <2>1
<1>10. CASE client = "on" /\ inbox' = Append(inbox, m) /\ b \notin Unknown /\ lost' = lost
  <2>0. PICK l \in Nat : l = Len(inbox)
    BY DEF IInv, TypeOK
  <2>1. inbox \in Seq(Message)
    BY DEF IInv, TypeOK
  <2>2. /\ Len(inbox') = l + 1 /\ inbox'[l + 1] = m
        /\ \A k \in 1 .. l : inbox'[k] = inbox[k]
    BY <1>1, <1>10, <2>0, <2>1
  <2>3. \A k : k \in 1 .. l + 1 <=> k \in 1 .. l \/ k = l + 1
    BY <2>0
  <2>4. Sent' = Sent \cup {b}
    <3>1. \A k \in 1 .. l : IsEvent(k)' <=> IsEvent(k)
      BY <2>2 DEF IsEvent
    <3>2. IsEvent(l + 1)'
      BY <1>1, <2>2 DEF IsEvent
    <3>3. Sent' \subseteq Sent \cup {b}
      <4> SUFFICES ASSUME NEW x \in Sent' PROVE x \in Sent \cup {b}
        OBVIOUS
      <4>1. CASE \E k \in 1 .. Len(got) : x = got[k]
        BY <4>1 DEF Sent
      <4>2. ASSUME NEW k \in 1 .. l + 1, IsEvent(k)', x = inbox'[k].n PROVE x \in Sent \cup {b}
        <5>1. CASE k = l + 1
          BY <1>1, <2>2, <4>2, <5>1
        <5>2. CASE k \in 1 .. l
          BY <2>0, <2>2, <3>1, <4>2, <5>2 DEF Sent
        <5> QED BY <2>3, <5>1, <5>2
      <4> QED BY <1>1, <2>2, <4>1, <4>2 DEF Sent
    <3>4. b \in Sent'
      <4>1. l + 1 \in 1 .. Len(inbox') /\ b = inbox'[l + 1].n
        BY <1>1, <2>0, <2>2
      <4> QED BY <3>2, <4>1 DEF Sent
    <3>5. Sent \subseteq Sent'
      <4> SUFFICES ASSUME NEW x \in Sent PROVE x \in Sent'
        OBVIOUS
      <4>1. CASE \E k \in 1 .. Len(got) : x = got[k]
        BY <1>1, <4>1 DEF Sent
      <4>2. ASSUME NEW k \in 1 .. l, IsEvent(k), x = inbox[k].n PROVE x \in Sent'
        BY <2>2, <2>3, <3>1, <4>2 DEF Sent
      <4> QED BY <2>0, <4>1, <4>2 DEF Sent
    <3> QED BY <3>3, <3>4, <3>5
  <2>5. Apart'
    BY <1>1, <1>5, <1>7, <1>10, <2>4 DEF Whole, Apart
  <2>6. \A e \in Events : Accounted(e) => Accounted(e)'
    BY <1>5, <1>10, <2>4 DEF Accounted
  <2>7. (Sent \cup Pending)' \subseteq Sent \cup Pending
    BY <1>5, <2>4
  <2>8. Covered => Covered'
    BY <1>1, <2>6, <2>7, StaysCovered
  <2> QED BY <1>1, <1>10, <2>5, <2>8 DEF Whole, NoGaps, Skipped
<1>11. CASE client # "on" /\ inbox' = inbox /\ lost' = lost
  <2>1. Sent' = Sent
    BY <1>1, <1>11 DEF Sent, IsEvent
  <2>2. Apart'
    BY <1>1, <1>5, <1>11, <2>1 DEF Whole, Apart
  <2>3. \A e \in Events : Accounted(e) => Accounted(e)' \/ e = b
    BY <1>5, <1>11, <2>1 DEF Accounted
  <2>4. ASSUME client # "gone" PROVE \A y \in (Sent \cup Pending)' : b <= y
    <3>1. got = <<>> /\ inbox = <<>>
      BY <1>11, <2>4 DEF IInv, TypeOK, Quiet
    <3>2. Len(got) = 0 /\ Len(inbox) = 0
      BY <3>1
    <3>3. Sent = {}
      BY <3>2 DEF Sent
    <3>4. Pending \subseteq Nat
      BY PlacesAreNumbers
    <3>5. \A y \in Pending' : b <= y
      BY <1>1, <1>5, <1>6, <3>4
    <3> QED BY <2>1, <3>3, <3>5
  <2>5. (Sent \cup Pending)' \subseteq Sent \cup Pending
    BY <1>5, <2>1
  <2>6. client # "gone" /\ Covered => Covered'
    BY <1>1, <2>3, <2>4, <2>5, StaysCovered
  <2> QED BY <1>1, <1>11, <2>2, <2>6 DEF Whole, NoGaps, Skipped
<1>12. CASE inbox' = inbox /\ (lost' = lost \cup {b} \/ (b \in Unknown /\ lost' = lost))
  <2>1. Sent' = Sent
    BY <1>1, <1>12 DEF Sent, IsEvent
  <2>2. Apart'
    BY <1>1, <1>5, <1>7, <1>8, <1>9, <1>12, <2>1 DEF Whole, Apart
  <2>3. \A e \in Events : Accounted(e) => Accounted(e)'
    BY <1>5, <1>12, <2>1 DEF Accounted
  <2>4. (Sent \cup Pending)' \subseteq Sent \cup Pending
    BY <1>5, <2>1
  <2>5. Covered => Covered'
    BY <1>1, <2>3, <2>4, StaysCovered
  <2>6. NoGaps'
    BY <1>1, <1>12 DEF Whole, NoGaps, Skipped
  <2> QED BY <1>1, <2>2, <2>5, <2>6 DEF Whole
<1> QED BY <1>1, <1>10, <1>11, <1>12 DEF Publish

LEMMA DeliverWhole ==
    ASSUME IInv, IInv', Ordered, Whole, Deliver
    PROVE  Whole'
<1> DEFINE i == inbox[1].n
           n == Len(inbox)
<1>1. /\ UNCHANGED <<reader, cursor, buffer, proxy, client, lost>> /\ client = "on"
      /\ n \in Nat \ {0} /\ Len(inbox') = n - 1 /\ \A k \in 1 .. n - 1 : inbox'[k] = inbox[k + 1]
      /\ \/ i # 0 /\ got' = Append(got, i)
         \/ i = 0 /\ got' = got
  BY DeliverFacts
<1>2. Pending' = Pending
  BY <1>1 DEF Pending
<1>3. /\ \A k \in 1 .. n : k = 1 \/ (k - 1 \in 1 .. n - 1 /\ (k - 1) + 1 = k)
      /\ \A k \in 1 .. n - 1 : k + 1 \in 1 .. n
      /\ 1 \in 1 .. n
  BY <1>1
<1>4. CASE i = 0 /\ got' = got
  <2>1. ~IsEvent(1) /\ \A k \in 1 .. n - 1 : IsEvent(k)' <=> inbox[k + 1].n # 0
    BY <1>1, <1>4 DEF IsEvent
  <2>2. Sent' \subseteq Sent
    <3> SUFFICES ASSUME NEW x \in Sent' PROVE x \in Sent
      OBVIOUS
    <3>1. CASE \E k \in 1 .. Len(got) : x = got[k]
      BY <3>1 DEF Sent
    <3>2. ASSUME NEW k \in 1 .. n - 1, IsEvent(k)', x = inbox'[k].n PROVE x \in Sent
      <4>1. k + 1 \in 1 .. n /\ IsEvent(k + 1) /\ x = inbox[k + 1].n
        BY <1>1, <1>3, <2>1, <3>2 DEF IsEvent
      <4> QED BY <4>1 DEF Sent
    <3> QED BY <1>1, <1>4, <3>1, <3>2 DEF Sent
  <2>3. Sent \subseteq Sent'
    <3> SUFFICES ASSUME NEW x \in Sent PROVE x \in Sent'
      OBVIOUS
    <3>1. CASE \E k \in 1 .. Len(got) : x = got[k]
      BY <1>4, <3>1 DEF Sent
    <3>2. ASSUME NEW k \in 1 .. n, IsEvent(k), x = inbox[k].n PROVE x \in Sent'
      <4>1. PICK h \in 1 .. n - 1 : h + 1 = k
        BY <1>3, <2>1, <3>2
      <4>2. IsEvent(h)' /\ x = inbox'[h].n /\ h \in 1 .. Len(inbox')
        BY <1>1, <2>1, <3>2, <4>1 DEF IsEvent
      <4> QED BY <4>2 DEF Sent
    <3> QED BY <3>1, <3>2 DEF Sent
  <2> QED BY <1>1, <1>2, <1>4, <2>2, <2>3, SameWhole
<1>5. CASE i # 0 /\ got' = Append(got, i)
  <2> DEFINE l == Len(got)
  <2>1. got \in Seq(Events) /\ l \in Nat /\ i \in Events /\ IsEvent(1) /\ i \in Sent
    BY <1>3, <1>5, Numbers DEF IInv, TypeOK, IsEvent, Sent
  <2>2. /\ Len(got') = l + 1 /\ got'[l + 1] = i
        /\ \A k \in 1 .. l : got'[k] = got[k]
    BY <1>5, <2>1
  <2>3. \A k : k \in 1 .. l + 1 <=> k \in 1 .. l \/ k = l + 1
    BY <2>1
  <2>4. Sent' = Sent
    <3>1. Sent' \subseteq Sent
      <4> SUFFICES ASSUME NEW x \in Sent' PROVE x \in Sent
        OBVIOUS
      <4>1. CASE \E k \in 1 .. l + 1 : x = got'[k]
        <5>1. x = i \/ \E k \in 1 .. l : x = got[k]
          BY <2>2, <2>3, <4>1
        <5> QED BY <2>1, <5>1 DEF Sent
      <4>2. ASSUME NEW k \in 1 .. n - 1, IsEvent(k)', x = inbox'[k].n PROVE x \in Sent
        <5>1. k + 1 \in 1 .. n /\ inbox'[k] = inbox[k + 1] /\ IsEvent(k + 1)
          BY <1>1, <1>3, <4>2 DEF IsEvent
        <5> QED BY <4>2, <5>1 DEF Sent
      <4> QED BY <1>1, <2>2, <4>1, <4>2 DEF Sent
    <3>2. Sent \subseteq Sent'
      <4> SUFFICES ASSUME NEW x \in Sent PROVE x \in Sent'
        OBVIOUS
      <4>1. CASE \E k \in 1 .. l : x = got[k]
        BY <2>2, <2>3, <4>1 DEF Sent
      <4>2. CASE x = i
        BY <2>2, <2>3, <4>2 DEF Sent
      <4>3. ASSUME NEW k \in 1 .. n, k # 1, IsEvent(k), x = inbox[k].n PROVE x \in Sent'
        <5>1. k - 1 \in 1 .. n - 1 /\ inbox'[k - 1] = inbox[k]
          BY <1>1, <1>3, <4>3
        <5>2. IsEvent(k - 1)' /\ k - 1 \in 1 .. Len(inbox')
          BY <1>1, <4>3, <5>1 DEF IsEvent
        <5> QED BY <4>3, <5>1, <5>2 DEF Sent
      <4> QED BY <4>1, <4>2, <4>3 DEF Sent
    <3> QED BY <3>1, <3>2
  <2>5. Apart'
    BY <1>1, <1>2, <2>4 DEF Whole, Apart
  <2>6. \A e \in Events : Accounted(e) => Accounted(e)'
    BY <1>1, <1>2, <2>4 DEF Accounted
  <2>7. (Sent \cup Pending)' \subseteq Sent \cup Pending
    BY <1>2, <2>4
  <2>8. Covered /\ Covered'
    BY <1>1, <2>6, <2>7, StaysCovered DEF Whole
  <2>9. \A g \in 1 .. l : got[g] < i
    BY <1>3, <2>1 DEF Ordered
  <2>10. \A j, k \in 1 .. l + 1 : j < k => got'[j] < got'[k]
    <3> SUFFICES ASSUME NEW j \in 1 .. l + 1, NEW k \in 1 .. l + 1, j < k PROVE got'[j] < got'[k]
      OBVIOUS
    <3>1. j \in 1 .. l
      BY <2>1
    <3> QED BY <2>2, <2>3, <2>9, <3>1 DEF Whole
  <2>11. NoGaps'
    <3> SUFFICES ASSUME NEW k \in 1 .. l
                 PROVE  got'[k] < got'[k + 1] /\ Skipped(k)' \subseteq Unknown \cup lost
      BY <1>1, <2>1, <2>2 DEF NoGaps
    <3>1. k \in 1 .. l + 1 /\ k + 1 \in 1 .. l + 1 /\ k < k + 1
      BY <2>1
    <3>2. CASE k # l
      <4>1. k \in 1 .. l - 1 /\ k + 1 \in 1 .. l
        BY <2>1, <3>2
      <4>2. Skipped(k)' = Skipped(k)
        BY <2>2, <4>1 DEF Skipped
      <4> QED BY <2>10, <3>1, <4>1, <4>2 DEF Whole, NoGaps
    <3>3. CASE k = l
      <4>1. got'[k] = got[l] /\ got'[k + 1] = i /\ got[l] \in Sent
        BY <2>2, <3>3 DEF Sent
      <4>2. ASSUME NEW e \in Events, got[l] < e, e < i PROVE e \in Unknown \cup lost
        <5>1. Accounted(e)
          BY <2>1, <2>8, <4>1, <4>2 DEF Covered
        <5>2. Sent \subseteq Nat /\ Pending \subseteq Nat /\ Events \subseteq Nat
          BY PlacesAreNumbers
        <5>3. ~(\E g \in 1 .. l : e = got[g])
          <6> SUFFICES ASSUME NEW g \in 1 .. l, e = got[g] PROVE FALSE
            OBVIOUS
          <6>1. g < l \/ g = l
            BY <2>1
          <6>2. got[g] < got[l] \/ got[g] = got[l]
            BY <3>3, <6>1 DEF Whole
          <6>3. got[g] \in Nat /\ got[l] \in Nat
            BY <3>3, <5>2 DEF Sent
          <6> QED BY <4>2, <5>2, <6>2, <6>3
        <5>4. \A h \in 1 .. n : IsEvent(h) => i <= inbox[h].n
          <6> SUFFICES ASSUME NEW h \in 1 .. n, IsEvent(h) PROVE i <= inbox[h].n
            OBVIOUS
          <6>1. h = 1 \/ 1 < h
            BY <1>1
          <6>2. inbox[h].n \in Nat /\ i \in Nat
            BY <2>1, <5>2 DEF Sent
          <6> QED BY <1>3, <2>1, <6>1, <6>2 DEF Ordered
        <5>5. e \in Nat /\ i \in Nat /\ ~(i <= e)
          <6>1. e \in Nat /\ i \in Nat /\ e < i
            BY <2>1, <4>2, <5>2
          <6> HIDE DEF i
          <6> QED BY <6>1
        <5>6. ~(\E h \in 1 .. n : IsEvent(h) /\ e = inbox[h].n)
          BY <5>4, <5>5
        <5>7. \A q \in Pending : i < q
          BY <2>1 DEF Ordered
        <5>8. e \notin Pending
          BY <5>2, <5>5, <5>7
        <5> QED BY <5>1, <5>3, <5>6, <5>8 DEF Accounted, Sent
      <4> QED BY <1>1, <2>10, <3>1, <4>1, <4>2 DEF Skipped
    <3> QED BY <3>2, <3>3
  <2> QED BY <1>1, <2>2, <2>5, <2>8, <2>10, <2>11 DEF Whole
<1> QED BY <1>1, <1>4, <1>5

LEMMA OverflowWhole ==
    ASSUME IInv, IInv', Ordered, Whole, Overflow
    PROVE  Whole'
<1> DEFINE n == Len(inbox)
           d == InboxSize + 1
           i == inbox[d].n
<1>1. /\ UNCHANGED <<reader, cursor, buffer, proxy, client, got>>
      /\ d \in 1 .. n /\ n \in Nat \ {0} /\ Len(inbox') = n - 1
      /\ \A k \in 1 .. n - 1 : inbox'[k] = IF k < d THEN inbox[k] ELSE inbox[k + 1]
      /\ lost' = lost \cup ({i} \ {0})
  BY OverflowFacts
<1> HIDE DEF d
<1>2. Pending' = Pending
  BY <1>1 DEF Pending
<1>3. \A k \in 1 .. n - 1 : \E h \in 1 .. n : h # d /\ inbox'[k] = inbox[h]
  <2> SUFFICES ASSUME NEW k \in 1 .. n - 1 PROVE \E h \in 1 .. n : h # d /\ inbox'[k] = inbox[h]
    OBVIOUS
  <2>1. CASE k < d
    <3>1. k \in 1 .. n /\ k # d
      BY <1>1, <2>1
    <3> QED BY <1>1, <2>1, <3>1
  <2>2. CASE ~(k < d)
    <3>1. k + 1 \in 1 .. n /\ k + 1 # d
      BY <1>1, <2>2
    <3> QED BY <1>1, <2>2, <3>1
  <2> QED BY <2>1, <2>2
<1>4. \A h \in 1 .. n : h # d => \E k \in 1 .. n - 1 : inbox'[k] = inbox[h]
  <2> SUFFICES ASSUME NEW h \in 1 .. n, h # d PROVE \E k \in 1 .. n - 1 : inbox'[k] = inbox[h]
    OBVIOUS
  <2>1. CASE h < d
    <3>1. h \in 1 .. n - 1
      BY <1>1, <2>1
    <3> QED BY <1>1, <2>1, <3>1
  <2>2. CASE ~(h < d)
    <3>1. h - 1 \in 1 .. n - 1 /\ ~(h - 1 < d) /\ (h - 1) + 1 = h
      BY <1>1, <2>2
    <3> QED BY <1>1, <3>1
  <2> QED BY <2>1, <2>2
<1>5. Sent' \subseteq Sent
  BY <1>1, <1>3 DEF Sent, IsEvent
<1>6. \A x \in Sent : x \in Sent' \/ (i # 0 /\ x = i)
  BY <1>1, <1>4 DEF Sent, IsEvent
<1>7. i # 0 => i \in Sent /\ i \notin Sent'
  <2> SUFFICES ASSUME i # 0 PROVE i \in Sent /\ i \notin Sent'
    OBVIOUS
  <2>1. IsEvent(d) /\ i \in Sent
    BY <1>1 DEF Sent, IsEvent
  <2>2. Sent \subseteq Nat
    BY PlacesAreNumbers
  <2>3. \A h \in 1 .. n : h # d /\ IsEvent(h) => inbox[h].n # i
    <3> SUFFICES ASSUME NEW h \in 1 .. n, h # d, IsEvent(h) PROVE inbox[h].n # i
      OBVIOUS
    <3>1. h < d \/ d < h
      BY <1>1
    <3>2. inbox[h].n \in Nat /\ i \in Nat
      BY <2>1, <2>2 DEF Sent
    <3> QED BY <1>1, <2>1, <3>1, <3>2 DEF Ordered
  <2>4. \A k \in 1 .. n - 1 : IsEvent(k)' => inbox'[k].n # i
    BY <1>3, <2>3 DEF IsEvent
  <2>5. \A g \in 1 .. Len(got) : got[g] # i
    <3> SUFFICES ASSUME NEW g \in 1 .. Len(got) PROVE got[g] # i
      OBVIOUS
    <3>1. got[g] < i
      BY <1>1, <2>1 DEF Ordered
    <3>2. got[g] \in Nat /\ i \in Nat
      BY <2>1, <2>2 DEF Sent
    <3> QED BY <3>1, <3>2
  <2> QED BY <1>1, <2>1, <2>4, <2>5 DEF Sent
<1>8. Apart'
  <2>1. i # 0 => i <= cursor /\ i \notin Pending
    <3>1. Sent \subseteq Nat /\ Pending \subseteq Nat
      BY PlacesAreNumbers
    <3>2. i \in Sent => i <= cursor /\ \A q \in Pending : i < q
      BY DEF Ordered
    <3>3. i \in Nat => ~(i < i)
      OBVIOUS
    <3> HIDE DEF i
    <3> QED BY <1>7, <3>1, <3>2, <3>3
  <2> QED BY <1>1, <1>2, <1>5, <1>7, <2>1 DEF Whole, Apart
<1>9. \A e \in Events : Accounted(e) => Accounted(e)'
  BY <1>1, <1>2, <1>6 DEF Accounted
<1>10. (Sent \cup Pending)' \subseteq Sent \cup Pending
  BY <1>2, <1>5
<1>11. Covered => Covered'
  BY <1>1, <1>9, <1>10, StaysCovered
<1>12. NoGaps'
  BY <1>1 DEF Whole, NoGaps, Skipped
<1> QED BY <1>1, <1>8, <1>11, <1>12 DEF Whole

\* The proxy begins where the engine is.
LEMMA ConnectWhole ==
    ASSUME IInv, Whole, Connect
    PROVE  Whole'
<1>1. /\ UNCHANGED <<buffer, inbox, got, lost, client>> /\ reader' = "read"
      /\ buffer = <<>> /\ got = <<>> /\ lost = {} /\ \A k \in 1 .. Len(inbox) : ~IsEvent(k)
  BY DEF IInv, Shape, Quiet, Connect, browser
<1>2. Len(buffer) = 0 /\ Len(got) = 0
  BY <1>1
<1>3. Sent' = {} /\ Pending' = {}
  BY <1>1, <1>2 DEF Sent, Pending, IsEvent
<1> QED BY <1>1, <1>3 DEF Whole, Apart, Covered, NoGaps, Skipped

\* A client that disconnects keeps what it got.
LEMMA DisconnectWhole ==
    ASSUME IInv, Whole, Disconnect
    PROVE  Whole'
<1>1. /\ UNCHANGED <<reader, cursor, buffer, got, lost>> /\ inbox' = <<>> /\ client' = "gone"
  BY DEF Disconnect, pump
<1>2. Len(inbox') = 0
  BY <1>1
<1>3. Sent' \subseteq Sent /\ Pending' = Pending
  BY <1>1, <1>2 DEF Sent, Pending
<1> QED BY <1>1, <1>3 DEF Whole, Apart, NoGaps, Skipped

LEMMA UpdateWhole ==
    ASSUME IInv, IInv', Whole, NEW u \in Updaters, PublishUpdate(u)
    PROVE  Whole'
<1> DEFINE m == UpdateMessage(update[u])
<1>1. /\ UNCHANGED <<reader, cursor, buffer, proxy, client, got, lost>>
      /\ inbox' = inbox \/ inbox' = Append(inbox, m)
  BY DEF PublishUpdate, Publish, pump
<1>2. m \in Message /\ m.n = 0
  BY UpdateMessageOK
<1> HIDE DEF m
<1>3. Pending' = Pending
  BY <1>1 DEF Pending
<1>4. CASE inbox' = inbox
  <2>1. Sent' = Sent
    BY <1>1, <1>4 DEF Sent, IsEvent
  <2> QED BY <1>1, <1>3, <2>1, SameWhole
<1>5. CASE inbox' = Append(inbox, m)
  <2>1. PICK l \in Nat : l = Len(inbox)
    BY DEF IInv, TypeOK
  <2>2. inbox \in Seq(Message)
    BY DEF IInv, TypeOK
  <2>3. Len(inbox') = l + 1 /\ inbox'[l + 1] = m /\ \A k \in 1 .. l : inbox'[k] = inbox[k]
    BY <1>2, <1>5, <2>1, <2>2
  <2>4. \A k : k \in 1 .. l + 1 <=> k \in 1 .. l \/ k = l + 1
    BY <2>1
  <2>5. /\ ~IsEvent(l + 1)'
        /\ \A k \in 1 .. l : IsEvent(k)' <=> IsEvent(k)
    BY <1>2, <2>3 DEF IsEvent
  <2>6. Sent' \subseteq Sent
    <3> SUFFICES ASSUME NEW x \in Sent' PROVE x \in Sent
      OBVIOUS
    <3>1. CASE \E k \in 1 .. Len(got) : x = got[k]
      BY <3>1 DEF Sent
    <3>2. ASSUME NEW k \in 1 .. l + 1, IsEvent(k)', x = inbox'[k].n PROVE x \in Sent
      <4>1. k \in 1 .. l
        BY <2>4, <2>5, <3>2
      <4> QED BY <2>1, <2>3, <2>5, <3>2, <4>1 DEF Sent
    <3> QED BY <1>1, <2>3, <3>1, <3>2 DEF Sent
  <2>7. Sent \subseteq Sent'
    <3> SUFFICES ASSUME NEW x \in Sent PROVE x \in Sent'
      OBVIOUS
    <3>1. CASE \E k \in 1 .. Len(got) : x = got[k]
      BY <1>1, <3>1 DEF Sent
    <3>2. ASSUME NEW k \in 1 .. l, IsEvent(k), x = inbox[k].n PROVE x \in Sent'
      BY <2>3, <2>4, <2>5, <3>2 DEF Sent
    <3> QED BY <2>1, <3>1, <3>2 DEF Sent
  <2> QED BY <1>1, <1>3, <2>6, <2>7, SameWhole
<1> QED BY <1>1, <1>4, <1>5

LEMMA InitWhole == Init => Whole
<1> SUFFICES ASSUME Init PROVE Whole
  OBVIOUS
<1>1. buffer = <<>> /\ got = <<>> /\ inbox = <<>> /\ lost = {} /\ reader = "off"
  BY DEF Init
<1>2. Len(buffer) = 0 /\ Len(got) = 0 /\ Len(inbox) = 0
  BY <1>1
<1>3. Sent = {} /\ Pending = {}
  BY <1>1, <1>2 DEF Sent, Pending
<1> QED BY <1>1, <1>2, <1>3 DEF Whole, Apart, Covered, NoGaps

LEMMA NextWhole == IInv /\ IInv' /\ Ordered /\ Whole /\ [Next]_vars => Whole'
<1> SUFFICES ASSUME IInv, IInv', Ordered, Whole, [Next]_vars PROVE Whole'
  OBVIOUS
<1>1. CASE \/ \E u \in Updaters : Write(u)
           \/ Emit \/ Close \/ StreamEnded \/ Tick \/ Snapshot \/ Subscribe \/ UNCHANGED vars
  <2>1. /\ UNCHANGED <<reader, cursor, buffer, inbox, got, lost>>
        /\ proxy' # "done" => proxy # "done"
        /\ client' # "gone" => client # "gone"
    BY <1>1 DEF Write, Emit, Close, StreamEnded, Tick, Snapshot, Subscribe, vars, engine, pump, browser
  <2>2. Sent' = Sent /\ Pending' = Pending
    BY <2>1 DEF Sent, Pending, IsEvent
  <2> QED BY <2>1, <2>2, SameWhole
<1> QED BY <1>1, UpdateWhole, ConnectWhole, ReadWhole, SendWhole, ForwardWhole, DeliverWhole,
           OverflowWhole, DisconnectWhole DEF Next

\* However slow proxy and client are, wherever reader or proxy stops, and whatever
\* updates of the run come in between: a client gets the engine's events in order, and
\* each that is missing between two of them is of an unknown type, had a PUBLISH that
\* failed or was dropped from a full subscription.
THEOREM EventsWithoutGaps == Spec => []NoGaps
<1>1. Whole => NoGaps
  BY DEF Whole
<1> QED BY <1>1, InitInOrder, NextInOrder, InitWhole, NextWhole, Invariant, PTL DEF Spec

(***************************************************************************)
(* An event feed.                                                          *)
(***************************************************************************)

\* A delivery is a step of the feed.
LEMMA DeliverIsGet ==
    ASSUME IInv, IInv', Ordered, Whole, Whole', Deliver, inbox[1].n # 0
    PROVE  Feed!Get
<1> DEFINE e == inbox[1].n
<1>1. /\ UNCHANGED <<emitted, lost>> /\ Len(inbox) \in Nat \ {0}
      /\ got' = Append(got, e)
  BY DeliverFacts
<1>2. 1 \in 1 .. Len(inbox) /\ IsEvent(1) /\ e \in Events /\ e \in Sent
  BY <1>1, Numbers DEF IInv, IsEvent, Sent
<1>3. e \in 1 .. emitted
  BY <1>2, Numbers DEF IInv, Ordered
<1>4. e \notin Unknown \cup lost
  BY <1>2 DEF Whole, Apart
<1>5. got \in Seq(Events) /\ Len(got) \in Nat
  BY DEF IInv, TypeOK
<1>6. ASSUME got # <<>>
      PROVE  e > got[Len(got)] /\ got[Len(got)] + 1 .. e - 1 \subseteq Unknown \cup lost
  <2>1. PICK l \in Nat \ {0} : l = Len(got)
    BY <1>5, <1>6
  <2> HIDE DEF e
  <2>2. /\ got'[l] = got[l] /\ got'[l + 1] = e /\ Len(got') = l + 1 /\ got[l] \in Events
        /\ l \in 1 .. Len(got') - 1
    BY <1>1, <1>2, <1>5, <2>1
  <2>3. got[l] < e /\ Skipped(l)' \subseteq Unknown \cup lost
    BY <1>1, <2>2 DEF Whole, NoGaps
  <2>4. Events = 1 .. Complete /\ Complete \in Nat
    BY RunStreamAssumption DEF Events, Complete
  <2>5. \A x \in got[l] + 1 .. e - 1 : x \in Events /\ got[l] < x /\ x < e
    BY <1>2, <2>2, <2>4
  <2>6. got[l] + 1 .. e - 1 \subseteq Skipped(l)'
    BY <2>2, <2>5 DEF Skipped
  <2>7. e > got[l]
    BY <1>2, <2>2, <2>3, <2>4
  <2> QED BY <2>1, <2>3, <2>6, <2>7
<1> HIDE DEF e
<1> QED BY <1>1, <1>3, <1>4, <1>6 DEF Feed!Get, Feed!MayFollow

\* A failed PUBLISH, or one message dropped, is a loss of the feed.
LEMMA LossIsLose ==
    ASSUME IInv, Ordered, NEW e, e \in Pending \/ (\E k \in 1 .. Len(inbox) : IsEvent(k) /\ e = inbox[k].n),
           UNCHANGED <<emitted, got>>, lost' = lost \cup {e}
    PROVE  Feed!Lose
<1>1. e \in Sent \cup Pending
  BY DEF Sent
<1>2. /\ e \in Nat \ {0} /\ e <= cursor /\ cursor <= emitted /\ emitted \in Nat /\ cursor \in Nat
  BY <1>1, PlacesAreNumbers, Numbers DEF IInv, Ordered
<1>3. e \in 1 .. emitted
  BY <1>2
<1>4. \A k \in 1 .. Len(got) : got[k] < e /\ got[k] \in Nat
  BY PlacesAreNumbers DEF Ordered, Sent
<1>5. \A k \in 1 .. Len(got) : got[k] # e
  BY <1>2, <1>4
<1> QED BY <1>3, <1>5 DEF Feed!Lose

LEMMA StepRefines ==
    IInv /\ IInv' /\ Ordered /\ Whole /\ Whole' /\ [Next]_vars => [Feed!Next]_<<emitted, got, lost>>
<1> SUFFICES ASSUME IInv, IInv', Ordered, Whole, Whole', [Next]_vars
             PROVE  Feed!Next \/ UNCHANGED <<emitted, got, lost>>
  OBVIOUS
<1>1. CASE Emit
  BY <1>1 DEF Emit, Feed!Next, Feed!Emit, browser
<1>2. CASE Forward
  <2>1. UNCHANGED <<emitted, got>> /\ (lost' = lost \/ lost' = lost \cup {buffer[1]})
        /\ Len(buffer) \in Nat \ {0}
    BY <1>2, ForwardFacts
  <2>2. 1 \in 1 .. Len(buffer)
    BY <2>1
  <2>3. buffer[1] \in Pending
    BY <2>2 DEF Pending
  <2> QED BY <2>1, <2>3, LossIsLose DEF Feed!Next
<1>3. CASE Deliver
  BY <1>3, DeliverIsGet, DeliverFacts DEF Feed!Next
<1>4. CASE Overflow
  <2> DEFINE d == InboxSize + 1
  <2>1. UNCHANGED <<emitted, got>> /\ d \in 1 .. Len(inbox) /\ lost' = lost \cup ({inbox[d].n} \ {0})
    BY <1>4, OverflowFacts
  <2> HIDE DEF d
  <2>2. CASE inbox[d].n = 0
    <3>1. lost' = lost
      BY <2>1, <2>2
    <3> QED BY <2>1, <3>1
  <2>3. CASE inbox[d].n # 0
    <3>1. lost' = lost \cup {inbox[d].n} /\ IsEvent(d)
      BY <2>1, <2>3 DEF IsEvent
    <3> QED BY <2>1, <3>1, LossIsLose DEF Feed!Next
  <2> QED BY <2>2, <2>3
<1>5. CASE \/ \E u \in Updaters : Write(u) \/ PublishUpdate(u)
           \/ Close \/ Connect \/ ReadEvent \/ SendEvent \/ StreamEnded \/ Tick
           \/ Snapshot \/ Subscribe \/ Disconnect
  BY <1>5 DEF Write, PublishUpdate, Close, Connect, ReadEvent, SendEvent, StreamEnded, Tick, Snapshot,
              Subscribe, Disconnect, engine, pump, browser
<1>6. CASE UNCHANGED vars
  BY <1>6 DEF vars, engine, browser
<1> QED BY <1>1, <1>2, <1>3, <1>4, <1>5, <1>6 DEF Next

\* However slow the proxy and whatever is lost: a client gets only what the engine has
\* emitted, of the types that are forwarded, in order, nothing twice; what it misses was
\* lost for good.
THEOREM StreamIsFeed == Spec => FeedSpec
<1>1. Init => Feed!Init
  BY DEF Init, Feed!Init
<1> QED BY <1>1, InitInOrder, NextInOrder, InitWhole, NextWhole, StepRefines, Invariant, PTL
           DEF Spec, FeedSpec, Feed!Spec

=============================================================================
