----------------------------- MODULE RunStream -----------------------------
(***************************************************************************)
(* The events of one run on their way to a browser.  A goroutine reads the *)
(* engine's stream into a bounded channel, the metrics proxy forwards what *)
(* it finds there to the Redis channel sim:events:{run}, where each update *)
(* of the run is published too, and StreamRunEvents hands the channel on   *)
(* to a client after a snapshot of the run.                                *)
(*                                                                         *)
(* An event is the number of its place in the engine's stream; the event   *)
(* after the last is "complete".  Of the others some may be of a type the  *)
(* proxy does not know.  An update is the status it wrote.                 *)
(*                                                                         *)
(* The Redis client is external: a PUBLISH arrives once or, if it fails,   *)
(* not at all, and what a subscriber does not take from its channel waits  *)
(* a minute at the full channel and is then dropped.                       *)
(***************************************************************************)
EXTENDS Integers, Sequences, SequencesExt

CONSTANTS
    Updaters,    \* handlers that update the run, each once
    Statuses,    \* the statuses they write
    Initial,     \* the status the run has
    BufferSize,  \* of the channel between reader and proxy; 10 in the code
    InboxSize,   \* of the subscription's channel; 1000 in the code
    MaxEvents,   \* bound: events the engine emits before "complete"
    Unknown,     \* the events of a type the proxy does not know
    Faults       \* whether a PUBLISH fails

ASSUME RunStreamAssumption ==
    /\ Initial \in Statuses
    /\ Statuses \subseteq {"pending", "running", "completed", "failed",
                        "cancelled", "stopped"}
    /\ BufferSize \in Nat \ {0}
    /\ InboxSize \in Nat \ {0}
    /\ MaxEvents \in Nat
    /\ Unknown \subseteq 1 .. MaxEvents
    /\ Faults \in BOOLEAN

None == "none"

\* Mutant of Checked: a failed run is not taken for a terminal one.
CheckedForgetsFailed == {"completed", "cancelled"}

\* The statuses the proxy stops at.
Checked == {"completed", "failed", "cancelled"}

Complete == MaxEvents + 1

VARIABLES
    status,     \* the run's status in Postgres
    update,     \* for each updater, the status it has written and not published
    emitted,    \* events the engine emitted, Complete when it is over
    closed,     \* the engine's connection is closed
    reader,     \* goroutine of StreamMetrics
    cursor,     \* the last event it read
    buffer,     \* the channel
    proxy,      \* goroutine of StartMetricsStreamProxy
    client,     \* StreamRunEvents
    shown,      \* the status the client shows
    inbox,      \* what was published and the handler has not taken: the channel
                \* of the subscription, and behind it what waits for room there
    got,        \* the events the client got
    lost        \* the events whose PUBLISH failed, or that were dropped

engine == <<emitted, closed>>
pump == <<reader, cursor, buffer, proxy>>
browser == <<client, shown, inbox, got, lost>>
vars == <<status, update, engine, pump, browser>>

Events == 1 .. Complete

\* A message of the Redis channel: an event, or an update with n = 0.
Message == [n : 0 .. Complete, status : Statuses \cup {None}]

EventMessage(k) == [n |-> k, status |-> None]

UpdateMessage(s) == [n |-> 0, status |-> s]

TypeOK ==
    /\ status \in Statuses
    /\ update \in [Updaters -> Statuses \cup {None, "done"}]
    /\ emitted \in 0 .. Complete
    /\ closed \in BOOLEAN
    /\ reader \in {"off", "read", "send", "done"}
    /\ cursor \in 0 .. Complete
    /\ buffer \in Seq(Events) /\ Len(buffer) <= BufferSize
    /\ proxy \in {"off", "select", "done"}
    /\ client \in {"off", "snapshot", "on", "gone"}
    /\ shown \in Statuses \cup {None}
    /\ inbox \in Seq(Message)
    /\ got \in Seq(Events)
    /\ lost \subseteq Events

Init ==
    /\ status = Initial
    /\ update = [u \in Updaters |-> None]
    /\ emitted = 0
    /\ closed = FALSE
    /\ reader = "off"
    /\ cursor = 0
    /\ buffer = <<>>
    /\ proxy = "off"
    /\ client = "off"
    /\ shown = None
    /\ inbox = <<>>
    /\ got = <<>>
    /\ lost = {}

\* PUBLISH reaches those who have subscribed.
Publish(m) == inbox' = IF client = "on" THEN Append(inbox, m) ELSE inbox

-----------------------------------------------------------------------------
(***************************************************************************)
(* The run and the engine.                                                 *)
(***************************************************************************)

\* RunRepository.Update: Postgres first, PUBLISH last.
Write(u) ==
    /\ update[u] = None
    /\ \E s \in Statuses :
         /\ status' = s
         /\ update' = [update EXCEPT ![u] = s]
    /\ UNCHANGED <<engine, pump, browser>>

PublishUpdate(u) ==
    /\ update[u] \notin {None, "done"}
    /\ update' = [update EXCEPT ![u] = "done"]
    /\ \/ Publish(UpdateMessage(update[u]))
       \/ Faults /\ UNCHANGED inbox
    /\ UNCHANGED <<status, engine, pump, client, shown, got, lost>>

Emit ==
    /\ ~closed
    /\ emitted < Complete
    /\ emitted' = emitted + 1
    /\ UNCHANGED <<status, update, closed, pump, browser>>

Close ==
    /\ ~closed
    /\ closed' = TRUE
    /\ UNCHANGED <<status, update, emitted, pump, browser>>

-----------------------------------------------------------------------------
(***************************************************************************)
(* StartMetricsStreamProxy and StreamMetrics.                              *)
(***************************************************************************)

\* A PUT of "running"; a connection that is refused starts nothing.
Connect ==
    /\ proxy = "off"
    /\ ~closed
    /\ proxy' = "select"
    /\ reader' = "read"
    /\ cursor' = emitted
    /\ UNCHANGED <<status, update, engine, buffer, browser>>

\* The next event of the stream, or its end, which may overtake events.  The
\* context of a proxy that stopped ends the read.
ReadEvent ==
    /\ reader = "read"
    /\ \/ /\ proxy = "select"
          /\ cursor < emitted
          /\ reader' = "send"
          /\ cursor' = cursor + 1
       \/ /\ closed \/ proxy = "done"
          /\ reader' = "done"
          /\ UNCHANGED cursor
    /\ UNCHANGED <<status, update, engine, buffer, proxy, browser>>

\* Mutant of SendEvent: a full channel is no reason to wait.
SendEventDrops ==
    /\ reader = "send"
    /\ reader' = "read"
    /\ buffer' = IF Len(buffer) < BufferSize THEN Append(buffer, cursor)
                 ELSE buffer
    /\ UNCHANGED <<status, update, engine, cursor, proxy, browser>>

\* Mutant of SendEvent: the channel is unbounded.
SendEventUnbounded ==
    /\ reader = "send"
    /\ reader' = "read"
    /\ buffer' = Append(buffer, cursor)
    /\ UNCHANGED <<status, update, engine, cursor, proxy, browser>>

\* Mutant of SendEvent: the context is not watched.
SendEventBlocks ==
    /\ reader = "send"
    /\ Len(buffer) < BufferSize
    /\ buffer' = Append(buffer, cursor)
    /\ reader' = "read"
    /\ UNCHANGED <<status, update, engine, cursor, proxy, browser>>

\* select: the channel has room, or the context is done.
SendEvent ==
    /\ reader = "send"
    /\ \/ /\ Len(buffer) < BufferSize
          /\ buffer' = Append(buffer, cursor)
          /\ reader' = "read"
       \/ /\ proxy = "done"
          /\ reader' = "done"
          /\ UNCHANGED buffer
    /\ UNCHANGED <<status, update, engine, cursor, proxy, browser>>

\* Mutant of Forward: an event whose PUBLISH seems to have failed is published again.
ForwardAgain ==
    /\ proxy = "select"
    /\ buffer # <<>>
    /\ Publish(EventMessage(Head(buffer)))
    /\ \/ /\ buffer' = Tail(buffer)
          /\ proxy' = IF Head(buffer) = Complete THEN "done" ELSE "select"
          /\ UNCHANGED lost
       \/ /\ Faults /\ lost' = lost \cup {Head(buffer)}
          /\ UNCHANGED <<buffer, proxy>>
    /\ UNCHANGED <<status, update, engine, reader, cursor, client, shown, got>>

\* An event is forwarded if its type is one of the switch, and only logged if not; an
\* error of PUBLISH is logged or ignored.  After "complete" the proxy stops.
Forward ==
    /\ proxy = "select"
    /\ buffer # <<>>
    /\ \/ /\ Head(buffer) \notin Unknown
          /\ Publish(EventMessage(Head(buffer)))
          /\ UNCHANGED lost
       \/ /\ Head(buffer) \notin Unknown
          /\ Faults
          /\ lost' = lost \cup {Head(buffer)}
          /\ UNCHANGED inbox
       \/ /\ Head(buffer) \in Unknown
          /\ UNCHANGED <<inbox, lost>>
    /\ buffer' = Tail(buffer)
    /\ proxy' = IF Head(buffer) = Complete THEN "done" ELSE "select"
    /\ UNCHANGED <<status, update, engine, reader, cursor, client, shown, got>>

\* The channel was closed and is empty.
StreamEnded ==
    /\ proxy = "select"
    /\ buffer = <<>>
    /\ reader = "done"
    /\ proxy' = "done"
    /\ UNCHANGED <<status, update, engine, reader, cursor, buffer, browser>>

\* The ticker: the proxy stops when it finds the run in a terminal state.
Tick ==
    /\ proxy = "select"
    /\ status \in Checked
    /\ proxy' = "done"
    /\ UNCHANGED <<status, update, engine, reader, cursor, buffer, browser>>

-----------------------------------------------------------------------------
(***************************************************************************)
(* StreamRunEvents.                                                        *)
(***************************************************************************)

\* GetRun; the snapshot is sent as the "initial" event.
Snapshot ==
    /\ client = "off"
    /\ client' = "snapshot"
    /\ shown' = status
    /\ UNCHANGED <<status, update, engine, pump, inbox, got, lost>>

Subscribe ==
    /\ client = "snapshot"
    /\ client' = "on"
    /\ UNCHANGED <<status, update, engine, pump, shown, inbox, got, lost>>

\* The message at the head of the subscription's channel is written to the client.
Deliver ==
    /\ client = "on"
    /\ inbox # <<>>
    /\ inbox' = Tail(inbox)
    /\ \/ /\ Head(inbox).n # 0
          /\ got' = Append(got, Head(inbox).n)
          /\ UNCHANGED shown
       \/ /\ Head(inbox).n = 0
          /\ shown' = Head(inbox).status
          /\ UNCHANGED got
    /\ UNCHANGED <<status, update, engine, pump, client, lost>>

\* The channel is full, and the message that has waited for room in it is dropped.
Overflow ==
    /\ client = "on"
    /\ Len(inbox) > InboxSize
    /\ inbox' = RemoveAt(inbox, InboxSize + 1)
    /\ lost' = lost \cup ({inbox[InboxSize + 1].n} \ {0})
    /\ UNCHANGED <<status, update, engine, pump, client, shown, got>>

Disconnect ==
    /\ client \in {"snapshot", "on"}
    /\ client' = "gone"
    /\ inbox' = <<>>
    /\ UNCHANGED <<status, update, engine, pump, shown, got, lost>>

Next ==
    \/ \E u \in Updaters : Write(u) \/ PublishUpdate(u)
    \/ Emit \/ Close
    \/ Connect \/ ReadEvent \/ SendEvent \/ Forward \/ StreamEnded \/ Tick
    \/ Snapshot \/ Subscribe \/ Deliver \/ Overflow \/ Disconnect

Spec == Init /\ [][Next]_vars

\* Each goroutine goes on while it can, the ticker among the cases of its select
\* is taken in the end, and a handler that wrote goes on to publish.
FairSpec ==
    /\ Spec
    /\ WF_vars(ReadEvent) /\ WF_vars(SendEvent) /\ WF_vars(Forward)
    /\ WF_vars(StreamEnded) /\ WF_vars(Tick)
    /\ WF_vars(Subscribe) /\ WF_vars(Deliver)
    /\ \A u \in Updaters : WF_vars(PublishUpdate(u))

-----------------------------------------------------------------------------
(***************************************************************************)
(* Properties.                                                             *)
(***************************************************************************)

\* The events the client was not sent between two it got.
Skipped(k) == {e \in Events : got[k] < e /\ e < got[k + 1]}

\* Backpressure, not loss: a slow proxy holds up the reader, and a client gets the
\* engine's events in order and none twice.  One is left out on three grounds only: the
\* proxy does not know its type, its PUBLISH failed, or the client was so slow that the
\* channel of its subscription ran full.
NoGaps ==
    \A k \in 1 .. Len(got) - 1 :
       got[k] < got[k + 1] /\ Skipped(k) \subseteq Unknown \cup lost

\* metrics_proxy.go, of the events it does not know: "Forward unknown events as-is": a
\* client that is fast enough misses none, as long as no PUBLISH fails.
AllForwarded == \A k \in 1 .. Len(got) - 1 : Skipped(k) \subseteq lost

\* The goroutines, the channels and the subscription are an event feed: what a client
\* gets has been emitted, is of a known type and comes after all it got before, and
\* what it misses then was unknown or lost and is not delivered later.
Feed == INSTANCE EventFeed WITH Final <- Complete
FeedSpec == Feed!Spec

\* metrics_proxy.go: "Stop proxy if run is in terminal state": the proxy does not
\* outlive a run that stays completed, failed or cancelled, even when the engine
\* says nothing more and leaves the connection open.
ProxyStops ==
    <>[](status \in {"completed", "failed", "cancelled"})
        => <>[](proxy # "select")

\* simulation_service.go counts "completed, failed, cancelled, or stopped
\* (terminal states)": the same for a run that stays stopped.
ProxyStopsAtStopped == <>[](status = "stopped") => <>[](proxy # "select")

\* The reader ends when its proxy has, also when the channel is full at that
\* moment and nobody will take from it again.
ReaderStops == proxy = "done" ~> reader = "done"

\* handlers_stream.go: "streams real-time updates for a simulation run": a client
\* that stays connected shows the run's status in the end.
ClientLearns == <>[](client = "on") => <>[](shown = status)
=============================================================================
