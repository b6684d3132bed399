----------------------------- MODULE EventFeed -----------------------------
(***************************************************************************)
(* What the stream of a run promises a client, whatever goroutines,        *)
(* channels and subscriptions are between it and the engine: an event is   *)
(* one the engine has emitted and of a type that is forwarded, each comes  *)
(* after those the client already got, and of those in between each is of  *)
(* another type or was lost.  So nothing comes twice or out of order, and  *)
(* what was lost does not come late.                                       *)
(***************************************************************************)
EXTENDS Naturals, Sequences

CONSTANTS
    Final,        \* the event after which there is none
    Unknown      \* the events that are not forwarded

VARIABLES
    emitted,     \* events the engine emitted
    got,         \* the events the client got
    lost         \* the events lost on the way

Init == emitted = 0 /\ got = <<>> /\ lost = {}

Emit ==
    /\ emitted < Final
    /\ emitted' = emitted + 1
    /\ UNCHANGED <<got, lost>>

\* A client may begin with any event: it sees those from its subscription on.
MayFollow(e) ==
    got # <<>> => /\ e > got[Len(got)]
                  /\ got[Len(got)] + 1 .. e - 1 \subseteq Unknown \cup lost

Get ==
    /\ \E e \in 1 .. emitted :
         /\ e \notin Unknown \cup lost
         /\ MayFollow(e)
         /\ got' = Append(got, e)
    /\ UNCHANGED <<emitted, lost>>

\* What the client has cannot be lost.
Lose ==
    /\ \E e \in 1 .. emitted :
         /\ \A k \in 1 .. Len(got) : got[k] # e
         /\ lost' = lost \cup {e}
    /\ UNCHANGED <<emitted, got>>

Next == Emit \/ Get \/ Lose

Spec == Init /\ [][Next]_<<emitted, got, lost>>
=============================================================================
