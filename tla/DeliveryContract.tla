-------------------------- MODULE DeliveryContract --------------------------
(***************************************************************************)
(* What delivery promises about an event and its webhooks, whichever       *)
(* passes, sweeps, erasures and administrators race and crash: an event is *)
(* fanned out once, to every webhook that stays active, and not after its  *)
(* answers are gone; a delivery is tried until it is accepted or has       *)
(* failed MaxAttempts times; then only a redelivery moves it, with all its *)
(* attempts back; a cancelled one never moves again.                       *)
(***************************************************************************)
EXTENDS Naturals

CONSTANTS
    Events, Hooks,
    Steady,         \* the webhooks that stay active
    MaxAttempts

VARIABLES
    fannedOut,  \* the events that have left the queue
    redacted,   \* the events whose answers are gone
    stage,      \* "none", "pending", "delivered", "dead" or "cancelled"
    failures    \* of each delivery that is pending, since it was last queued

vars == <<fannedOut, redacted, stage, failures>>

Deliveries == Events \X Hooks

Init ==
    /\ fannedOut = {}
    /\ redacted = {}
    /\ stage = [d \in Deliveries |-> "none"]
    /\ failures = [d \in Deliveries |-> 0]

\* The events of one batch leave the queue with their deliveries.
FanOut ==
    /\ \E es \in SUBSET (Events \ (fannedOut \cup redacted)) :
         /\ fannedOut' = fannedOut \cup es
         /\ \E ds \in SUBSET (es \X Hooks) :
              /\ es \X Steady \subseteq ds
              /\ stage' = [d \in Deliveries |-> IF d \in ds THEN "pending" ELSE stage[d]]
    /\ UNCHANGED <<redacted, failures>>

Become(d, to, n) ==
    /\ stage' = [stage EXCEPT ![d] = to]
    /\ failures' = [failures EXCEPT ![d] = n]
    /\ UNCHANGED <<fannedOut, redacted>>

Deliver(d) == stage[d] = "pending" /\ Become(d, "delivered", 0)

Fail(d) ==
    /\ stage[d] = "pending"
    /\ IF failures[d] + 1 = MaxAttempts THEN Become(d, "dead", 0)
       ELSE Become(d, "pending", failures[d] + 1)

Redeliver(d) == stage[d] \in {"pending", "delivered", "dead"} /\ Become(d, "pending", 0)

\* The sweep: only events with no delivery left to send.
Redact ==
    /\ \E es \in SUBSET fannedOut :
         /\ \A d \in es \X Hooks : stage[d] # "pending"
         /\ redacted' = redacted \cup es
    /\ UNCHANGED <<fannedOut, stage, failures>>

\* An erasure cancels what it found undelivered; it never touches a delivered
\* one, nor the deliveries of another event.
Erase(e) ==
    /\ redacted' = redacted \cup {e}
    /\ \E ds \in SUBSET {d \in {e} \X Hooks : stage[d] \in {"pending", "dead"}} :
         /\ stage' = [d \in Deliveries |-> IF d \in ds THEN "cancelled" ELSE stage[d]]
         /\ failures' = [d \in Deliveries |-> IF d \in ds THEN 0 ELSE failures[d]]
    /\ UNCHANGED fannedOut

Next ==
    \/ FanOut \/ Redact
    \/ \E d \in Deliveries : Deliver(d) \/ Fail(d) \/ Redeliver(d)
    \/ \E e \in Events : Erase(e)

Spec == Init /\ [][Next]_vars
=============================================================================
