--------------------------- MODULE WebhookDelivery ---------------------------
(***************************************************************************)
(* The outbox of one environment and the delivery of its events to the     *)
(* webhooks of a form: the delivery passes of the API processes, manual    *)
(* redelivery, the retention sweep and the erasure of the sessions the     *)
(* events describe.                                                        *)
(*                                                                         *)
(* A pass is one round of the scheduler.  Its first transaction fans the   *)
(* due events out into one delivery row per active webhook; then each      *)
(* delivery has a transaction of its own, whose row lock is held across    *)
(* the POST.  Claims skip locked rows, every other statement waits for     *)
(* them.  A statement takes its locks as one step.                         *)
(*                                                                         *)
(* The backoff is reduced to whether a row is due, retention ages to a     *)
(* choice of which rows are old enough.                                    *)
(***************************************************************************)
EXTENDS Naturals, FiniteSets

CONSTANTS
    Events,         \* response.submitted events, one per session
    Hooks,          \* the webhooks of the form
    Toggled,        \* the webhooks an administrator activates and deactivates
    Healthy,        \* the webhooks that accept every POST
    Passes,         \* delivery passes that may overlap
    Redeliverers,   \* administrators redelivering by hand
    MaxAttempts,    \* OUTBOX_MAX_ATTEMPTS
    Batch,          \* config.webhooks.deliveryBatchSize
    MaxCrashes,     \* bound: how many transactions are lost to a crash
    None            \* no row

ASSUME HookAssumption == Toggled \subseteq Hooks /\ Healthy \subseteq Hooks
ASSUME LimitAssumption ==
    MaxAttempts \in Nat \ {0} /\ Batch \in Nat \ {0} /\ MaxCrashes \in Nat

Deliveries == Events \X Hooks

Delivery == [attempts : 0..MaxAttempts, due : BOOLEAN, delivered : BOOLEAN,
             dead : BOOLEAN, cancelled : BOOLEAN, snippet : BOOLEAN]

ASSUME NoneAssumption == None \notin Delivery /\ None \notin Deliveries

VARIABLES
    \* the database
    event,          \* outbox: "absent", "queued", or "consumed" once delivered_at is set
    redacted,       \* the events whose payload has lost its answers
    active,         \* the webhooks that are active
    delivery,       \* webhook_deliveries, by event and webhook
    \* requests and passes in flight
    pass, redeliverer, eraser,
    crashes,        \* how many transactions a crash has rolled back
    \* what the endpoints know
    accepted        \* POSTs accepted since the last requeue, as far as QCMS was told

db == <<event, redacted, active, delivery>>
vars == <<event, redacted, active, delivery, pass, redeliverer, eraser, crashes, accepted>>

FreshRow == [attempts |-> 0, due |-> TRUE, delivered |-> FALSE, dead |-> FALSE,
             cancelled |-> FALSE, snippet |-> FALSE]

Exists(d) == delivery[d] # None
Settled(d) ==
    Exists(d) /\ (delivery[d].delivered \/ delivery[d].dead \/ delivery[d].cancelled)

IdlePass == [pc |-> "idle", events |-> {}, todo |-> {}, rows |-> {}, left |-> 0,
             sending |-> None, result |-> "none"]
IdleRedeliverer == [pc |-> "idle", target |-> None]
IdleEraser == [pc |-> "idle", cancelled |-> {}, scrubbed |-> {}]

Init ==
    /\ event = [e \in Events |-> "absent"]
    /\ redacted = {}
    /\ active = Hooks
    /\ delivery = [d \in Deliveries |-> None]
    /\ pass = [p \in Passes |-> IdlePass]
    /\ redeliverer = [r \in Redeliverers |-> IdleRedeliverer]
    /\ eraser = [e \in Events |-> IdleEraser]
    /\ crashes = 0
    /\ accepted = [d \in Deliveries |-> 0]

-----------------------------------------------------------------------------
(* Row locks.                                                              *)

SentByAPass(d) == \E p \in Passes : pass[p].sending = d
LockedByErasure(d) == d \in eraser[d[1]].cancelled \cup eraser[d[1]].scrubbed
RowFree(d) == ~SentByAPass(d) /\ ~LockedByErasure(d)

FannedOutByAPass(e) == \E p \in Passes : e \in pass[p].events
EventFree(e) == ~FannedOutByAPass(e) /\ eraser[e].pc # "redacted"

-----------------------------------------------------------------------------
(* The world around the passes.                                            *)

\* A submit or a release enqueues its event in its own transaction.
enqueue(e) ==
    /\ event[e] = "absent"
    /\ event' = [event EXCEPT ![e] = "queued"]
    /\ UNCHANGED <<redacted, active, delivery, pass, redeliverer, eraser, crashes, accepted>>

SetActive(h) ==
    /\ active' = IF h \in active THEN active \ {h} ELSE active \cup {h}
    /\ UNCHANGED <<event, redacted, delivery, pass, redeliverer, eraser, crashes, accepted>>

BackoffElapses(d) ==
    /\ Exists(d) /\ ~Settled(d)
    /\ ~delivery[d].due
    /\ delivery' = [delivery EXCEPT ![d].due = TRUE]
    /\ UNCHANGED <<event, redacted, active, pass, redeliverer, eraser, crashes, accepted>>

-----------------------------------------------------------------------------
(* runDeliveryPass: materialize.                                           *)

PassStep(p, r) ==
    /\ pass' = [pass EXCEPT ![p] = r]
    /\ UNCHANGED <<redacted, active, redeliverer, eraser>>

\* Fault: redacted events are claimed as well.
claimDueRedacted(p) ==
    /\ pass[p].pc = "idle"
    /\ LET due == {e \in Events : event[e] = "queued" /\ EventFree(e)}
       IN \E es \in SUBSET due :
            /\ Cardinality(es) = IF Cardinality(due) < Batch THEN Cardinality(due) ELSE Batch
            /\ PassStep(p, [pass[p] EXCEPT !.pc = "fanning", !.events = es, !.todo = es])
    /\ UNCHANGED <<event, delivery, crashes, accepted>>

claimDue(p) ==
    /\ pass[p].pc = "idle"
    /\ LET due == {e \in Events : event[e] = "queued" /\ e \notin redacted /\ EventFree(e)}
       IN \E es \in SUBSET due :
            /\ Cardinality(es) = IF Cardinality(due) < Batch THEN Cardinality(due) ELSE Batch
            /\ PassStep(p, [pass[p] EXCEPT !.pc = "fanning", !.events = es, !.todo = es])
    /\ UNCHANGED <<event, delivery, crashes, accepted>>

\* Fault: the loop over the webhooks ends at an inactive one.
fanOutEventReturns(p, e) ==
    /\ pass[p].pc = "fanning"
    /\ e \in pass[p].todo
    /\ PassStep(p, [pass[p] EXCEPT !.todo = @ \ {e},
                        !.rows = IF active = Hooks THEN @ \cup {<<e, h>> : h \in Hooks} ELSE @])
    /\ UNCHANGED <<event, delivery, crashes, accepted>>

\* The webhooks are read per event, in the pass's transaction.
fanOutEvent(p, e) ==
    /\ pass[p].pc = "fanning"
    /\ e \in pass[p].todo
    /\ PassStep(p, [pass[p] EXCEPT !.todo = @ \ {e},
                                   !.rows = @ \cup {<<e, h>> : h \in active}])
    /\ UNCHANGED <<event, delivery, crashes, accepted>>

\* Fault: an event that an inactive webhook missed is left in the queue.
CommitFanOutComplete(p) ==
    /\ pass[p].pc = "fanning"
    /\ pass[p].todo = {}
    /\ event' = [e \in Events |->
                    IF e \in pass[p].events /\ {<<e, h>> : h \in Hooks} \subseteq pass[p].rows
                    THEN "consumed" ELSE event[e]]
    /\ delivery' = [d \in Deliveries |->
                       IF d \in pass[p].rows /\ ~Exists(d) THEN FreshRow ELSE delivery[d]]
    /\ PassStep(p, [IdlePass EXCEPT !.pc = "delivering", !.left = Batch])
    /\ UNCHANGED <<crashes, accepted>>

\* The rows and the consumption of their events commit together.
CommitFanOut(p) ==
    /\ pass[p].pc = "fanning"
    /\ pass[p].todo = {}
    /\ event' = [e \in Events |-> IF e \in pass[p].events THEN "consumed" ELSE event[e]]
    /\ delivery' = [d \in Deliveries |->
                       IF d \in pass[p].rows /\ ~Exists(d) THEN FreshRow ELSE delivery[d]]
    /\ PassStep(p, [IdlePass EXCEPT !.pc = "delivering", !.left = Batch])
    /\ UNCHANGED <<crashes, accepted>>

-----------------------------------------------------------------------------
(* runDeliveryPass: deliverDue, one transaction per delivery.              *)

\* Fault: the claim takes no row lock.
claimDueDeliveriesUnlocked(p, d) ==
    /\ pass[p].pc = "delivering" /\ pass[p].left > 0
    /\ Exists(d) /\ ~Settled(d) /\ delivery[d].due
    /\ d[1] \notin redacted
    /\ ~LockedByErasure(d)
    /\ PassStep(p, [pass[p] EXCEPT !.pc = "sending", !.sending = d])
    /\ UNCHANGED <<event, delivery, crashes, accepted>>

Claimable(d) ==
    /\ Exists(d) /\ ~Settled(d) /\ delivery[d].due
    /\ d[1] \notin redacted
    /\ RowFree(d)

\* Fault: a webhook waits until the others have their copy of the event.
claimDueDeliveriesInTurn(p, d) ==
    /\ pass[p].pc = "delivering" /\ pass[p].left > 0
    /\ Claimable(d)
    /\ \A h \in Hooks \ Healthy :
         d[2] \in Healthy /\ Exists(<<d[1], h>>) => delivery[<<d[1], h>>].delivered
    /\ PassStep(p, [pass[p] EXCEPT !.pc = "sending", !.sending = d])
    /\ UNCHANGED <<event, delivery, crashes, accepted>>

claimDueDeliveries(p, d) ==
    /\ pass[p].pc = "delivering" /\ pass[p].left > 0
    /\ Claimable(d)
    /\ PassStep(p, [pass[p] EXCEPT !.pc = "sending", !.sending = d])
    /\ UNCHANGED <<event, delivery, crashes, accepted>>

\* What the POST comes to: 2xx; another status; no answer in time or a broken
\* connection; or nothing sent, the URL or the secret being unusable.
Results(d) == IF d[2] \in Healthy THEN {"ok"} ELSE {"ok", "refused", "timeout", "unsent"}

deliverOne(p) ==
    /\ pass[p].pc = "sending"
    /\ \E result \in Results(pass[p].sending) :
         /\ PassStep(p, [pass[p] EXCEPT !.pc = "answered", !.result = result])
         /\ accepted' = IF result = "ok"
                        THEN [accepted EXCEPT ![pass[p].sending] = @ + 1] ELSE accepted
    /\ UNCHANGED <<event, delivery, crashes>>

NextDelivery(p) == [IdlePass EXCEPT !.pc = "delivering", !.left = pass[p].left - 1]

markDeliveryDelivered(p) ==
    /\ pass[p].pc = "answered" /\ pass[p].result = "ok"
    /\ delivery' = [delivery EXCEPT ![pass[p].sending].delivered = TRUE,
                                    ![pass[p].sending].snippet = TRUE]
    /\ PassStep(p, NextDelivery(p))
    /\ UNCHANGED <<event, crashes, accepted>>

\* The snippet is the answer's, none after a timeout, and stays what it was
\* when nothing was sent.
RecordFailure(p, row) ==
    /\ pass[p].pc = "answered" /\ pass[p].result # "ok"
    /\ delivery' = [delivery EXCEPT ![pass[p].sending] =
                       [row EXCEPT !.due = FALSE,
                                   !.snippet = CASE pass[p].result = "refused" -> TRUE
                                                 [] pass[p].result = "timeout" -> FALSE
                                                 [] OTHER -> @]]
    /\ PassStep(p, NextDelivery(p))
    /\ UNCHANGED <<event, crashes, accepted>>

\* Fault: the row is dead-lettered one failure late.
recordDeliveryFailureLate(p) ==
    LET row == delivery[pass[p].sending]
    IN RecordFailure(p, [row EXCEPT !.attempts = @ + 1, !.dead = row.attempts + 1 > MaxAttempts])

\* Fault: the failure is not counted.
recordDeliveryFailureUncounted(p) ==
    RecordFailure(p, delivery[pass[p].sending])

recordDeliveryFailure(p) ==
    LET row == delivery[pass[p].sending]
    IN RecordFailure(p, [row EXCEPT !.attempts = @ + 1, !.dead = row.attempts + 1 >= MaxAttempts])

\* The claim came back empty, or the pass has done its batch.
EndPass(p) ==
    /\ pass[p].pc = "delivering"
    /\ pass[p].left = 0 \/ \A d \in Deliveries : ~Claimable(d)
    /\ PassStep(p, IdlePass)
    /\ UNCHANGED <<event, delivery, crashes, accepted>>

\* The process or its connection is lost: the transaction rolls back, and what
\* the endpoint had answered is forgotten.
CrashPass(p) ==
    /\ pass[p].pc \notin {"idle", "delivering"}
    /\ crashes < MaxCrashes
    /\ crashes' = crashes + 1
    /\ accepted' = IF pass[p].pc = "answered" /\ pass[p].result = "ok"
                   THEN [accepted EXCEPT ![pass[p].sending] = @ - 1] ELSE accepted
    /\ PassStep(p, IdlePass)
    /\ UNCHANGED <<event, delivery>>

-----------------------------------------------------------------------------
(* makeRedeliverHandler: a check and a reset, each its own statement.      *)

RedelivererStep(r, s) ==
    /\ redeliverer' = [redeliverer EXCEPT ![r] = s]
    /\ UNCHANGED <<event, redacted, active, pass, eraser, crashes>>

redeliveryRefusalFor(r) ==
    /\ redeliverer[r].pc = "idle"
    /\ \E d \in Deliveries :
         /\ Exists(d)
         /\ RedelivererStep(r, IF delivery[d].cancelled \/ d[1] \in redacted
                               THEN [IdleRedeliverer EXCEPT !.pc = "done"]
                               ELSE [pc |-> "checked", target |-> d])
    /\ UNCHANGED <<delivery, accepted>>

\* Fault: the failures counted so far are kept.
resetKeepsAttempts(r) ==
    LET d == redeliverer[r].target
    IN /\ redeliverer[r].pc = "checked"
       /\ RowFree(d)
       /\ delivery' = [delivery EXCEPT ![d] = [FreshRow EXCEPT !.attempts = delivery[d].attempts,
                                                  !.cancelled = delivery[d].cancelled]]
       /\ accepted' = [accepted EXCEPT ![d] = 0]
       /\ RedelivererStep(r, [IdleRedeliverer EXCEPT !.pc = "done"])

\* Whatever state the row is in by now; only a cancellation is left in place.
resetDeliveryForRedelivery(r) ==
    LET d == redeliverer[r].target
    IN /\ redeliverer[r].pc = "checked"
       /\ RowFree(d)
       /\ delivery' = [delivery EXCEPT ![d] = [FreshRow EXCEPT !.cancelled = delivery[d].cancelled]]
       /\ accepted' = [accepted EXCEPT ![d] = 0]
       /\ RedelivererStep(r, [IdleRedeliverer EXCEPT !.pc = "done"])

-----------------------------------------------------------------------------
(* The retention sweep of payloads and snippets.                           *)

\* Consumed, and no delivery of it still moving.
redactAgedOutboxPayloads ==
    /\ \E es \in (SUBSET Events) \ {{}} :
         /\ \A e \in es : /\ event[e] = "consumed" /\ e \notin redacted /\ EventFree(e)
                          /\ \A h \in Hooks : Exists(<<e, h>>) => Settled(<<e, h>>)
         /\ redacted' = redacted \cup es
    /\ UNCHANGED <<event, active, delivery, pass, redeliverer, eraser, crashes, accepted>>

redactAgedResponseSnippets ==
    /\ \E ds \in (SUBSET Deliveries) \ {{}} :
         /\ \A d \in ds : Exists(d) /\ delivery[d].snippet /\ RowFree(d)
         /\ delivery' = [d \in Deliveries |->
                            IF d \in ds THEN [delivery[d] EXCEPT !.snippet = FALSE] ELSE delivery[d]]
    /\ UNCHANGED <<event, redacted, active, pass, redeliverer, eraser, crashes, accepted>>

-----------------------------------------------------------------------------
(* The last statements of eraseSession, for the session e describes.       *)

EraserStep(e, r) ==
    /\ eraser' = [eraser EXCEPT ![e] = r]
    /\ UNCHANGED <<event, active, pass, redeliverer, accepted>>

RowsOf(e) == {d \in Deliveries : d[1] = e /\ Exists(d)}

\* Waits for the deliveries being sent, and leaves a delivered one alone.
cancelUndeliveredDeliveries(e) ==
    /\ eraser[e].pc = "idle" /\ event[e] # "absent"
    /\ LET cancelled == {d \in RowsOf(e) : ~delivery[d].delivered /\ ~delivery[d].cancelled}
       IN /\ \A d \in cancelled : ~SentByAPass(d)
          /\ EraserStep(e, [pc |-> "cancelled", cancelled |-> cancelled, scrubbed |-> {}])
    /\ UNCHANGED <<redacted, delivery, crashes>>

\* Fault: only a delivered row is thought to have a snippet.
redactDeliveredSnippets(e) ==
    /\ eraser[e].pc = "cancelled"
    /\ LET scrubbed == {d \in RowsOf(e) : delivery[d].snippet /\ delivery[d].delivered}
       IN /\ \A d \in scrubbed : ~SentByAPass(d)
          /\ EraserStep(e, [eraser[e] EXCEPT !.pc = "scrubbed", !.scrubbed = scrubbed])
    /\ UNCHANGED <<redacted, delivery, crashes>>

redactDeliveryResponseSnippets(e) ==
    /\ eraser[e].pc = "cancelled"
    /\ LET scrubbed == {d \in RowsOf(e) : delivery[d].snippet}
       IN /\ \A d \in scrubbed : ~SentByAPass(d)
          /\ EraserStep(e, [eraser[e] EXCEPT !.pc = "scrubbed", !.scrubbed = scrubbed])
    /\ UNCHANGED <<redacted, delivery, crashes>>

\* Waits for a pass that is fanning the event out.
redactOutboxPayloads(e) ==
    /\ eraser[e].pc = "scrubbed"
    /\ ~FannedOutByAPass(e)
    /\ EraserStep(e, [eraser[e] EXCEPT !.pc = "redacted"])
    /\ UNCHANGED <<redacted, delivery, crashes>>

\* The tombstone is written and the transaction commits.
CommitErase(e) ==
    /\ eraser[e].pc = "redacted"
    /\ redacted' = redacted \cup {e}
    /\ delivery' = [d \in Deliveries |->
           IF d \in eraser[e].cancelled \cup eraser[e].scrubbed
           THEN [delivery[d] EXCEPT !.cancelled = @ \/ d \in eraser[e].cancelled,
                                    !.snippet = @ /\ d \notin eraser[e].scrubbed]
           ELSE delivery[d]]
    /\ EraserStep(e, [IdleEraser EXCEPT !.pc = "done"])
    /\ UNCHANGED crashes

FailErase(e) ==
    /\ eraser[e].pc \in {"cancelled", "scrubbed", "redacted"}
    /\ crashes < MaxCrashes
    /\ crashes' = crashes + 1
    /\ EraserStep(e, IdleEraser)
    /\ UNCHANGED <<redacted, delivery>>

-----------------------------------------------------------------------------
PassAction(p) ==
    \/ claimDue(p) \/ CommitFanOut(p) \/ deliverOne(p)
    \/ markDeliveryDelivered(p) \/ recordDeliveryFailure(p) \/ EndPass(p)
    \/ \E e \in Events : fanOutEvent(p, e)

EraseAction(e) ==
    \/ redactDeliveryResponseSnippets(e) \/ redactOutboxPayloads(e) \/ CommitErase(e)

Next ==
    \/ \E e \in Events : enqueue(e)
    \/ \E h \in Toggled : SetActive(h)
    \/ \E d \in Deliveries : BackoffElapses(d)
    \/ \E p \in Passes :
         \/ PassAction(p)
         \/ \E d \in Deliveries : claimDueDeliveries(p, d)
         \/ CrashPass(p)
    \/ \E r \in Redeliverers : redeliveryRefusalFor(r) \/ resetDeliveryForRedelivery(r)
    \/ redactAgedOutboxPayloads
    \/ redactAgedResponseSnippets
    \/ \E e \in Events : cancelUndeliveredDeliveries(e) \/ EraseAction(e) \/ FailErase(e)

Spec == Init /\ [][Next]_vars

\* The scheduler starts a pass again whatever became of the last one; a POST
\* ends by its timeout; a transaction that has begun ends; time passes.  A due
\* delivery is claimed in the end, since claims go by next_attempt_at and every
\* failure moves a row behind the others.
Fairness ==
    /\ \A p \in Passes : WF_vars(PassAction(p))
    /\ \A d \in Deliveries : WF_vars(BackoffElapses(d))
    /\ \A d \in Deliveries : SF_vars(\E p \in Passes : claimDueDeliveries(p, d))
    /\ \A e \in Events : WF_vars(EraseAction(e))

FairSpec == Spec /\ Fairness
-----------------------------------------------------------------------------
(* Properties.                                                             *)

PassRec ==
    [pc : {"idle", "fanning", "delivering", "sending", "answered"}, events : SUBSET Events,
     todo : SUBSET Events, rows : SUBSET Deliveries, left : 0..Batch,
     sending : Deliveries \cup {None}, result : {"none", "ok", "refused", "timeout", "unsent"}]
RedelivererRec == [pc : {"idle", "checked", "done"}, target : Deliveries \cup {None}]
EraserRec == [pc : {"idle", "cancelled", "scrubbed", "redacted", "done"},
              cancelled : SUBSET Deliveries, scrubbed : SUBSET Deliveries]

\* Type invariant.
TypeOK ==
    /\ event \in [Events -> {"absent", "queued", "consumed"}]
    /\ redacted \in SUBSET Events
    /\ active \in SUBSET Hooks
    /\ delivery \in [Deliveries -> Delivery \cup {None}]
    /\ pass \in [Passes -> PassRec]
    /\ redeliverer \in [Redeliverers -> RedelivererRec]
    /\ eraser \in [Events -> EraserRec]
    /\ crashes \in 0..MaxCrashes
    /\ accepted \in [Deliveries -> Nat]

\* A delivered row means that its endpoint accepted the event, and that it
\* accepted it once since the delivery was last requeued, unless QCMS never
\* learned of an acceptance: however passes overlap, crash and race with
\* redeliveries, a copy is sent again only when an outcome was lost.
AcceptedOnce ==
    \A d \in Deliveries :
        accepted[d] = IF \/ Exists(d) /\ delivery[d].delivered
                         \/ \E p \in Passes : /\ pass[p].sending = d
                                              /\ pass[p].result = "ok"
                      THEN 1 ELSE 0

\* A delivery is dead-lettered exactly when it has used up its attempts, and a
\* redelivery gives it all of them back.
DeadAfterItsAttempts ==
    \A d \in Deliveries : Exists(d) => (delivery[d].dead <=> delivery[d].attempts = MaxAttempts)

\* Once an erasure has cancelled a delivery, nobody is sending it, it is never
\* delivered and it keeps nothing an endpoint answered.
CancelledStaysSilent ==
    \A d \in Deliveries : Exists(d) /\ delivery[d].cancelled =>
        ~delivery[d].delivered /\ ~delivery[d].snippet /\ ~SentByAPass(d)

\* Fan-out is all or nothing: an event still in the queue has no delivery, and a
\* consumed one has a delivery for every webhook that was active throughout.
NoDeliveryLost ==
    \A e \in Events :
        /\ event[e] # "consumed" => \A h \in Hooks : ~Exists(<<e, h>>)
        /\ event[e] = "consumed" => \A h \in Hooks \ Toggled : Exists(<<e, h>>)

\* An event whose answers are gone gets no delivery any more.
NeverFannedOut ==
    \A d \in Deliveries : d[1] \in redacted /\ ~Exists(d) => delivery'[d] = None
RedactedNeverFannedOut == [][NeverFannedOut]_vars

\* Every event leaves the queue, unless an erasure reaches it first.
EventsAreConsumed ==
    \A e \in Events : event[e] = "queued" ~> event[e] = "consumed" \/ e \in redacted

\* No delivery is pending for ever: it is delivered, dead-lettered or cancelled,
\* unless its event's answers are gone (see RedactedMeansSettled).
DeliveriesSettle ==
    \A d \in Deliveries : Exists(d) /\ ~Settled(d) ~> Settled(d) \/ d[1] \in redacted

\* One webhook failing never stalls another: an endpoint that accepts what it is
\* sent gets every event fanned out to it.
HealthyGetTheirs ==
    \A d \in Events \X Healthy :
        Exists(d) ~> \/ Exists(d) /\ (delivery[d].delivered \/ delivery[d].cancelled)
                     \/ d[1] \in redacted

\* A redacted event has no delivery left to send: one that is pending would stay
\* so for ever.
RedactedMeansSettled ==
    \A d \in Deliveries : d[1] \in redacted /\ Exists(d) => Settled(d)

\* What a row has come to, and what it has used up on the way.
StageOf(row) ==
    IF row = None THEN "none"
    ELSE IF row.cancelled THEN "cancelled"
    ELSE IF row.delivered THEN "delivered"
    ELSE IF row.dead THEN "dead"
    ELSE "pending"
FailuresOf(row) == IF StageOf(row) = "pending" THEN row.attempts ELSE 0

Contract == INSTANCE DeliveryContract WITH
    Steady <- Hooks \ Toggled,
    fannedOut <- {e \in Events : event[e] = "consumed"},
    stage <- [d \in Deliveries |-> StageOf(delivery[d])],
    failures <- [d \in Deliveries |-> FailuresOf(delivery[d])]

\* Whoever races and crashes, an event is fanned out once and completely, and
\* each delivery goes through the stages of the contract and no others: it is
\* never revived but by a redelivery, never given up early or late, and after
\* a cancellation it stays where it is.
ImplementsDelivery == Contract!Spec
=============================================================================
