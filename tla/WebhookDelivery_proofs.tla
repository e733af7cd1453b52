----------------------- MODULE WebhookDelivery_proofs -----------------------
(***************************************************************************)
(* The safety of delivery, for any number of passes, events, webhooks,     *)
(* attempts and crashes.  Everything rests on who holds which row: a pass  *)
(* holds the events it fans out and the delivery it sends, an erasure the  *)
(* deliveries it cancels or scrubs and, at its end, the event.             *)
(***************************************************************************)
EXTENDS WebhookDelivery, TLAPS

-----------------------------------------------------------------------------
(* The inductive invariant.                                                *)

\* Only webhooks an administrator switches are ever inactive.
OthersStayActive == Hooks \ Toggled \subseteq active

\* What a pass's record says about itself: it sends one delivery of its batch
\* at a time, and a fan-out that is done with an event has a row for every
\* webhook that is never switched.
PassLocals ==
    \A p \in Passes :
        /\ pass[p].pc \in {"sending", "answered"} <=> pass[p].sending # None
        /\ pass[p].pc \in {"sending", "answered"} => pass[p].left > 0
        /\ pass[p].pc # "answered" => pass[p].result = "none"
        /\ pass[p].pc # "fanning" => pass[p].events = {}
        /\ pass[p].todo \subseteq pass[p].events
        /\ \A d \in pass[p].rows : d[1] \in pass[p].events
        /\ \A e \in pass[p].events \ pass[p].todo, h \in Hooks \ Toggled :
               <<e, h>> \in pass[p].rows

\* An event being fanned out is queued and keeps its answers, and no other pass
\* and no erasure about to commit has it.
EventsHeld ==
    \A p \in Passes, e \in Events : e \in pass[p].events =>
        /\ event[e] = "queued"
        /\ e \notin redacted
        /\ eraser[e].pc # "redacted"
        /\ \A q \in Passes : e \in pass[q].events => q = p

\* A delivery being sent is pending, and no other pass and no erasure has it.
DeliveriesHeld ==
    \A p \in Passes, d \in Deliveries : pass[p].sending = d =>
        /\ Exists(d) /\ ~Settled(d)
        /\ ~LockedByErasure(d)
        /\ \A q \in Passes : pass[q].sending = d => q = p

\* An erasure holds undelivered deliveries of its own event, and by the time it
\* has scrubbed, every snippet among them.
ErasureHolds ==
    \A e \in Events :
        /\ eraser[e].pc \in {"idle", "done"} =>
               eraser[e].cancelled = {} /\ eraser[e].scrubbed = {}
        /\ \A d \in eraser[e].scrubbed : d[1] = e /\ Exists(d)
        /\ \A d \in eraser[e].cancelled :
               /\ d[1] = e /\ Exists(d)
               /\ ~delivery[d].delivered
               /\ eraser[e].pc # "cancelled" /\ delivery[d].snippet =>
                      d \in eraser[e].scrubbed

\* What a redelivery has checked exists.
CheckedExists ==
    \A r \in Redeliverers : redeliverer[r].pc = "checked" =>
        redeliverer[r].target \in Deliveries /\ Exists(redeliverer[r].target)

DeliveryInv ==
    /\ TypeOK
    /\ OthersStayActive /\ PassLocals
    /\ EventsHeld /\ DeliveriesHeld /\ ErasureHolds /\ CheckedExists
    /\ AcceptedOnce /\ DeadAfterItsAttempts /\ CancelledStaysSilent /\ NoDeliveryLost

\* The initial state satisfies the invariant.
LEMMA DeliveryInvInit == Init => DeliveryInv
<1> SUFFICES ASSUME Init PROVE DeliveryInv
  OBVIOUS
<1>1. /\ \A p \in Passes : pass[p] = IdlePass
      /\ \A r \in Redeliverers : redeliverer[r] = IdleRedeliverer
      /\ \A e \in Events : eraser[e] = IdleEraser
      /\ \A d \in Deliveries : ~Exists(d) /\ accepted[d] = 0
  BY DEF Init, Exists
<1>2. TypeOK
  <2>1. IdlePass \in PassRec
    BY LimitAssumption DEF IdlePass, PassRec
  <2>2. IdleRedeliverer \in RedelivererRec /\ IdleEraser \in EraserRec
    BY DEF IdleRedeliverer, RedelivererRec, IdleEraser, EraserRec
  <2>3. crashes \in 0..MaxCrashes
    BY LimitAssumption DEF Init
  <2>4. QED
    BY <2>1, <2>2, <2>3 DEF Init, TypeOK
<1>3. OthersStayActive
  BY DEF Init, OthersStayActive
<1>4. PassLocals
  BY <1>1 DEF PassLocals, IdlePass
<1>5. EventsHeld /\ DeliveriesHeld
  BY <1>1, NoneAssumption DEF EventsHeld, DeliveriesHeld, IdlePass
<1>6. ErasureHolds /\ CheckedExists
  BY <1>1 DEF ErasureHolds, CheckedExists, IdleEraser, IdleRedeliverer
<1>7. AcceptedOnce
  BY <1>1 DEF AcceptedOnce, IdlePass
<1>8. DeadAfterItsAttempts /\ CancelledStaysSilent /\ NoDeliveryLost
  <2>1. \A e \in Events, h \in Hooks : ~Exists(<<e, h>>)
    BY <1>1 DEF Deliveries
  <2>2. QED
    BY <1>1, <2>1 DEF Init, DeadAfterItsAttempts, CancelledStaysSilent, NoDeliveryLost
<1>9. QED
  BY <1>2, <1>3, <1>4, <1>5, <1>6, <1>7, <1>8 DEF DeliveryInv

-----------------------------------------------------------------------------
(* Passes that change nothing in the database.                             *)

\* A pass's step, pass by pass.
LEMMA PassStepFacts ==
    ASSUME DeliveryInv, NEW p \in Passes, NEW r \in PassRec, PassStep(p, r)
    PROVE  /\ pass' \in [Passes -> PassRec]
           /\ \A q \in Passes : pass'[q] = IF q = p THEN r ELSE pass[q]
           /\ UNCHANGED <<redacted, active, redeliverer, eraser>>
BY DEF DeliveryInv, TypeOK, PassStep

\* What the record r of a pass p may say, given the other passes: the same as
\* the invariant says of every pass.
FitsIn(p, r) ==
    /\ r.pc \in {"sending", "answered"} <=> r.sending # None
    /\ r.pc \in {"sending", "answered"} => r.left > 0
    /\ r.pc # "answered" => r.result = "none"
    /\ r.pc # "fanning" => r.events = {}
    /\ r.todo \subseteq r.events
    /\ \A d \in r.rows : d[1] \in r.events
    /\ \A e \in r.events \ r.todo, h \in Hooks \ Toggled : <<e, h>> \in r.rows
    /\ \A e \in r.events :
         /\ event[e] = "queued" /\ e \notin redacted /\ eraser[e].pc # "redacted"
         /\ \A q \in Passes : e \in pass[q].events => q = p
    /\ \A d \in Deliveries : r.sending = d =>
         /\ Exists(d) /\ ~Settled(d) /\ ~LockedByErasure(d)
         /\ \A q \in Passes : pass[q].sending = d => q = p

\* A pass that only moves on in its own record keeps the invariant, if the
\* record fits in and no outcome is gained or lost.
LEMMA PassMoves ==
    ASSUME DeliveryInv, NEW p \in Passes, NEW r \in PassRec, PassStep(p, r),
           UNCHANGED <<event, delivery, crashes, accepted>>,
           FitsIn(p, r), pass[p].result = "none", r.result = "none"
    PROVE  DeliveryInv'
<1>1. /\ pass' \in [Passes -> PassRec]
      /\ \A q \in Passes : pass'[q] = IF q = p THEN r ELSE pass[q]
      /\ UNCHANGED <<redacted, active, redeliverer, eraser>>
  BY PassStepFacts
<1>2. \A d : /\ Exists(d)' <=> Exists(d)
             /\ Settled(d)' <=> Settled(d)
             /\ LockedByErasure(d)' <=> LockedByErasure(d)
  BY <1>1 DEF Exists, Settled, LockedByErasure
<1>3. TypeOK'
  BY <1>1 DEF DeliveryInv, TypeOK
<1>4. OthersStayActive'
  BY <1>1 DEF DeliveryInv, OthersStayActive
<1>5. PassLocals'
  BY <1>1 DEF DeliveryInv, PassLocals, FitsIn
<1>6. EventsHeld'
  <2> SUFFICES ASSUME NEW q \in Passes, NEW e \in Events, e \in pass'[q].events
               PROVE  /\ event'[e] = "queued"
                      /\ e \notin redacted'
                      /\ eraser'[e].pc # "redacted"
                      /\ \A q2 \in Passes : e \in pass'[q2].events => q2 = q
    BY DEF EventsHeld
  <2>1. CASE q = p
    BY <1>1, <2>1 DEF FitsIn
  <2>2. CASE q # p
    BY <1>1, <2>2 DEF DeliveryInv, EventsHeld, FitsIn
  <2>3. QED
    BY <2>1, <2>2
<1>7. DeliveriesHeld'
  <2> SUFFICES ASSUME NEW q \in Passes, NEW d \in Deliveries, pass'[q].sending = d
               PROVE  /\ Exists(d)' /\ ~Settled(d)' /\ ~LockedByErasure(d)'
                      /\ \A q2 \in Passes : pass'[q2].sending = d => q2 = q
    BY DEF DeliveriesHeld
  <2>1. CASE q = p
    BY <1>1, <1>2, <2>1 DEF FitsIn
  <2>2. CASE q # p
    BY <1>1, <1>2, <2>2 DEF DeliveryInv, DeliveriesHeld, FitsIn
  <2>3. QED
    BY <2>1, <2>2
<1>8. ErasureHolds' /\ CheckedExists'
  BY <1>1 DEF DeliveryInv, ErasureHolds, CheckedExists, Exists
<1>9. AcceptedOnce'
  <2>1. ASSUME NEW d \in Deliveries
        PROVE  (\E q \in Passes : pass'[q].sending = d /\ pass'[q].result = "ok")
               <=> (\E q \in Passes : pass[q].sending = d /\ pass[q].result = "ok")
    BY <1>1
  <2>2. QED
    BY <1>1, <1>2, <2>1 DEF DeliveryInv, AcceptedOnce
<1>10. CancelledStaysSilent'
  <2>1. \A d \in Deliveries : r.sending = d => ~delivery[d].cancelled
    BY DEF FitsIn, Settled
  <2>2. QED
    BY <1>1, <1>2, <2>1 DEF DeliveryInv, CancelledStaysSilent, SentByAPass
<1>11. DeadAfterItsAttempts' /\ NoDeliveryLost'
  BY <1>2 DEF DeliveryInv, DeadAfterItsAttempts, NoDeliveryLost
<1>12. QED
  BY <1>3, <1>4, <1>5, <1>6, <1>7, <1>8, <1>9, <1>10, <1>11 DEF DeliveryInv
\* Of any pass: its record is well formed, and that of an idle one is empty.
LEMMA PassFacts ==
    ASSUME DeliveryInv, NEW p \in Passes
    PROVE  /\ pass[p] \in PassRec
           /\ IdlePass \in PassRec
           /\ pass[p].pc \in {"idle", "delivering"} =>
                  /\ pass[p].events = {} /\ pass[p].todo = {} /\ pass[p].rows = {}
                  /\ pass[p].sending = None /\ pass[p].result = "none"
<1>1. pass[p] \in PassRec
  BY DEF DeliveryInv, TypeOK
<1>2. IdlePass \in PassRec
  BY LimitAssumption DEF IdlePass, PassRec
<1>3. ASSUME pass[p].pc \in {"idle", "delivering"}
      PROVE  pass[p].events = {} /\ pass[p].sending = None /\ pass[p].result = "none"
  BY <1>3 DEF DeliveryInv, PassLocals
<1>4. ASSUME pass[p].events = {} PROVE pass[p].todo = {} /\ pass[p].rows = {}
  BY <1>4 DEF DeliveryInv, PassLocals
<1>5. QED
  BY <1>1, <1>2, <1>3, <1>4

\* Claiming events keeps the invariant: they are queued, keep their answers, and
\* nobody holds them.
LEMMA ClaimEventsSafe ==
    ASSUME DeliveryInv, NEW p \in Passes, claimDue(p)
    PROVE  DeliveryInv'
<1>1. PICK es \in SUBSET Events :
        /\ \A e \in es : event[e] = "queued" /\ e \notin redacted /\ EventFree(e)
        /\ PassStep(p, [pass[p] EXCEPT !.pc = "fanning", !.events = es, !.todo = es])
  BY DEF claimDue
<1> DEFINE r == [pass[p] EXCEPT !.pc = "fanning", !.events = es, !.todo = es]
<1>2. /\ pass[p] \in PassRec
      /\ pass[p].rows = {} /\ pass[p].sending = None /\ pass[p].result = "none"
  BY PassFacts DEF claimDue
<1>3. /\ r \in PassRec
      /\ r.pc = "fanning" /\ r.events = es /\ r.todo = es
      /\ r.rows = {} /\ r.sending = None /\ r.result = "none"
  BY <1>2 DEF PassRec
<1>4. \A e \in es, q \in Passes : e \notin pass[q].events
  BY <1>1 DEF EventFree, FannedOutByAPass
<1>5. FitsIn(p, r)
  <2> HIDE DEF r
  <2> QED
    BY <1>1, <1>3, <1>4, NoneAssumption DEF FitsIn, EventFree
<1>6. PassStep(p, r) /\ UNCHANGED <<event, delivery, crashes, accepted>>
  BY <1>1 DEF claimDue
<1> HIDE DEF r
<1>7. QED
  BY <1>2, <1>3, <1>5, <1>6, PassMoves

\* Fanning out one event keeps the invariant: the webhooks that are never
\* switched are among the active ones.
LEMMA FanOutSafe ==
    ASSUME DeliveryInv, NEW p \in Passes, NEW e \in Events, fanOutEvent(p, e)
    PROVE  DeliveryInv'
<1> DEFINE r == [pass[p] EXCEPT !.todo = @ \ {e},
                                !.rows = @ \cup {<<e, h>> : h \in active}]
<1>1. /\ pass[p] \in PassRec
      /\ pass[p].pc = "fanning" /\ e \in pass[p].todo
      /\ PassStep(p, r) /\ UNCHANGED <<event, delivery, crashes, accepted>>
  BY PassFacts DEF fanOutEvent
<1>2. /\ {<<e, h>> : h \in active} \subseteq Deliveries
      /\ Hooks \ Toggled \subseteq active
  BY DEF DeliveryInv, TypeOK, OthersStayActive, Deliveries
<1>3. /\ r \in PassRec
      /\ r.pc = "fanning" /\ r.events = pass[p].events /\ r.todo = pass[p].todo \ {e}
      /\ r.rows = pass[p].rows \cup {<<e, h>> : h \in active}
      /\ r.sending = pass[p].sending /\ r.result = pass[p].result
  BY <1>1, <1>2 DEF PassRec
<1>4. pass[p].todo \subseteq Events /\ pass[p].events \subseteq Events
  BY <1>1 DEF PassRec
<1>5. pass[p].sending = None /\ pass[p].result = "none"
  BY <1>1 DEF DeliveryInv, PassLocals
<1> HIDE DEF r
<1>6. FitsIn(p, r)
  <2>1. \A d \in r.rows : d[1] \in r.events
    <3>1. e \in pass[p].events /\ \A d \in pass[p].rows : d[1] \in pass[p].events
      BY <1>1 DEF DeliveryInv, PassLocals
    <3>2. \A h : <<e, h>>[1] = e
      OBVIOUS
    <3>3. QED
      BY <1>3, <3>1, <3>2
  <2>2. \A f \in r.events \ r.todo, h \in Hooks \ Toggled : <<f, h>> \in r.rows
    BY <1>1, <1>2, <1>3 DEF DeliveryInv, PassLocals
  <2>3. \A f \in r.events :
          /\ event[f] = "queued" /\ f \notin redacted /\ eraser[f].pc # "redacted"
          /\ \A q \in Passes : f \in pass[q].events => q = p
    BY <1>3, <1>4 DEF DeliveryInv, EventsHeld
  <2>4. QED
    BY <1>1, <1>3, <1>5, <2>1, <2>2, <2>3, NoneAssumption DEF FitsIn, DeliveryInv, PassLocals
<1>7. QED
  BY <1>1, <1>3, <1>5, <1>6, PassMoves

\* Claiming a delivery keeps the invariant: the row is pending and unlocked.
LEMMA ClaimDeliverySafe ==
    ASSUME DeliveryInv, NEW p \in Passes, NEW d \in Deliveries, claimDueDeliveries(p, d)
    PROVE  DeliveryInv'
<1> DEFINE r == [pass[p] EXCEPT !.pc = "sending", !.sending = d]
<1>1. /\ pass[p] \in PassRec
      /\ pass[p].pc = "delivering" /\ pass[p].left > 0
      /\ PassStep(p, r) /\ UNCHANGED <<event, delivery, crashes, accepted>>
      /\ Exists(d) /\ ~Settled(d) /\ ~SentByAPass(d) /\ ~LockedByErasure(d)
  BY PassFacts DEF claimDueDeliveries, Claimable, RowFree
<1>2. /\ pass[p].events = {} /\ pass[p].todo = {} /\ pass[p].rows = {}
      /\ pass[p].result = "none"
  BY <1>1, PassFacts
<1>3. /\ r \in PassRec
      /\ r.pc = "sending" /\ r.sending = d /\ r.left = pass[p].left
      /\ r.events = {} /\ r.todo = {} /\ r.rows = {} /\ r.result = "none"
  BY <1>1, <1>2 DEF PassRec
<1> HIDE DEF r
<1>4. FitsIn(p, r)
  BY <1>1, <1>3, NoneAssumption DEF FitsIn, SentByAPass
<1>5. QED
  BY <1>1, <1>2, <1>3, <1>4, PassMoves

\* So does ending a pass.
LEMMA EndPassSafe ==
    ASSUME DeliveryInv, NEW p \in Passes, EndPass(p)
    PROVE  DeliveryInv'
<1>1. FitsIn(p, IdlePass)
  BY NoneAssumption DEF FitsIn, IdlePass
<1>2. /\ IdlePass \in PassRec /\ IdlePass.result = "none"
      /\ pass[p].result = "none"
  BY PassFacts DEF EndPass, IdlePass
<1>3. QED
  BY <1>1, <1>2, PassMoves DEF EndPass

-----------------------------------------------------------------------------
(* Passes that gain, lose or record an outcome.                            *)

\* What holds after any step of a pass that leaves the events and the other
\* actors alone, and ends or keeps what the pass holds: the part of the
\* invariant about who holds what in the pass table.
LEMMA PassReleases ==
    ASSUME DeliveryInv, NEW p \in Passes, NEW r \in PassRec, PassStep(p, r),
           UNCHANGED event,
           FitsIn(p, r),
           \A d \in Deliveries : Exists(d)' <=> Exists(d),
           \A d \in Deliveries : pass[p].sending # d => (Settled(d)' <=> Settled(d)),
           r.sending # None => UNCHANGED delivery
    PROVE  /\ pass' \in [Passes -> PassRec]
           /\ OthersStayActive' /\ PassLocals' /\ EventsHeld' /\ DeliveriesHeld'
           /\ CheckedExists' /\ NoDeliveryLost'
<1>1. /\ pass' \in [Passes -> PassRec]
      /\ \A q \in Passes : pass'[q] = IF q = p THEN r ELSE pass[q]
      /\ UNCHANGED <<redacted, active, redeliverer, eraser>>
  BY PassStepFacts
<1>2. \A d : LockedByErasure(d)' <=> LockedByErasure(d)
  BY <1>1 DEF LockedByErasure
<1>3. OthersStayActive'
  BY <1>1 DEF DeliveryInv, OthersStayActive
<1>4. PassLocals'
  BY <1>1 DEF DeliveryInv, PassLocals, FitsIn
<1>5. EventsHeld'
  <2> SUFFICES ASSUME NEW q \in Passes, NEW e \in Events, e \in pass'[q].events
               PROVE  /\ event'[e] = "queued"
                      /\ e \notin redacted'
                      /\ eraser'[e].pc # "redacted"
                      /\ \A q2 \in Passes : e \in pass'[q2].events => q2 = q
    BY DEF EventsHeld
  <2>1. CASE q = p
    BY <1>1, <2>1 DEF FitsIn
  <2>2. CASE q # p
    BY <1>1, <2>2 DEF DeliveryInv, EventsHeld, FitsIn
  <2>3. QED
    BY <2>1, <2>2
<1>6. DeliveriesHeld'
  <2> SUFFICES ASSUME NEW q \in Passes, NEW d \in Deliveries, pass'[q].sending = d
               PROVE  /\ Exists(d)' /\ ~Settled(d)' /\ ~LockedByErasure(d)'
                      /\ \A q2 \in Passes : pass'[q2].sending = d => q2 = q
    BY DEF DeliveriesHeld
  <2>1. CASE q = p
    <3>1. UNCHANGED delivery /\ r.sending = d
      BY <1>1, <2>1, NoneAssumption
    <3>2. Exists(d) /\ ~Settled(d) /\ ~LockedByErasure(d)
      BY <3>1 DEF FitsIn
    <3>3. Exists(d)' /\ ~Settled(d)'
      BY <3>1, <3>2 DEF Exists, Settled
    <3>4. QED
      BY <1>1, <1>2, <2>1, <3>1, <3>2, <3>3 DEF FitsIn
  <2>2. CASE q # p
    <3>1. pass[q].sending = d
      BY <1>1, <2>2
    <3>2. pass[p].sending # d /\ Exists(d) /\ ~Settled(d) /\ ~LockedByErasure(d)
      BY <2>2, <3>1 DEF DeliveryInv, DeliveriesHeld
    <3>3. r.sending # d
      BY <2>2, <3>1 DEF FitsIn
    <3>4. QED
      BY <1>1, <1>2, <2>2, <3>1, <3>2, <3>3 DEF DeliveryInv, DeliveriesHeld
  <2>3. QED
    BY <2>1, <2>2
<1>7. CheckedExists'
  BY <1>1 DEF DeliveryInv, CheckedExists
<1>8. NoDeliveryLost'
  <2>1. \A e \in Events, h \in Hooks : Exists(<<e, h>>)' <=> Exists(<<e, h>>)
    BY DEF Deliveries
  <2>2. QED
    BY <2>1 DEF DeliveryInv, NoDeliveryLost
<1>9. QED
  BY <1>1, <1>3, <1>4, <1>5, <1>6, <1>7, <1>8

\* The endpoint's answer: if it accepted, that is its one acceptance.
LEMMA PostSafe ==
    ASSUME DeliveryInv, NEW p \in Passes, deliverOne(p)
    PROVE  DeliveryInv'
<1>1. PICK result \in {"ok", "refused", "timeout", "unsent"} :
        /\ PassStep(p, [pass[p] EXCEPT !.pc = "answered", !.result = result])
        /\ accepted' = IF result = "ok"
                       THEN [accepted EXCEPT ![pass[p].sending] = @ + 1] ELSE accepted
  BY DEF deliverOne, Results
<1> DEFINE r == [pass[p] EXCEPT !.pc = "answered", !.result = result]
           d == pass[p].sending
<1>2. /\ pass[p] \in PassRec /\ pass[p].pc = "sending"
      /\ UNCHANGED <<event, delivery, crashes>>
  BY PassFacts DEF deliverOne
<1>3. /\ d \in Deliveries
      /\ pass[p].left > 0 /\ pass[p].result = "none" /\ pass[p].events = {}
      /\ pass[p].todo = {} /\ pass[p].rows = {}
  BY <1>2 DEF DeliveryInv, PassLocals, PassRec
<1>4. /\ Exists(d) /\ ~Settled(d) /\ ~LockedByErasure(d)
      /\ \A q \in Passes : pass[q].sending = d => q = p
  BY <1>3 DEF DeliveryInv, DeliveriesHeld
<1>5. /\ r \in PassRec
      /\ r.pc = "answered" /\ r.result = result /\ r.sending = d /\ r.left = pass[p].left
      /\ r.events = {} /\ r.todo = {} /\ r.rows = {}
  BY <1>2, <1>3 DEF PassRec
<1> HIDE DEF r
<1>6. FitsIn(p, r)
  BY <1>3, <1>4, <1>5, NoneAssumption DEF FitsIn
<1>7. PassStep(p, r)
  BY <1>1 DEF r
<1>8. /\ pass' \in [Passes -> PassRec]
      /\ \A q \in Passes : pass'[q] = IF q = p THEN r ELSE pass[q]
      /\ UNCHANGED <<redacted, active, redeliverer, eraser>>
  BY <1>5, <1>7, PassStepFacts
<1>9. \A x : (Exists(x)' <=> Exists(x)) /\ (Settled(x)' <=> Settled(x))
  BY <1>2 DEF Exists, Settled
<1>10. /\ OthersStayActive' /\ PassLocals' /\ EventsHeld' /\ DeliveriesHeld'
       /\ CheckedExists' /\ NoDeliveryLost'
  BY <1>2, <1>5, <1>6, <1>7, <1>9, PassReleases
<1>11. accepted[d] = 0
  <2>1. ~delivery[d].delivered
    BY <1>4 DEF Settled
  <2>2. \A q \in Passes : ~(pass[q].sending = d /\ pass[q].result = "ok")
    BY <1>3, <1>4
  <2>3. QED
    BY <1>3, <2>1, <2>2 DEF DeliveryInv, AcceptedOnce
<1>12. /\ accepted' \in [Deliveries -> Nat]
       /\ \A x \in Deliveries : accepted'[x] = IF x = d /\ result = "ok" THEN 1 ELSE accepted[x]
  <2>1. accepted \in [Deliveries -> Nat]
    BY DEF DeliveryInv, TypeOK
  <2>2. QED
    BY <1>1, <1>3, <1>11, <2>1
<1>13. TypeOK'
  BY <1>2, <1>8, <1>12 DEF DeliveryInv, TypeOK
<1>14. AcceptedOnce'
  <2>1. ASSUME NEW x \in Deliveries
        PROVE  (\E q \in Passes : pass'[q].sending = x /\ pass'[q].result = "ok")
               <=> \/ x = d /\ result = "ok"
                   \/ \E q \in Passes : pass[q].sending = x /\ pass[q].result = "ok"
    BY <1>3, <1>4, <1>5, <1>8
  <2>2. QED
    BY <1>2, <1>4, <1>9, <1>12, <2>1 DEF DeliveryInv, AcceptedOnce, Settled
<1>15. CancelledStaysSilent'
  BY <1>2, <1>4, <1>5, <1>8, <1>9 DEF DeliveryInv, CancelledStaysSilent, SentByAPass, Settled
<1>16. ErasureHolds' /\ DeadAfterItsAttempts'
  BY <1>2, <1>8, <1>9 DEF DeliveryInv, ErasureHolds, DeadAfterItsAttempts
<1>17. QED
  BY <1>10, <1>13, <1>14, <1>15, <1>16 DEF DeliveryInv
\* Recording an outcome: the row of the delivery being sent is replaced, and the
\* pass moves on to its next delivery.
LEMMA OutcomeSafe ==
    ASSUME DeliveryInv, NEW p \in Passes, NEW row \in Delivery,
           pass[p].pc = "answered",
           delivery' = [delivery EXCEPT ![pass[p].sending] = row],
           PassStep(p, NextDelivery(p)), UNCHANGED <<event, crashes, accepted>>,
           row.delivered <=> pass[p].result = "ok",
           row.dead <=> row.attempts = MaxAttempts,
           ~row.cancelled
    PROVE  DeliveryInv'
<1> DEFINE d == pass[p].sending
           r == NextDelivery(p)
<1>1. pass[p] \in PassRec
  BY PassFacts
<1>2. d \in Deliveries /\ pass[p].left > 0
  BY <1>1 DEF DeliveryInv, PassLocals, PassRec
<1>3. /\ Exists(d) /\ ~Settled(d) /\ ~LockedByErasure(d)
      /\ \A q \in Passes : pass[q].sending = d => q = p
  BY <1>2 DEF DeliveryInv, DeliveriesHeld
<1>4. /\ r \in PassRec
      /\ r.pc = "delivering" /\ r.result = "none" /\ r.sending = None
      /\ r.events = {} /\ r.todo = {} /\ r.rows = {}
  <2>1. pass[p].left - 1 \in 0..Batch
    BY <1>1, <1>2, LimitAssumption DEF PassRec
  <2>2. QED
    BY <2>1 DEF NextDelivery, IdlePass, PassRec
<1> HIDE DEF r
<1>5. FitsIn(p, r)
  BY <1>4, NoneAssumption DEF FitsIn
<1>6. /\ delivery' \in [Deliveries -> Delivery \cup {None}]
      /\ \A x \in Deliveries : delivery'[x] = IF x = d THEN row ELSE delivery[x]
  BY <1>2 DEF DeliveryInv, TypeOK
<1>7. row # None
  BY NoneAssumption
<1>8. /\ \A x \in Deliveries : Exists(x)' <=> Exists(x)
      /\ \A x \in Deliveries : x # d => (Settled(x)' <=> Settled(x))
  BY <1>3, <1>6, <1>7 DEF Exists, Settled
<1>9. PassStep(p, r)
  BY DEF r
<1>10. /\ pass' \in [Passes -> PassRec]
       /\ \A q \in Passes : pass'[q] = IF q = p THEN r ELSE pass[q]
       /\ UNCHANGED <<redacted, active, redeliverer, eraser>>
  BY <1>4, <1>9, PassStepFacts
<1>11. /\ OthersStayActive' /\ PassLocals' /\ EventsHeld' /\ DeliveriesHeld'
       /\ CheckedExists' /\ NoDeliveryLost'
  BY <1>4, <1>5, <1>8, <1>9, PassReleases
<1>12. TypeOK'
  BY <1>6, <1>10 DEF DeliveryInv, TypeOK
<1>13. ErasureHolds'
  <2>1. ASSUME NEW e \in Events, NEW x \in eraser[e].cancelled \cup eraser[e].scrubbed
        PROVE  x \in Deliveries /\ x # d /\ delivery'[x] = delivery[x]
    <3>1. eraser[e] \in EraserRec
      BY DEF DeliveryInv, TypeOK
    <3>2. x \in Deliveries /\ x[1] = e
      BY <3>1 DEF DeliveryInv, ErasureHolds, EraserRec
    <3>3. QED
      BY <1>3, <1>6, <3>2 DEF LockedByErasure
  <2>2. QED
    BY <1>8, <1>10, <2>1 DEF DeliveryInv, ErasureHolds
<1>14. AcceptedOnce'
  <2>1. ASSUME NEW x \in Deliveries
        PROVE  accepted'[x] = IF \/ Exists(x)' /\ delivery'[x].delivered
                                 \/ \E q \in Passes : /\ pass'[q].sending = x
                                                      /\ pass'[q].result = "ok"
                              THEN 1 ELSE 0
    <3>1. CASE x = d
      <4>1. ~\E q \in Passes : pass'[q].sending = x
        BY <1>2, <1>3, <1>4, <1>10, <3>1, NoneAssumption
      <4>2. (\E q \in Passes : pass[q].sending = x /\ pass[q].result = "ok")
            <=> pass[p].result = "ok"
        BY <1>3, <3>1
      <4>3. ~delivery[x].delivered
        BY <1>3, <3>1 DEF Settled
      <4>4. QED
        BY <1>2, <1>3, <1>6, <1>8, <3>1, <4>1, <4>2, <4>3 DEF DeliveryInv, AcceptedOnce
    <3>2. CASE x # d
      <4>1. (\E q \in Passes : pass'[q].sending = x /\ pass'[q].result = "ok")
            <=> (\E q \in Passes : pass[q].sending = x /\ pass[q].result = "ok")
        BY <1>4, <1>10, <3>2
      <4>2. QED
        BY <1>6, <1>8, <3>2, <4>1 DEF DeliveryInv, AcceptedOnce
    <3>3. QED
      BY <3>1, <3>2
  <2>2. QED
    BY <2>1 DEF AcceptedOnce
<1>15. DeadAfterItsAttempts'
  BY <1>6, <1>8 DEF DeliveryInv, DeadAfterItsAttempts
<1>16. CancelledStaysSilent'
  <2>1. \A q \in Passes, x \in Deliveries : pass'[q].sending = x => pass[q].sending = x
    BY <1>4, <1>10, NoneAssumption
  <2>2. QED
    BY <1>6, <1>8, <2>1 DEF DeliveryInv, CancelledStaysSilent, SentByAPass
<1>17. QED
  BY <1>11, <1>12, <1>13, <1>14, <1>15, <1>16 DEF DeliveryInv

\* Of a delivery whose outcome is about to be recorded.
LEMMA SentFacts ==
    ASSUME DeliveryInv, NEW p \in Passes, pass[p].pc = "answered"
    PROVE  /\ pass[p].sending \in Deliveries
           /\ delivery[pass[p].sending] \in Delivery
           /\ ~delivery[pass[p].sending].delivered
           /\ ~delivery[pass[p].sending].dead
           /\ ~delivery[pass[p].sending].cancelled
           /\ delivery[pass[p].sending].attempts # MaxAttempts
<1>1. pass[p].sending \in Deliveries
  BY DEF DeliveryInv, TypeOK, PassLocals, PassRec
<1>2. Exists(pass[p].sending) /\ ~Settled(pass[p].sending)
  BY <1>1 DEF DeliveryInv, DeliveriesHeld
<1>3. delivery[pass[p].sending] \in Delivery
  BY <1>1, <1>2 DEF DeliveryInv, TypeOK, Exists
<1>4. QED
  BY <1>1, <1>2, <1>3 DEF Settled, DeliveryInv, DeadAfterItsAttempts

\* What recording an acceptance makes of the row.
LEMMA DeliveredRow ==
    ASSUME DeliveryInv, NEW p \in Passes, markDeliveryDelivered(p)
    PROVE  \E row \in Delivery :
             /\ delivery' = [delivery EXCEPT ![pass[p].sending] = row]
             /\ row.delivered /\ ~row.dead /\ ~row.cancelled /\ row.attempts # MaxAttempts
<1> DEFINE old == delivery[pass[p].sending]
           row == [old EXCEPT !.delivered = TRUE, !.snippet = TRUE]
<1>1. pass[p].pc = "answered"
  BY DEF markDeliveryDelivered
<1>2. /\ pass[p].sending \in Deliveries /\ old \in Delivery
      /\ ~old.dead /\ ~old.cancelled /\ old.attempts # MaxAttempts
  BY <1>1, SentFacts
<1>3. /\ row \in Delivery /\ row.delivered /\ ~row.dead /\ ~row.cancelled
      /\ row.attempts # MaxAttempts
  BY <1>2 DEF Delivery
<1>4. delivery' = [delivery EXCEPT ![pass[p].sending] = row]
  BY <1>2 DEF markDeliveryDelivered, DeliveryInv, TypeOK
<1> HIDE DEF row
<1>5. QED
  BY <1>3, <1>4

\* Recording an acceptance settles the row in one step with the count of it.
LEMMA DeliveredSafe ==
    ASSUME DeliveryInv, NEW p \in Passes, markDeliveryDelivered(p)
    PROVE  DeliveryInv'
<1>1. pass[p].pc = "answered" /\ pass[p].result = "ok"
  BY DEF markDeliveryDelivered
<1>2. PICK row \in Delivery :
        /\ delivery' = [delivery EXCEPT ![pass[p].sending] = row]
        /\ row.delivered /\ ~row.dead /\ ~row.cancelled /\ row.attempts # MaxAttempts
  BY DeliveredRow
<1>3. QED
  BY <1>1, <1>2, OutcomeSafe DEF markDeliveryDelivered

\* What recording a failure makes of the row.
LEMMA FailureRow ==
    ASSUME DeliveryInv, NEW p \in Passes, recordDeliveryFailure(p)
    PROVE  \E row \in Delivery :
             /\ delivery' = [delivery EXCEPT ![pass[p].sending] = row]
             /\ ~row.delivered /\ ~row.cancelled
             /\ row.dead <=> row.attempts = MaxAttempts
             /\ row.attempts = delivery[pass[p].sending].attempts + 1
<1> DEFINE old == delivery[pass[p].sending]
           counted == [old EXCEPT !.attempts = @ + 1, !.dead = old.attempts + 1 >= MaxAttempts]
           row == [counted EXCEPT !.due = FALSE,
                                  !.snippet = CASE pass[p].result = "refused" -> TRUE
                                                [] pass[p].result = "timeout" -> FALSE
                                                [] OTHER -> @]
<1>1. /\ pass[p].pc = "answered"
      /\ delivery' = [delivery EXCEPT ![pass[p].sending] = row]
  BY DEF recordDeliveryFailure, RecordFailure
<1>2. /\ old \in Delivery
      /\ ~old.delivered /\ ~old.cancelled /\ old.attempts # MaxAttempts
  BY <1>1, SentFacts
<1>3. /\ counted \in Delivery
      /\ ~counted.delivered /\ ~counted.cancelled
      /\ counted.dead <=> counted.attempts = MaxAttempts
      /\ counted.attempts = old.attempts + 1
  <2> HIDE DEF old
  <2>1. old.attempts \in 0..MaxAttempts /\ old.attempts # MaxAttempts
    BY <1>2 DEF Delivery
  <2>2. /\ old.attempts + 1 \in 0..MaxAttempts
        /\ old.attempts + 1 >= MaxAttempts <=> old.attempts + 1 = MaxAttempts
    BY ONLY <2>1, LimitAssumption
  <2>3. ASSUME NEW n \in 0..MaxAttempts, NEW b \in BOOLEAN
        PROVE  /\ [old EXCEPT !.attempts = n, !.dead = b] \in Delivery
               /\ ~[old EXCEPT !.attempts = n, !.dead = b].delivered
               /\ ~[old EXCEPT !.attempts = n, !.dead = b].cancelled
               /\ [old EXCEPT !.attempts = n, !.dead = b].attempts = n
               /\ [old EXCEPT !.attempts = n, !.dead = b].dead = b
    BY <1>2 DEF Delivery
  <2>4. (old.attempts + 1 >= MaxAttempts) \in BOOLEAN
    OBVIOUS
  <2>5. /\ counted \in Delivery
        /\ ~counted.delivered /\ ~counted.cancelled
        /\ counted.attempts = old.attempts + 1
        /\ counted.dead = (old.attempts + 1 >= MaxAttempts)
    BY <2>2, <2>3, <2>4, Zenon
  <2>6. QED
    BY <2>2, <2>5, Zenon
<1>4. /\ row \in Delivery
      /\ ~row.delivered /\ ~row.cancelled
      /\ row.dead <=> row.attempts = MaxAttempts
      /\ row.attempts = old.attempts + 1
  <2> HIDE DEF counted
  <2>1. (CASE pass[p].result = "refused" -> TRUE
           [] pass[p].result = "timeout" -> FALSE
           [] OTHER -> counted.snippet) \in BOOLEAN
    BY <1>3 DEF Delivery
  <2>2. QED
    BY <1>3, <2>1 DEF Delivery
<1> HIDE DEF row
<1>5. QED
  BY <1>1, <1>4

\* Recording a failure counts it, dead-letters the row at the maximum and releases it.
LEMMA FailureSafe ==
    ASSUME DeliveryInv, NEW p \in Passes, recordDeliveryFailure(p)
    PROVE  DeliveryInv'
<1>1. /\ pass[p].pc = "answered" /\ pass[p].result # "ok"
      /\ PassStep(p, NextDelivery(p)) /\ UNCHANGED <<event, crashes, accepted>>
  BY DEF recordDeliveryFailure, RecordFailure
<1>2. PICK row \in Delivery :
        /\ delivery' = [delivery EXCEPT ![pass[p].sending] = row]
        /\ ~row.delivered /\ ~row.cancelled
        /\ row.dead <=> row.attempts = MaxAttempts
  BY FailureRow
<1>3. QED
  BY <1>1, <1>2, OutcomeSafe

\* A new row is a delivery with nothing behind it.
LEMMA FreshRowFacts ==
    /\ FreshRow \in Delivery /\ FreshRow # None
    /\ FreshRow.attempts # MaxAttempts /\ ~FreshRow.dead
    /\ ~FreshRow.delivered /\ ~FreshRow.cancelled /\ ~FreshRow.snippet
<1>1. FreshRow \in Delivery
  BY LimitAssumption DEF FreshRow, Delivery
<1>2. QED
  BY <1>1, LimitAssumption, NoneAssumption DEF FreshRow

\* The fan-out commits: its events are consumed and have their rows, and since
\* it held them, nobody else's do.
LEMMA CommitFanOutSafe ==
    ASSUME DeliveryInv, NEW p \in Passes, CommitFanOut(p)
    PROVE  /\ DeliveryInv'
           /\ NeverFannedOut
<1> DEFINE r == [IdlePass EXCEPT !.pc = "delivering", !.left = Batch]
<1>1. /\ pass[p] \in PassRec
      /\ pass[p].pc = "fanning" /\ pass[p].todo = {}
      /\ PassStep(p, r) /\ UNCHANGED <<crashes, accepted>>
  BY PassFacts DEF CommitFanOut
<1>2. /\ \A x \in Events : event'[x] = IF x \in pass[p].events THEN "consumed" ELSE event[x]
      /\ \A x \in Deliveries : delivery'[x] = IF x \in pass[p].rows /\ ~Exists(x)
                                              THEN FreshRow ELSE delivery[x]
  BY DEF CommitFanOut, Exists
<1>3. FreshRow \in Delivery /\ FreshRow # None
  BY FreshRowFacts
<1>4. /\ r \in PassRec
      /\ r.pc = "delivering" /\ r.result = "none" /\ r.sending = None
      /\ r.events = {} /\ r.todo = {} /\ r.rows = {}
  <2>1. Batch \in 0..Batch
    BY LimitAssumption
  <2>2. QED
    BY <2>1 DEF IdlePass, PassRec
<1> HIDE DEF r
<1>5. /\ pass' \in [Passes -> PassRec]
      /\ \A q \in Passes : pass'[q] = IF q = p THEN r ELSE pass[q]
      /\ UNCHANGED <<redacted, active, redeliverer, eraser>>
  BY <1>1, <1>4, PassStepFacts
<1>6. /\ pass[p].sending = None /\ pass[p].result = "none"
      /\ \A x \in pass[p].rows : x[1] \in pass[p].events
      /\ \A e \in pass[p].events, h \in Hooks \ Toggled : <<e, h>> \in pass[p].rows
      /\ pass[p].events \subseteq Events /\ pass[p].rows \subseteq Deliveries
  BY <1>1 DEF DeliveryInv, PassLocals, PassRec
<1>7. \A e \in pass[p].events :
        /\ event[e] = "queued" /\ e \notin redacted
        /\ \A q \in Passes : e \in pass[q].events => q = p
        /\ \A h \in Hooks : ~Exists(<<e, h>>)
  BY <1>6 DEF DeliveryInv, EventsHeld, NoDeliveryLost
<1>8. \A x \in Deliveries : /\ Exists(x) => delivery'[x] = delivery[x] /\ Exists(x)'
                            /\ Exists(x)' => Exists(x) \/ x \in pass[p].rows
                            /\ ~Exists(x) /\ Exists(x)' => delivery'[x] = FreshRow
                            /\ x \in pass[p].rows => Exists(x)'
  BY <1>2, <1>3 DEF Exists
<1>9. TypeOK'
  <2>1. event' \in [Events -> {"absent", "queued", "consumed"}]
    BY DEF CommitFanOut, DeliveryInv, TypeOK
  <2>2. delivery' \in [Deliveries -> Delivery \cup {None}]
    BY <1>3 DEF CommitFanOut, DeliveryInv, TypeOK
  <2>3. QED
    BY <1>1, <1>5, <2>1, <2>2 DEF DeliveryInv, TypeOK
<1>10. OthersStayActive' /\ PassLocals'
  BY <1>4, <1>5 DEF DeliveryInv, OthersStayActive, PassLocals
<1>11. EventsHeld'
  BY <1>2, <1>4, <1>5, <1>7 DEF DeliveryInv, EventsHeld
<1>12. \A q \in Passes, x \in Deliveries : pass'[q].sending = x <=> pass[q].sending = x
  BY <1>4, <1>5, <1>6, NoneAssumption
<1>13. DeliveriesHeld'
  BY <1>5, <1>8, <1>12 DEF DeliveryInv, DeliveriesHeld, Settled, LockedByErasure
<1>14. ErasureHolds'
  <2>1. ASSUME NEW e \in Events, NEW x \in eraser[e].cancelled \cup eraser[e].scrubbed
        PROVE  x \in Deliveries /\ Exists(x) /\ Exists(x)' /\ delivery'[x] = delivery[x]
    <3>1. eraser[e] \in EraserRec
      BY DEF DeliveryInv, TypeOK
    <3>2. x \in Deliveries /\ Exists(x)
      BY <3>1 DEF DeliveryInv, ErasureHolds, EraserRec
    <3>3. QED
      BY <1>8, <3>2
  <2>2. QED
    BY <1>5, <2>1 DEF DeliveryInv, ErasureHolds
<1>15. CheckedExists'
  BY <1>5, <1>8 DEF DeliveryInv, CheckedExists
<1>16. AcceptedOnce'
  <2>1. ASSUME NEW x \in Deliveries
        PROVE  (\E q \in Passes : pass'[q].sending = x /\ pass'[q].result = "ok")
               <=> (\E q \in Passes : pass[q].sending = x /\ pass[q].result = "ok")
    BY <1>4, <1>5, <1>6
  <2>2. \A x \in Deliveries : Exists(x)' /\ delivery'[x].delivered
                              <=> Exists(x) /\ delivery[x].delivered
    BY <1>8 DEF FreshRow
  <2>3. QED
    BY <1>1, <2>1, <2>2 DEF DeliveryInv, AcceptedOnce
<1>17. DeadAfterItsAttempts'
  BY <1>8, LimitAssumption DEF DeliveryInv, DeadAfterItsAttempts, FreshRow
<1>18. CancelledStaysSilent'
  BY <1>8, <1>12 DEF DeliveryInv, CancelledStaysSilent, FreshRow, SentByAPass
<1>19. NoDeliveryLost'
  <2> SUFFICES ASSUME NEW e \in Events
               PROVE  /\ event'[e] # "consumed" => \A h \in Hooks : ~Exists(<<e, h>>)'
                      /\ event'[e] = "consumed" =>
                             \A h \in Hooks \ Toggled : Exists(<<e, h>>)'
    BY DEF NoDeliveryLost
  <2>1. \A h \in Hooks : <<e, h>> \in Deliveries /\ <<e, h>>[1] = e
    BY DEF Deliveries
  <2>2. CASE e \in pass[p].events
    BY <1>2, <1>6, <1>8, <2>1, <2>2
  <2>3. CASE e \notin pass[p].events
    BY <1>2, <1>6, <1>8, <2>1, <2>3 DEF DeliveryInv, NoDeliveryLost
  <2>4. QED
    BY <2>2, <2>3
<1>20. NeverFannedOut
  BY <1>2, <1>6, <1>7 DEF NeverFannedOut, Exists
<1>21. QED
  BY <1>9, <1>10, <1>11, <1>13, <1>14, <1>15, <1>16, <1>17, <1>18, <1>19, <1>20
  DEF DeliveryInv

\* A crash rolls the transaction back, and the acceptance nobody recorded with it.
LEMMA CrashSafe ==
    ASSUME DeliveryInv, NEW p \in Passes, CrashPass(p)
    PROVE  DeliveryInv'
<1>1. /\ PassStep(p, IdlePass) /\ UNCHANGED <<event, delivery>>
      /\ crashes' = crashes + 1 /\ crashes < MaxCrashes
      /\ accepted' = IF pass[p].pc = "answered" /\ pass[p].result = "ok"
                     THEN [accepted EXCEPT ![pass[p].sending] = @ - 1] ELSE accepted
  BY DEF CrashPass
<1>2. IdlePass \in PassRec /\ pass[p] \in PassRec
  BY PassFacts
<1>3. FitsIn(p, IdlePass)
  BY NoneAssumption DEF FitsIn, IdlePass
<1>4. \A x : (Exists(x)' <=> Exists(x)) /\ (Settled(x)' <=> Settled(x))
  BY <1>1 DEF Exists, Settled
<1>5. /\ pass' \in [Passes -> PassRec]
      /\ \A q \in Passes : pass'[q] = IF q = p THEN IdlePass ELSE pass[q]
      /\ UNCHANGED <<redacted, active, redeliverer, eraser>>
  BY <1>1, <1>2, PassStepFacts
<1>6. /\ OthersStayActive' /\ PassLocals' /\ EventsHeld' /\ DeliveriesHeld'
      /\ CheckedExists' /\ NoDeliveryLost'
  BY <1>1, <1>2, <1>3, <1>4, PassReleases
<1>7. crashes' \in 0..MaxCrashes
  BY <1>1, LimitAssumption DEF DeliveryInv, TypeOK
<1>8. IdlePass.sending = None /\ IdlePass.result = "none"
  BY DEF IdlePass
<1>9. accepted' \in [Deliveries -> Nat] /\ AcceptedOnce'
  <2>1. accepted \in [Deliveries -> Nat]
    BY DEF DeliveryInv, TypeOK
  <2>2. CASE pass[p].pc = "answered" /\ pass[p].result = "ok"
    <3> DEFINE d == pass[p].sending
    <3>1. d \in Deliveries /\ Exists(d) /\ ~Settled(d)
      <4>1. d \in Deliveries
        BY <1>2, <2>2 DEF DeliveryInv, PassLocals, PassRec
      <4>2. QED
        BY <4>1 DEF DeliveryInv, DeliveriesHeld
    <3>2. \A q \in Passes : pass[q].sending = d => q = p
      BY <3>1 DEF DeliveryInv, DeliveriesHeld
    <3>3. accepted[d] = 1
      BY <2>2, <3>1 DEF DeliveryInv, AcceptedOnce
    <3>4. \A x \in Deliveries : accepted'[x] = IF x = d THEN 0 ELSE accepted[x]
      BY <1>1, <2>1, <2>2, <3>1, <3>3
    <3>5. accepted' \in [Deliveries -> Nat]
      <4>1. accepted' = [accepted EXCEPT ![d] = accepted[d] - 1]
        BY <1>1, <2>2
      <4>2. accepted[d] - 1 \in Nat
        BY <3>3
      <4>3. QED
        BY <2>1, <4>1, <4>2
    <3>6. ASSUME NEW x \in Deliveries
          PROVE  accepted'[x] = IF \/ Exists(x)' /\ delivery'[x].delivered
                                   \/ \E q \in Passes : /\ pass'[q].sending = x
                                                        /\ pass'[q].result = "ok"
                                THEN 1 ELSE 0
      <4>1. CASE x = d
        <5>1. ~\E q \in Passes : pass'[q].sending = x /\ pass'[q].result = "ok"
          BY <1>5, <1>8, <3>2, <4>1
        <5>2. ~delivery'[x].delivered
          BY <1>1, <3>1, <4>1 DEF Settled
        <5>3. QED
          BY <3>4, <4>1, <5>1, <5>2
      <4>2. CASE x # d
        <5>1. (\E q \in Passes : pass'[q].sending = x /\ pass'[q].result = "ok")
              <=> (\E q \in Passes : pass[q].sending = x /\ pass[q].result = "ok")
          BY <1>5, <1>8, <4>2
        <5>2. QED
          BY <1>1, <1>4, <3>4, <4>2, <5>1 DEF DeliveryInv, AcceptedOnce
      <4>3. QED
        BY <4>1, <4>2
    <3>7. QED
      BY <3>5, <3>6 DEF AcceptedOnce
  <2>3. CASE ~(pass[p].pc = "answered" /\ pass[p].result = "ok")
    <3>1. pass[p].result # "ok"
      BY <2>3 DEF DeliveryInv, PassLocals
    <3>2. ASSUME NEW x \in Deliveries
          PROVE  (\E q \in Passes : pass'[q].sending = x /\ pass'[q].result = "ok")
                 <=> (\E q \in Passes : pass[q].sending = x /\ pass[q].result = "ok")
      BY <1>5, <1>8, <3>1
    <3>3. QED
      BY <1>1, <1>4, <2>1, <2>3, <3>2 DEF DeliveryInv, AcceptedOnce
  <2>4. QED
    BY <2>2, <2>3
<1>10. TypeOK'
  BY <1>1, <1>5, <1>7, <1>9 DEF DeliveryInv, TypeOK
<1>11. CancelledStaysSilent'
  <2>1. \A q \in Passes, x \in Deliveries : pass'[q].sending = x => pass[q].sending = x
    BY <1>5, <1>8, NoneAssumption
  <2>2. QED
    BY <1>1, <1>4, <2>1 DEF DeliveryInv, CancelledStaysSilent, SentByAPass
<1>12. ErasureHolds' /\ DeadAfterItsAttempts'
  BY <1>1, <1>4, <1>5 DEF DeliveryInv, ErasureHolds, DeadAfterItsAttempts
<1>13. QED
  BY <1>6, <1>9, <1>10, <1>11, <1>12 DEF DeliveryInv
-----------------------------------------------------------------------------
(* Redelivery.                                                             *)

\* The check only remembers what it found.
LEMMA CheckSafe ==
    ASSUME DeliveryInv, NEW r \in Redeliverers, redeliveryRefusalFor(r)
    PROVE  DeliveryInv'
<1>1. PICK d \in Deliveries :
        /\ Exists(d)
        /\ RedelivererStep(r, IF delivery[d].cancelled \/ d[1] \in redacted
                              THEN [IdleRedeliverer EXCEPT !.pc = "done"]
                              ELSE [pc |-> "checked", target |-> d])
  BY DEF redeliveryRefusalFor
<1> DEFINE s == IF delivery[d].cancelled \/ d[1] \in redacted
                THEN [IdleRedeliverer EXCEPT !.pc = "done"]
                ELSE [pc |-> "checked", target |-> d]
<1>2. s \in RedelivererRec /\ (s.pc = "checked" => s.target = d)
  BY DEF IdleRedeliverer, RedelivererRec
<1> HIDE DEF s
<1>3. /\ UNCHANGED <<event, redacted, active, delivery, pass, eraser, crashes, accepted>>
      /\ redeliverer' = [redeliverer EXCEPT ![r] = s]
  BY <1>1 DEF redeliveryRefusalFor, RedelivererStep, s
<1>4. TypeOK'
  BY <1>2, <1>3 DEF DeliveryInv, TypeOK
<1>5. CheckedExists'
  BY <1>1, <1>2, <1>3 DEF DeliveryInv, TypeOK, CheckedExists, Exists
<1>6. \A x : /\ Exists(x)' <=> Exists(x)
             /\ Settled(x)' <=> Settled(x)
             /\ LockedByErasure(x)' <=> LockedByErasure(x)
             /\ SentByAPass(x)' <=> SentByAPass(x)
  BY <1>3 DEF Exists, Settled, LockedByErasure, SentByAPass
<1>7. /\ OthersStayActive' /\ PassLocals' /\ EventsHeld' /\ DeliveriesHeld' /\ ErasureHolds'
  BY <1>3, <1>6
  DEF DeliveryInv, OthersStayActive, PassLocals, EventsHeld, DeliveriesHeld, ErasureHolds
<1>8. AcceptedOnce' /\ DeadAfterItsAttempts' /\ CancelledStaysSilent' /\ NoDeliveryLost'
  BY <1>3, <1>6
  DEF DeliveryInv, AcceptedOnce, DeadAfterItsAttempts, CancelledStaysSilent, NoDeliveryLost
<1>9. QED
  BY <1>4, <1>5, <1>7, <1>8 DEF DeliveryInv

\* The reset starts a delivery anew, whatever became of it since the check; a
\* cancelled one stays cancelled.
LEMMA ResetSafe ==
    ASSUME DeliveryInv, NEW r \in Redeliverers, resetDeliveryForRedelivery(r)
    PROVE  DeliveryInv'
<1> DEFINE d == redeliverer[r].target
           row == [FreshRow EXCEPT !.cancelled = delivery[d].cancelled]
           s == [IdleRedeliverer EXCEPT !.pc = "done"]
<1>1. /\ RowFree(d)
      /\ delivery' = [delivery EXCEPT ![d] = row]
      /\ accepted' = [accepted EXCEPT ![d] = 0]
      /\ redeliverer' = [redeliverer EXCEPT ![r] = s]
      /\ UNCHANGED <<event, redacted, active, pass, eraser, crashes>>
      /\ redeliverer[r].pc = "checked"
  BY DEF resetDeliveryForRedelivery, RedelivererStep
<1>2. d \in Deliveries /\ Exists(d)
  BY <1>1 DEF DeliveryInv, CheckedExists
<1>3. delivery[d] \in Delivery
  BY <1>2 DEF DeliveryInv, TypeOK, Exists
<1>4. /\ row \in Delivery /\ row # None
      /\ ~row.delivered /\ ~row.dead /\ ~row.snippet /\ row.attempts # MaxAttempts
      /\ row.cancelled <=> delivery[d].cancelled
  <2>1. delivery[d].cancelled \in BOOLEAN
    BY <1>3 DEF Delivery
  <2>2. row \in Delivery
    BY <2>1, FreshRowFacts DEF Delivery
  <2>3. /\ ~row.delivered /\ ~row.dead /\ ~row.snippet /\ row.attempts # MaxAttempts
        /\ row.cancelled <=> delivery[d].cancelled
    BY FreshRowFacts DEF FreshRow
  <2>4. row # None
    BY <2>2, NoneAssumption
  <2>5. QED
    BY <2>2, <2>3, <2>4
<1>5. s \in RedelivererRec /\ s.pc = "done"
  BY DEF IdleRedeliverer, RedelivererRec
<1> HIDE DEF row, s
<1>6. /\ \A x \in Deliveries : delivery'[x] = IF x = d THEN row ELSE delivery[x]
      /\ \A x \in Deliveries : accepted'[x] = IF x = d THEN 0 ELSE accepted[x]
  BY <1>1 DEF DeliveryInv, TypeOK
<1>7. /\ \A x \in Deliveries : Exists(x)' <=> Exists(x)
      /\ \A x \in Deliveries : x # d => (Settled(x)' <=> Settled(x))
      /\ \A x : LockedByErasure(x)' <=> LockedByErasure(x)
      /\ \A x : SentByAPass(x)' <=> SentByAPass(x)
  BY <1>1, <1>2, <1>4, <1>6 DEF Exists, Settled, LockedByErasure, SentByAPass
<1>8. TypeOK'
  BY <1>1, <1>4, <1>5 DEF DeliveryInv, TypeOK
<1>9. OthersStayActive' /\ PassLocals' /\ EventsHeld'
  BY <1>1 DEF DeliveryInv, OthersStayActive, PassLocals, EventsHeld
<1>10. DeliveriesHeld'
  <2>1. \A q \in Passes : pass[q].sending # d
    BY <1>1 DEF RowFree, SentByAPass
  <2>2. QED
    BY <1>1, <1>7, <2>1 DEF DeliveryInv, DeliveriesHeld
<1>11. ErasureHolds'
  <2>1. ASSUME NEW e \in Events, NEW x \in eraser[e].cancelled \cup eraser[e].scrubbed
        PROVE  x \in Deliveries /\ x # d /\ delivery'[x] = delivery[x]
    <3>1. eraser[e] \in EraserRec
      BY DEF DeliveryInv, TypeOK
    <3>2. x \in Deliveries /\ x[1] = e
      BY <3>1 DEF DeliveryInv, ErasureHolds, EraserRec
    <3>3. QED
      BY <1>1, <1>6, <3>2 DEF RowFree, LockedByErasure
  <2>2. QED
    BY <1>1, <1>7, <2>1 DEF DeliveryInv, ErasureHolds
<1>12. CheckedExists'
  <2>1. \A t \in Redeliverers : redeliverer'[t] = IF t = r THEN s ELSE redeliverer[t]
    BY <1>1 DEF DeliveryInv, TypeOK
  <2>2. QED
    BY <1>5, <1>7, <2>1 DEF DeliveryInv, CheckedExists
<1>13. AcceptedOnce'
  <2>1. \A q \in Passes : pass[q].sending # d
    BY <1>1 DEF RowFree, SentByAPass
  <2>2. QED
    BY <1>1, <1>4, <1>6, <1>7, <2>1 DEF DeliveryInv, AcceptedOnce
<1>14. DeadAfterItsAttempts'
  BY <1>4, <1>6, <1>7 DEF DeliveryInv, DeadAfterItsAttempts
<1>15. CancelledStaysSilent'
  BY <1>1, <1>4, <1>6, <1>7 DEF DeliveryInv, CancelledStaysSilent, RowFree
<1>16. NoDeliveryLost'
  <2>1. \A e \in Events, h \in Hooks : Exists(<<e, h>>)' <=> Exists(<<e, h>>)
    BY <1>7 DEF Deliveries
  <2>2. QED
    BY <1>1, <2>1 DEF DeliveryInv, NoDeliveryLost
<1>17. QED
  BY <1>8, <1>9, <1>10, <1>11, <1>12, <1>13, <1>14, <1>15, <1>16 DEF DeliveryInv

-----------------------------------------------------------------------------
(* Erasure.                                                                *)

\* An erasure's statements before its commit only take locks.
LEMMA ErasureLocks ==
    ASSUME DeliveryInv, NEW e \in Events, NEW r \in EraserRec, EraserStep(e, r),
           UNCHANGED <<redacted, delivery>>, crashes' \in 0..MaxCrashes,
           r.pc \in {"idle", "done"} => r.cancelled = {} /\ r.scrubbed = {},
           \A d \in r.cancelled \cup r.scrubbed :
               d[1] = e /\ Exists(d) /\ ~SentByAPass(d),
           \A d \in r.cancelled :
               /\ ~delivery[d].delivered
               /\ r.pc # "cancelled" /\ delivery[d].snippet => d \in r.scrubbed,
           r.pc = "redacted" => ~FannedOutByAPass(e)
    PROVE  DeliveryInv'
<1>1. /\ UNCHANGED <<event, redacted, active, delivery, pass, redeliverer, accepted>>
      /\ \A f \in Events : eraser'[f] = IF f = e THEN r ELSE eraser[f]
      /\ eraser' \in [Events -> EraserRec]
  BY DEF EraserStep, DeliveryInv, TypeOK
<1>2. \A x : /\ Exists(x)' <=> Exists(x)
             /\ Settled(x)' <=> Settled(x)
             /\ SentByAPass(x)' <=> SentByAPass(x)
  BY <1>1 DEF Exists, Settled, SentByAPass
<1>3. TypeOK'
  BY <1>1 DEF DeliveryInv, TypeOK
<1>4. OthersStayActive' /\ PassLocals' /\ CheckedExists'
  BY <1>1, <1>2 DEF DeliveryInv, OthersStayActive, PassLocals, CheckedExists
<1>5. EventsHeld'
  BY <1>1 DEF DeliveryInv, EventsHeld, FannedOutByAPass
<1>6. DeliveriesHeld'
  <2> SUFFICES ASSUME NEW p \in Passes, NEW d \in Deliveries, pass[p].sending = d
               PROVE  ~LockedByErasure(d)'
    BY <1>1, <1>2 DEF DeliveryInv, DeliveriesHeld
  <2>1. ~LockedByErasure(d) /\ SentByAPass(d) /\ d[1] \in Events
    BY DEF DeliveryInv, DeliveriesHeld, SentByAPass, Deliveries
  <2>2. QED
    BY <1>1, <2>1 DEF LockedByErasure
<1>7. ErasureHolds'
  BY <1>1, <1>2 DEF DeliveryInv, ErasureHolds
<1>8. AcceptedOnce' /\ DeadAfterItsAttempts' /\ CancelledStaysSilent' /\ NoDeliveryLost'
  BY <1>1, <1>2
  DEF DeliveryInv, AcceptedOnce, DeadAfterItsAttempts, CancelledStaysSilent, NoDeliveryLost
<1>9. QED
  BY <1>3, <1>4, <1>5, <1>6, <1>7, <1>8 DEF DeliveryInv
\* Of the rows of an event.
LEMMA RowsOfFacts ==
    ASSUME NEW e \in Events
    PROVE  /\ RowsOf(e) \subseteq Deliveries
           /\ \A d \in RowsOf(e) : d[1] = e /\ Exists(d)
BY DEF RowsOf

\* Cancelling meets no row that is being sent: those are locked by their pass.
LEMMA CancelSafe ==
    ASSUME DeliveryInv, NEW e \in Events, cancelUndeliveredDeliveries(e)
    PROVE  DeliveryInv'
<1> DEFINE cancelled == {d \in RowsOf(e) : ~delivery[d].delivered /\ ~delivery[d].cancelled}
           r == [pc |-> "cancelled", cancelled |-> cancelled, scrubbed |-> {}]
<1>1. /\ \A d \in cancelled : ~SentByAPass(d)
      /\ EraserStep(e, r) /\ UNCHANGED <<redacted, delivery, crashes>>
  BY DEF cancelUndeliveredDeliveries
<1>2. /\ cancelled \subseteq Deliveries
      /\ \A d \in cancelled : d[1] = e /\ Exists(d) /\ ~delivery[d].delivered
  BY RowsOfFacts
<1> HIDE DEF cancelled
<1>3. /\ r \in EraserRec
      /\ r.pc = "cancelled" /\ r.cancelled = cancelled /\ r.scrubbed = {}
  BY <1>2 DEF EraserRec
<1>4. crashes' \in 0..MaxCrashes
  BY <1>1 DEF DeliveryInv, TypeOK
<1> HIDE DEF r
<1>5. QED
  BY <1>1, <1>2, <1>3, <1>4, ErasureLocks

\* Scrubbing snippets changes nothing else of a row.
LEMMA ScrubSafe ==
    ASSUME DeliveryInv, NEW e \in Events, redactDeliveryResponseSnippets(e)
    PROVE  DeliveryInv'
<1> DEFINE scrubbed == {d \in RowsOf(e) : delivery[d].snippet}
           r == [eraser[e] EXCEPT !.pc = "scrubbed", !.scrubbed = scrubbed]
<1>1. /\ eraser[e].pc = "cancelled"
      /\ \A d \in scrubbed : ~SentByAPass(d)
      /\ EraserStep(e, r) /\ UNCHANGED <<redacted, delivery, crashes>>
  BY DEF redactDeliveryResponseSnippets
<1>2. /\ scrubbed \subseteq Deliveries
      /\ \A d \in scrubbed : d[1] = e /\ Exists(d)
      /\ \A d \in Deliveries : d[1] = e /\ Exists(d) /\ delivery[d].snippet => d \in scrubbed
  BY RowsOfFacts DEF RowsOf
<1> HIDE DEF scrubbed
<1>3. eraser[e] \in EraserRec
  BY DEF DeliveryInv, TypeOK
<1>4. \A d \in eraser[e].cancelled :
        d \in Deliveries /\ d[1] = e /\ Exists(d) /\ ~delivery[d].delivered /\ ~SentByAPass(d)
  <2> SUFFICES ASSUME NEW d \in eraser[e].cancelled
               PROVE  /\ d \in Deliveries /\ d[1] = e /\ Exists(d)
                      /\ ~delivery[d].delivered /\ ~SentByAPass(d)
    OBVIOUS
  <2>1. d \in Deliveries /\ d[1] = e /\ Exists(d) /\ ~delivery[d].delivered
    BY <1>3 DEF DeliveryInv, ErasureHolds, EraserRec
  <2>2. LockedByErasure(d)
    BY <2>1 DEF LockedByErasure
  <2>3. QED
    BY <2>1, <2>2 DEF DeliveryInv, DeliveriesHeld, SentByAPass
<1>5. /\ r \in EraserRec
      /\ r.pc = "scrubbed" /\ r.cancelled = eraser[e].cancelled /\ r.scrubbed = scrubbed
  BY <1>2, <1>3 DEF EraserRec
<1>6. crashes' \in 0..MaxCrashes
  BY <1>1 DEF DeliveryInv, TypeOK
<1> HIDE DEF r
<1>7. QED
  BY <1>1, <1>2, <1>4, <1>5, <1>6, ErasureLocks

\* What an erasure has locked by the time it has scrubbed.
LEMMA LockedFacts ==
    ASSUME DeliveryInv, NEW e \in Events, eraser[e].pc \in {"scrubbed", "redacted"}
    PROVE  /\ eraser[e] \in EraserRec
           /\ \A d \in eraser[e].cancelled \cup eraser[e].scrubbed :
                  /\ d \in Deliveries /\ d[1] = e /\ Exists(d)
                  /\ LockedByErasure(d) /\ ~SentByAPass(d)
           /\ \A d \in eraser[e].cancelled :
                  /\ ~delivery[d].delivered
                  /\ delivery[d].snippet => d \in eraser[e].scrubbed
<1>1. eraser[e] \in EraserRec
  BY DEF DeliveryInv, TypeOK
<1>2. ASSUME NEW d \in eraser[e].cancelled \cup eraser[e].scrubbed
      PROVE  /\ d \in Deliveries /\ d[1] = e /\ Exists(d)
             /\ LockedByErasure(d) /\ ~SentByAPass(d)
  <2>1. d \in Deliveries /\ d[1] = e /\ Exists(d)
    BY <1>1 DEF DeliveryInv, ErasureHolds, EraserRec
  <2>2. LockedByErasure(d)
    BY <2>1 DEF LockedByErasure
  <2>3. QED
    BY <2>1, <2>2 DEF DeliveryInv, DeliveriesHeld, SentByAPass
<1>3. \A d \in eraser[e].cancelled :
        ~delivery[d].delivered /\ (delivery[d].snippet => d \in eraser[e].scrubbed)
  BY DEF DeliveryInv, ErasureHolds
<1>4. QED
  BY <1>1, <1>2, <1>3

\* Redacting waits for every pass that holds the event.
LEMMA RedactSafe ==
    ASSUME DeliveryInv, NEW e \in Events, redactOutboxPayloads(e)
    PROVE  DeliveryInv'
<1> DEFINE r == [eraser[e] EXCEPT !.pc = "redacted"]
<1>1. /\ eraser[e].pc = "scrubbed" /\ ~FannedOutByAPass(e)
      /\ EraserStep(e, r) /\ UNCHANGED <<redacted, delivery, crashes>>
  BY DEF redactOutboxPayloads
<1>2. /\ eraser[e] \in EraserRec
      /\ \A d \in eraser[e].cancelled \cup eraser[e].scrubbed :
             d[1] = e /\ Exists(d) /\ ~SentByAPass(d)
      /\ \A d \in eraser[e].cancelled :
             ~delivery[d].delivered /\ (delivery[d].snippet => d \in eraser[e].scrubbed)
  BY <1>1, LockedFacts
<1>3. /\ r \in EraserRec
      /\ r.pc = "redacted" /\ r.cancelled = eraser[e].cancelled
      /\ r.scrubbed = eraser[e].scrubbed
  BY <1>2 DEF EraserRec
<1>4. crashes' \in 0..MaxCrashes
  BY <1>1 DEF DeliveryInv, TypeOK
<1> HIDE DEF r
<1>5. QED
  BY <1>1, <1>2, <1>3, <1>4, ErasureLocks

\* An erasure that fails gives back the locks and the rows as it found them.
LEMMA FailEraseSafe ==
    ASSUME DeliveryInv, NEW e \in Events, FailErase(e)
    PROVE  DeliveryInv'
<1>1. /\ IdleEraser \in EraserRec
      /\ IdleEraser.pc = "idle" /\ IdleEraser.cancelled = {} /\ IdleEraser.scrubbed = {}
  BY DEF IdleEraser, EraserRec
<1>2. crashes' \in 0..MaxCrashes
  BY LimitAssumption DEF FailErase, DeliveryInv, TypeOK
<1>3. QED
  BY <1>1, <1>2, ErasureLocks DEF FailErase

\* The commit cancels what it has locked and scrubs all of it that has a
\* snippet; nobody is sending any of it.
LEMMA CommitEraseSafe ==
    ASSUME DeliveryInv, NEW e \in Events, CommitErase(e)
    PROVE  DeliveryInv'
<1> DEFINE row(d) == [delivery[d] EXCEPT !.cancelled = @ \/ d \in eraser[e].cancelled,
                                         !.snippet = @ /\ d \notin eraser[e].scrubbed]
           held == eraser[e].cancelled \cup eraser[e].scrubbed
           r == [IdleEraser EXCEPT !.pc = "done"]
<1>1. /\ eraser[e].pc = "redacted"
      /\ redacted' = redacted \cup {e}
      /\ \A d \in Deliveries : delivery'[d] = IF d \in held THEN row(d) ELSE delivery[d]
      /\ eraser' = [eraser EXCEPT ![e] = r]
      /\ UNCHANGED <<event, active, pass, redeliverer, accepted, crashes>>
  BY DEF CommitErase, EraserStep
<1>2. /\ eraser[e] \in EraserRec
      /\ \A d \in held : /\ d \in Deliveries /\ d[1] = e /\ Exists(d)
                         /\ LockedByErasure(d) /\ ~SentByAPass(d)
      /\ \A d \in eraser[e].cancelled :
             ~delivery[d].delivered /\ (delivery[d].snippet => d \in eraser[e].scrubbed)
  BY <1>1, LockedFacts
<1>3. r \in EraserRec /\ r.pc = "done" /\ r.cancelled = {} /\ r.scrubbed = {}
  BY DEF IdleEraser, EraserRec
<1>4. ASSUME NEW d \in held
      PROVE  /\ row(d) \in Delivery /\ row(d) # None
             /\ row(d).attempts = delivery[d].attempts
             /\ row(d).dead = delivery[d].dead
             /\ row(d).delivered = delivery[d].delivered
             /\ row(d).cancelled <=> delivery[d].cancelled \/ d \in eraser[e].cancelled
             /\ row(d).snippet <=> delivery[d].snippet /\ d \notin eraser[e].scrubbed
  <2>1. delivery[d] \in Delivery
    BY <1>2 DEF DeliveryInv, TypeOK, Exists
  <2>2. row(d) \in Delivery
    BY <2>1 DEF Delivery
  <2>3. row(d) # None
    BY <2>2, NoneAssumption
  <2>4. /\ row(d).attempts = delivery[d].attempts
        /\ row(d).dead = delivery[d].dead
        /\ row(d).delivered = delivery[d].delivered
        /\ row(d).cancelled <=> delivery[d].cancelled \/ d \in eraser[e].cancelled
        /\ row(d).snippet <=> delivery[d].snippet /\ d \notin eraser[e].scrubbed
    BY <2>1 DEF Delivery
  <2>5. QED
    BY <2>2, <2>3, <2>4
<1> HIDE DEF r, row
<1>5. \A f \in Events : eraser'[f] = IF f = e THEN r ELSE eraser[f]
  BY <1>1 DEF DeliveryInv, TypeOK
<1>6. /\ \A x \in Deliveries : Exists(x)' <=> Exists(x)
      /\ \A x \in Deliveries : x \notin held => (Settled(x)' <=> Settled(x))
      /\ \A x : SentByAPass(x)' <=> SentByAPass(x)
  BY <1>1, <1>2, <1>4 DEF Exists, Settled, SentByAPass
<1>7. TypeOK'
  <2>1. delivery' \in [Deliveries -> Delivery \cup {None}]
    <3>1. \A d \in Deliveries : delivery'[d] \in Delivery \cup {None}
      BY <1>1, <1>4 DEF DeliveryInv, TypeOK
    <3>2. delivery' = [d \in Deliveries |-> delivery'[d]]
      BY DEF CommitErase
    <3>3. QED
      BY <3>1, <3>2
  <2>2. QED
    BY <1>1, <1>3, <2>1 DEF DeliveryInv, TypeOK
<1>8. OthersStayActive' /\ PassLocals'
  BY <1>1 DEF DeliveryInv, OthersStayActive, PassLocals
<1>9. CheckedExists'
  BY <1>1, <1>6 DEF DeliveryInv, CheckedExists
<1>10. EventsHeld'
  BY <1>1, <1>3, <1>5 DEF DeliveryInv, EventsHeld
<1>11. DeliveriesHeld'
  <2> SUFFICES ASSUME NEW p \in Passes, NEW d \in Deliveries, pass[p].sending = d
               PROVE  Exists(d)' /\ ~Settled(d)' /\ ~LockedByErasure(d)'
    BY <1>1 DEF DeliveryInv, DeliveriesHeld
  <2>1. Exists(d) /\ ~Settled(d) /\ ~LockedByErasure(d) /\ SentByAPass(d) /\ d[1] \in Events
    BY DEF DeliveryInv, DeliveriesHeld, SentByAPass, Deliveries
  <2>2. d \notin held
    BY <1>2, <2>1
  <2>3. QED
    BY <1>3, <1>5, <1>6, <2>1, <2>2 DEF LockedByErasure
<1>12. ErasureHolds'
  <2> SUFFICES ASSUME NEW f \in Events, f # e,
                      NEW d \in eraser[f].cancelled \cup eraser[f].scrubbed
               PROVE  d \in Deliveries /\ Exists(d)' /\ delivery'[d] = delivery[d]
    BY <1>3, <1>5 DEF DeliveryInv, ErasureHolds
  <2>1. eraser[f] \in EraserRec
    BY DEF DeliveryInv, TypeOK
  <2>2. d \in Deliveries /\ d[1] = f /\ Exists(d)
    BY <2>1 DEF DeliveryInv, ErasureHolds, EraserRec
  <2>3. QED
    BY <1>1, <1>2, <1>6, <2>2
<1>13. AcceptedOnce'
  <2>1. \A d \in Deliveries : delivery'[d].delivered = delivery[d].delivered
    BY <1>1, <1>4
  <2>2. QED
    BY <1>1, <1>6, <2>1 DEF DeliveryInv, AcceptedOnce
<1>14. DeadAfterItsAttempts'
  <2>1. \A d \in Deliveries : /\ delivery'[d].dead = delivery[d].dead
                              /\ delivery'[d].attempts = delivery[d].attempts
    BY <1>1, <1>4
  <2>2. QED
    BY <1>6, <2>1 DEF DeliveryInv, DeadAfterItsAttempts
<1>15. CancelledStaysSilent'
  <2> SUFFICES ASSUME NEW d \in Deliveries, Exists(d)', delivery'[d].cancelled
               PROVE  ~delivery'[d].delivered /\ ~delivery'[d].snippet /\ ~SentByAPass(d)'
    BY DEF CancelledStaysSilent
  <2>1. CASE d \in held
    <3>1. CASE delivery[d].cancelled
      BY <1>1, <1>4, <1>6, <2>1, <3>1 DEF DeliveryInv, CancelledStaysSilent
    <3>2. CASE ~delivery[d].cancelled
      BY <1>1, <1>2, <1>4, <1>6, <2>1, <3>2
    <3>3. QED
      BY <3>1, <3>2
  <2>2. CASE d \notin held
    BY <1>1, <1>6, <2>2 DEF DeliveryInv, CancelledStaysSilent
  <2>3. QED
    BY <2>1, <2>2
<1>16. NoDeliveryLost'
  <2>1. \A f \in Events, h \in Hooks : Exists(<<f, h>>)' <=> Exists(<<f, h>>)
    BY <1>6 DEF Deliveries
  <2>2. QED
    BY <1>1, <2>1 DEF DeliveryInv, NoDeliveryLost
<1>17. QED
  BY <1>7, <1>8, <1>9, <1>10, <1>11, <1>12, <1>13, <1>14, <1>15, <1>16 DEF DeliveryInv
-----------------------------------------------------------------------------
(* Time, the administrator's switch, the submits and the sweep.            *)

\* A new event has no delivery.
LEMMA EnqueueSafe ==
    ASSUME DeliveryInv, NEW e \in Events, enqueue(e)
    PROVE  DeliveryInv'
<1>1. /\ event[e] = "absent"
      /\ \A f \in Events : event'[f] = IF f = e THEN "queued" ELSE event[f]
      /\ event' \in [Events -> {"absent", "queued", "consumed"}]
      /\ UNCHANGED <<redacted, active, delivery, pass, redeliverer, eraser, crashes, accepted>>
  BY DEF enqueue, DeliveryInv, TypeOK
<1>2. \A x : /\ Exists(x)' <=> Exists(x)
             /\ Settled(x)' <=> Settled(x)
             /\ LockedByErasure(x)' <=> LockedByErasure(x)
             /\ SentByAPass(x)' <=> SentByAPass(x)
  BY <1>1 DEF Exists, Settled, LockedByErasure, SentByAPass
<1>3. TypeOK'
  BY <1>1 DEF DeliveryInv, TypeOK
<1>4. OthersStayActive' /\ PassLocals' /\ EventsHeld' /\ CheckedExists'
  BY <1>1, <1>2 DEF DeliveryInv, OthersStayActive, PassLocals, EventsHeld, CheckedExists
<1>5. DeliveriesHeld' /\ ErasureHolds'
  BY <1>1, <1>2 DEF DeliveryInv, DeliveriesHeld, ErasureHolds
<1>6. AcceptedOnce' /\ DeadAfterItsAttempts' /\ CancelledStaysSilent'
  BY <1>1, <1>2 DEF DeliveryInv, AcceptedOnce, DeadAfterItsAttempts, CancelledStaysSilent
<1>7. NoDeliveryLost'
  BY <1>1, <1>2 DEF DeliveryInv, NoDeliveryLost
<1>8. QED
  BY <1>3, <1>4, <1>5, <1>6, <1>7 DEF DeliveryInv

\* Switching a webhook touches no event and no delivery, nor does redacting an
\* event that nobody holds.
LEMMA AsideSafe ==
    ASSUME DeliveryInv,
           active' \in SUBSET Hooks, Hooks \ Toggled \subseteq active',
           redacted' \in SUBSET Events,
           \A e \in redacted' : e \in redacted \/ EventFree(e),
           UNCHANGED <<event, delivery, pass, redeliverer, eraser, crashes, accepted>>
    PROVE  DeliveryInv'
<1>1. \A x : /\ Exists(x)' <=> Exists(x)
             /\ Settled(x)' <=> Settled(x)
             /\ LockedByErasure(x)' <=> LockedByErasure(x)
             /\ SentByAPass(x)' <=> SentByAPass(x)
  BY DEF Exists, Settled, LockedByErasure, SentByAPass
<1>2. TypeOK'
  BY DEF DeliveryInv, TypeOK
<1>3. OthersStayActive' /\ PassLocals' /\ CheckedExists'
  BY <1>1 DEF DeliveryInv, OthersStayActive, PassLocals, CheckedExists
<1>4. EventsHeld'
  BY DEF DeliveryInv, EventsHeld, EventFree, FannedOutByAPass
<1>5. DeliveriesHeld' /\ ErasureHolds'
  BY <1>1 DEF DeliveryInv, DeliveriesHeld, ErasureHolds
<1>6. AcceptedOnce' /\ DeadAfterItsAttempts' /\ CancelledStaysSilent' /\ NoDeliveryLost'
  BY <1>1
  DEF DeliveryInv, AcceptedOnce, DeadAfterItsAttempts, CancelledStaysSilent, NoDeliveryLost
<1>7. QED
  BY <1>2, <1>3, <1>4, <1>5, <1>6 DEF DeliveryInv

\* Only a webhook that may be switched is.
LEMMA SwitchSafe ==
    ASSUME DeliveryInv, NEW h \in Toggled, SetActive(h)
    PROVE  DeliveryInv'
<1>1. active \in SUBSET Hooks /\ Hooks \ Toggled \subseteq active /\ h \in Hooks
  BY HookAssumption DEF DeliveryInv, TypeOK, OthersStayActive
<1>2. active' \in SUBSET Hooks /\ Hooks \ Toggled \subseteq active'
  BY <1>1 DEF SetActive
<1>3. redacted' \in SUBSET Events /\ redacted' = redacted
  BY DEF SetActive, DeliveryInv, TypeOK
<1>4. QED
  BY <1>2, <1>3, AsideSafe DEF SetActive

\* The payload sweep touches only consumed events whose rows are all settled.
LEMMA SweepPayloadsSafe ==
    ASSUME DeliveryInv, redactAgedOutboxPayloads
    PROVE  DeliveryInv'
<1>1. redacted' \in SUBSET Events /\ \A e \in redacted' : e \in redacted \/ EventFree(e)
  BY DEF redactAgedOutboxPayloads, DeliveryInv, TypeOK
<1>2. active' \in SUBSET Hooks /\ Hooks \ Toggled \subseteq active'
  BY DEF redactAgedOutboxPayloads, DeliveryInv, TypeOK, OthersStayActive
<1>3. QED
  BY <1>1, <1>2, AsideSafe DEF redactAgedOutboxPayloads

\* Rows that only come due or lose their snippet keep the invariant.
LEMMA RowsFade ==
    ASSUME DeliveryInv,
           delivery' \in [Deliveries -> Delivery \cup {None}],
           \A d \in Deliveries :
               /\ Exists(d)' <=> Exists(d)
               /\ Exists(d) =>
                      /\ delivery'[d].attempts = delivery[d].attempts
                      /\ delivery'[d].delivered = delivery[d].delivered
                      /\ delivery'[d].dead = delivery[d].dead
                      /\ delivery'[d].cancelled = delivery[d].cancelled
                      /\ delivery'[d].snippet => delivery[d].snippet,
           UNCHANGED <<event, redacted, active, pass, redeliverer, eraser, crashes, accepted>>
    PROVE  DeliveryInv'
<1>1. \A x : /\ LockedByErasure(x)' <=> LockedByErasure(x)
             /\ SentByAPass(x)' <=> SentByAPass(x)
  BY DEF LockedByErasure, SentByAPass
<1>2. \A x \in Deliveries : Settled(x)' <=> Settled(x)
  BY DEF Settled
<1>3. TypeOK'
  BY DEF DeliveryInv, TypeOK
<1>4. OthersStayActive' /\ PassLocals' /\ EventsHeld' /\ CheckedExists'
  BY DEF DeliveryInv, OthersStayActive, PassLocals, EventsHeld, CheckedExists
<1>5. DeliveriesHeld'
  BY <1>1, <1>2 DEF DeliveryInv, DeliveriesHeld
<1>6. ErasureHolds'
  <2>1. ASSUME NEW e \in Events, NEW x \in eraser[e].cancelled \cup eraser[e].scrubbed
        PROVE  x \in Deliveries /\ Exists(x)
    <3>1. eraser[e] \in EraserRec
      BY DEF DeliveryInv, TypeOK
    <3>2. QED
      BY <3>1 DEF DeliveryInv, ErasureHolds, EraserRec
  <2>2. QED
    BY <2>1 DEF DeliveryInv, ErasureHolds
<1>7. AcceptedOnce' /\ DeadAfterItsAttempts' /\ CancelledStaysSilent'
  BY <1>1 DEF DeliveryInv, AcceptedOnce, DeadAfterItsAttempts, CancelledStaysSilent
<1>8. NoDeliveryLost'
  <2>1. \A e \in Events, h \in Hooks : Exists(<<e, h>>)' <=> Exists(<<e, h>>)
    BY DEF Deliveries
  <2>2. QED
    BY <2>1 DEF DeliveryInv, NoDeliveryLost
<1>9. QED
  BY <1>3, <1>4, <1>5, <1>6, <1>7, <1>8 DEF DeliveryInv

\* Time passing makes rows due and nothing else.
LEMMA BackoffSafe ==
    ASSUME DeliveryInv, NEW d \in Deliveries, BackoffElapses(d)
    PROVE  DeliveryInv'
<1> DEFINE row == [delivery[d] EXCEPT !.due = TRUE]
<1>1. Exists(d) /\ delivery[d] \in Delivery
  BY DEF BackoffElapses, DeliveryInv, TypeOK, Exists
<1>2. row \in Delivery
  BY <1>1 DEF Delivery
<1>3. row # None
  BY <1>2, NoneAssumption
<1>4. /\ row.attempts = delivery[d].attempts /\ row.delivered = delivery[d].delivered
      /\ row.dead = delivery[d].dead /\ row.cancelled = delivery[d].cancelled
      /\ row.snippet = delivery[d].snippet
  BY <1>1 DEF Delivery
<1>5. delivery' = [delivery EXCEPT ![d] = row]
  BY DEF BackoffElapses
<1> HIDE DEF row
<1>6. /\ delivery' \in [Deliveries -> Delivery \cup {None}]
      /\ \A x \in Deliveries : delivery'[x] = IF x = d THEN row ELSE delivery[x]
  BY <1>2, <1>5 DEF DeliveryInv, TypeOK
<1>7. \A x \in Deliveries :
        /\ Exists(x)' <=> Exists(x)
        /\ Exists(x) => /\ delivery'[x].attempts = delivery[x].attempts
                        /\ delivery'[x].delivered = delivery[x].delivered
                        /\ delivery'[x].dead = delivery[x].dead
                        /\ delivery'[x].cancelled = delivery[x].cancelled
                        /\ delivery'[x].snippet => delivery[x].snippet
  BY <1>1, <1>3, <1>4, <1>6 DEF Exists
<1>8. QED
  BY <1>6, <1>7, RowsFade DEF BackoffElapses

\* The snippet sweep changes nothing but snippets.
LEMMA SweepSnippetsSafe ==
    ASSUME DeliveryInv, redactAgedResponseSnippets
    PROVE  DeliveryInv'
<1>1. PICK ds \in SUBSET Deliveries :
        /\ \A d \in ds : Exists(d)
        /\ delivery' = [d \in Deliveries |->
              IF d \in ds THEN [delivery[d] EXCEPT !.snippet = FALSE] ELSE delivery[d]]
  BY DEF redactAgedResponseSnippets
<1>2. ASSUME NEW d \in ds
      PROVE  /\ delivery'[d] \in Delivery /\ delivery'[d] # None
             /\ delivery'[d].attempts = delivery[d].attempts
             /\ delivery'[d].delivered = delivery[d].delivered
             /\ delivery'[d].dead = delivery[d].dead
             /\ delivery'[d].cancelled = delivery[d].cancelled
             /\ ~delivery'[d].snippet
  <2>1. delivery[d] \in Delivery
    BY <1>1 DEF DeliveryInv, TypeOK, Exists
  <2>2. delivery'[d] = [delivery[d] EXCEPT !.snippet = FALSE]
    BY <1>1
  <2>3. delivery'[d] \in Delivery
    BY <2>1, <2>2 DEF Delivery
  <2>4. delivery'[d] # None
    BY <2>3, NoneAssumption
  <2>5. QED
    BY <2>1, <2>2, <2>3, <2>4 DEF Delivery
<1>3. \A d \in Deliveries : d \notin ds => delivery'[d] = delivery[d]
  BY <1>1
<1>4. delivery' \in [Deliveries -> Delivery \cup {None}]
  <2>1. \A d \in Deliveries : delivery'[d] \in Delivery \cup {None}
    BY <1>2, <1>3 DEF DeliveryInv, TypeOK
  <2>2. delivery' = [d \in Deliveries |-> delivery'[d]]
    BY <1>1
  <2>3. QED
    BY <2>1, <2>2
<1>5. \A x \in Deliveries :
        /\ Exists(x)' <=> Exists(x)
        /\ Exists(x) => /\ delivery'[x].attempts = delivery[x].attempts
                        /\ delivery'[x].delivered = delivery[x].delivered
                        /\ delivery'[x].dead = delivery[x].dead
                        /\ delivery'[x].cancelled = delivery[x].cancelled
                        /\ delivery'[x].snippet => delivery[x].snippet
  BY <1>1, <1>2, <1>3 DEF Exists
<1>6. QED
  BY <1>4, <1>5, RowsFade DEF redactAgedResponseSnippets

-----------------------------------------------------------------------------
(* The theorems.                                                           *)

\* Every step keeps the invariant.
LEMMA DeliveryInvStep == DeliveryInv /\ [Next]_vars => DeliveryInv'
<1> SUFFICES ASSUME DeliveryInv, [Next]_vars PROVE DeliveryInv'
  OBVIOUS
<1>1. CASE UNCHANGED vars
  <2>1. active' \in SUBSET Hooks /\ Hooks \ Toggled \subseteq active'
    BY <1>1 DEF vars, DeliveryInv, TypeOK, OthersStayActive
  <2>2. redacted' \in SUBSET Events /\ redacted' = redacted
    BY <1>1 DEF vars, DeliveryInv, TypeOK
  <2>3. QED
    BY <1>1, <2>1, <2>2, AsideSafe DEF vars
<1>2. ASSUME NEW e \in Events, enqueue(e) PROVE DeliveryInv'
  BY <1>2, EnqueueSafe
<1>3. ASSUME NEW h \in Toggled, SetActive(h) PROVE DeliveryInv'
  BY <1>3, SwitchSafe
<1>4. ASSUME NEW d \in Deliveries, BackoffElapses(d) PROVE DeliveryInv'
  BY <1>4, BackoffSafe
<1>5. ASSUME NEW p \in Passes, PassAction(p) PROVE DeliveryInv'
  <2>1. CASE claimDue(p)
    BY <2>1, ClaimEventsSafe
  <2>2. CASE \E e \in Events : fanOutEvent(p, e)
    BY <2>2, FanOutSafe
  <2>3. CASE CommitFanOut(p)
    BY <2>3, CommitFanOutSafe
  <2>4. CASE deliverOne(p)
    BY <2>4, PostSafe
  <2>5. CASE markDeliveryDelivered(p)
    BY <2>5, DeliveredSafe
  <2>6. CASE recordDeliveryFailure(p)
    BY <2>6, FailureSafe
  <2>7. CASE EndPass(p)
    BY <2>7, EndPassSafe
  <2>8. QED
    BY <1>5, <2>1, <2>2, <2>3, <2>4, <2>5, <2>6, <2>7 DEF PassAction
<1>6. ASSUME NEW p \in Passes, NEW d \in Deliveries, claimDueDeliveries(p, d)
      PROVE  DeliveryInv'
  BY <1>6, ClaimDeliverySafe
<1>7. ASSUME NEW p \in Passes, CrashPass(p) PROVE DeliveryInv'
  BY <1>7, CrashSafe
<1>8. ASSUME NEW r \in Redeliverers, redeliveryRefusalFor(r) \/ resetDeliveryForRedelivery(r)
      PROVE  DeliveryInv'
  BY <1>8, CheckSafe, ResetSafe
<1>9. CASE redactAgedOutboxPayloads
  BY <1>9, SweepPayloadsSafe
<1>10. CASE redactAgedResponseSnippets
  BY <1>10, SweepSnippetsSafe
<1>11. ASSUME NEW e \in Events,
              cancelUndeliveredDeliveries(e) \/ EraseAction(e) \/ FailErase(e)
       PROVE  DeliveryInv'
  BY <1>11, CancelSafe, ScrubSafe, RedactSafe, CommitEraseSafe, FailEraseSafe DEF EraseAction
<1>12. QED
  BY <1>1, <1>2, <1>3, <1>4, <1>5, <1>6, <1>7, <1>8, <1>9, <1>10, <1>11 DEF Next

\* The inductive invariant holds in every reachable state.
THEOREM DeliveryInvariant == Spec => []DeliveryInv
<1>1. QED
  BY DeliveryInvInit, DeliveryInvStep, PTL DEF Spec

\* Every reachable state is well typed; in particular no delivery is attempted
\* more often than MaxAttempts between two requeues.
THEOREM DeliveryTypeCorrect == Spec => []TypeOK
<1>1. DeliveryInv => TypeOK
  BY DEF DeliveryInv
<1>2. QED
  BY <1>1, DeliveryInvariant, PTL

\* However many passes overlap and crash, an endpoint accepts a delivery once
\* per requeue as far as QCMS was told, and "delivered" means it did.
THEOREM AcceptedAtMostOnce == Spec => []AcceptedOnce
<1>1. DeliveryInv => AcceptedOnce
  BY DEF DeliveryInv
<1>2. QED
  BY <1>1, DeliveryInvariant, PTL

\* A delivery is dead-lettered exactly when its attempts are used up.
THEOREM DeadLettersExhausted == Spec => []DeadAfterItsAttempts
<1>1. DeliveryInv => DeadAfterItsAttempts
  BY DEF DeliveryInv
<1>2. QED
  BY <1>1, DeliveryInvariant, PTL

\* A cancelled delivery is never sent or delivered, and keeps no snippet.
THEOREM CancellationIsFinal == Spec => []CancelledStaysSilent
<1>1. DeliveryInv => CancelledStaysSilent
  BY DEF DeliveryInv
<1>2. QED
  BY <1>1, DeliveryInvariant, PTL

\* Fan-out is all or nothing, whatever crashes in the middle of it.
THEOREM FanOutIsAtomic == Spec => []NoDeliveryLost
<1>1. DeliveryInv => NoDeliveryLost
  BY DEF DeliveryInv
<1>2. QED
  BY <1>1, DeliveryInvariant, PTL
\* A step that replaces rows replaces rows that exist, except a fan-out's commit.
LEMMA OnlyFanOutCreates ==
    ASSUME DeliveryInv, Next, NEW d \in Deliveries, ~Exists(d)
    PROVE  \/ delivery'[d] = None
           \/ \E p \in Passes : CommitFanOut(p)
<1>1. delivery \in [Deliveries -> Delivery \cup {None}] /\ delivery[d] = None
  BY DEF DeliveryInv, TypeOK, Exists
<1>2. CASE UNCHANGED delivery
  BY <1>1, <1>2
<1>3. ASSUME NEW x \in Deliveries, BackoffElapses(x) PROVE delivery'[d] = None
  BY <1>1, <1>3 DEF BackoffElapses, Exists
<1>4. ASSUME NEW p \in Passes, markDeliveryDelivered(p) \/ recordDeliveryFailure(p)
      PROVE  delivery'[d] = None
  <2>1. pass[p].pc = "answered"
    BY <1>4 DEF markDeliveryDelivered, recordDeliveryFailure, RecordFailure
  <2>2. delivery[pass[p].sending] \in Delivery
    BY <2>1, SentFacts
  <2>3. pass[p].sending # d
    BY <1>1, <2>2, NoneAssumption
  <2>4. QED
    BY <1>1, <1>4, <2>3 DEF markDeliveryDelivered, recordDeliveryFailure, RecordFailure
<1>5. ASSUME NEW r \in Redeliverers, resetDeliveryForRedelivery(r)
      PROVE  delivery'[d] = None
  <2>1. redeliverer[r].target # d
    BY <1>5 DEF resetDeliveryForRedelivery, DeliveryInv, CheckedExists
  <2>2. QED
    BY <1>1, <1>5, <2>1 DEF resetDeliveryForRedelivery
<1>6. CASE redactAgedResponseSnippets
  BY <1>1, <1>6 DEF redactAgedResponseSnippets, Exists
<1>7. ASSUME NEW e \in Events, CommitErase(e) PROVE delivery'[d] = None
  <2>1. \A x \in eraser[e].cancelled \cup eraser[e].scrubbed : Exists(x)
    BY <1>7, LockedFacts DEF CommitErase
  <2>2. QED
    BY <1>1, <1>7, <2>1 DEF CommitErase, Exists
<1>8. CASE \E p \in Passes : CommitFanOut(p)
  BY <1>8
<1>9. ASSUME NEW p \in Passes, PassAction(p)
      PROVE  \/ UNCHANGED delivery
             \/ CommitFanOut(p) \/ markDeliveryDelivered(p) \/ recordDeliveryFailure(p)
  BY <1>9 DEF PassAction, claimDue, fanOutEvent, deliverOne, EndPass
<1>10. ASSUME NEW e \in Events,
              cancelUndeliveredDeliveries(e) \/ EraseAction(e) \/ FailErase(e)
       PROVE  UNCHANGED delivery \/ CommitErase(e)
  BY <1>10 DEF cancelUndeliveredDeliveries, EraseAction, redactDeliveryResponseSnippets,
               redactOutboxPayloads, FailErase
<1>11. QED
  BY <1>2, <1>3, <1>4, <1>5, <1>6, <1>7, <1>8, <1>9, <1>10
  DEF Next, enqueue, SetActive, claimDueDeliveries, CrashPass, redeliveryRefusalFor,
      redactAgedOutboxPayloads

\* An event whose answers are gone gets no delivery any more, whichever of the
\* sweep, the erasure and the passes comes first.
THEOREM RedactionPrecludesFanOut == Spec => RedactedNeverFannedOut
<1>1. DeliveryInv /\ [Next]_vars => [NeverFannedOut]_vars
  <2> SUFFICES ASSUME DeliveryInv, Next PROVE NeverFannedOut
    OBVIOUS
  <2>1. CASE \E p \in Passes : CommitFanOut(p)
    BY <2>1, CommitFanOutSafe
  <2>2. CASE ~\E p \in Passes : CommitFanOut(p)
    BY <2>2, OnlyFanOutCreates DEF NeverFannedOut
  <2>3. QED
    BY <2>1, <2>2
<1>2. QED
  BY <1>1, DeliveryInvariant, PTL DEF Spec, RedactedNeverFannedOut
-----------------------------------------------------------------------------
(* The contract of a delivery.                                             *)

\* Replacing one row moves one delivery of the contract.
LEMMA RowMoves ==
    ASSUME DeliveryInv, NEW x \in Deliveries, NEW row, NEW to, NEW n,
           delivery' = [delivery EXCEPT ![x] = row], UNCHANGED <<event, redacted>>,
           StageOf(row) = to, FailuresOf(row) = n
    PROVE  Contract!Become(x, to, n)
<1>1. \A d \in Deliveries : delivery'[d] = IF d = x THEN row ELSE delivery[d]
  BY DEF DeliveryInv, TypeOK
<1>2. \A d \in Deliveries :
        /\ StageOf(delivery'[d]) = IF d = x THEN to ELSE StageOf(delivery[d])
        /\ FailuresOf(delivery'[d]) = IF d = x THEN n ELSE FailuresOf(delivery[d])
  BY <1>1
<1>3. [d \in Deliveries |-> StageOf(delivery[d])]'
        = [[d \in Deliveries |-> StageOf(delivery[d])] EXCEPT ![x] = to]
  BY <1>2
<1>4. [d \in Deliveries |-> FailuresOf(delivery[d])]'
        = [[d \in Deliveries |-> FailuresOf(delivery[d])] EXCEPT ![x] = n]
  BY <1>2
<1>5. QED
  BY <1>3, <1>4 DEF Contract!Become

\* Rows that keep their stages and failures are a stutter.
LEMMA RowsStay ==
    ASSUME UNCHANGED <<event, redacted>>,
           \A d \in Deliveries : /\ StageOf(delivery'[d]) = StageOf(delivery[d])
                                 /\ FailuresOf(delivery'[d]) = FailuresOf(delivery[d])
    PROVE  UNCHANGED Contract!vars
BY DEF Contract!vars

\* A delivery that a pass is about to record is pending.
LEMMA SentIsPending ==
    ASSUME DeliveryInv, NEW p \in Passes, pass[p].pc = "answered"
    PROVE  /\ pass[p].sending \in Contract!Deliveries
           /\ StageOf(delivery[pass[p].sending]) = "pending"
           /\ FailuresOf(delivery[pass[p].sending]) = delivery[pass[p].sending].attempts
BY SentFacts, NoneAssumption DEF StageOf, FailuresOf, Contract!Deliveries, Deliveries

\* A recorded acceptance delivers.
LEMMA DeliverRefines ==
    ASSUME DeliveryInv, NEW p \in Passes, markDeliveryDelivered(p)
    PROVE  Contract!Next
<1> DEFINE x == pass[p].sending
<1>1. pass[p].pc = "answered" /\ UNCHANGED <<event, redacted>>
  BY DEF markDeliveryDelivered, PassStep
<1>2. PICK row \in Delivery :
        /\ delivery' = [delivery EXCEPT ![x] = row]
        /\ row.delivered /\ ~row.cancelled
  BY DeliveredRow
<1>3. x \in Contract!Deliveries /\ x \in Deliveries /\ StageOf(delivery[x]) = "pending"
  BY <1>1, SentIsPending, SentFacts
<1>4. StageOf(row) = "delivered" /\ FailuresOf(row) = 0
  BY <1>2, NoneAssumption DEF StageOf, FailuresOf
<1> HIDE DEF x
<1>5. Contract!Become(x, "delivered", 0)
  BY <1>1, <1>2, <1>3, <1>4, RowMoves
<1>6. Contract!Deliver(x)
  BY <1>3, <1>5 DEF Contract!Deliver
<1>7. QED
  BY <1>3, <1>6 DEF Contract!Next

\* A recorded failure is one more, or the last.
LEMMA FailRefines ==
    ASSUME DeliveryInv, NEW p \in Passes, recordDeliveryFailure(p)
    PROVE  Contract!Next
<1> DEFINE x == pass[p].sending
           n == delivery[x].attempts + 1
<1>1. pass[p].pc = "answered" /\ UNCHANGED <<event, redacted>>
  BY DEF recordDeliveryFailure, RecordFailure, PassStep
<1>2. PICK row \in Delivery :
        /\ delivery' = [delivery EXCEPT ![x] = row]
        /\ ~row.delivered /\ ~row.cancelled
        /\ row.dead <=> row.attempts = MaxAttempts
        /\ row.attempts = n
  BY FailureRow
<1>3. /\ x \in Contract!Deliveries /\ x \in Deliveries
      /\ StageOf(delivery[x]) = "pending" /\ FailuresOf(delivery[x]) + 1 = n
  BY <1>1, SentIsPending, SentFacts
<1>4. StageOf(row) = IF n = MaxAttempts THEN "dead" ELSE "pending"
  BY <1>2, NoneAssumption DEF StageOf
<1>5. FailuresOf(row) = IF n = MaxAttempts THEN 0 ELSE n
  BY <1>2, <1>4 DEF FailuresOf
<1> HIDE DEF x, n
<1>6. CASE n = MaxAttempts
  <2>1. Contract!Become(x, "dead", 0)
    BY <1>1, <1>2, <1>3, <1>4, <1>5, <1>6, RowMoves
  <2>2. Contract!Fail(x)
    BY <1>3, <1>6, <2>1 DEF Contract!Fail
  <2>3. QED
    BY <1>3, <2>2 DEF Contract!Next
<1>7. CASE n # MaxAttempts
  <2>1. Contract!Become(x, "pending", n)
    BY <1>1, <1>2, <1>3, <1>4, <1>5, <1>7, RowMoves
  <2>2. Contract!Fail(x)
    BY <1>3, <1>7, <2>1 DEF Contract!Fail
  <2>3. QED
    BY <1>3, <2>2 DEF Contract!Next
<1>8. QED
  BY <1>6, <1>7

\* A reset makes a delivery pending again, with all its attempts; one that was
\* cancelled since the check stays so.
LEMMA RedeliverRefines ==
    ASSUME DeliveryInv, NEW r \in Redeliverers, resetDeliveryForRedelivery(r)
    PROVE  Contract!Next \/ UNCHANGED Contract!vars
<1> DEFINE d == redeliverer[r].target
           row == [FreshRow EXCEPT !.cancelled = delivery[d].cancelled]
<1>1. delivery' = [delivery EXCEPT ![d] = row] /\ UNCHANGED <<event, redacted>>
      /\ redeliverer[r].pc = "checked"
  BY DEF resetDeliveryForRedelivery, RedelivererStep
<1>2. d \in Deliveries /\ Exists(d)
  BY <1>1 DEF DeliveryInv, CheckedExists
<1>3. delivery[d] \in Delivery /\ delivery[d] # None
  BY <1>2 DEF DeliveryInv, TypeOK, Exists
<1>4. /\ row # None /\ ~row.delivered /\ ~row.dead /\ row.attempts = 0
      /\ row.cancelled <=> delivery[d].cancelled
  <2>1. delivery[d].cancelled \in BOOLEAN
    BY <1>3 DEF Delivery
  <2>2. row \in Delivery
    BY <2>1, FreshRowFacts DEF Delivery
  <2>3. ~row.delivered /\ ~row.dead /\ row.attempts = 0 /\ (row.cancelled <=> delivery[d].cancelled)
    BY FreshRowFacts DEF FreshRow
  <2>4. QED
    BY <2>2, <2>3, NoneAssumption
<1>5. d \in Contract!Deliveries
  BY <1>2 DEF Contract!Deliveries, Deliveries
<1> HIDE DEF d, row
<1>6. CASE delivery[d].cancelled
  <2>1. /\ StageOf(row) = "cancelled" /\ StageOf(delivery[d]) = "cancelled"
        /\ FailuresOf(row) = 0 /\ FailuresOf(delivery[d]) = 0
    BY <1>3, <1>4, <1>6 DEF StageOf, FailuresOf
  <2>2. \A x \in Deliveries : delivery'[x] = IF x = d THEN row ELSE delivery[x]
    BY <1>1 DEF DeliveryInv, TypeOK
  <2>3. QED
    BY <1>1, <2>1, <2>2, RowsStay
<1>7. CASE ~delivery[d].cancelled
  <2>1. StageOf(row) = "pending" /\ FailuresOf(row) = 0
    BY <1>4, <1>7 DEF StageOf, FailuresOf
  <2>2. StageOf(delivery[d]) \in {"pending", "delivered", "dead"}
    BY <1>3, <1>7 DEF StageOf
  <2>3. Contract!Become(d, "pending", 0)
    BY <1>1, <1>2, <2>1, RowMoves
  <2>4. Contract!Redeliver(d)
    BY <1>2, <2>2, <2>3 DEF Contract!Redeliver
  <2>5. QED
    BY <1>5, <2>4 DEF Contract!Next
<1>8. QED
  BY <1>6, <1>7

\* A fan-out commits the rows of the events it holds, which had none.
LEMMA FanOutRefines ==
    ASSUME DeliveryInv, NEW p \in Passes, CommitFanOut(p)
    PROVE  Contract!Next
<1> DEFINE es == pass[p].events
           ds == pass[p].rows
           consumed == {e \in Events : event[e] = "consumed"}
<1>1. /\ pass[p] \in PassRec /\ pass[p].todo = {} /\ UNCHANGED redacted
      /\ \A e \in Events : event'[e] = IF e \in es THEN "consumed" ELSE event[e]
      /\ \A d \in Deliveries : delivery'[d] = IF d \in ds /\ ~Exists(d) THEN FreshRow ELSE delivery[d]
  BY PassFacts DEF CommitFanOut, PassStep
<1>2. /\ es \subseteq Events /\ ds \subseteq Deliveries
      /\ \A d \in ds : d[1] \in es
      /\ \A e \in es, h \in Hooks \ Toggled : <<e, h>> \in ds
  BY <1>1 DEF DeliveryInv, PassLocals, PassRec
<1>3. \A e \in es : event[e] = "queued" /\ e \notin redacted /\ \A h \in Hooks : ~Exists(<<e, h>>)
  BY <1>2 DEF DeliveryInv, EventsHeld, NoDeliveryLost
<1>4. \A d \in ds : ~Exists(d) /\ d \in es \X Hooks
  BY <1>2, <1>3 DEF Deliveries
<1>5. es \in SUBSET (Events \ (consumed \cup redacted)) /\ ds \in SUBSET (es \X Hooks)
  BY <1>2, <1>3, <1>4
<1>6. es \X (Hooks \ Toggled) \subseteq ds
  BY <1>2
<1>7. {e \in Events : event[e] = "consumed"}' = consumed \cup es
  BY <1>1, <1>2
<1>8. StageOf(FreshRow) = "pending" /\ FailuresOf(FreshRow) = 0
  BY FreshRowFacts DEF StageOf, FailuresOf, FreshRow
<1>9. \A d \in Deliveries : ~Exists(d) => FailuresOf(delivery[d]) = 0
  BY DEF StageOf, FailuresOf, Exists
<1>10. [d \in Deliveries |-> StageOf(delivery[d])]'
         = [d \in Contract!Deliveries |-> IF d \in ds THEN "pending"
                                          ELSE [x \in Deliveries |-> StageOf(delivery[x])][d]]
  BY <1>1, <1>4, <1>8 DEF Contract!Deliveries, Deliveries
<1>11. UNCHANGED [d \in Deliveries |-> FailuresOf(delivery[d])]
  BY <1>1, <1>4, <1>8, <1>9
<1> HIDE DEF es, ds, consumed
<1>12. Contract!FanOut
  BY <1>1, <1>5, <1>6, <1>7, <1>10, <1>11 DEF Contract!FanOut, consumed
<1>13. QED
  BY <1>12 DEF Contract!Next

\* The payload sweep finds nothing pending.
LEMMA SweepRefines ==
    ASSUME DeliveryInv, redactAgedOutboxPayloads
    PROVE  Contract!Next
<1>1. PICK es \in SUBSET Events :
        /\ \A e \in es : event[e] = "consumed" /\ \A h \in Hooks : Exists(<<e, h>>) => Settled(<<e, h>>)
        /\ redacted' = redacted \cup es
        /\ UNCHANGED <<event, delivery>>
  BY DEF redactAgedOutboxPayloads
<1>2. \A d \in Deliveries : StageOf(delivery[d]) = "pending" => Exists(d) /\ ~Settled(d)
  BY DEF StageOf, Exists, Settled
<1>3. \A d \in es \X Hooks : d \in Deliveries /\ StageOf(delivery[d]) # "pending"
  <2>1. ASSUME NEW e \in es, NEW h \in Hooks
        PROVE  <<e, h>> \in Deliveries /\ StageOf(delivery[<<e, h>>]) # "pending"
    BY <1>1, <1>2 DEF Deliveries
  <2>2. QED
    BY <2>1
<1>4. Contract!Redact
  <2>1. es \in SUBSET {e \in Events : event[e] = "consumed"}
    BY <1>1
  <2>2. \A d \in es \X Hooks : [x \in Deliveries |-> StageOf(delivery[x])][d] # "pending"
    BY <1>3
  <2>3. QED
    BY <1>1, <2>1, <2>2 DEF Contract!Redact
<1>5. QED
  BY <1>4 DEF Contract!Next

\* An erasure cancels what it has locked: undelivered rows of its own event.
LEMMA EraseRefines ==
    ASSUME DeliveryInv, NEW e \in Events, CommitErase(e)
    PROVE  Contract!Next
<1> DEFINE row(d) == [delivery[d] EXCEPT !.cancelled = @ \/ d \in eraser[e].cancelled,
                                         !.snippet = @ /\ d \notin eraser[e].scrubbed]
           held == eraser[e].cancelled \cup eraser[e].scrubbed
           ds == {d \in eraser[e].cancelled : StageOf(delivery[d]) # "cancelled"}
<1>1. /\ eraser[e].pc = "redacted" /\ redacted' = redacted \cup {e} /\ UNCHANGED event
      /\ \A d \in Deliveries : delivery'[d] = IF d \in held THEN row(d) ELSE delivery[d]
  BY DEF CommitErase, EraserStep
<1>2. /\ eraser[e] \in EraserRec
      /\ \A d \in held : d \in Deliveries /\ d[1] = e /\ Exists(d)
      /\ \A d \in eraser[e].cancelled : ~delivery[d].delivered
  BY <1>1, LockedFacts
<1>3. ASSUME NEW d \in held
      PROVE  /\ row(d) # None /\ delivery[d] # None
             /\ row(d).attempts = delivery[d].attempts
             /\ row(d).dead = delivery[d].dead
             /\ row(d).delivered = delivery[d].delivered
             /\ row(d).cancelled <=> delivery[d].cancelled \/ d \in eraser[e].cancelled
  <2>1. delivery[d] \in Delivery /\ delivery[d] # None
    BY <1>2 DEF DeliveryInv, TypeOK, Exists
  <2>2. row(d) \in Delivery
    BY <2>1 DEF Delivery
  <2>3. /\ row(d).attempts = delivery[d].attempts
        /\ row(d).dead = delivery[d].dead
        /\ row(d).delivered = delivery[d].delivered
        /\ row(d).cancelled <=> delivery[d].cancelled \/ d \in eraser[e].cancelled
    BY <2>1 DEF Delivery
  <2>4. QED
    BY <2>1, <2>2, <2>3, NoneAssumption
<1> HIDE DEF row
<1>4. ASSUME NEW d \in Deliveries
      PROVE  /\ StageOf(delivery'[d]) = IF d \in ds THEN "cancelled" ELSE StageOf(delivery[d])
             /\ FailuresOf(delivery'[d]) = IF d \in ds THEN 0 ELSE FailuresOf(delivery[d])
  <2>1. CASE d \in ds
    BY <1>1, <1>3, <2>1 DEF StageOf, FailuresOf
  <2>2. CASE d \in held /\ d \notin ds
    <3>1. row(d).cancelled <=> delivery[d].cancelled
      BY <1>3, <2>2 DEF StageOf
    <3>2. QED
      BY <1>1, <1>3, <2>2, <3>1 DEF StageOf, FailuresOf
  <2>3. CASE d \notin held
    BY <1>1, <2>3
  <2>4. QED
    BY <2>1, <2>2, <2>3
<1>5. ds \in SUBSET {d \in {e} \X Hooks :
                       [x \in Deliveries |-> StageOf(delivery[x])][d] \in {"pending", "dead"}}
  <2>1. ASSUME NEW d \in ds
        PROVE  d \in {e} \X Hooks /\ d \in Deliveries /\ StageOf(delivery[d]) \in {"pending", "dead"}
    BY <1>2, <1>3 DEF StageOf, Deliveries
  <2>2. QED
    BY <2>1
<1> HIDE DEF ds, held
<1>6. [d \in Deliveries |-> StageOf(delivery[d])]'
        = [d \in Contract!Deliveries |-> IF d \in ds THEN "cancelled"
                                         ELSE [x \in Deliveries |-> StageOf(delivery[x])][d]]
  BY <1>4 DEF Contract!Deliveries, Deliveries
<1>7. [d \in Deliveries |-> FailuresOf(delivery[d])]'
        = [d \in Contract!Deliveries |-> IF d \in ds THEN 0
                                         ELSE [x \in Deliveries |-> FailuresOf(delivery[x])][d]]
  BY <1>4 DEF Contract!Deliveries, Deliveries
<1>8. Contract!Erase(e)
  BY <1>1, <1>5, <1>6, <1>7 DEF Contract!Erase
<1>9. QED
  BY <1>8 DEF Contract!Next

\* Backoff and the snippet sweep change no stage.
LEMMA FadingStutters ==
    ASSUME DeliveryInv, redactAgedResponseSnippets \/ \E d \in Deliveries : BackoffElapses(d)
    PROVE  UNCHANGED Contract!vars
<1> SUFFICES ASSUME NEW d \in Deliveries
             PROVE  /\ StageOf(delivery'[d]) = StageOf(delivery[d])
                    /\ FailuresOf(delivery'[d]) = FailuresOf(delivery[d])
  BY RowsStay DEF redactAgedResponseSnippets, BackoffElapses
<1>1. \/ delivery'[d] = delivery[d]
      \/ Exists(d) /\ delivery'[d] = [delivery[d] EXCEPT !.due = TRUE]
      \/ Exists(d) /\ delivery'[d] = [delivery[d] EXCEPT !.snippet = FALSE]
  BY DEF DeliveryInv, TypeOK, redactAgedResponseSnippets, BackoffElapses
<1>2. Exists(d) => delivery[d] \in Delivery
  BY DEF DeliveryInv, TypeOK, Exists
<1>3. CASE Exists(d) /\ delivery'[d] = [delivery[d] EXCEPT !.due = TRUE]
  <2>1. [delivery[d] EXCEPT !.due = TRUE] \in Delivery
    BY <1>2, <1>3 DEF Delivery
  <2>2. QED
    BY <1>2, <1>3, <2>1, NoneAssumption DEF StageOf, FailuresOf, Delivery
<1>4. CASE Exists(d) /\ delivery'[d] = [delivery[d] EXCEPT !.snippet = FALSE]
  <2>1. [delivery[d] EXCEPT !.snippet = FALSE] \in Delivery
    BY <1>2, <1>4 DEF Delivery
  <2>2. QED
    BY <1>2, <1>4, <2>1, NoneAssumption DEF StageOf, FailuresOf, Delivery
<1>5. QED
  BY <1>1, <1>3, <1>4

\* Every step is a step of the contract or leaves it as it is.
LEMMA StepRefines == DeliveryInv /\ [Next]_vars => [Contract!Next]_(Contract!vars)
<1> SUFFICES ASSUME DeliveryInv, [Next]_vars
             PROVE  Contract!Next \/ UNCHANGED Contract!vars
  OBVIOUS
<1>1. CASE UNCHANGED <<event, redacted, delivery>>
  BY <1>1 DEF Contract!vars
<1>2. ASSUME NEW e \in Events, enqueue(e) PROVE UNCHANGED Contract!vars
  <2>1. /\ event' \in [Events -> {"absent", "queued", "consumed"}] /\ UNCHANGED <<redacted, delivery>>
        /\ \A f \in Events : event'[f] = "consumed" <=> event[f] = "consumed"
    BY <1>2 DEF enqueue, DeliveryInv, TypeOK
  <2>2. UNCHANGED {f \in Events : event[f] = "consumed"}
    BY <2>1
  <2>3. QED
    BY <2>1, <2>2 DEF Contract!vars
<1>3. ASSUME NEW p \in Passes, PassAction(p) PROVE Contract!Next \/ UNCHANGED Contract!vars
  <2>1. ASSUME NEW e \in Events, fanOutEvent(p, e) PROVE UNCHANGED <<event, redacted, delivery>>
    BY <2>1 DEF fanOutEvent, PassStep
  <2>2. CASE claimDue(p) \/ deliverOne(p) \/ EndPass(p)
    <3>1. UNCHANGED <<event, redacted, delivery>>
      BY <2>2 DEF claimDue, deliverOne, EndPass, PassStep
    <3>2. QED
      BY <1>1, <3>1
  <2>3. QED
    BY <1>1, <1>3, <2>1, <2>2, FanOutRefines, DeliverRefines, FailRefines DEF PassAction
<1>4. ASSUME NEW p \in Passes, NEW d \in Deliveries, claimDueDeliveries(p, d) \/ CrashPass(p)
      PROVE  UNCHANGED <<event, redacted, delivery>>
  BY <1>4 DEF claimDueDeliveries, CrashPass, PassStep
<1>5. ASSUME NEW p \in Passes, CrashPass(p) PROVE UNCHANGED <<event, redacted, delivery>>
  BY <1>5 DEF CrashPass, PassStep
<1>6. ASSUME NEW r \in Redeliverers, redeliveryRefusalFor(r) PROVE UNCHANGED <<event, redacted, delivery>>
  BY <1>6 DEF redeliveryRefusalFor, RedelivererStep
<1>7. ASSUME NEW e \in Events, cancelUndeliveredDeliveries(e) \/ EraseAction(e) \/ FailErase(e)
      PROVE  UNCHANGED <<event, redacted, delivery>> \/ CommitErase(e)
  BY <1>7 DEF cancelUndeliveredDeliveries, EraseAction, redactDeliveryResponseSnippets,
              redactOutboxPayloads, FailErase, EraserStep
<1>8. ASSUME NEW h \in Toggled, SetActive(h) PROVE UNCHANGED <<event, redacted, delivery>>
  BY <1>8 DEF SetActive
<1>9. CASE UNCHANGED vars
  BY <1>1, <1>9 DEF vars
<1>10. QED
  BY <1>1, <1>2, <1>3, <1>4, <1>5, <1>6, <1>7, <1>8, <1>9, RedeliverRefines, SweepRefines,
     EraseRefines, FadingStutters DEF Next

\* Whoever races and crashes, an event is fanned out once and completely, and
\* a delivery goes through the stages of the contract and no others.
THEOREM DeliveryImplementsContract == Spec => ImplementsDelivery
<1>1. Init => Contract!Init
  <2> SUFFICES ASSUME Init PROVE Contract!Init
    OBVIOUS
  <2>1. StageOf(None) = "none" /\ FailuresOf(None) = 0
    BY DEF StageOf, FailuresOf
  <2>2. {e \in Events : event[e] = "consumed"} = {}
    BY DEF Init
  <2>3. \A d \in Deliveries : delivery[d] = None
    BY DEF Init
  <2>4. QED
    BY <2>1, <2>2, <2>3 DEF Init, Contract!Init, Contract!Deliveries, Deliveries
<1>2. QED
  BY <1>1, StepRefines, DeliveryInvariant, PTL DEF Spec, ImplementsDelivery, Contract!Spec
=============================================================================
