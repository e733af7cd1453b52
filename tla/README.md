# QCMS in TLA+

QCMS is a questionnaire system: authors build versioned forms from a library of
questions, release them into environments, respondents answer them through a
public API, and every submission is announced to webhooks. This directory holds
TLA+ modules translated from the API (`apps/api`), the domain core
(`packages/core`) and the queries (`packages/db`); TLC configurations that check
them on small instances; and proofs, checked by TLAPS, for every instance.

All paths below are relative to the repository.

## 1. The system

One API process (or several, behind a balancer) serves respondents and
administrators and runs two schedulers. All state is in PostgreSQL: a control
schema (forms, questions, releases, people) and one data schema per environment
(sessions, answers, submissions, outbox, webhooks). Transactions run at READ
COMMITTED; what serializes anything is a row lock, a unique key, a conditional
UPDATE, or the advisory lock on a session id. That is why most of the hazards
below are races between statements.

### Components that change state

| component | state | operations | correct when |
|---|---|---|---|
| response sessions | `sessions`, `answers` (append-only ledger), `submissions`, `outbox` | answer, batch answer, submit and its replay, release of a flagged submission, expiry | a session is submitted once; all receipts agree; the sealed content is the visible answers of the ledger; the event is enqueued once, with that content |
| erasure (ADR-17) | the same rows, `webhook_deliveries`, `erasure_tombstones` | one transaction of deletes, cancellations and redactions | nothing a respondent wrote is left, whatever was in flight; no cancelled delivery is sent |
| outbox and delivery | `outbox`, `webhook_deliveries`, `webhooks` | enqueue, fan out, claim, POST, record, redeliver | all-or-nothing fan-out, one holder per delivery, retries bounded, everything settles, one endpoint never stalls another |
| retention sweep | the same rows | expire sessions, redact payloads and snippets | nothing that is still moving is redacted |
| rosters | `roster_events` (append-only) | mint on serve, add, remove, replay by token | a mint is idempotent, the size stays between min and max, a retry has no effect |
| links and session start | `secure_links`, `sessions` | issue, consume, revoke, start | one session per one-time link, and a link is not used up by a start that failed |
| forms and publishing | `forms`, `form_drafts`, `form_versions` | save draft, publish, publish and release, delete | versions are dense and immutable, a published draft is the one that was saved |
| question library | `questions`, `question_versions` | draft, publish, deprecate | a version that a form pins never changes |
| releases, workflow, batches | `form_releases`, `release_workflows`, `release_batches` | release, close, reopen, confirm a batch | one sequence per form and environment, approvals hold when the release commits, a confirmation is idempotent |
| endpoint proposals | `endpoint_proposals` (control), `webhooks` (environment) | propose, confirm, resume, withdraw | a change is applied once, by a second person, and never after a withdrawal |
| membership and grants | `grants`, `workspaces` | add, change role, remove | an active workspace has an owner |
| agent assistant | `agent_actions` | record what a model proposed and a person did | an audit trail only |

### Components without interesting state

Flow evaluation, answer validation and draft compilation are pure functions of
`packages/core`; the first has a module of its own, `RuleEvaluation`. Dashboards
and CSV are reads. Authentication is the better-auth library's. Rate limits are
in-memory buckets. The front ends, the A2UI compiler, the templates, the
environment CLI, configuration and telemetry hold no state of the system's.
`PROJECT.json` gives the reason for each.

### How they interact

A submit, or the release of a flagged submission, *enqueues* `response.submitted`
in the transaction that changes the session. A delivery pass later turns the
event into one row per active webhook and POSTs each. An erasure reaches into
all of them: it deletes the ledger and the sealed content, strips the event and
cancels the deliveries. The retention sweep expires sessions and redacts what
delivery has finished with. A form's release decides which version a session
pins when it starts; afterwards the session never looks at the form again.
Proposals write the webhooks that a fan-out reads.

### The hard behaviours

* state read before a lock and used after it: the session row in an answer
  write, the flagged submission in a release, the redelivery check;
* the order of an erasure's statements against transactions in flight;
* crashes between an endpoint's 2xx and the commit that records it;
* passes of several processes, overlapping with sweeps and administrators;
* retries of what already happened: submits, roster operations, batch confirmations;
* two databases without a common transaction: endpoint proposals;
* timestamps that are taken before a lock is waited for and then used as an order.

Each is listed in `PROJECT.json` under "hazards", at its line, with the
properties that cover it or the reason why none does.

## 2. What is modelled

### ResponseSession

One session, from its first answer to its erasure. The database is `status`,
`ledger`, `submission`, `outbox`, `tombstone`, and the advisory `lock`. Each
request is a record with a program counter and the values it has read: those
values are stale by the time they are used, and the model is about that. One
action is one statement, or several between which nothing shared is read:

| request | actions | code |
|---|---|---|
| answer, batch of answers | `BeginWrite`, `LockWrite`, `ApplyEntry`, `SkipEntry`, `AbortWrite`, `CommitWrite` | `responses/serve-step/handler.ts` 480-749, `queries/answers.ts`, `queries/sessions.ts` |
| submit | `LoadSubmit` (with `ReplayReceipt`), `LockSubmit`, `LockSubmitLost`, `CommitSubmit`, `FailSubmit` | `responses/submit/handler.ts` 114-249 |
| release of a flagged submission | `ReadSubmission`, `ClearFlag` | `responses/admin/handler.ts` 684-728 |
| erasure | `EraseLookup`, `EraseAnswers`, `EraseSubmission`, `ErasePayloads`, `CommitErase`, `FailErase` | `queries/erasure.ts` 52-114 |
| retention | `ExpiryPasses`, `expireSessions` | `queries/sessions.ts` 122-128 |

A transaction's own rows stay in its record until it commits, which is what READ
COMMITTED shows the others. `clock` counts answer transactions: `answered_at`
is the start of the transaction that wrote the row, so a row carries the count at which its
transaction began, not the one at which the lock let it in. Ties go by the
random row id, a choice from `Ids`.

Abstracted: rule evaluation is the constant operator `Visible`, about which only
`Visible(a) \subseteq Cells` is assumed; validation is the difference between
`Values` and `BadInput`; the content hash is the content; the abuse checks of a
submit are a choice of `flagged`. The form has no repeating group, so serving a
step writes nothing.

### SubmissionContract

What a session promises, in three steps over three variables: a submission is
sealed once, flagged or not; it is announced once, at the seal or, if flagged,
when somebody releases it; it is erased for good. `ResponseSession` instantiates
it with a refinement mapping and implements it (`ImplementsContract`).

### WebhookDelivery

The outbox of one environment, its fan-out and its deliveries. Rows of
`webhook_deliveries` are records of the facts the code decides on: failed
attempts, due, delivered, dead-lettered, cancelled, snippet present.

| actor | actions | code |
|---|---|---|
| delivery pass | `claimDue`, `fanOutEvent`, `CommitFanOut`, `claimDueDeliveries`, `deliverOne`, `markDeliveryDelivered`, `recordDeliveryFailure`, `EndPass`, `CrashPass` | `schedulers/outbox-delivery.ts`, `queries/outbox.ts`, `queries/deliveries.ts` |
| administrator | `redeliveryRefusalFor`, `resetDeliveryForRedelivery`, `SetActive` | `features/outbox/handler.ts` 149-158, `queries/deliveries.ts`, `queries/webhooks.ts` |
| retention | `redactAgedOutboxPayloads`, `redactAgedResponseSnippets` | `queries/outbox.ts` 177-241, `queries/deliveries.ts` 38-54 |
| erasure | `cancelUndeliveredDeliveries`, `redactDeliveryResponseSnippets`, `redactOutboxPayloads`, `CommitErase`, `FailErase` | `queries/erasure.ts` 91-197 |
| others | `enqueue`, `BackoffElapses` | `queries/outbox.ts` |

Row locks are explicit (`RowFree`, `EventFree`): a claim skips a locked row, every
other statement waits. A pass holds the lock of the delivery it POSTs until it
has recorded the outcome. `accepted` is an observer: how often the endpoint
accepted a delivery since it was last requeued, counted as QCMS came to know it.
A crash after the 2xx takes its acceptance out of the count, because the code cannot
know of it; the endpoint may then see the event twice, which
`docs/webhooks.md:367-375` says it may.

Abstracted: times become `due` and a free choice of which rows are old enough to be
redacted (a retention period may be short, so any settled row may be); all
webhooks belong to the form of every event; the secret and URL checks are the outcome
"unsent".

### DeliveryContract

What delivery promises, without passes, locks and statements. Four variables:
the events that have been fanned out, those whose answers are gone, the stage of
each delivery (none, pending, delivered, dead, cancelled) and, while it is pending, how
often it has failed. Events are fanned out once, with a delivery for every webhook
that stays active; a delivery is tried until it is accepted or has failed
`MaxAttempts` times; only a redelivery revives it, with all attempts back; only an erasure
cancels, and for good. `WebhookDelivery` instantiates it with the stage that a row's four
facts amount to (`StageOf`) and implements it (`ImplementsDelivery`).

### Roster

The repeating groups of one session: `rows` of `answer_group_instances`, `size`
(the newest answer to the count question), the advisory `lock`, and the requests
of one client. A serve is a read that writes: whatever a response renders, its
transaction mints the instances that are missing (`mintDue`).

| request | actions | code |
|---|---|---|
| any | `Begin`, `Lock`, `Abort` | `responses/serve-step/handler.ts`, `loadActiveSession` and the lock |
| serve | `Serve` | `makeGetStepHandler`, `responses/roster.ts` `mintDueAndLoadRosters` |
| answer to the count question | `Resize` | `makeSubmitAnswerHandler`, `queries/answers.ts` |
| add, remove | `RosterOp`, `ReplayRosterOp` | `makeRosterOpHandler`, `applyRosterOp`, `queries/rosters.ts` |
| submit | `Submit` | `makeSubmitHandler`, `checkRepeatCounts` of `packages/core` |

A transaction begins, and takes its stamp `at`, before it waits for the lock, so
`Begin` and `Lock` are two steps and the order of `at` is not the order of the
commits. A random instance id is named by the transaction that minted it and a
number, which gives the order `(occurred_at, instance_id)` of the code, up to the order of
ids minted together. The answers inside an instance are left out.

### RosterContract

What a respondent may rely on, without lock, stamps, rows and reads. Of an open group
the instances it ever had (`made`) and those it has (`listed`); of a sized group what it shows
at each count it has reached (`shown`); the `answer` to the count question, the tokens
`spent`, and what was `sealed`. Four acts: `Respond`, with a count answer perhaps, which opens groups and brings
the sized ones to what is asked at once; `Add` and `Remove`, each once for its token; `Submit`, of
what is there, within bounds. An instance leaves a list by a removal alone and never comes
back, a group is opened once, and what a count showed it shows again. `Roster` instantiates it
with functions of its rows (`Made`, `Listed`, `Shown`) and implements it (`ImplementsRoster`).

### Releases

One form in the control database: its `draft`, `versions`, the `releases` of each
environment, the batch confirmations (`review`, what the client was shown;
`stored`, their results by idempotency key), and `formLock`, the row lock of `lockForm`.

| request | actions | code |
|---|---|---|
| save a draft | `SaveDraft` | `queries/forms.ts` `upsertDraft` |
| publish, publish and release | `FreezeDraft`, `WriteVersion`, `Publish` | `forms/handler.ts`, `queries/forms.ts` |
| release or roll back | `LoadRelease`, `ReadReleased`, `Release` | `releases/handler.ts`, `queries/releases.ts` |
| close, reopen | `LoadIntake`, `ReadReleased`, `Release` | `forms/handler.ts` `setIntake`, `queries/releases.ts` |
| confirm a batch | `Review`, `Replay`, `LoadBatch`, `ReplayLocked`, `RecheckBatch`, `WriteBatch`, `CommitBatch` | `releases/batch.ts` |
| purge, failure | `Purge`, `Abort` | `queries/release-batches.ts` |

Only a confirmation locks the form. Everything else decides on what it read in an
earlier statement, often before its transaction, and the model keeps those
reads apart from the writes. The default workflow is in force (prod needs a
release in test where test is served) and `TwoPerson` does not change while
requests run. Draft content is the number of the save that wrote it.

### ReleaseContract

What the history promises, over its two tables alone: versions in the order in which they are
published, the rows of each environment in the order in which they are written,
nothing taken back. Three acts, each judged by the rules and the history at the moment it
commits: `Publish`, with a release of its own where no rule asks for more; `Release` of a version that
somebody else published, where that is asked for, and that has been in test; `Intake`, which repeats
a version served there before (not always the newest, section 7). `Releases` implements it
(`ImplementsReleases`), although its requests judge by what they read long before.

### SessionStart

`SessionStart` EXTENDS `Releases`: the same form, plus `link` (the rows of
`secure_links`), `session` and the starts in flight. A step is one of the release
side or one of the respondents' side.

| request | actions | code |
|---|---|---|
| link | `Mint`, `Expire`, `revokeSecureLink` | `links/handler.ts`, `queries/secure-links.ts` |
| start | `startAnonymous`, `startFromSecureLink`, `requireOpenEnvironment`, `GiveUp`, `consumeSecureLink`, `insertPinnedSession` | `responses/start-session/handler.ts`, `queries/secure-links.ts` |

The check of the link, the read of the released version, the consumption and the
insert are separate statements. Only for a one-time link do the last two
share a transaction, which holds the link's row (`Consuming`).

### EndpointProposals

The endpoints of one form in prod and the changes to them that wait for a second
person. `proposal` and `audit` are in the control database, `endpoint` in the
environment's: there is no common transaction, and a request may stop after any
of its steps.

| request | actions | code |
|---|---|---|
| create, update, deactivate | `Configure`, then `Propose` or `DirectWrite` | `features/webhooks/handler.ts`, `propose.ts`, `queries/endpoint-proposals.ts` |
| confirm, resume | `Confirm` or `Resume`, then `ApplyToEndpoint`, `MarkApplied` | `features/webhooks/propose.ts`, `queries/endpoint-proposals.ts`, `queries/webhooks.ts` |
| withdraw | `Withdraw` | the same |
| the workspace's switch | `SetRule` | `features/membership/two-person.ts` |

`landed` is a history variable: the proposals whose write has reached the endpoint.

### RuleEvaluation

The visibility rules of `packages/core`: `analyzeRuleGraph`, which decides what a
publish may freeze, and `evaluateRules`, the single forward pass, both as
functions over conditions and positions. The module's steps are a respondent's: `Answer`,
`AddInstance`, `RemoveInstance`, each followed by an evaluation, under every set of rules
that a publish accepts.

A form is `Document`, its questions in order with their steps and groups. A comparison
is the set of values it accepts. `evalCondition` is the set of instance scopes in which
a condition holds, computed for the whole tree at once; the pass itself, `visibleKeys`,
goes over the live cells in document order and lets an answer take part once its
key is settled. `stepViews` are the pages a respondent's cursor indexes: a step is one page,
or one for each instance of its first paged group.

### Statements as steps

A statement reads a snapshot and takes its row locks in one step. PostgreSQL
re-evaluates the WHERE clause of a row it had to wait for; the guards do the
same, since a waiting statement is simply not enabled. Two rows locked one after
the other by one statement are therefore locked together: deadlocks between row
locks, which PostgreSQL resolves by aborting one side, appear only as the
failures `FailErase`, `AbortWrite`, `CrashPass` and `Abort`.

A request is used once, and a retry is another request. A process that crashes
before it has written anything is a request that takes no further step, which
every specification allows; `Abort` and the failures above are those that
matter because a lock or uncommitted rows go with them.

## 3. Plan

In order of what the system promises to the outside. Items 1 to 7 are done.

1. `ResponseSession`, `SubmissionContract`: safety, erasure and refinement proved.
2. `WebhookDelivery`, `DeliveryContract`: safety and refinement proved, liveness checked.
3. `Roster`, `RosterContract`: all its properties and the refinement proved.
4. `EndpointProposals`: all its properties proved.
5. `Releases`, `ReleaseContract`; the former holds drafts and publishing too, since a confirmation, a
   version insert and a draft save meet on the form's row: all its properties and the refinement proved.
6. `SessionStart`, composed with `Releases`: all its properties proved, and one of
   the composition.
7. `RuleEvaluation`: both its properties proved, and that the rules have one reading.
8. Left: `Roster` inside `ResponseSession` (the answers of a removed instance);
   a configured workflow that changes while releases run; membership (the
   last-owner guard); the question library.

## 4. The runs

Each run asks one question. `tlc -config <run>.cfg <module>` reproduces it.

### On ResponseSession (`MCResponseSession`)

The form has two required questions, `gate` (yes or no) and `detail`, which is
hidden while the gate is answered no. Two cells and two values are the least
with which a write can change what is visible, hide an answer that stays in the
ledger, and turn a ready session into an unready one. The posts are every kind of
single write and two batches, one with an entry that is refused while `detail`
is still hidden, one with two entries for one cell.

| run | who races | question |
|---|---|---|
| `session` (passes, 3.6M states) | two writers, two submitters, one releaser, one eraser, the sweep | do the status, the receipts, the events and the sealed content agree until an erasure, and does it implement `SubmissionContract`? |
| `session_erasure` (passes, 44k states) | two writers, one submitter, then two releasers and two erasers | does an erasure leave nothing behind when no answer write or submit overlaps it (`QuietErasure`)? |
| `session_sealed_ledger` (violated) | two writers, one submitter | does the ledger of a submitted session stay what was sealed? |
| `session_erasure_race` (violated) | one writer, one eraser | does an erasure leave nothing behind when the respondent is still answering? |
| `session_ledger_order` (violated) | two writers | is the write the lock admits last the current answer? |

Two writers are enough for one to be stale with respect to the other; two
submitters for a retry, or a double click, to meet the first; the proofs of
section 6 cover any number. A request runs once: a client that tries again is
another member of `Writers` or `Submitters`. Because every request does end, the runs do not
check deadlock. `session_erasure` uses symmetry over releasers and over erasers, which is
sound as it checks an invariant only.

### On WebhookDelivery (`MCWebhookDelivery`)

One event, a webhook `up` that accepts everything and a webhook `down` that may
answer anything and may be switched off and on, two attempts, batches of one,
one lost transaction.

| run | who races | question |
|---|---|---|
| `delivery` (passes, 175k states, with fairness) | two passes, one redeliverer, the sweep, an erasure, an administrator | is a copy sent twice only when an outcome was lost, is fan-out all or nothing, does a cancellation hold, does everything settle, and does it implement `DeliveryContract`? |
| `delivery_redacted_pending` (violated) | one pass, an erasure | is every delivery of a redacted event settled? |

Two attempts give a first failure, which is retried, and a last, which is
dead-lettered. A batch of one makes the two webhooks compete for a pass, which is
what `HealthyGetTheirs` is about. Two events pass the time limits of a run
(more than 12M states before the liveness check), and events meet each other only
in the batch; the safety theorems hold for any number. The system never stops (passes repeat),
so deadlock is checked.

### On the other modules

| run | instance | question |
|---|---|---|
| `roster` (passes, 1.3M states) | a group sized by an answer (1 to 2, answered 0, 3 or cleared), an open group (0 to 2), four requests, two tokens | do rosters stay within bounds, minted once and sized as answered, and does it implement `RosterContract`? |
| `releases` (passes) | two accounts, test and prod, two saves, four requests of which two run at once, one confirmation | is what prod serves approved and tested, is a confirmation idempotent, does it implement `ReleaseContract`? |
| `links` (passes) | one link, two starts, one save, three admin requests of which two run at once | is a one-time link spent once, a revoked one silent, a session pinned to what was open? |
| `proposals` (passes) | one endpoint id, two proposals, two accounts, two requests at a time | does only what two people agreed to land, and does the audit say so? |
| `rules` (passes) | a paged group of two questions between two others, two instances, every set of one or two out of thirteen rules, six of which a publish refuses | does only the visible count, and do changes only look forward? |

Why these bounds are enough for the cases to occur:

* `roster`: a count answered out of range is clamped both ways and can be raised
  again; two of four requests with one token are a retry, two others race them; a maximum of two
  is reached by a mint and an add. The theorems hold for all numbers.
* `releases`: publish, release to test and release to prod take three requests, and the
  fourth is the close, the second release or the confirmation that races them;
  with one confirmation and two requests for it, each replay path occurs. Two saves are
  the least with which a draft changes between its review and its confirmation. More
  than two requests at once are covered by the proofs alone.
* `links`: publishing to test, releasing to prod and closing take three requests;
  two starts are needed to compete for a link.
* `proposals`: a second proposal is what a stale resume or a second claim on the endpoint
  needs. Requests return to idle, so there is no bound on how many there are.
* `rules`: an instance count of two tells any from every; two rules are what a
  chain of visibility takes. Two of the thirteen read a whole group from inside it, which is
  where forward-only needs the span of the group and not the positions named.

In `roster`, `releases` and `links` requests are used once, and in `proposals` the ids of
proposals and endpoints run out, so they do not check deadlock. They use symmetry, under which
invariants and action properties may be checked; none has a liveness property.

### What the properties rule out

* `ReceiptsAgree`, `AnnouncedOnce`: a retry or a race that seals twice, sends two
  events, or announces a flagged submission early. They survive even the race of
  `session_sealed_ledger`, thanks to the primary key of `submissions`.
* `ReadsStillHold`, `SealsTheLedger`, `VisibleWhenAppended`: what a request read
  outside its critical section being stale when it is used.
* `StatusTellsHistory`: the answers given by handlers that trust the status alone.
* `ImplementsContract`: any other step a client could see, such as a submission that is
  replaced or an event that is withdrawn.
* `AcceptedOnce`, `CancelledStaysSilent`: two holders of a delivery, a send after its cancellation.
* `ImplementsDelivery`: the off-by-one at the maximum, a redelivery that starts half used up,
  an event fanned out twice, a stage skipped or revived, a sweep that redacts what is still to be sent.
* `NoDeliveryLost`, `EventsAreConsumed`: a crash or a switched webhook that loses an event.
* `RedactedNeverFannedOut`, `DeliveriesSettle`, `HealthyGetTheirs`: rows that are
  never settled, endpoints that wait for one another.
* `WithinMax`, `MintedOnce`, `OneEffectPerToken`: two requests that each see room for
  one more, two serves that each mint, a form posted twice.
* `SizedAsAnswered`: a count and its instances that are committed apart, so that a reader in
  between sees one without the other.
* `ImplementsRoster`: a mint that replaces what was removed, an operation that is lost or comes
  undone because of an older stamp, a seal of anything but what is there, any change of a list that
  no form asked for.
* `RelivesTheSame`: an instance with answers pushed out by one whose stamp is older.
* `ServedWasApproved`, `TestedFirst`: a release that relies on a check made before its
  transaction; a close that writes a release row without an approval.
* `ConfirmedOnce`: a confirmation that runs again after a replay, a race or the purge of its result.
* `ImplementsReleases`: two publishes with one number, a release whose prerequisite or approval no
  longer holds when it commits, a close that serves what was never served there, any change to what is recorded.
* `OneTimeSpentOnce`, `RevokedStartsNothing`, `PinnedToServed`: a link shared, lost to
  a start that failed, or used after its revocation; a version that was never open.
* `OnlyAgreedChangesLand`, `AuditNamesBoth`, `AppliedMeansLanded`: a change by one
  person, a resume nobody confirmed, a stamp without the write.
* `OnlyTheVisibleCounts`, `ChangesLookForward`: an answer out of sight that still shows or
  hides something, and pages renumbered behind the respondent.

Every property comes with a mutant, a definition marked `Fault:` in the module that
changes one action the way a plausible bug would. With it in place of the
action, the run of the property finds a violation.

## 5. Fairness

Only `WebhookDelivery` states any: everywhere else a step is a client's or an
administrator's, nothing makes them finish, and the properties are safety.
`WebhookDelivery` assumes, for its liveness properties only:

* `WF(PassAction(p))`: `scheduler.ts` 27-82 sets the next timer after every
  pass, failed or not; a POST ends by `config.webhooks.deliveryTimeoutMs`.
* `WF(BackoffElapses(d))`: time passes.
* `SF(claimDueDeliveries(p, d))`, for some pass: the claim orders by `next_attempt_at`
  (`deliveries.ts` 141-173) and every failure moves its row behind the rows that are due, so a row that
  is due again and again comes to the head. The order itself is not modelled; `SF` is what remains of it.
* `WF(EraseAction(e))`: an erasure transaction that has begun ends.

Nothing is assumed of submits, administrators, sweeps and crashes.

Liveness speaks of events whose answers are still there. For the others
`delivery_redacted_pending` shows that no such property holds.

## 6. What is proved

Every statement below holds for all values of the constants that satisfy the
assumptions of the module, and is checked by TLAPS to the last leaf.

### ResponseSession (`ResponseSession_proofs`)

`TypeCorrect` needs only that each action keeps the types. It rests on the lemmas
about `latestAnswers`, `Visible` and `LockedAnswers`.

The safety invariants are not inductive. `ReadsStillHold` survives a commit only because
the committing request holds the lock and nobody else is between its read and
its write. So the inductive invariant `SessionInv` adds

* `LockHeldByOne`: a writer that is applying and a submitter that is sealing, and
  only they, hold the lock;
* `NothingBuffered`: a transaction without the lock has written nothing (else
  `expireSessions` and the commit of another writer could meet its rows).

`StatusTellsHistory`, `ReceiptsAgree` and `AnnouncedOnce` then need each other: a
replayed receipt is right because a submitted session has its row, a release announces the right
content because what it read still holds. The action properties `SealsTheLedger` and
`VisibleWhenAppended` follow from `ReadsStillHold` for the one action that seals and
the one that appends. `SessionImplementsContract` maps `CommitSubmit` to `Seal`,
`ClearFlag` to `Release`, `CommitErase` to `Erase`, and everything else to a stutter.

Assumed: the pinned cells contain the required ones (`CellAssumption`), refused
input and the clearing literal are not values (`ValueAssumption`), bodies are well
formed (`PostAssumption`), `Visible` returns cells (`VisibleAssumption`), and
requests of different kinds are different (`ProcessAssumption`).

### WebhookDelivery (`WebhookDelivery_proofs`)

The argument is about who holds which row. `DeliveryInv` adds to the safety invariants

* `EventsHeld`, `DeliveriesHeld`: an event being fanned out and a delivery being
  sent have one holder, are still queued or pending, and no erasure has them;
* `ErasureHolds`: an erasure holds undelivered deliveries of its own event, and every
  snippet among them once it has scrubbed;
* `PassLocals`, `CheckedExists`, `OthersStayActive`: what the records of passes
  and redeliverers say about themselves.

`AcceptedOnce` needs `DeliveriesHeld`, as two holders would accept twice;
`CancelledStaysSilent` needs `ErasureHolds` and `DeliveriesHeld`, as the cancellation was decided some
statements before it commits; `NoDeliveryLost` needs that a fan-out done with an
event has a row for each webhook that is never switched. `RedactionPrecludesFanOut` is the action
property: the rows a fan-out commits belong to events it holds, and a held event is not redacted.

`DeliveryImplementsContract` is the refinement. Most steps replace one row, and
`RowMoves` says that replacing a row is the step of the contract that its change of
stage is. So `markDeliveryDelivered` is `Deliver` and `recordDeliveryFailure` is `Fail`, as
what a pass has sent is pending (`SentIsPending`, from `DeliveriesHeld`); a reset is
`Redeliver`, or nothing when the row has been cancelled since it was checked. `CommitFanOut`
is `FanOut`, `redactAgedOutboxPayloads` is `Redact`, `CommitErase` is `Erase`, and all else
stutters. A pass that crashes after the 2xx stutters too: the contract knows only what QCMS
has recorded. That failures never pass the maximum (`DeadAfterItsAttempts`, part of
`DeliveryInv`) is what makes the contract's test for the last attempt an equality.

Assumed: `HookAssumption`, `LimitAssumption`, `NoneAssumption`.

### Erasure (`ResponseSessionErasure_proofs`)

`ErasureIsComplete` is about `QuietSpec`, which is `Spec` with the restriction
`QuietErasure`: no erasure while the respondent's requests are in flight, and none of
them afterwards. (Without it the property fails, `session_erasure_race`.) Releases of a
flagged submission and other erasures still run. `QuietInv` says that once an
erasure is under way nobody answers, and that what an erasure has deleted but not
committed covers all answers, the submission and all events there are. The
delicate case is a release that has read the submission: past the erasure's delete it
waits for the row, and then finds none.

### Roster (`Roster_proofs`)

`RosterInv` has the parts

* `RowsOK`: of any set of rows: stamps and numbers identify the instances of a group,
  minted ones are at most what the group opens with, a token occurs once;
* `Locking`: what the holder of the lock read is what is there;
* `Stamps`: a transaction in flight has a stamp of its own that no row has yet;
* `Sized`: the instances the newest count answer asks for exist, and were minted no
  later than that answer was begun;
* `Sealing`: the seal is in range (`SealedInRange`, which no run checks, as the contract implies it).

The difficulty is the order by begin-time stamps. `Sized` is why it does no harm: an answer that raises the count
mints only if it is the newest, and then it is newer than every instance of the
group, so what it mints comes last (`Appended`), and `RelivesTheSame` follows. An
answer that began earlier but won the lock later changes nothing that decides.

That the first n of a finite set of rows are n rows (`First`) is proved without
induction over data: the rank of a row maps `First` injectively into `0..n-1`, and a
smallest row that is left out has n before it.

`RosterImplementsContract` is the refinement. Whatever a transaction did first, the contract sees it
through the mint that ends it: `Responds` says that a commit is a mint over the rows that were
read with the operation's own, and then each group comes out as the contract
says (`RespondsDraws`, `RespondsGrows`). `ContractInv` adds to `RosterInv` the three facts that takes: a fixed
group is minted whole (`Whole`), so that a later mint does not reorder it; a removal names
an instance its group had (`RemovesMinted`), so that no mint is removed before it is made; and a
removal in flight carries a later stamp than that instance (`RemovesLater`), without which the row it
appends would remove nothing. The last holds because a client is shown an instance
before it can ask for its removal, so that the removal begins later.

Assumed: `CountAssumption` (bounds as publishing accepts them, finitely many
groups), `InputAssumption`.

### Releases (`Releases_proofs`)

A request acts on checks it made before its transaction. `ReleaseInv` says for
each kind of request what it still relies on (`RequestOK`), and it stays true because versions and
releases only grow: an approval and a prerequisite, once met, are never unmet.
What can be invalidated is the next version number, and `Exclusive` says that at
most one request is numbering one. Two strengthenings are separate: `ShapeInv` (whose content a
version holds, and who has the lock) for the types, `ConfirmInv` for `ConfirmedOnce`.
The latter needs no stored result: once a confirmation has committed, its releases are
past the sequence it was reviewed at (`Passed`), so that no copy passes the recheck
again, also after the purge.

`ReleasesImplementContract` rests on `ReleaseInv`: at a commit `Cleared` and `OwnRelease` are the
guards of `Release` and `Publish`, `IntakeOK` is that of `Intake`, and `Exclusive` makes the version
that is committed the next one (`CommitAppends`). `SavesStep` bounds what a draft may hold.
That nothing in the history changes (`HistoryIsKept`) is proved on its own as well; no run
checks it, as the contract implies it.

Assumed: `NamesAssumption`, `DisjointAssumption`.

### SessionStart (`SessionStart_proofs`)

`StartInv` adds who holds a one-time link's row, that a consumed link has exactly one
session (`SpentOnce`), and that a pinned version was served open at some sequence
since the start began (`ServedOpen`), which later releases do not change
(`ServedStays`). `RespondentsSeeTheApproved` combines this with
`ServedWasApproved`, proved for `Releases`: it is a theorem about the composition that
no run checks on its own. `StartsKeepTheHistory` is another: with starts and links about, the
history is still that of `ReleaseContract`, since every step of the composition is one of
`Releases` or leaves its variables alone.

Assumed: `LinksAssumption` and those of `Releases`.

### EndpointProposals (`EndpointProposals_proofs`)

`ProposalInv`: a request that is applying names a proposal that a second account
confirmed, `landed` holds only such proposals, the audit has a row for each fact
and no other (`Audited`, `AuditComplete`), and an endpoint has one open
proposal. The invariant survives crashes, since a request that stops leaves nothing behind that
it relies on.

Assumed: `NamesAssumption`.

### RuleEvaluation (`RuleEvaluation_proofs`)

The forward pass recurses over the document and over the trees of conditions. The
library's induction takes an operator as a parameter, so each induction is made by hand, from
a least number (`LeastNumber`, `AllNumbers`) or a least condition
(`ConditionInduction`) at which a set of counterexamples would begin. What the recursive
functions satisfy (`ReadsFacts`, `EvalFacts`, `WalkedCells`) is derived from their definitions,
with a witness built by recursion where a definition chooses one (`ConditionRecursion`, `StepByStep`).

The rest is one idea. Call two readings of a form (rosters and the answers that
count) the same up to n when they agree on every cell up to position n and on every
group whose span ends there. Then

* a condition that reads nothing beyond n holds in both or in neither
  (`HoldsAgrees`), and so with the rules of a target that lies beyond all they read
  (`AnyRuleAgrees`, `StepShownAgrees`, `WalkAgrees`);
* so a cell that the pass decides while it has settled what lies before it
  is decided as it would be once everything is settled (`VisibleSettled`). That is
  `OnlyTheVisibleCounts`;
* two changes of the form that agree up to n are settled alike up to n (`SettledForward`, by
  induction on the position). That is the part of `ChangesLookForward` on cells, and, with
  both readings being of one form, `OnlyOneReading`;
* a step that begins no later than n is shown in both or in neither (`SameSteps`), and as
  the pages of a form are gathered step by step (`FlattenAgrees`), every page up to it keeps
  its number.

Of what a publish checks, `ForwardOnly` is all that the argument needs.

Assumed: `DocumentAssumption` (a question occurs once, steps and groups are contiguous),
`ConditionsAssumption` (finitely many conditions, none inside itself), `RulesAssumption`.

### Checked by TLC only

* `EventsAreConsumed`, `DeliveriesSettle`, `HealthyGetTheirs`: liveness under
  fairness is out of the prover's reach.
* The properties of the violation runs, which do not hold.

## 7. Where code and documents part

1. *An answer write can outlive the seal* (`session_sealed_ledger`). A writer that
   read the session before a submit, and waits for the lock while it seals,
   appends to a submitted session and sets it back to `in_progress`. The sealed
   submission itself stays as it is.
2. *An erasure does not stop the respondent* (`session_erasure_race`). It takes no
   advisory lock and no respondent handler looks for the tombstone.
3. *The lock does not order the ledger* (`session_ledger_order`). `answered_at`
   is the start of the transaction, before the wait for the lock.
4. *Deliveries that stay pending* (`delivery_redacted_pending`). An erasure that
   overlaps the fan-out of its event, or a redelivery that overlaps an erasure or
   the payload sweep, leaves deliveries that nobody may claim.

The following also part, or are surprising, and have no run of their own.

* *A close can serve an older version again.* `setIntake` reads the released version
  in its transaction, but at READ COMMITTED a release may commit between that
  read and the insert; the row then repeats the earlier version. The comment at
  `forms/handler.ts:1609` rules this out. `IntakeKeepsTheVersion` in `Releases` states
  it, and it is false in the model; `ServedWasApproved` holds all the same.
* *A release can reopen a form that was closed while it ran*, and a close or
  release can commit after the recheck of a batch: neither takes the form's lock.
* *A publish deletes the draft there is*, which may hold a save made after the one it froze.
* *A draft's revision starts at 1 again* after a publish, so a confirmation may be
  met by another draft of the same revision than the one reviewed.
* *A link that is not one-time* is checked when a start begins; a revocation that
  commits before the session does not stop it.
* *A withdrawn endpoint change can still go live*, when it is withdrawn between
  the confirmation and the write, and a late resume may undo a later change; compare
  `docs/webhooks.md:24` and `51-58`.
* *Roster rows are ordered by the begin of their transaction*, where the comments
  of `rosters.ts` speak of the order in which they were added.

One more disagreement is in the text only: `docs/webhooks.md:464-466` says a delivered
payload lives indefinitely, as "there is no retention sweep for it yet", while the
retention sweep does call `redactAgedOutboxPayloads`.

## 8. Not modelled, and why

* Rosters inside `ResponseSession`: the form of `ResponseSession` has no repeating
  group, and `Roster` no answers in its instances. Together they pass the time limits of a run.
* A configured release workflow, its revision and `allowsInBatch`, and a change of the
  two-person rule while a release runs: both are read before the transaction, so that a
  change takes effect on the requests that come after it.
* Rule evaluation and answer validation inside `ResponseSession`: constants, so that the
  safety theorems hold for every form.
* In `RuleEvaluation`: the landing step and the required counts, the cost budget, the order of a
  count source, the types of compared values. `RULE_CYCLE` follows from
  forward-only.
* Draft compilation and answer validation: local checks of a document or a value.
* The question library: one row at a time, under its own condition.
* Membership and grants: one check and one write. The owners are counted without a lock,
  so two demotions at once can leave none; recorded as a hazard.
* The projection a response carries back to the client: read-only.
* Row-lock deadlocks: see "Statements as steps".
* Events of other types than `response.submitted`: consumed without a fan-out.
* Exact times: backoff, retention and expiry are choices of what is due or old.
* Link signatures and challenges: a start is given a verified token, and the challenge may refuse.
* The agent's trail, reports, authentication, rate limits, migrations, the
  front ends: no state that these properties could be about.
