------------------------------ MODULE Releases ------------------------------
(***************************************************************************)
(* One form's draft, its published versions and its release history in     *)
(* each environment, as the admin API's handlers change them in the        *)
(* control database at READ COMMITTED.  A batch confirmation locks the     *)
(* form's row, which a version insert and a first draft save share through *)
(* their foreign keys; every other handler acts on what it read earlier.   *)
(*                                                                         *)
(* The default release workflow is in force (prod needs a test release     *)
(* where test is served), the two-person rule does not change meanwhile,   *)
(* and a draft's content is the number of the save that wrote it.          *)
(***************************************************************************)
EXTENDS Naturals, Sequences, FiniteSets

CONSTANTS
    Requests,       \* admin requests, each used once
    Accounts,
    Environments,   \* the served environments
    Keys,           \* idempotency keys of batch confirmations
    TwoPerson,      \* workspace.requireSecondApprover
    MaxSaves,       \* bound on draft saves
    MaxInFlight,    \* bound on requests in progress at once
    None

ASSUME NamesAssumption ==
    /\ Environments \subseteq {"test", "prod"}
    /\ TwoPerson \in BOOLEAN
    /\ MaxSaves \in Nat /\ MaxInFlight \in Nat
    /\ None \notin Requests \cup Accounts \cup Keys \cup Nat
ASSUME DisjointAssumption ==
    /\ None \notin [revision : Nat, content : Nat]
    /\ None \notin {"release", "intake", "publish", "pubrel", "batch"}

VARIABLES
    draft,          \* the form_drafts row, or None
    saves,          \* how many saves there have been
    versions,       \* form_versions, by number
    releases,       \* form_releases of each environment, by sequence
    review,         \* for each key, the confirmation the client minted it for
    stored,         \* release_batches: the stored result of each key, or None
    formLock,       \* the holder of lockForm
    request         \* requests in flight

control == <<draft, saves, versions, releases, stored>>
vars == <<draft, saves, versions, releases, review, stored, formLock, request>>

Row == [version : Nat, by : Accounts, approvedBy : Accounts \cup {None}, closed : BOOLEAN]

Idle == [pc |-> "idle", kind |-> None, by |-> None, key |-> None, targets |-> {},
         version |-> 0, content |-> 0, close |-> FALSE, closed |-> <<>>,
         deletes |-> FALSE, result |-> None]

Init ==
    /\ draft = None
    /\ saves = 0
    /\ versions = <<>>
    /\ releases = [e \in Environments |-> <<>>]
    /\ review = [k \in Keys |-> None]
    /\ stored = [k \in Keys |-> None]
    /\ formLock = None
    /\ request = [q \in Requests |-> Idle]

-----------------------------------------------------------------------------
(* Reads.                                                                  *)

Numbers(history) == {history[i].version : i \in DOMAIN history}

\* getReleasedVersion: the newest row by sequence.
Released(e) == IF releases[e] = <<>> THEN None ELSE releases[e][Len(releases[e])]
Serves(e, v) == Released(e) # None /\ Released(e).version = v
ClosedIn(e) == Released(e) # None /\ Released(e).closed

\* defaultWorkflowRules: prod is gated where test is served too.
Gated(e) == e = "prod" /\ "test" \in Environments
requireDraftEligible(e) == ~Gated(e)

\* Fault: a sibling target of the same confirmation counts as the prior release.
requirePrerequisiteBySibling(v, e, targets) ==
    Gated(e) => \/ v \in Numbers(releases["test"]) \cup Numbers(releases[e])
                \/ "test" \in targets

\* A committed release in test, or in the destination itself (a rollback).
requirePrerequisite(v, e, targets) ==
    Gated(e) => v \in Numbers(releases["test"]) \cup Numbers(releases[e])

ApprovalNeeded(e) == TwoPerson /\ e = "prod"

\* Fault: the releaser is recorded as the approver without being compared.
approvalForReleaseUnchecked(by, author, e) == TRUE

approvalForRelease(by, author, e) == ApprovalNeeded(e) => author # by

-----------------------------------------------------------------------------
(* Drafts, and version numbers.                                            *)

Step(q, r) == request' = [request EXCEPT ![q] = r]
Done(q) == [Idle EXCEPT !.pc = "done", !.key = request[q].key]
Arrives(q) == /\ request[q].pc = "idle"
              /\ Cardinality({p \in Requests : request[p].pc \notin {"idle", "done"}}) < MaxInFlight
In(q, pc, kinds) == request[q].pc = pc /\ request[q].kind \in kinds

\* Requests holding an uncommitted version row, which shares the form's row; and
\* those that have also deleted the draft.
Publishing == {q \in Requests : In(q, "writing", {"publish", "pubrel"})}
Deleting == {q \in Requests : request[q].pc = "writing" /\ request[q].deletes}

\* upsertDraft: a new row starts at revision 1.  The save waits for a transaction
\* that is deleting the row, and a new row for one that has locked the form.
SaveDraft ==
    /\ saves < MaxSaves
    /\ Deleting = {}
    /\ draft = None => formLock = None
    /\ saves' = saves + 1
    /\ draft' = [revision |-> IF draft = None THEN 1 ELSE draft.revision + 1,
                 content |-> saves + 1]
    /\ UNCHANGED <<versions, releases, review, stored, formLock, request>>

\* freezeDraft reads and compiles the draft before any transaction is open.
FreezeDraft(q) ==
    /\ Arrives(q)
    /\ draft # None
    /\ \E by \in Accounts, kind \in {"publish", "pubrel"}, e \in Environments :
         /\ kind = "pubrel" => approvalForRelease(by, by, e) /\ requireDraftEligible(e)
         /\ Step(q, [Idle EXCEPT !.pc = "frozen", !.kind = kind, !.by = by,
                        !.content = draft.content,
                        !.targets = IF kind = "pubrel" THEN {e} ELSE {}])
    /\ UNCHANGED <<control, review, formLock>>

\* lockForm waits for another confirmation and for a version being inserted.
Lockable == formLock = None /\ Publishing = {}

\* Fault: the primary key does not stop a second insert of the number.
NumberFreeAlways == TRUE

\* A second insert of the next number waits, and fails once the first commits;
\* one under another's form lock waits as well.
NumberFree == Lockable

\* insertFormVersion numbers the version; deleteDraft deletes the row there is,
\* whatever it holds by now.  A combined release then reads whether intake is
\* closed.
WriteVersion(q) ==
    /\ In(q, "frozen", {"publish", "pubrel"})
    /\ NumberFree
    /\ Step(q, [request[q] EXCEPT !.pc = "writing", !.version = Len(versions) + 1,
                  !.deletes = (draft # None),
                  !.closed = [e \in request[q].targets |-> ClosedIn(e)]])
    /\ UNCHANGED <<control, review, formLock>>

\* The committed effect of a version insert and the deletion beside it.
CommitVersion(q) ==
    /\ versions' = [n \in 1 .. (IF request[q].version > Len(versions) THEN request[q].version
                                ELSE Len(versions)) |->
                       IF n = request[q].version
                       THEN [content |-> request[q].content, by |-> request[q].by]
                       ELSE versions[n]]
    /\ draft' = IF request[q].deletes THEN None ELSE draft

\* insertFormRelease for each target, numbered when it is inserted; the closed
\* flag and the approval were read before.
InsertRelease(q, approve) ==
    releases' = [e \in Environments |->
        IF e \in request[q].targets
        THEN Append(releases[e],
                    [version |-> request[q].version, by |-> request[q].by,
                     approvedBy |-> IF approve /\ ApprovalNeeded(e) THEN request[q].by ELSE None,
                     closed |-> request[q].closed[e]])
        ELSE releases[e]]

Publish(q) ==
    /\ In(q, "writing", {"publish", "pubrel"})
    /\ CommitVersion(q)
    /\ InsertRelease(q, TRUE)
    /\ Step(q, Done(q))
    /\ UNCHANGED <<saves, review, stored, formLock>>

-----------------------------------------------------------------------------
(* One release, and closing or reopening intake.                           *)

\* makeReleaseVersionHandler judges the approval and the workflow before its
\* transaction.
LoadRelease(q) ==
    /\ Arrives(q)
    /\ \E by \in Accounts, e \in Environments, v \in DOMAIN versions :
         /\ approvalForRelease(by, versions[v].by, e)
         /\ requirePrerequisite(v, e, {e})
         /\ Step(q, [Idle EXCEPT !.pc = "loaded", !.kind = "release", !.by = by,
                                 !.version = v, !.targets = {e}])
    /\ UNCHANGED <<control, review, formLock>>

\* setIntake looks at the state once to refuse a close of a closed form.
LoadIntake(q) ==
    /\ Arrives(q)
    /\ \E by \in Accounts, e \in Environments, close \in BOOLEAN :
         /\ Released(e) # None
         /\ Released(e).closed # close
         /\ Step(q, [Idle EXCEPT !.pc = "loaded", !.kind = "intake", !.by = by,
                                 !.close = close, !.targets = {e}])
    /\ UNCHANGED <<control, review, formLock>>

\* getReleasedVersion in the transaction: a release takes the closed flag from
\* it, a close or reopen the version (setClosedInEnvironment).
ReadReleased(q) ==
    /\ In(q, "loaded", {"release", "intake"})
    /\ \E e \in request[q].targets :
         IF request[q].kind = "release"
         THEN /\ ~Serves(e, request[q].version)
              /\ Step(q, [request[q] EXCEPT !.pc = "read",
                             !.closed = [t \in request[q].targets |-> ClosedIn(t)]])
         ELSE Step(q, [request[q] EXCEPT !.pc = "read", !.version = Released(e).version,
                         !.closed = [t \in request[q].targets |-> request[q].close]])
    /\ UNCHANGED <<control, review, formLock>>

\* A close or reopen carries no approval.
Release(q) ==
    /\ In(q, "read", {"release", "intake"})
    /\ InsertRelease(q, request[q].kind = "release")
    /\ Step(q, Done(q))
    /\ UNCHANGED <<draft, saves, versions, review, stored, formLock>>

-----------------------------------------------------------------------------
(* A reviewed confirmation: publish-batch and release-batch.               *)

\* The review a client confirms: what it releases and where, the draft's
\* revision, and the newest sequence in each target.
Review(k) ==
    /\ review[k] = None
    /\ \E by \in Accounts, targets \in (SUBSET Environments) \ {{}} :
         \/ /\ draft # None
            /\ review' = [review EXCEPT ![k] =
                 [by |-> by, version |-> 0, revision |-> draft.revision, content |-> draft.content,
                  expected |-> [e \in targets |-> Len(releases[e])]]]
         \/ \E v \in DOMAIN versions :
              review' = [review EXCEPT ![k] =
                 [by |-> by, version |-> v, revision |-> 0, content |-> 0,
                  expected |-> [e \in targets |-> Len(releases[e])]]]
    /\ UNCHANGED <<control, formLock, request>>

\* storedResult: the fast path of a replay.
Replay(q, k) ==
    /\ Arrives(q)
    /\ stored[k] # None
    /\ Step(q, [Idle EXCEPT !.pc = "done", !.key = k, !.result = stored[k]])
    /\ UNCHANGED <<control, review, formLock>>

\* A draft is frozen before the transaction, at the revision reviewed.
LoadBatch(q, k) ==
    /\ Arrives(q)
    /\ review[k] # None
    /\ stored[k] = None
    /\ review[k].version = 0 => draft # None /\ draft.revision = review[k].revision
    /\ Step(q, [Idle EXCEPT !.pc = "loaded", !.kind = "batch", !.by = review[k].by, !.key = k,
                  !.version = review[k].version, !.targets = DOMAIN review[k].expected,
                  !.content = IF review[k].version = 0 THEN draft.content ELSE 0])
    /\ UNCHANGED <<control, review, formLock>>

\* commitReleaseBatch looks the result up again under the form's lock.
ReplayLocked(q) ==
    /\ In(q, "loaded", {"batch"})
    /\ Lockable
    /\ stored[request[q].key] # None
    /\ Step(q, [Done(q) EXCEPT !.result = stored[request[q].key]])
    /\ UNCHANGED <<control, review, formLock>>

\* Fault: the sequence each target was reviewed at is not rechecked.
recheckTargetsUnsequenced(k, v) ==
    \A e \in DOMAIN review[k].expected :
        IF v = 0 THEN requireDraftEligible(e) /\ approvalForRelease(review[k].by, review[k].by, e)
        ELSE /\ ~Serves(e, v)
             /\ requirePrerequisite(v, e, DOMAIN review[k].expected)
             /\ approvalForRelease(review[k].by, versions[v].by, e)

recheckTargets(k, v) ==
    \A e \in DOMAIN review[k].expected :
        /\ Len(releases[e]) = review[k].expected[e]
        /\ IF v = 0 THEN requireDraftEligible(e) /\ approvalForRelease(review[k].by, review[k].by, e)
           ELSE /\ ~Serves(e, v)
                /\ requirePrerequisite(v, e, DOMAIN review[k].expected)
                /\ approvalForRelease(review[k].by, versions[v].by, e)

\* Every expectation is rechecked before the first write.
RecheckBatch(q) ==
    /\ In(q, "loaded", {"batch"})
    /\ Lockable
    /\ LET k == request[q].key
       IN /\ stored[k] = None
          /\ review[k].version = 0 => draft # None /\ draft.revision = review[k].revision
          /\ recheckTargets(k, review[k].version)
    /\ formLock' = q
    /\ Step(q, [request[q] EXCEPT !.pc = "rechecked"])
    /\ UNCHANGED <<control, review>>

\* freeze, and the closed flag of each target.
WriteBatch(q) ==
    /\ In(q, "rechecked", {"batch"})
    /\ Step(q, [request[q] EXCEPT !.pc = "writing",
                  !.version = IF @ = 0 THEN Len(versions) + 1 ELSE @,
                  !.deletes = (request[q].version = 0 /\ draft # None),
                  !.closed = [e \in request[q].targets |-> ClosedIn(e)]])
    /\ UNCHANGED <<control, review, formLock>>

\* Fault: the form stays locked.
CommitBatchLocked(q) ==
    LET result == [version |-> request[q].version,
                   at |-> [e \in request[q].targets |-> Len(releases[e]) + 1]]
    IN /\ In(q, "writing", {"batch"})
       /\ IF request[q].content # 0 THEN CommitVersion(q) ELSE UNCHANGED <<versions, draft>>
       /\ InsertRelease(q, TRUE)
       /\ stored' = [stored EXCEPT ![request[q].key] = result]
       /\ Step(q, [Done(q) EXCEPT !.result = result])
       /\ UNCHANGED <<saves, review, formLock>>

CommitBatch(q) ==
    LET result == [version |-> request[q].version,
                   at |-> [e \in request[q].targets |-> Len(releases[e]) + 1]]
    IN /\ In(q, "writing", {"batch"})
       /\ IF request[q].content # 0 THEN CommitVersion(q) ELSE UNCHANGED <<versions, draft>>
       /\ InsertRelease(q, TRUE)
       /\ stored' = [stored EXCEPT ![request[q].key] = result]
       /\ formLock' = None
       /\ Step(q, [Done(q) EXCEPT !.result = result])
       /\ UNCHANGED <<saves, review>>

\* purgeExpiredReleaseBatches, a week after the confirmation.
Purge(k) ==
    /\ stored[k] # None
    /\ stored' = [stored EXCEPT ![k] = None]
    /\ UNCHANGED <<draft, saves, versions, releases, review, formLock, request>>

-----------------------------------------------------------------------------
\* A refusal, a duplicate key or a lost connection.  (A request that ends before
\* it has read anything in its transaction is one that takes no further step.)
Abort(q) ==
    /\ request[q].pc \in {"writing", "rechecked"}
    /\ formLock' = IF formLock = q THEN None ELSE formLock
    /\ Step(q, [Idle EXCEPT !.pc = "done"])
    /\ UNCHANGED <<control, review>>

Next ==
    \/ SaveDraft
    \/ \E k \in Keys : Review(k) \/ Purge(k)
    \/ \E q \in Requests :
         \/ FreezeDraft(q) \/ WriteVersion(q) \/ Publish(q)
         \/ LoadRelease(q) \/ LoadIntake(q) \/ ReadReleased(q) \/ Release(q)
         \/ \E k \in Keys : Replay(q, k) \/ LoadBatch(q, k)
         \/ ReplayLocked(q) \/ RecheckBatch(q) \/ WriteBatch(q) \/ CommitBatch(q)
         \/ Abort(q)

Spec == Init /\ [][Next]_vars

-----------------------------------------------------------------------------
\* The shape of the state; the form's lock is held by a confirmation in its
\* transaction.
TypeOK ==
    /\ draft = None \/ draft.content \in 1 .. saves
    /\ \A v \in DOMAIN versions : versions[v].content \in 1 .. saves /\ versions[v].by \in Accounts
    /\ \A e \in Environments : releases[e] \in Seq(Row) /\ Numbers(releases[e]) \subseteq DOMAIN versions
    /\ formLock # None => In(formLock, "rechecked", {"batch"}) \/ In(formLock, "writing", {"batch"})

\* Under the two-person rule, whatever version prod ever served was released
\* there by an account that did not publish it: also when a close or reopen
\* wrote the row, which carries no approval of its own, or a batch did.
ServedWasApproved ==
    TwoPerson /\ "prod" \in Environments =>
        \A i \in DOMAIN releases["prod"] :
            LET v == releases["prod"][i].version
            IN \E j \in 1 .. i : /\ releases["prod"][j].version = v
                                 /\ releases["prod"][j].approvedBy \notin {None, versions[v].by}

\* A version reaches prod only if it was served in test before, not in the same
\* act, or had been in prod already.
TestedFirst ==
    [][{"test", "prod"} \subseteq Environments =>
           Numbers(releases'["prod"]) \subseteq
               Numbers(releases["prod"]) \cup Numbers(releases["test"])]_vars

\* One confirmation has one effect: every copy of it that is answered is told of
\* the same version and the same rows, whether it ran at once, later, or after
\* its stored result was purged.
ConfirmedOnce ==
    \A p, q \in Requests :
        request[p].result # None /\ request[q].result # None /\ request[p].key = request[q].key =>
            request[p].result = request[q].result

\* A published version and a release row never change: sessions are pinned to
\* one, audits read the other.
HistoryKept ==
    [][/\ Len(versions) <= Len(versions') /\ \A v \in DOMAIN versions : versions'[v] = versions[v]
       /\ \A e \in Environments :
            /\ Len(releases[e]) <= Len(releases'[e])
            /\ \A i \in DOMAIN releases[e] : releases'[e][i] = releases[e][i]]_vars

Contract == INSTANCE ReleaseContract WITH Contents <- 1 .. MaxSaves

\* However requests race, what is committed is one act after another: a publish
\* takes the next number, each row says what it may say where it lands by the
\* history and the rules as they then are, though both were read long before,
\* and no version or row is lost or changed.
ImplementsReleases == Contract!Spec

\* No close or reopen changes which version is served: "a release landing
\* between them cannot be closed over with the earlier version" (setIntake).
\* At READ COMMITTED it is false: the release may commit after the read (README).
IntakeKeepsTheVersion ==
    [][\A q \in Requests :
           In(q, "read", {"intake"}) /\ request'[q].pc = "done" =>
               \A e \in request[q].targets :
                   releases'[e][Len(releases'[e])].version = Released(e).version]_vars
=============================================================================
