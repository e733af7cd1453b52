-------------------------- MODULE Releases_proofs --------------------------
(***************************************************************************)
(* What the release history of a form keeps, for any number of requests,   *)
(* accounts, keys and drafts.  A request's checks are made before its      *)
(* transaction and never again, and hold all the same when it commits:     *)
(* versions and releases are only ever added, and one request at a time    *)
(* numbers a version.                                                      *)
(***************************************************************************)
EXTENDS Releases, TLAPS

-----------------------------------------------------------------------------
(* The inductive invariant.                                                *)

VersionRec == [content : Nat, by : Accounts]
DraftRec == [revision : Nat, content : Nat \ {0}]
Closings == {<<>>} \cup UNION {[T -> BOOLEAN] : T \in SUBSET Environments}
Counts == UNION {[T -> Nat] : T \in SUBSET Environments}
Result == [version : Nat, at : Counts]
ReviewRec == [by : Accounts, version : Nat, revision : Nat, content : Nat, expected : Counts]
Kinds == {"publish", "pubrel", "release", "intake", "batch"}
RequestRec ==
    [pc : {"idle", "frozen", "loaded", "read", "rechecked", "writing", "done"},
     kind : Kinds \cup {None}, by : Accounts \cup {None}, key : Keys \cup {None},
     targets : SUBSET Environments, version : Nat, content : Nat, close : BOOLEAN,
     closed : Closings, deletes : BOOLEAN, result : Result \cup {None}]

Types ==
    /\ draft \in DraftRec \cup {None} /\ saves \in Nat
    /\ versions \in Seq(VersionRec)
    /\ releases \in [Environments -> Seq(Row)]
    /\ review \in [Keys -> ReviewRec \cup {None}]
    /\ stored \in [Keys -> Result \cup {None}]
    /\ formLock \in Requests \cup {None}
    /\ request \in [Requests -> RequestRec]

\* What the checks of a release of an existing version established; each part
\* stays true when versions and releases are added.
Cleared(v, by, e) ==
    /\ v \in DOMAIN versions
    /\ ApprovalNeeded(e) => versions[v].by # by
    /\ Gated(e) => v \in Numbers(releases["test"]) \cup Numbers(releases[e])

\* A version its own publisher releases goes where neither rule applies.
OwnRelease(e) == ~ApprovalNeeded(e) /\ ~Gated(e)

\* What a request in flight has established of what it will release.
ReleaseOK(r) ==
    r.kind = "release" /\ r.pc \in {"loaded", "read"} =>
        r.by \in Accounts /\ \A e \in r.targets : Cleared(r.version, r.by, e)

IntakeOK(r) ==
    /\ r.kind = "intake" /\ r.pc \in {"loaded", "read"} =>
         /\ r.by \in Accounts /\ \A e \in r.targets : releases[e] # <<>>
         /\ \A e, f \in r.targets : e = f
    /\ r.kind = "intake" /\ r.pc = "read" =>
         \A e \in r.targets : r.version \in Numbers(releases[e])

PublishOK(r) ==
    r.kind \in {"publish", "pubrel"} /\ r.pc \in {"frozen", "writing"} =>
        r.by \in Accounts /\ \A e \in r.targets : OwnRelease(e)

BatchOK(r) ==
    /\ r.kind = "batch" /\ r.pc \in {"loaded", "rechecked"} =>
         /\ r.by \in Accounts /\ r.key \in Keys /\ review[r.key] # None
         /\ r.version = review[r.key].version /\ r.by = review[r.key].by
         /\ r.targets = DOMAIN review[r.key].expected
         /\ r.content = 0 <=> r.version # 0
    /\ r.kind = "batch" /\ r.pc \in {"rechecked", "writing"} =>
         /\ r.by \in Accounts /\ r.key \in Keys
         /\ r.content # 0 => \A e \in r.targets : OwnRelease(e)
         /\ r.content = 0 => r.version \in DOMAIN versions
                             /\ \A e \in r.targets : Cleared(r.version, r.by, e)

RequestOK(r) ==
    /\ r.pc = "frozen" => r.kind \in {"publish", "pubrel"}
    /\ r.pc = "read" => r.kind \in {"release", "intake"}
    /\ r.pc = "writing" => r.kind \in {"publish", "pubrel", "batch"}
    /\ r.pc = "rechecked" => r.kind = "batch"
    /\ r.pc \in {"read", "writing"} => r.closed \in [r.targets -> BOOLEAN]
    /\ ReleaseOK(r) /\ IntakeOK(r) /\ PublishOK(r) /\ BatchOK(r)

\* One request at a time numbers a version, and nobody else is writing then.
Numbering(r) ==
    r.pc = "writing" /\ (r.kind \in {"publish", "pubrel"} \/ (r.kind = "batch" /\ r.content # 0))
Locking(r) == r.kind = "batch" /\ r.pc \in {"rechecked", "writing"}

Exclusive ==
    /\ \A q \in Requests : Numbering(request[q]) => request[q].version = Len(versions) + 1
    /\ \A q \in Publishing : formLock = None /\ Publishing = {q}
    /\ \A q \in Requests : Locking(request[q]) => formLock = q

Reviewed == \A k \in Keys : review[k] # None => review[k].version \in DOMAIN versions \cup {0}

\* A release row names a published version.
Pointed == \A e \in Environments : Numbers(releases[e]) \subseteq DOMAIN versions

ReleaseInv ==
    /\ Types /\ Exclusive /\ Reviewed /\ Pointed
    /\ \A q \in Requests : RequestOK(request[q])
    /\ ServedWasApproved

-----------------------------------------------------------------------------
(* What grows, and what that leaves true.                                  *)

Grows ==
    /\ \A v \in DOMAIN versions : v \in DOMAIN versions' /\ versions'[v] = versions[v]
    /\ \A e \in Environments : /\ Numbers(releases[e]) \subseteq Numbers(releases'[e])
                               /\ releases[e] # <<>> => releases'[e] # <<>>
    /\ \A k \in Keys : review[k] # None => review'[k] = review[k]

\* Whatever a request's checks established stays established.
LEMMA StillOK ==
    ASSUME Grows
    PROVE  \A r \in RequestRec : RequestOK(r) => RequestOK(r)'
<1> SUFFICES ASSUME NEW r \in RequestRec, RequestOK(r) PROVE RequestOK(r)'
  OBVIOUS
<1>1. r.targets \subseteq Environments
  BY DEF RequestRec
<1>2. \A e \in Environments : Gated(e) => "test" \in Environments
  BY DEF Gated
<1>3. \A e \in Environments : \A v, by : Cleared(v, by, e) => Cleared(v, by, e)'
  BY <1>2 DEF Cleared, Grows, ApprovalNeeded, Gated
<1>4. ReleaseOK(r)' /\ IntakeOK(r)' /\ PublishOK(r)'
  BY <1>1, <1>3 DEF RequestOK, ReleaseOK, IntakeOK, PublishOK, Grows, OwnRelease, ApprovalNeeded,
                    Gated
<1>5. BatchOK(r)'
  BY <1>1, <1>3 DEF RequestOK, BatchOK, Grows, OwnRelease, ApprovalNeeded, Gated
<1>6. QED
  BY <1>4, <1>5 DEF RequestOK

\* A step that moves one request on and publishes and releases nothing keeps the
\* invariant, when what the request then holds is right.
LEMMA MoveOn ==
    ASSUME ReleaseInv, NEW q \in Requests, NEW r \in RequestRec, Step(q, r), RequestOK(r),
           UNCHANGED <<versions, releases, review>>,
           draft' \in DraftRec \cup {None}, saves' \in Nat,
           stored' \in [Keys -> Result \cup {None}], formLock' \in Requests \cup {None},
           Exclusive'
    PROVE  ReleaseInv'
<1>1. Grows
  BY DEF Grows
<1>2. request' \in [Requests -> RequestRec]
  BY DEF Step, ReleaseInv, Types
<1>3. \A o \in Requests : request[o] \in RequestRec /\ request'[o] \in {request[o], r}
  BY DEF Step, ReleaseInv, Types
<1>4. \A o \in Requests : RequestOK(request'[o])
  BY <1>3 DEF ReleaseInv
<1>5. \A o \in Requests : RequestOK(request[o])'
  BY <1>1, <1>2, <1>4, StillOK
<1>6. Types' /\ Reviewed' /\ Pointed'
  BY <1>2 DEF ReleaseInv, Types, Reviewed, Pointed, Numbers
<1>7. ServedWasApproved'
  BY DEF ReleaseInv, ServedWasApproved
<1>8. QED
  BY <1>5, <1>6, <1>7 DEF ReleaseInv

\* One that takes up no writing leaves the writer alone, if there is one.
LEMMA NoNewWriter ==
    ASSUME ReleaseInv, NEW q \in Requests, NEW r, Step(q, r), ~Numbering(r), ~Locking(r),
           UNCHANGED versions, formLock' = formLock \/ (formLock = q /\ formLock' = None)
    PROVE  Exclusive'
<1>1. \A o \in Requests : request'[o] = IF o = q THEN r ELSE request[o]
  BY DEF Step, ReleaseInv, Types
<1>2. Publishing' = Publishing \ {q}
  BY <1>1 DEF Publishing, In, Numbering
<1>3. \A o \in Requests : Numbering(request'[o]) => o # q /\ Numbering(request[o])
  BY <1>1
<1>4. \A o \in Requests : Locking(request'[o]) => o # q /\ Locking(request[o])
  BY <1>1
<1>5. \A o \in Requests : Numbering(request[o])' => request'[o].version = Len(versions') + 1
  BY <1>1, <1>3 DEF ReleaseInv, Exclusive, Numbering
<1>6. \A o \in Requests : Locking(request[o])' => formLock' = o
  BY <1>4 DEF ReleaseInv, Exclusive, Locking
<1>7. \A o \in Publishing' : formLock' = None /\ Publishing' = {o}
  BY <1>2 DEF ReleaseInv, Exclusive
<1>8. QED
  BY <1>5, <1>6, <1>7 DEF Exclusive

\* A request that rests holds nothing.
LEMMA RestOK ==
    /\ Idle \in RequestRec
    /\ \A r \in RequestRec : r.pc \in {"idle", "done"} =>
         RequestOK(r) /\ ~Numbering(r) /\ ~Locking(r)
<1>1. Idle \in RequestRec
  <2>1. <<>> \in Closings /\ {} \in SUBSET Environments
    BY DEF Closings
  <2>2. QED
    BY <2>1 DEF Idle, RequestRec
<1>2. QED
  BY <1>1 DEF RequestOK, ReleaseOK, IntakeOK, PublishOK, BatchOK, Numbering, Locking

\* The initial state satisfies the invariant.
LEMMA ReleaseInvInit == Init => ReleaseInv
<1> SUFFICES ASSUME Init PROVE ReleaseInv
  OBVIOUS
<1>1. \A q \in Requests : request[q] = Idle
  BY DEF Init
<1>2. Idle \in RequestRec /\ Idle.pc = "idle"
  BY RestOK DEF Idle
<1>3. \A q \in Requests : RequestOK(request[q]) /\ ~Numbering(request[q]) /\ ~Locking(request[q])
  BY <1>1, <1>2, RestOK
<1>4. Publishing = {}
  BY <1>1, <1>2 DEF Publishing, In
<1>5. Types
  BY <1>2 DEF Init, Types
<1>6. Exclusive
  BY <1>3, <1>4 DEF Exclusive
<1>7. Reviewed /\ Pointed
  BY DEF Init, Reviewed, Pointed, Numbers
<1>8. ServedWasApproved
  BY DEF Init, ServedWasApproved
<1>9. QED
  BY <1>3, <1>5, <1>6, <1>7, <1>8 DEF ReleaseInv

-----------------------------------------------------------------------------
(* The steps that release nothing.                                         *)

\* A save adds to the draft and to nothing else.
LEMMA SaveStep == ReleaseInv /\ SaveDraft => ReleaseInv'
<1> SUFFICES ASSUME ReleaseInv, SaveDraft PROVE ReleaseInv'
  OBVIOUS
<1>1. UNCHANGED <<versions, releases, review, stored, formLock, request>>
  BY DEF SaveDraft
<1>2. saves \in Nat /\ (draft # None => draft \in DraftRec)
  BY DEF ReleaseInv, Types
<1>3. saves' \in Nat /\ draft' \in DraftRec
  BY <1>2 DEF SaveDraft, DraftRec
<1>4. Types' /\ Exclusive' /\ Reviewed' /\ Pointed' /\ ServedWasApproved'
  BY <1>1, <1>3 DEF ReleaseInv, Types, Exclusive, Publishing, In, Numbering, Locking, Reviewed,
                    Pointed, Numbers, ServedWasApproved
<1>5. Grows
  BY <1>1 DEF Grows
<1>6. \A q \in Requests : RequestOK(request[q])'
  BY <1>1, <1>5, StillOK DEF ReleaseInv, Types
<1>7. QED
  BY <1>4, <1>6 DEF ReleaseInv

\* A review names a draft or a published version, once for a key.
LEMMA ReviewStep ==
    ASSUME ReleaseInv, NEW k \in Keys, Review(k)
    PROVE  ReleaseInv'
<1>1. UNCHANGED <<draft, saves, versions, releases, stored, formLock, request>>
  BY DEF Review, control
<1>2. PICK by \in Accounts, targets \in (SUBSET Environments) \ {{}}, v \in DOMAIN versions \cup {0},
           rev \in Nat, content \in Nat :
        review' = [review EXCEPT ![k] =
            [by |-> by, version |-> v, revision |-> rev, content |-> content,
             expected |-> [e \in targets |-> Len(releases[e])]]]
  <2>1. draft # None => draft.revision \in Nat /\ draft.content \in Nat
    BY DEF ReleaseInv, Types, DraftRec
  <2>2. QED
    BY <2>1 DEF Review
<1> DEFINE row == [by |-> by, version |-> v, revision |-> rev, content |-> content,
                   expected |-> [e \in targets |-> Len(releases[e])]]
<1>3. row \in ReviewRec
  <2>1. v \in Nat
    BY DEF ReleaseInv, Types
  <2>2. \A e \in targets : Len(releases[e]) \in Nat
    BY DEF ReleaseInv, Types
  <2>3. [e \in targets |-> Len(releases[e])] \in Counts
    BY <2>2 DEF Counts
  <2>4. QED
    BY <2>1, <2>3 DEF ReviewRec
<1>4. review' \in [Keys -> ReviewRec \cup {None}]
  BY <1>2, <1>3 DEF ReleaseInv, Types
<1>5. /\ \A j \in Keys \ {k} : review'[j] = review[j]
      /\ review'[k].version = v /\ review[k] = None
  BY <1>2 DEF Review, ReleaseInv, Types
<1>6. Types' /\ Exclusive' /\ Pointed' /\ ServedWasApproved'
  BY <1>1, <1>4 DEF ReleaseInv, Types, Exclusive, Publishing, In, Numbering, Locking, Pointed,
                    Numbers, ServedWasApproved
<1>7. Reviewed'
  BY <1>1, <1>5 DEF ReleaseInv, Reviewed
<1>8. Grows
  BY <1>1, <1>5 DEF Grows
<1>9. \A q \in Requests : RequestOK(request[q])'
  BY <1>1, <1>8, StillOK DEF ReleaseInv, Types
<1>10. QED
  BY <1>6, <1>7, <1>9 DEF ReleaseInv

\* A purge forgets a result.
LEMMA PurgeStep ==
    ASSUME ReleaseInv, NEW k \in Keys, Purge(k)
    PROVE  ReleaseInv'
<1>1. UNCHANGED <<draft, saves, versions, releases, review, formLock, request>>
  BY DEF Purge
<1>2. stored' \in [Keys -> Result \cup {None}]
  BY DEF Purge, ReleaseInv, Types
<1>3. Types' /\ Exclusive' /\ Reviewed' /\ Pointed' /\ ServedWasApproved'
  BY <1>1, <1>2 DEF ReleaseInv, Types, Exclusive, Publishing, In, Numbering, Locking, Reviewed,
                    Pointed, Numbers, ServedWasApproved
<1>4. Grows
  BY <1>1 DEF Grows
<1>5. \A q \in Requests : RequestOK(request[q])'
  BY <1>1, <1>4, StillOK DEF ReleaseInv, Types
<1>6. QED
  BY <1>3, <1>5 DEF ReleaseInv

\* MoveOn, for a step that touches neither the other tables nor the lock.
LEMMA QuietStep ==
    ASSUME ReleaseInv, NEW q \in Requests, NEW r \in RequestRec, Step(q, r), RequestOK(r),
           ~Numbering(r), ~Locking(r), UNCHANGED <<control, review, formLock>>
    PROVE  ReleaseInv'
<1>1. Exclusive'
  BY NoNewWriter DEF control
<1>2. QED
  BY <1>1, MoveOn DEF control, ReleaseInv, Types

\* A publish is frozen for a place where neither rule applies.
LEMMA FreezeStep ==
    ASSUME ReleaseInv, NEW q \in Requests, FreezeDraft(q)
    PROVE  ReleaseInv'
<1>1. PICK by \in Accounts, kind \in {"publish", "pubrel"}, e \in Environments :
        /\ kind = "pubrel" => approvalForRelease(by, by, e) /\ requireDraftEligible(e)
        /\ Step(q, [Idle EXCEPT !.pc = "frozen", !.kind = kind, !.by = by,
                       !.content = draft.content,
                       !.targets = IF kind = "pubrel" THEN {e} ELSE {}])
  BY DEF FreezeDraft
<1> DEFINE r == [Idle EXCEPT !.pc = "frozen", !.kind = kind, !.by = by,
                   !.content = draft.content,
                   !.targets = IF kind = "pubrel" THEN {e} ELSE {}]
<1>2. draft.content \in Nat
  BY DEF FreezeDraft, ReleaseInv, Types, DraftRec
<1>3. /\ r \in RequestRec /\ r.pc = "frozen" /\ r.kind = kind /\ r.by = by
      /\ r.targets = IF kind = "pubrel" THEN {e} ELSE {}
  BY <1>2 DEF RequestRec, Idle, Closings, Kinds
<1>4. kind = "pubrel" => OwnRelease(e)
  BY <1>1 DEF approvalForRelease, requireDraftEligible, OwnRelease
<1>5. RequestOK(r) /\ ~Numbering(r) /\ ~Locking(r)
  BY <1>3, <1>4 DEF RequestOK, ReleaseOK, IntakeOK, PublishOK, BatchOK, Numbering, Locking
<1>6. QED
  BY <1>1, <1>3, <1>5, QuietStep DEF FreezeDraft

\* A release is loaded once its checks are passed.
LEMMA LoadReleaseStep ==
    ASSUME ReleaseInv, NEW q \in Requests, LoadRelease(q)
    PROVE  ReleaseInv'
<1>1. PICK by \in Accounts, e \in Environments, v \in DOMAIN versions :
        /\ approvalForRelease(by, versions[v].by, e)
        /\ requirePrerequisite(v, e, {e})
        /\ Step(q, [Idle EXCEPT !.pc = "loaded", !.kind = "release", !.by = by,
                                !.version = v, !.targets = {e}])
  BY DEF LoadRelease
<1> DEFINE r == [Idle EXCEPT !.pc = "loaded", !.kind = "release", !.by = by,
                             !.version = v, !.targets = {e}]
<1>2. v \in Nat
  BY DEF ReleaseInv, Types
<1>3. /\ r \in RequestRec /\ r.pc = "loaded" /\ r.kind = "release" /\ r.by = by
      /\ r.version = v /\ r.targets = {e}
  BY <1>2 DEF RequestRec, Idle, Closings, Kinds
<1>4. Cleared(v, by, e)
  BY <1>1 DEF Cleared, approvalForRelease, requirePrerequisite
<1>5. RequestOK(r) /\ ~Numbering(r) /\ ~Locking(r)
  BY <1>3, <1>4 DEF RequestOK, ReleaseOK, IntakeOK, PublishOK, BatchOK, Numbering, Locking
<1>6. QED
  BY <1>1, <1>3, <1>5, QuietStep DEF LoadRelease

\* A close or reopen is loaded where something is released.
LEMMA LoadIntakeStep ==
    ASSUME ReleaseInv, NEW q \in Requests, LoadIntake(q)
    PROVE  ReleaseInv'
<1>1. PICK by \in Accounts, e \in Environments, close \in BOOLEAN :
        /\ Released(e) # None
        /\ Step(q, [Idle EXCEPT !.pc = "loaded", !.kind = "intake", !.by = by,
                                !.close = close, !.targets = {e}])
  BY DEF LoadIntake
<1> DEFINE r == [Idle EXCEPT !.pc = "loaded", !.kind = "intake", !.by = by,
                             !.close = close, !.targets = {e}]
<1>2. /\ r \in RequestRec /\ r.pc = "loaded" /\ r.kind = "intake" /\ r.by = by /\ r.targets = {e}
  BY DEF RequestRec, Idle, Closings, Kinds
<1>3. releases[e] # <<>>
  BY <1>1 DEF Released
<1>4. RequestOK(r) /\ ~Numbering(r) /\ ~Locking(r)
  BY <1>2, <1>3 DEF RequestOK, ReleaseOK, IntakeOK, PublishOK, BatchOK, Numbering, Locking
<1>5. QED
  BY <1>1, <1>2, <1>4, QuietStep DEF LoadIntake

\* The newest row of a history that has one.
LEMMA NewestRow ==
    ASSUME ReleaseInv, NEW e \in Environments, releases[e] # <<>>
    PROVE  /\ Released(e) = releases[e][Len(releases[e])] /\ Released(e) \in Row
           /\ Len(releases[e]) \in DOMAIN releases[e]
           /\ Released(e).version \in Numbers(releases[e])
<1>1. releases[e] \in Seq(Row) /\ Released(e) = releases[e][Len(releases[e])]
  BY DEF ReleaseInv, Types, Released
<1>2. Len(releases[e]) \in DOMAIN releases[e] /\ releases[e][Len(releases[e])] \in Row
  BY <1>1
<1>3. QED
  BY <1>1, <1>2 DEF Numbers

\* In its transaction a release reads the closed flag, a close or reopen the
\* version.
LEMMA ReadStep ==
    ASSUME ReleaseInv, NEW q \in Requests, ReadReleased(q)
    PROVE  ReleaseInv'
<1>1. /\ request[q] \in RequestRec /\ RequestOK(request[q])
      /\ request[q].pc = "loaded" /\ request[q].kind \in {"release", "intake"}
  BY DEF ReadReleased, In, ReleaseInv, Types
<1>2. PICK e \in request[q].targets :
        IF request[q].kind = "release"
        THEN Step(q, [request[q] EXCEPT !.pc = "read",
                        !.closed = [t \in request[q].targets |-> ClosedIn(t)]])
        ELSE Step(q, [request[q] EXCEPT !.pc = "read", !.version = Released(e).version,
                        !.closed = [t \in request[q].targets |-> request[q].close]])
  BY DEF ReadReleased
<1>3. request[q].targets \subseteq Environments
  BY <1>1 DEF RequestRec
<1>4. CASE request[q].kind = "release"
  <2> DEFINE flags == [t \in request[q].targets |-> ClosedIn(t)]
             r == [request[q] EXCEPT !.pc = "read", !.closed = flags]
  <2>1. \A t \in request[q].targets : ClosedIn(t) \in BOOLEAN
    BY DEF ClosedIn
  <2>2. flags \in [request[q].targets -> BOOLEAN] /\ flags \in Closings
    BY <1>3, <2>1 DEF Closings
  <2>3. /\ r \in RequestRec /\ r.pc = "read" /\ r.kind = "release" /\ r.by = request[q].by
        /\ r.version = request[q].version /\ r.targets = request[q].targets /\ r.closed = flags
    BY <1>1, <1>4, <2>2 DEF RequestRec
  <2>4. RequestOK(r) /\ ~Numbering(r) /\ ~Locking(r)
    BY <1>1, <1>4, <2>2, <2>3
    DEF RequestOK, ReleaseOK, IntakeOK, PublishOK, BatchOK, Numbering, Locking
  <2>5. QED
    BY <1>2, <1>4, <2>3, <2>4, QuietStep DEF ReadReleased
<1>5. CASE request[q].kind = "intake"
  <2> DEFINE flags == [t \in request[q].targets |-> request[q].close]
             r == [request[q] EXCEPT !.pc = "read", !.version = Released(e).version,
                                     !.closed = flags]
  <2>1. request[q].close \in BOOLEAN /\ releases[e] # <<>>
    BY <1>1, <1>5 DEF RequestRec, RequestOK, IntakeOK
  <2>2. flags \in [request[q].targets -> BOOLEAN] /\ flags \in Closings
    BY <1>3, <2>1 DEF Closings
  <2>3. Released(e).version \in Nat /\ Released(e).version \in Numbers(releases[e])
    BY <1>2, <1>3, <2>1, NewestRow DEF Row
  <2>4. /\ r \in RequestRec /\ r.pc = "read" /\ r.kind = "intake" /\ r.by = request[q].by
        /\ r.version = Released(e).version /\ r.targets = request[q].targets
        /\ r.closed = flags
    BY <1>1, <1>5, <2>2, <2>3 DEF RequestRec
  <2>5. \A t \in r.targets : t = e /\ r.version \in Numbers(releases[t])
    BY <1>1, <1>5, <2>3, <2>4 DEF RequestOK, IntakeOK
  <2>6. RequestOK(r) /\ ~Numbering(r) /\ ~Locking(r)
    BY <1>1, <1>5, <2>2, <2>4, <2>5
    DEF RequestOK, ReleaseOK, IntakeOK, PublishOK, BatchOK, Numbering, Locking
  <2>7. QED
    BY <1>2, <1>5, <2>4, <2>6, QuietStep DEF ReadReleased
<1>6. QED
  BY <1>1, <1>4, <1>5

\* A replay is answered from the stored result, with or without the lock.
LEMMA ReplayStep ==
    ASSUME ReleaseInv, NEW q \in Requests,
           ReplayLocked(q) \/ \E k \in Keys : Replay(q, k)
    PROVE  ReleaseInv'
<1>1. CASE ReplayLocked(q)
  <2> DEFINE r == [Done(q) EXCEPT !.result = stored[request[q].key]]
  <2>1. request[q] \in RequestRec /\ request[q].key \in Keys
    BY <1>1 DEF ReplayLocked, In, ReleaseInv, Types, RequestOK, BatchOK
  <2>2. stored[request[q].key] \in Result \cup {None}
    BY <2>1 DEF ReleaseInv, Types
  <2>3. r \in RequestRec /\ r.pc = "done"
    BY <2>1, <2>2 DEF Done, Idle, RequestRec, Closings
  <2>4. QED
    BY <1>1, <2>3, RestOK, QuietStep DEF ReplayLocked
<1>2. CASE \E k \in Keys : Replay(q, k)
  <2>1. PICK k \in Keys : Replay(q, k)
    BY <1>2
  <2> DEFINE r == [Idle EXCEPT !.pc = "done", !.key = k, !.result = stored[k]]
  <2>2. stored[k] \in Result \cup {None}
    BY DEF ReleaseInv, Types
  <2>3. r \in RequestRec /\ r.pc = "done"
    BY <2>2 DEF Idle, RequestRec, Closings
  <2>4. QED
    BY <2>1, <2>3, RestOK, QuietStep DEF Replay
<1>3. QED
  BY <1>1, <1>2

\* A confirmation is loaded as it was reviewed.
LEMMA LoadBatchStep ==
    ASSUME ReleaseInv, NEW q \in Requests, NEW k \in Keys, LoadBatch(q, k)
    PROVE  ReleaseInv'
<1> DEFINE c == IF review[k].version = 0 THEN draft.content ELSE 0
           r == [Idle EXCEPT !.pc = "loaded", !.kind = "batch", !.by = review[k].by, !.key = k,
                   !.version = review[k].version, !.targets = DOMAIN review[k].expected,
                   !.content = c]
<1>1. review[k] \in ReviewRec /\ review[k] # None
  BY DEF LoadBatch, ReleaseInv, Types
<1>2. DOMAIN review[k].expected \subseteq Environments
  BY <1>1 DEF ReviewRec, Counts
<1>3. c \in Nat /\ (c = 0 <=> review[k].version # 0)
  BY <1>1 DEF LoadBatch, ReleaseInv, Types, DraftRec
<1>4. /\ r \in RequestRec /\ r.pc = "loaded" /\ r.kind = "batch" /\ r.by = review[k].by
      /\ r.key = k /\ r.version = review[k].version /\ r.targets = DOMAIN review[k].expected
      /\ r.content = c /\ r.by \in Accounts
  BY <1>1, <1>2, <1>3 DEF Idle, RequestRec, Closings, Kinds, ReviewRec
<1>5. RequestOK(r) /\ ~Numbering(r) /\ ~Locking(r)
  BY <1>1, <1>3, <1>4
  DEF RequestOK, ReleaseOK, IntakeOK, PublishOK, BatchOK, Numbering, Locking
<1>6. QED
  BY <1>4, <1>5, QuietStep DEF LoadBatch

-----------------------------------------------------------------------------
(* The steps that take up writing.                                         *)

\* With the form free, nobody is writing.
LEMMA FreeForm ==
    ASSUME ReleaseInv, Lockable
    PROVE  \A q \in Requests : ~Numbering(request[q]) /\ ~Locking(request[q])
<1> SUFFICES ASSUME NEW q \in Requests PROVE ~Numbering(request[q]) /\ ~Locking(request[q])
  OBVIOUS
<1>1. ~Locking(request[q])
  BY NamesAssumption DEF Lockable, ReleaseInv, Exclusive
<1>2. ~(request[q].pc = "writing" /\ request[q].kind \in {"publish", "pubrel"})
  BY DEF Lockable, Publishing, In
<1>3. QED
  BY <1>1, <1>2 DEF Numbering, Locking

\* A version is numbered while nobody else writes.
LEMMA WriteVersionStep ==
    ASSUME ReleaseInv, NEW q \in Requests, WriteVersion(q)
    PROVE  ReleaseInv'
<1> DEFINE flags == [e \in request[q].targets |-> ClosedIn(e)]
           r == [request[q] EXCEPT !.pc = "writing", !.version = Len(versions) + 1,
                   !.deletes = (draft # None), !.closed = flags]
<1>1. /\ request[q] \in RequestRec /\ RequestOK(request[q])
      /\ request[q].pc = "frozen" /\ request[q].kind \in {"publish", "pubrel"}
      /\ Lockable /\ Step(q, r) /\ UNCHANGED <<control, review, formLock>>
  BY DEF WriteVersion, In, NumberFree, ReleaseInv, Types
<1>2. flags \in [request[q].targets -> BOOLEAN] /\ flags \in Closings
  <2>1. request[q].targets \subseteq Environments
    BY <1>1 DEF RequestRec
  <2>2. \A e \in request[q].targets : ClosedIn(e) \in BOOLEAN
    BY DEF ClosedIn
  <2>3. QED
    BY <2>1, <2>2 DEF Closings
<1>3. Len(versions) + 1 \in Nat /\ (draft # None) \in BOOLEAN
  BY DEF ReleaseInv, Types
<1>4. /\ r \in RequestRec /\ r.pc = "writing" /\ r.kind = request[q].kind
      /\ r.by = request[q].by /\ r.targets = request[q].targets /\ r.closed = flags
      /\ r.version = Len(versions) + 1
  BY <1>1, <1>2, <1>3 DEF RequestRec
<1>5. RequestOK(r)
  BY <1>1, <1>2, <1>4 DEF RequestOK, ReleaseOK, IntakeOK, PublishOK, BatchOK
<1>6. \A o \in Requests : request'[o] = IF o = q THEN r ELSE request[o]
  BY <1>1 DEF Step, ReleaseInv, Types
<1>7. Exclusive'
  <2>1. \A o \in Requests \ {q} : ~Numbering(request'[o]) /\ ~Locking(request'[o])
    BY <1>1, <1>6, FreeForm
  <2>2. ~Locking(request'[q]) /\ request'[q].version = Len(versions) + 1
    BY <1>1, <1>4, <1>6 DEF Locking
  <2>3. Publishing' = {q}
    <3>1. request'[q].pc = "writing" /\ request'[q].kind \in {"publish", "pubrel"}
      BY <1>1, <1>4, <1>6
    <3>2. \A o \in Requests \ {q} :
            ~(request'[o].pc = "writing" /\ request'[o].kind \in {"publish", "pubrel"})
      BY <2>1 DEF Numbering
    <3>3. Publishing' = {o \in Requests : request'[o].pc = "writing"
                                            /\ request'[o].kind \in {"publish", "pubrel"}}
      BY DEF Publishing, In
    <3>4. QED
      BY <3>1, <3>2, <3>3, Zenon
  <2>4. formLock' = None /\ versions' = versions
    BY <1>1 DEF Lockable, control
  <2>5. \A o \in Requests : Numbering(request[o])' => request'[o].version = Len(versions') + 1
    BY <2>1, <2>2, <2>4 DEF Numbering
  <2>6. \A o \in Requests : Locking(request[o])' => formLock' = o
    BY <2>1, <2>2 DEF Locking
  <2>7. QED
    BY <2>3, <2>4, <2>5, <2>6 DEF Exclusive
<1>8. QED
  BY <1>1, <1>4, <1>5, <1>7, MoveOn DEF control, ReleaseInv, Types

\* A confirmation that finds everything as reviewed locks the form.
LEMMA RecheckStep ==
    ASSUME ReleaseInv, NEW q \in Requests, RecheckBatch(q)
    PROVE  ReleaseInv'
<1> DEFINE k == request[q].key
           r == [request[q] EXCEPT !.pc = "rechecked"]
<1>1. /\ request[q] \in RequestRec /\ RequestOK(request[q])
      /\ request[q].pc = "loaded" /\ request[q].kind = "batch"
      /\ Lockable /\ recheckTargets(k, review[k].version)
      /\ formLock' = q /\ Step(q, r) /\ UNCHANGED <<control, review>>
  BY DEF RecheckBatch, In, ReleaseInv, Types
<1>2. /\ request[q].by \in Accounts /\ k \in Keys /\ review[k] # None
      /\ request[q].version = review[k].version /\ request[q].by = review[k].by
      /\ request[q].targets = DOMAIN review[k].expected
      /\ request[q].content = 0 <=> request[q].version # 0
  BY <1>1 DEF RequestOK, BatchOK
<1>3. /\ r \in RequestRec /\ r.pc = "rechecked" /\ r.kind = "batch" /\ r.by = request[q].by
      /\ r.key = k /\ r.version = request[q].version /\ r.targets = request[q].targets
      /\ r.content = request[q].content
  BY <1>1 DEF RequestRec
<1>4. r.content # 0 => \A e \in r.targets : OwnRelease(e)
  BY <1>1, <1>2, <1>3
  DEF recheckTargets, requireDraftEligible, approvalForRelease, OwnRelease
<1>5. r.content = 0 => r.version \in DOMAIN versions
                       /\ \A e \in r.targets : Cleared(r.version, r.by, e)
  <2> SUFFICES ASSUME r.content = 0
               PROVE  r.version \in DOMAIN versions
                      /\ \A e \in r.targets : Cleared(r.version, r.by, e)
    OBVIOUS
  <2>1. review[k].version # 0 /\ review[k].version \in DOMAIN versions
    BY <1>2, <1>3 DEF ReleaseInv, Reviewed
  <2>2. QED
    BY <1>1, <1>2, <1>3, <2>1
    DEF recheckTargets, requirePrerequisite, approvalForRelease, Cleared
<1>6. RequestOK(r)
  BY <1>2, <1>3, <1>4, <1>5 DEF RequestOK, ReleaseOK, IntakeOK, PublishOK, BatchOK
<1>7. \A o \in Requests : request'[o] = IF o = q THEN r ELSE request[o]
  BY <1>1 DEF Step, ReleaseInv, Types
<1>8. Exclusive'
  <2>1. \A o \in Requests \ {q} : ~Numbering(request'[o]) /\ ~Locking(request'[o])
    BY <1>1, <1>7, FreeForm
  <2>2. ~Numbering(request'[q])
    BY <1>3, <1>7 DEF Numbering
  <2>3. Publishing' = {}
    BY <1>3, <1>7, <2>1 DEF Publishing, In, Numbering
  <2>4. \A o \in Requests : ~Numbering(request[o])'
    BY <2>1, <2>2 DEF Numbering
  <2>5. \A o \in Requests : Locking(request[o])' => formLock' = o
    BY <1>1, <2>1 DEF Locking
  <2>6. QED
    BY <2>3, <2>4, <2>5 DEF Exclusive
<1>9. QED
  BY <1>1, <1>3, <1>6, <1>8, MoveOn DEF control, ReleaseInv, Types

\* The holder of the form's lock is the only writer.
LEMMA OnlyTheHolder ==
    ASSUME ReleaseInv, NEW q \in Requests, Locking(request[q])
    PROVE  /\ formLock = q /\ Publishing = {}
           /\ \A o \in Requests \ {q} : ~Numbering(request[o]) /\ ~Locking(request[o])
<1>1. formLock = q /\ q # None
  BY NamesAssumption DEF ReleaseInv, Exclusive
<1>2. Publishing = {}
  BY <1>1 DEF ReleaseInv, Exclusive
<1>3. \A o \in Requests \ {q} : ~Locking(request[o])
  BY <1>1 DEF ReleaseInv, Exclusive
<1>4. \A o \in Requests \ {q} : ~Numbering(request[o])
  BY <1>2, <1>3 DEF Numbering, Locking, Publishing, In
<1>5. QED
  BY <1>1, <1>2, <1>3, <1>4

\* A confirmation numbers its version under the lock.
LEMMA WriteBatchStep ==
    ASSUME ReleaseInv, NEW q \in Requests, WriteBatch(q)
    PROVE  ReleaseInv'
<1> DEFINE flags == [e \in request[q].targets |-> ClosedIn(e)]
           n == IF request[q].version = 0 THEN Len(versions) + 1 ELSE request[q].version
           d == (request[q].version = 0 /\ draft # None)
           r == [request[q] EXCEPT !.pc = "writing", !.version = n, !.deletes = d,
                                   !.closed = flags]
<1>1. /\ request[q] \in RequestRec /\ RequestOK(request[q])
      /\ request[q].pc = "rechecked" /\ request[q].kind = "batch"
      /\ Step(q, r) /\ UNCHANGED <<control, review, formLock>>
  BY DEF WriteBatch, In, ReleaseInv, Types
<1>2. flags \in [request[q].targets -> BOOLEAN] /\ flags \in Closings
  <2>1. request[q].targets \subseteq Environments
    BY <1>1 DEF RequestRec
  <2>2. \A e \in request[q].targets : ClosedIn(e) \in BOOLEAN
    BY DEF ClosedIn
  <2>3. QED
    BY <2>1, <2>2 DEF Closings
<1>3. n \in Nat /\ d \in BOOLEAN
  BY <1>1 DEF ReleaseInv, Types, RequestRec
<1>4. /\ r \in RequestRec /\ r.pc = "writing" /\ r.kind = "batch" /\ r.by = request[q].by
      /\ r.key = request[q].key /\ r.targets = request[q].targets
      /\ r.content = request[q].content /\ r.closed = flags /\ r.version = n
  BY <1>1, <1>2, <1>3 DEF RequestRec
<1>5. request[q].content = 0 <=> request[q].version # 0
  BY <1>1 DEF RequestOK, BatchOK
<1>6. RequestOK(r)
  BY <1>1, <1>2, <1>4, <1>5 DEF RequestOK, ReleaseOK, IntakeOK, PublishOK, BatchOK
<1>7. \A o \in Requests : request'[o] = IF o = q THEN r ELSE request[o]
  BY <1>1 DEF Step, ReleaseInv, Types
<1>8. Exclusive'
  <2>1. /\ formLock = q /\ formLock' = q /\ Publishing = {}
        /\ \A o \in Requests \ {q} : ~Numbering(request[o]) /\ ~Locking(request[o])
    BY <1>1, OnlyTheHolder DEF Locking
  <2>2. Numbering(r) => r.version = Len(versions') + 1
    BY <1>1, <1>4, <1>5 DEF Numbering, control
  <2>3. Publishing' = {}
    BY <1>4, <1>7, <2>1 DEF Publishing, In
  <2>4. \A o \in Requests : Numbering(request[o])' => request'[o].version = Len(versions') + 1
    BY <1>7, <2>1, <2>2 DEF Numbering
  <2>5. \A o \in Requests : Locking(request[o])' => formLock' = o
    BY <1>7, <2>1 DEF Locking
  <2>6. QED
    BY <2>3, <2>4, <2>5 DEF Exclusive
<1>9. QED
  BY <1>1, <1>4, <1>6, <1>8, MoveOn DEF control, ReleaseInv, Types

\* A request that ends gives the lock back.
LEMMA AbortStep ==
    ASSUME ReleaseInv, NEW q \in Requests, Abort(q)
    PROVE  ReleaseInv'
<1> DEFINE r == [Idle EXCEPT !.pc = "done"]
<1>1. /\ Step(q, r) /\ UNCHANGED <<control, review>>
      /\ formLock' = IF formLock = q THEN None ELSE formLock
  BY DEF Abort
<1>2. r \in RequestRec /\ r.pc = "done"
  BY DEF Idle, RequestRec, Closings
<1>3. RequestOK(r) /\ ~Numbering(r) /\ ~Locking(r)
  BY <1>2, RestOK
<1>4. Exclusive'
  BY <1>1, <1>3, NoNewWriter DEF control
<1>5. formLock' \in Requests \cup {None}
  BY <1>1 DEF ReleaseInv, Types
<1>6. QED
  BY <1>1, <1>2, <1>3, <1>4, <1>5, MoveOn DEF control, ReleaseInv, Types

-----------------------------------------------------------------------------
(* The steps that publish and release.                                     *)

\* What is added to the tables, and nothing is taken from them.
Kept ==
    /\ Len(versions) <= Len(versions') /\ \A v \in DOMAIN versions : versions'[v] = versions[v]
    /\ \A e \in Environments : /\ Len(releases[e]) <= Len(releases'[e])
                               /\ \A i \in DOMAIN releases[e] : releases'[e][i] = releases[e][i]

\* The committed version is the next one.
LEMMA CommitVersionKeeps ==
    ASSUME ReleaseInv, NEW q \in Requests, CommitVersion(q), Numbering(request[q]),
           request[q].by \in Accounts
    PROVE  /\ versions' \in Seq(VersionRec) /\ Len(versions') = Len(versions) + 1
           /\ \A v \in DOMAIN versions : v \in DOMAIN versions' /\ versions'[v] = versions[v]
           /\ versions'[request[q].version].by = request[q].by
           /\ request[q].version \in DOMAIN versions'
           /\ draft' \in DraftRec \cup {None}
<1> DEFINE n == Len(versions) + 1
           row == [content |-> request[q].content, by |-> request[q].by]
<1>1. request[q].version = n /\ request[q] \in RequestRec /\ versions \in Seq(VersionRec)
  BY DEF ReleaseInv, Exclusive, Types
<1>2. row \in VersionRec /\ Len(versions) \in Nat /\ DOMAIN versions = 1 .. Len(versions)
  BY <1>1 DEF RequestRec, VersionRec
<1>3. versions' = [v \in 1 .. n |-> IF v = n THEN row ELSE versions[v]]
  BY <1>1, <1>2 DEF CommitVersion
<1>4. \A v \in 1 .. n : versions'[v] \in VersionRec
  BY <1>1, <1>2, <1>3
<1>5. versions' \in Seq(VersionRec) /\ Len(versions') = n /\ DOMAIN versions' = 1 .. n
  BY <1>2, <1>3, <1>4
<1>6. draft' \in DraftRec \cup {None}
  BY DEF CommitVersion, ReleaseInv, Types
<1>7. QED
  BY <1>1, <1>2, <1>3, <1>5, <1>6

\* A row is added in each target, and prod is served nothing its publisher alone
\* released there.
LEMMA InsertKeeps ==
    ASSUME ReleaseInv, NEW q \in Requests, NEW approve \in BOOLEAN, InsertRelease(q, approve),
           request[q].by \in Accounts, request[q].closed \in [request[q].targets -> BOOLEAN],
           request[q].targets # {} => request[q].version \in DOMAIN versions',
           \A v \in DOMAIN versions : v \in DOMAIN versions' /\ versions'[v] = versions[v],
           \A e \in request[q].targets :
               ApprovalNeeded(e) =>
                   \/ request[q].version \in Numbers(releases[e])
                   \/ approve /\ versions'[request[q].version].by # request[q].by
    PROVE  /\ releases' \in [Environments -> Seq(Row)] /\ Pointed' /\ ServedWasApproved'
           /\ \A e \in Environments :
                /\ Numbers(releases[e]) \subseteq Numbers(releases'[e])
                /\ Numbers(releases'[e]) \subseteq
                     Numbers(releases[e]) \cup
                         (IF e \in request[q].targets THEN {request[q].version} ELSE {})
                /\ releases[e] # <<>> => releases'[e] # <<>>
                /\ Len(releases[e]) <= Len(releases'[e])
                /\ \A i \in DOMAIN releases[e] :
                     i \in DOMAIN releases'[e] /\ releases'[e][i] = releases[e][i]
<1> DEFINE row(e) == [version |-> request[q].version, by |-> request[q].by,
                      approvedBy |-> IF approve /\ ApprovalNeeded(e) THEN request[q].by ELSE None,
                      closed |-> request[q].closed[e]]
<1>1. request[q].version \in Nat /\ releases \in [Environments -> Seq(Row)]
  BY DEF ReleaseInv, Types, RequestRec
<1>2. \A e \in Environments : releases'[e] = IF e \in request[q].targets
                                             THEN Append(releases[e], row(e)) ELSE releases[e]
  BY DEF InsertRelease
<1>3. \A e \in request[q].targets : row(e) \in Row
  BY <1>1 DEF Row
<1>4. releases' \in [Environments -> Seq(Row)]
  <2>1. \A e \in Environments : releases'[e] \in Seq(Row)
    <3> SUFFICES ASSUME NEW e \in Environments PROVE releases'[e] \in Seq(Row)
      OBVIOUS
    <3>1. CASE e \in request[q].targets
      <4>1. row(e) \in Row
        BY <1>3, <3>1
      <4>2. releases'[e] = Append(releases[e], row(e))
        BY <1>2, <3>1
      <4>3. releases[e] \in Seq(Row)
        BY <1>1
      <4> HIDE DEF row
      <4>4. QED
        BY <4>1, <4>2, <4>3
    <3>2. CASE e \notin request[q].targets
      BY <1>1, <1>2, <3>2
    <3>3. QED
      BY <3>1, <3>2
  <2>2. QED
    BY <2>1 DEF InsertRelease
<1>5. ASSUME NEW e \in Environments
      PROVE  /\ Numbers(releases[e]) \subseteq Numbers(releases'[e])
             /\ Numbers(releases'[e]) \subseteq
                  Numbers(releases[e]) \cup
                      (IF e \in request[q].targets THEN {request[q].version} ELSE {})
             /\ releases[e] # <<>> => releases'[e] # <<>>
             /\ Len(releases[e]) <= Len(releases'[e])
             /\ \A i \in DOMAIN releases[e] :
                  i \in DOMAIN releases'[e] /\ releases'[e][i] = releases[e][i]
  <2>1. releases[e] \in Seq(Row) /\ Len(releases[e]) \in Nat
        /\ DOMAIN releases[e] = 1 .. Len(releases[e])
    BY <1>1
  <2>2. CASE e \notin request[q].targets
    <3>1. releases'[e] = releases[e]
      BY <1>2, <2>2
    <3>2. Len(releases[e]) <= Len(releases'[e])
      BY <2>1, <3>1
    <3>3. QED
      BY <3>1, <3>2
  <2>3. CASE e \in request[q].targets
    <3>1. releases'[e] = Append(releases[e], row(e)) /\ row(e) \in Row
      BY <1>2, <1>3, <2>3
    <3>2. /\ Len(releases'[e]) = Len(releases[e]) + 1
          /\ DOMAIN releases'[e] = 1 .. (Len(releases[e]) + 1)
          /\ \A i \in DOMAIN releases[e] : releases'[e][i] = releases[e][i]
          /\ releases'[e][Len(releases[e]) + 1] = row(e)
      BY <2>1, <3>1
    <3>3. \A i \in DOMAIN releases'[e] : i \in DOMAIN releases[e] \/ i = Len(releases[e]) + 1
      BY <2>1, <3>2
    <3>4. \A i \in DOMAIN releases[e] : i \in DOMAIN releases'[e]
      BY <2>1, <3>2
    <3>5. row(e).version = request[q].version
      OBVIOUS
    <3>6. Numbers(releases[e]) \subseteq Numbers(releases'[e])
      BY <3>2, <3>4 DEF Numbers
    <3>7. Numbers(releases'[e]) \subseteq Numbers(releases[e]) \cup {request[q].version}
      BY <3>2, <3>3, <3>5 DEF Numbers
    <3>8. releases'[e] # <<>>
      BY <2>1, <3>2
    <3>9. Len(releases[e]) <= Len(releases'[e])
      BY <2>1, <3>2
    <3>10. QED
      BY <2>3, <3>2, <3>4, <3>6, <3>7, <3>8, <3>9
  <2>4. QED
    BY <2>2, <2>3
<1>6. Pointed'
  <2>1. \A e \in Environments : Numbers(releases'[e]) \subseteq DOMAIN versions'
    BY <1>5 DEF ReleaseInv, Pointed
  <2>2. QED
    BY <2>1 DEF Pointed, Numbers
<1>7. ServedWasApproved'
  <2> DEFINE old == releases["prod"]
             new == releases'["prod"]
  <2> SUFFICES ASSUME TwoPerson, "prod" \in Environments, NEW i \in DOMAIN new
               PROVE  \E j \in 1 .. i : /\ new[j].version = new[i].version
                                        /\ new[j].approvedBy \notin
                                             {None, versions'[new[i].version].by}
    BY DEF ServedWasApproved
  <2>1. /\ old \in Seq(Row) /\ new \in Seq(Row)
        /\ \A j \in DOMAIN old : j \in DOMAIN new /\ new[j] = old[j]
    BY <1>1, <1>4, <1>5
  <2>2. \A m \in DOMAIN old : \E j \in 1 .. m :
          old[j].version = old[m].version
          /\ old[j].approvedBy \notin {None, versions'[old[m].version].by}
    <3> SUFFICES ASSUME NEW m \in DOMAIN old
                 PROVE  \E j \in 1 .. m :
                          old[j].version = old[m].version
                          /\ old[j].approvedBy \notin {None, versions'[old[m].version].by}
      OBVIOUS
    <3>1. PICK j \in 1 .. m : old[j].version = old[m].version
                              /\ old[j].approvedBy \notin {None, versions[old[m].version].by}
      BY DEF ReleaseInv, ServedWasApproved
    <3>2. old[m].version \in DOMAIN versions
      BY DEF ReleaseInv, Pointed, Numbers
    <3>3. QED
      BY <3>1, <3>2
  <2>3. CASE i \in DOMAIN old
    <3>1. PICK j \in 1 .. i : old[j].version = old[i].version
                              /\ old[j].approvedBy \notin {None, versions'[old[i].version].by}
      BY <2>2, <2>3
    <3>2. j \in DOMAIN old
      BY <2>1, <2>3
    <3>3. QED
      BY <2>1, <2>3, <3>1, <3>2
  <2>4. CASE i \notin DOMAIN old
    <3>1. "prod" \in request[q].targets
      BY <1>2, <2>4
    <3>2. new = Append(old, row("prod")) /\ row("prod") \in Row
      BY <1>2, <1>3, <3>1
    <3>3. i = Len(old) + 1 /\ new[i] = row("prod") /\ Len(old) \in Nat
      BY <2>1, <2>4, <3>2
    <3>4. new[i].version = request[q].version
      BY <3>3
    <3>5. ApprovalNeeded("prod")
      BY DEF ApprovalNeeded
    <3>6. CASE request[q].version \in Numbers(old)
      <4>1. PICK m \in DOMAIN old : old[m].version = request[q].version
        BY <3>6 DEF Numbers
      <4>2. PICK j \in 1 .. m : old[j].version = old[m].version
                                /\ old[j].approvedBy \notin {None, versions'[old[m].version].by}
        BY <2>2
      <4>3. j \in DOMAIN old /\ j \in 1 .. i
        BY <2>1, <3>3, <4>1, <4>2
      <4>4. QED
        BY <2>1, <3>4, <4>1, <4>2, <4>3
    <3>7. CASE approve /\ versions'[request[q].version].by # request[q].by
      <4>1. new[i].approvedBy = request[q].by
        BY <3>3, <3>5, <3>7
      <4>2. request[q].by # None
        BY NamesAssumption
      <4>3. i \in 1 .. i
        BY <3>3
      <4>4. QED
        BY <3>4, <3>7, <4>1, <4>2, <4>3
    <3>8. QED
      BY <3>1, <3>5, <3>6, <3>7
  <2>5. QED
    BY <2>3, <2>4
<1>8. QED
  BY <1>4, <1>5, <1>6, <1>7

\* A version reaches prod from test, or was there.
Tested ==
    {"test", "prod"} \subseteq Environments =>
        Numbers(releases'["prod"]) \subseteq Numbers(releases["prod"]) \cup Numbers(releases["test"])

\* A step that releases what its request has established and ends it keeps the
\* invariant.
LEMMA Lands ==
    ASSUME ReleaseInv, NEW q \in Requests, NEW r \in RequestRec, r.pc = "done", Step(q, r),
           NEW approve \in BOOLEAN, InsertRelease(q, approve),
           request[q].by \in Accounts, request[q].closed \in [request[q].targets -> BOOLEAN],
           request[q].targets # {} => request[q].version \in DOMAIN versions',
           \A v \in DOMAIN versions : v \in DOMAIN versions' /\ versions'[v] = versions[v],
           \A e \in request[q].targets :
               ApprovalNeeded(e) =>
                   \/ request[q].version \in Numbers(releases[e])
                   \/ approve /\ versions'[request[q].version].by # request[q].by,
           \A e \in request[q].targets :
               Gated(e) => request[q].version \in Numbers(releases["test"]) \cup Numbers(releases[e]),
           versions' \in Seq(VersionRec), Len(versions) <= Len(versions'),
           draft' \in DraftRec \cup {None}, UNCHANGED <<saves, review>>,
           stored' \in [Keys -> Result \cup {None}], formLock' \in Requests \cup {None},
           Exclusive'
    PROVE  ReleaseInv' /\ Kept /\ Tested
<1>1. /\ releases' \in [Environments -> Seq(Row)] /\ Pointed' /\ ServedWasApproved'
      /\ \A e \in Environments :
           /\ Numbers(releases[e]) \subseteq Numbers(releases'[e])
           /\ Numbers(releases'[e]) \subseteq
                Numbers(releases[e]) \cup
                    (IF e \in request[q].targets THEN {request[q].version} ELSE {})
           /\ releases[e] # <<>> => releases'[e] # <<>>
           /\ Len(releases[e]) <= Len(releases'[e])
           /\ \A i \in DOMAIN releases[e] :
                i \in DOMAIN releases'[e] /\ releases'[e][i] = releases[e][i]
  BY InsertKeeps
<1>2. Grows
  BY <1>1 DEF Grows
<1>3. request' \in [Requests -> RequestRec]
  BY DEF Step, ReleaseInv, Types
<1>4. \A o \in Requests : request[o] \in RequestRec /\ request'[o] \in {request[o], r}
  BY DEF Step, ReleaseInv, Types
<1>5. \A o \in Requests : RequestOK(request'[o])
  BY <1>4, RestOK DEF ReleaseInv
<1>6. \A o \in Requests : RequestOK(request[o])'
  BY <1>2, <1>3, <1>5, StillOK
<1>7. Types' /\ Reviewed'
  BY <1>1, <1>3 DEF ReleaseInv, Types, Reviewed
<1>8. Kept
  BY <1>1 DEF Kept
<1>9. Tested
  <2> SUFFICES ASSUME {"test", "prod"} \subseteq Environments
               PROVE  Numbers(releases'["prod"]) \subseteq
                          Numbers(releases["prod"]) \cup Numbers(releases["test"])
    BY DEF Tested
  <2>1. Gated("prod")
    BY DEF Gated
  <2>2. QED
    BY <1>1, <2>1
<1>10. QED
  BY <1>1, <1>6, <1>7, <1>8, <1>9 DEF ReleaseInv

\* Once the only writer is done, nobody writes.
LEMMA LastWriter ==
    ASSUME ReleaseInv, NEW q \in Requests, NEW r \in RequestRec, r.pc = "done", Step(q, r),
           formLock' = None,
           \A o \in Requests \ {q} : ~Numbering(request[o]) /\ ~Locking(request[o])
    PROVE  Exclusive'
<1>1. \A o \in Requests : request'[o] = IF o = q THEN r ELSE request[o]
  BY DEF Step, ReleaseInv, Types
<1>2. \A o \in Requests : ~Numbering(request'[o]) /\ ~Locking(request'[o])
  BY <1>1, RestOK
<1>3. \A o \in Requests : ~Numbering(request[o])' /\ ~Locking(request[o])'
  BY <1>2 DEF Numbering, Locking
<1>4. Publishing' = {}
  BY <1>2 DEF Publishing, In, Numbering
<1>5. QED
  BY <1>3, <1>4 DEF Exclusive

\* A publish commits its version, and with a combined release the row.
LEMMA PublishStep ==
    ASSUME ReleaseInv, NEW q \in Requests, Publish(q)
    PROVE  ReleaseInv' /\ Kept /\ Tested
<1>1. /\ request[q] \in RequestRec /\ RequestOK(request[q])
      /\ request[q].pc = "writing" /\ request[q].kind \in {"publish", "pubrel"}
      /\ CommitVersion(q) /\ InsertRelease(q, TRUE) /\ Step(q, Done(q))
      /\ UNCHANGED <<saves, review, stored, formLock>>
  BY DEF Publish, In, ReleaseInv, Types
<1>2. Numbering(request[q]) /\ q \in Publishing /\ formLock = None /\ Publishing = {q}
  BY <1>1 DEF Numbering, Publishing, In, ReleaseInv, Exclusive
<1>3. request[q].by \in Accounts /\ \A e \in request[q].targets : OwnRelease(e)
  BY <1>1 DEF RequestOK, PublishOK
<1>4. request[q].closed \in [request[q].targets -> BOOLEAN]
  BY <1>1 DEF RequestOK
<1>5. /\ versions' \in Seq(VersionRec) /\ Len(versions') = Len(versions) + 1
      /\ \A v \in DOMAIN versions : v \in DOMAIN versions' /\ versions'[v] = versions[v]
      /\ request[q].version \in DOMAIN versions'
      /\ draft' \in DraftRec \cup {None}
  BY <1>1, <1>2, <1>3, CommitVersionKeeps
<1>6. Done(q) \in RequestRec /\ Done(q).pc = "done"
  BY <1>1 DEF Done, Idle, RequestRec, Closings
<1>7. Exclusive'
  <2>1. \A o \in Requests \ {q} : ~Locking(request[o])
    BY <1>2, NamesAssumption DEF ReleaseInv, Exclusive
  <2>2. \A o \in Requests \ {q} : ~Numbering(request[o])
    BY <1>2, <2>1 DEF Numbering, Locking, Publishing, In
  <2>3. QED
    BY <1>1, <1>2, <1>6, <2>1, <2>2, LastWriter
<1>8. Len(versions) <= Len(versions') /\ stored' \in [Keys -> Result \cup {None}]
      /\ formLock' \in Requests \cup {None}
  BY <1>1, <1>5 DEF ReleaseInv, Types
<1>9. \A e \in request[q].targets : ~ApprovalNeeded(e) /\ ~Gated(e)
  BY <1>3 DEF OwnRelease
<1>10. QED
  BY <1>1, <1>3, <1>4, <1>5, <1>6, <1>7, <1>8, <1>9, Lands

\* A release, close or reopen commits its row.
LEMMA ReleaseStep ==
    ASSUME ReleaseInv, NEW q \in Requests, Release(q)
    PROVE  ReleaseInv' /\ Kept /\ Tested
<1> DEFINE approve == request[q].kind = "release"
<1>1. /\ request[q] \in RequestRec /\ RequestOK(request[q])
      /\ request[q].pc = "read" /\ request[q].kind \in {"release", "intake"}
      /\ InsertRelease(q, approve) /\ Step(q, Done(q)) /\ approve \in BOOLEAN
      /\ UNCHANGED <<draft, saves, versions, review, stored, formLock>>
  BY DEF Release, In, ReleaseInv, Types
<1>2. request[q].by \in Accounts /\ request[q].closed \in [request[q].targets -> BOOLEAN]
  BY <1>1 DEF RequestOK, ReleaseOK, IntakeOK
<1>3. \A e \in request[q].targets :
        \/ approve /\ Cleared(request[q].version, request[q].by, e)
        \/ request[q].version \in Numbers(releases[e])
  BY <1>1 DEF RequestOK, ReleaseOK, IntakeOK
<1>4. request[q].targets # {} => request[q].version \in DOMAIN versions'
  <2>1. request[q].targets \subseteq Environments
    BY <1>1 DEF RequestRec
  <2>2. QED
    BY <1>1, <1>3, <2>1 DEF Cleared, ReleaseInv, Pointed
<1>5. Done(q) \in RequestRec /\ Done(q).pc = "done"
  BY <1>1 DEF Done, Idle, RequestRec, Closings
<1>6. Exclusive'
  BY <1>1, <1>5, RestOK, NoNewWriter
<1>7. \A e \in request[q].targets :
        /\ ApprovalNeeded(e) =>
             \/ request[q].version \in Numbers(releases[e])
             \/ approve /\ versions'[request[q].version].by # request[q].by
        /\ Gated(e) => request[q].version \in Numbers(releases["test"]) \cup Numbers(releases[e])
  BY <1>1, <1>3 DEF Cleared
<1>8. /\ versions' \in Seq(VersionRec) /\ Len(versions) <= Len(versions')
      /\ draft' \in DraftRec \cup {None} /\ stored' \in [Keys -> Result \cup {None}]
      /\ formLock' \in Requests \cup {None}
  BY <1>1 DEF ReleaseInv, Types
<1>9. QED
  BY <1>1, <1>2, <1>4, <1>5, <1>6, <1>7, <1>8, Lands

\* A confirmation commits its version, if it has one to number, and its rows.
LEMMA CommitBatchStep ==
    ASSUME ReleaseInv, NEW q \in Requests, CommitBatch(q)
    PROVE  ReleaseInv' /\ Kept /\ Tested
<1> DEFINE at == [e \in request[q].targets |-> Len(releases[e]) + 1]
           result == [version |-> request[q].version, at |-> at]
           r == [Done(q) EXCEPT !.result = result]
<1>1. /\ request[q] \in RequestRec /\ RequestOK(request[q])
      /\ request[q].pc = "writing" /\ request[q].kind = "batch"
      /\ IF request[q].content # 0 THEN CommitVersion(q) ELSE UNCHANGED <<versions, draft>>
      /\ InsertRelease(q, TRUE) /\ Step(q, r)
      /\ stored' = [stored EXCEPT ![request[q].key] = result]
      /\ formLock' = None /\ UNCHANGED <<saves, review>>
  BY DEF CommitBatch, In, ReleaseInv, Types
<1>2. request[q].by \in Accounts /\ request[q].closed \in [request[q].targets -> BOOLEAN]
  BY <1>1 DEF RequestOK, BatchOK
<1>3. result \in Result
  <2>1. request[q].targets \in SUBSET Environments /\ request[q].version \in Nat
    BY <1>1 DEF RequestRec
  <2>2. \A e \in request[q].targets : Len(releases[e]) + 1 \in Nat
    BY <2>1 DEF ReleaseInv, Types
  <2>3. at \in Counts
    BY <2>1, <2>2 DEF Counts
  <2>4. QED
    BY <2>1, <2>3 DEF Result
<1>4. r \in RequestRec /\ r.pc = "done"
  BY <1>1, <1>3 DEF Done, Idle, RequestRec, Closings
<1>5. stored' \in [Keys -> Result \cup {None}] /\ formLock' \in Requests \cup {None}
  BY <1>1, <1>3 DEF ReleaseInv, Types
<1>6. Exclusive'
  <2>1. \A o \in Requests \ {q} : ~Numbering(request[o]) /\ ~Locking(request[o])
    BY <1>1, OnlyTheHolder DEF Locking
  <2>2. QED
    BY <1>1, <1>4, <2>1, LastWriter
<1>7. /\ versions' \in Seq(VersionRec) /\ Len(versions) <= Len(versions')
      /\ \A v \in DOMAIN versions : v \in DOMAIN versions' /\ versions'[v] = versions[v]
      /\ request[q].targets # {} => request[q].version \in DOMAIN versions'
      /\ draft' \in DraftRec \cup {None}
      /\ \A e \in request[q].targets :
           /\ ApprovalNeeded(e) => versions'[request[q].version].by # request[q].by
           /\ Gated(e) => request[q].version \in Numbers(releases["test"]) \cup Numbers(releases[e])
  <2>1. CASE request[q].content # 0
    <3>1. Numbering(request[q]) /\ CommitVersion(q)
      BY <1>1, <2>1 DEF Numbering
    <3>2. \A e \in request[q].targets : ~ApprovalNeeded(e) /\ ~Gated(e)
      BY <1>1, <2>1 DEF RequestOK, BatchOK, OwnRelease
    <3>3. versions \in Seq(VersionRec)
      BY DEF ReleaseInv, Types
    <3>4. Len(versions') = Len(versions) + 1
      BY <1>2, <3>1, CommitVersionKeeps
    <3>5. Len(versions) <= Len(versions')
      BY <3>3, <3>4
    <3>6. QED
      BY <1>2, <3>1, <3>2, <3>5, CommitVersionKeeps
  <2>2. CASE request[q].content = 0
    <3>1. versions' = versions /\ draft' = draft
      BY <1>1, <2>2
    <3>2. request[q].version \in DOMAIN versions
          /\ \A e \in request[q].targets : Cleared(request[q].version, request[q].by, e)
      BY <1>1, <2>2 DEF RequestOK, BatchOK
    <3>3. versions \in Seq(VersionRec) /\ draft \in DraftRec \cup {None}
      BY DEF ReleaseInv, Types
    <3>4. QED
      BY <3>1, <3>2, <3>3 DEF Cleared
  <2>3. QED
    BY <2>1, <2>2
<1>8. QED
  BY <1>1, <1>2, <1>4, <1>5, <1>6, <1>7, Lands

-----------------------------------------------------------------------------
(* The theorems.                                                           *)

\* What publishes and releases nothing takes nothing away.
LEMMA NothingReleased ==
    ASSUME UNCHANGED <<versions, releases>>, ReleaseInv
    PROVE  Kept /\ Tested
<1>1. Len(versions) \in Nat /\ \A e \in Environments : Len(releases[e]) \in Nat
  BY DEF ReleaseInv, Types
<1>2. QED
  BY <1>1 DEF Kept, Tested

\* Every step keeps the invariant and the history, and tests before prod.
LEMMA ReleaseInvStep == ReleaseInv /\ [Next]_vars => ReleaseInv' /\ Kept /\ Tested
<1> SUFFICES ASSUME ReleaseInv, [Next]_vars PROVE ReleaseInv' /\ Kept /\ Tested
  OBVIOUS
<1>1. CASE SaveDraft
  BY <1>1, SaveStep, NothingReleased DEF SaveDraft
<1>2. ASSUME NEW k \in Keys, Review(k) PROVE ReleaseInv' /\ Kept /\ Tested
  BY <1>2, ReviewStep, NothingReleased DEF Review, control
<1>3. ASSUME NEW k \in Keys, Purge(k) PROVE ReleaseInv' /\ Kept /\ Tested
  BY <1>3, PurgeStep, NothingReleased DEF Purge
<1>4. ASSUME NEW q \in Requests, FreezeDraft(q) PROVE ReleaseInv' /\ Kept /\ Tested
  BY <1>4, FreezeStep, NothingReleased DEF FreezeDraft, control
<1>5. ASSUME NEW q \in Requests, WriteVersion(q) PROVE ReleaseInv' /\ Kept /\ Tested
  BY <1>5, WriteVersionStep, NothingReleased DEF WriteVersion, control
<1>6. ASSUME NEW q \in Requests, LoadRelease(q) PROVE ReleaseInv' /\ Kept /\ Tested
  BY <1>6, LoadReleaseStep, NothingReleased DEF LoadRelease, control
<1>7. ASSUME NEW q \in Requests, LoadIntake(q) PROVE ReleaseInv' /\ Kept /\ Tested
  BY <1>7, LoadIntakeStep, NothingReleased DEF LoadIntake, control
<1>8. ASSUME NEW q \in Requests, ReadReleased(q) PROVE ReleaseInv' /\ Kept /\ Tested
  BY <1>8, ReadStep, NothingReleased DEF ReadReleased, control
<1>9. ASSUME NEW q \in Requests, NEW k \in Keys, Replay(q, k)
      PROVE  ReleaseInv' /\ Kept /\ Tested
  BY <1>9, ReplayStep, NothingReleased DEF Replay, control
<1>10. ASSUME NEW q \in Requests, NEW k \in Keys, LoadBatch(q, k)
       PROVE  ReleaseInv' /\ Kept /\ Tested
  BY <1>10, LoadBatchStep, NothingReleased DEF LoadBatch, control
<1>11. ASSUME NEW q \in Requests, ReplayLocked(q) PROVE ReleaseInv' /\ Kept /\ Tested
  BY <1>11, ReplayStep, NothingReleased DEF ReplayLocked, control
<1>12. ASSUME NEW q \in Requests, RecheckBatch(q) PROVE ReleaseInv' /\ Kept /\ Tested
  BY <1>12, RecheckStep, NothingReleased DEF RecheckBatch, control
<1>13. ASSUME NEW q \in Requests, WriteBatch(q) PROVE ReleaseInv' /\ Kept /\ Tested
  BY <1>13, WriteBatchStep, NothingReleased DEF WriteBatch, control
<1>14. ASSUME NEW q \in Requests, Abort(q) PROVE ReleaseInv' /\ Kept /\ Tested
  BY <1>14, AbortStep, NothingReleased DEF Abort, control
<1>15. CASE UNCHANGED vars
  <2>1. Types' /\ Exclusive' /\ Reviewed' /\ Pointed' /\ ServedWasApproved'
    BY <1>15 DEF vars, ReleaseInv, Types, Exclusive, Publishing, In, Numbering, Locking, Reviewed,
                 Pointed, Numbers, ServedWasApproved
  <2>2. Grows
    BY <1>15 DEF vars, Grows
  <2>3. \A q \in Requests : RequestOK(request[q])'
    BY <1>15, <2>2, StillOK DEF vars, ReleaseInv, Types
  <2>4. QED
    BY <1>15, <2>1, <2>3, NothingReleased DEF vars, ReleaseInv
<1>16. ASSUME NEW q \in Requests, Publish(q) \/ Release(q) \/ CommitBatch(q)
       PROVE  ReleaseInv' /\ Kept /\ Tested
  BY <1>16, PublishStep, ReleaseStep, CommitBatchStep
<1>17. QED
  BY <1>1, <1>2, <1>3, <1>4, <1>5, <1>6, <1>7, <1>8, <1>9, <1>10, <1>11, <1>12, <1>13, <1>14,
     <1>15, <1>16
  DEF Next

\* The invariant holds in every reachable state: what a request checked before
\* its transaction is still so when it commits.
THEOREM ReleaseInvariant == Spec => []ReleaseInv
<1>1. Init => ReleaseInv
  BY ReleaseInvInit
<1>2. ReleaseInv /\ [Next]_vars => ReleaseInv'
  BY ReleaseInvStep
<1>3. QED
  BY <1>1, <1>2, PTL DEF Spec

\* Under the two-person rule every version prod ever served was released there
\* by an account that did not publish it.
THEOREM ServedIsApproved == Spec => []ServedWasApproved
<1>1. ReleaseInv => ServedWasApproved
  BY DEF ReleaseInv
<1>2. QED
  BY <1>1, ReleaseInvariant, PTL

\* A version reaches prod only from test, or where it had been in prod already.
THEOREM TestedBeforeProd == Spec => TestedFirst
<1>1. ReleaseInv /\ [Next]_vars =>
        [{"test", "prod"} \subseteq Environments =>
            Numbers(releases'["prod"]) \subseteq
                Numbers(releases["prod"]) \cup Numbers(releases["test"])]_vars
  BY ReleaseInvStep DEF Tested
<1>2. QED
  BY <1>1, ReleaseInvariant, PTL DEF Spec, TestedFirst

\* No step takes back or changes a published version or a release row.
THEOREM HistoryIsKept == Spec => HistoryKept
<1>1. ReleaseInv /\ [Next]_vars =>
        [/\ Len(versions) <= Len(versions') /\ \A v \in DOMAIN versions : versions'[v] = versions[v]
         /\ \A e \in Environments :
              /\ Len(releases[e]) <= Len(releases'[e])
              /\ \A i \in DOMAIN releases[e] : releases'[e][i] = releases[e][i]]_vars
  BY ReleaseInvStep DEF Kept
<1>2. QED
  BY <1>1, ReleaseInvariant, PTL DEF Spec, HistoryKept

-----------------------------------------------------------------------------
(* The shape of the state: what is published was saved, and the form's lock *)
(* has a holder.                                                           *)

\* A request that will number a version holds a saved draft.
ContentOK(r) == r.content \in 0 .. saves /\ (Numbering(r) \/ r.pc = "frozen" => r.content # 0)

Contents ==
    /\ draft # None => draft.content \in 1 .. saves
    /\ \A v \in DOMAIN versions : versions[v].content \in 1 .. saves
    /\ \A q \in Requests : ContentOK(request[q])

Holder == formLock # None => Locking(request[formLock])

ShapeInv == ReleaseInv /\ Contents /\ Holder

\* A step that moves one request on, with the contents it had or a saved one.
LEMMA CarryOn ==
    ASSUME ShapeInv, NEW q \in Requests, NEW r, Step(q, r), ContentOK(r),
           UNCHANGED <<saves, versions>>, draft' \in {draft, None}
    PROVE  Contents'
<1>1. \A o \in Requests : request'[o] = IF o = q THEN r ELSE request[o]
  BY DEF Step, ShapeInv, ReleaseInv, Types
<1>2. \A o \in Requests : ContentOK(request'[o])
  BY <1>1 DEF ShapeInv, Contents
<1>3. \A o \in Requests : ContentOK(request[o])'
  BY <1>2 DEF ContentOK, Numbering
<1>4. QED
  BY <1>3 DEF ShapeInv, Contents

\* A request that does not hold the lock leaves its holder alone.
LEMMA HolderStays ==
    ASSUME ShapeInv, NEW q \in Requests, NEW r, Step(q, r), ~Locking(request[q]),
           UNCHANGED formLock
    PROVE  Holder'
<1>1. \A o \in Requests : request'[o] = IF o = q THEN r ELSE request[o]
  BY DEF Step, ShapeInv, ReleaseInv, Types
<1>2. formLock \in Requests \cup {None}
  BY DEF ShapeInv, ReleaseInv, Types
<1>3. formLock # None => formLock \in Requests \ {q} /\ Locking(request[formLock])
  BY <1>2 DEF ShapeInv, Holder
<1>4. formLock # None => Locking(request'[formLock])
  BY <1>1, <1>3
<1>5. QED
  BY <1>4 DEF Holder, Locking

\* The requests that only read or check.
LEMMA ShapeQuiet ==
    ASSUME ShapeInv, NEW q \in Requests,
           \/ FreezeDraft(q) \/ LoadRelease(q) \/ LoadIntake(q) \/ ReadReleased(q)
           \/ ReplayLocked(q) \/ \E k \in Keys : Replay(q, k) \/ LoadBatch(q, k)
    PROVE  Contents' /\ Holder'
<1>1. /\ request[q] \in RequestRec /\ RequestOK(request[q]) /\ ContentOK(request[q])
      /\ UNCHANGED <<control, review, formLock>> /\ saves \in Nat
  BY DEF ShapeInv, ReleaseInv, Types, Contents, FreezeDraft, LoadRelease, LoadIntake, ReadReleased,
         ReplayLocked, Replay, LoadBatch
<1>2. ~Locking(request[q])
  BY DEF FreezeDraft, LoadRelease, LoadIntake, ReadReleased, ReplayLocked, Replay, LoadBatch,
         Arrives, In, Locking
<1>3. ASSUME NEW r, Step(q, r), ContentOK(r) PROVE Contents' /\ Holder'
  <2>1. Contents'
    BY <1>1, <1>3, CarryOn DEF control
  <2>2. Holder'
    BY <1>1, <1>2, <1>3, HolderStays
  <2>3. QED
    BY <2>1, <2>2
<1>4. CASE FreezeDraft(q)
  <2>1. PICK by \in Accounts, kind \in {"publish", "pubrel"}, e \in Environments :
          Step(q, [Idle EXCEPT !.pc = "frozen", !.kind = kind, !.by = by,
                     !.content = draft.content,
                     !.targets = IF kind = "pubrel" THEN {e} ELSE {}])
    BY <1>4 DEF FreezeDraft
  <2> DEFINE r == [Idle EXCEPT !.pc = "frozen", !.kind = kind, !.by = by,
                     !.content = draft.content,
                     !.targets = IF kind = "pubrel" THEN {e} ELSE {}]
  <2>2. draft.content \in 1 .. saves
    BY <1>4 DEF FreezeDraft, ShapeInv, Contents
  <2>3. r.content = draft.content
    BY DEF Idle
  <2>4. ContentOK(r)
    BY <1>1, <2>2, <2>3 DEF ContentOK
  <2>5. QED
    BY <1>3, <2>1, <2>4
<1>5. CASE LoadRelease(q)
  <2>1. PICK by \in Accounts, e \in Environments, v \in DOMAIN versions :
          Step(q, [Idle EXCEPT !.pc = "loaded", !.kind = "release", !.by = by,
                               !.version = v, !.targets = {e}])
    BY <1>5 DEF LoadRelease
  <2> DEFINE r == [Idle EXCEPT !.pc = "loaded", !.kind = "release", !.by = by,
                               !.version = v, !.targets = {e}]
  <2>2. r.content = 0 /\ r.pc = "loaded"
    BY DEF Idle
  <2>3. ContentOK(r)
    BY <1>1, <2>2 DEF ContentOK, Numbering
  <2>4. QED
    BY <1>3, <2>1, <2>3
<1>6. CASE LoadIntake(q)
  <2>1. PICK by \in Accounts, e \in Environments, close \in BOOLEAN :
          Step(q, [Idle EXCEPT !.pc = "loaded", !.kind = "intake", !.by = by,
                               !.close = close, !.targets = {e}])
    BY <1>6 DEF LoadIntake
  <2> DEFINE r == [Idle EXCEPT !.pc = "loaded", !.kind = "intake", !.by = by,
                               !.close = close, !.targets = {e}]
  <2>2. r.content = 0 /\ r.pc = "loaded"
    BY DEF Idle
  <2>3. ContentOK(r)
    BY <1>1, <2>2 DEF ContentOK, Numbering
  <2>4. QED
    BY <1>3, <2>1, <2>3
<1>7. CASE ReadReleased(q)
  <2>1. PICK e \in request[q].targets :
          IF request[q].kind = "release"
          THEN Step(q, [request[q] EXCEPT !.pc = "read",
                          !.closed = [t \in request[q].targets |-> ClosedIn(t)]])
          ELSE Step(q, [request[q] EXCEPT !.pc = "read", !.version = Released(e).version,
                          !.closed = [t \in request[q].targets |-> request[q].close]])
    BY <1>7 DEF ReadReleased
  <2> DEFINE r1 == [request[q] EXCEPT !.pc = "read",
                      !.closed = [t \in request[q].targets |-> ClosedIn(t)]]
             r2 == [request[q] EXCEPT !.pc = "read", !.version = Released(e).version,
                      !.closed = [t \in request[q].targets |-> request[q].close]]
  <2>2. /\ r1.pc = "read" /\ r1.content = request[q].content
        /\ r2.pc = "read" /\ r2.content = request[q].content
    BY <1>1 DEF RequestRec
  <2>3. ContentOK(r1) /\ ContentOK(r2)
    BY <1>1, <2>2 DEF ContentOK, Numbering
  <2>4. Step(q, r1) \/ Step(q, r2)
    BY <2>1
  <2>5. QED
    BY <1>3, <2>3, <2>4
<1>8. CASE ReplayLocked(q)
  <2> DEFINE r == [Done(q) EXCEPT !.result = stored[request[q].key]]
  <2>1. r.content = 0 /\ r.pc = "done"
    BY DEF Done, Idle
  <2>2. ContentOK(r)
    BY <1>1, <2>1 DEF ContentOK, Numbering
  <2>3. QED
    BY <1>3, <1>8, <2>2 DEF ReplayLocked
<1>9. ASSUME NEW k \in Keys, Replay(q, k) PROVE Contents' /\ Holder'
  <2> DEFINE r == [Idle EXCEPT !.pc = "done", !.key = k, !.result = stored[k]]
  <2>1. r.content = 0 /\ r.pc = "done"
    BY DEF Idle
  <2>2. ContentOK(r)
    BY <1>1, <2>1 DEF ContentOK, Numbering
  <2>3. QED
    BY <1>3, <1>9, <2>2 DEF Replay
<1>10. ASSUME NEW k \in Keys, LoadBatch(q, k) PROVE Contents' /\ Holder'
  <2> DEFINE c == IF review[k].version = 0 THEN draft.content ELSE 0
             r == [Idle EXCEPT !.pc = "loaded", !.kind = "batch", !.by = review[k].by, !.key = k,
                     !.version = review[k].version, !.targets = DOMAIN review[k].expected,
                     !.content = c]
  <2>1. review[k].version = 0 => draft.content \in 1 .. saves
    BY <1>10 DEF LoadBatch, ShapeInv, Contents
  <2>2. r.content \in 0 .. saves /\ r.pc = "loaded"
    BY <1>1, <2>1 DEF Idle
  <2>3. ContentOK(r)
    BY <2>2 DEF ContentOK, Numbering
  <2>4. QED
    BY <1>3, <1>10, <2>3 DEF LoadBatch
<1>11. QED
  BY <1>4, <1>5, <1>6, <1>7, <1>8, <1>9, <1>10

\* The requests that take up writing carry the content they were checked with.
LEMMA ShapeWriting ==
    ASSUME ShapeInv, NEW q \in Requests,
           WriteVersion(q) \/ RecheckBatch(q) \/ WriteBatch(q) \/ Abort(q)
    PROVE  Contents' /\ Holder'
<1>1. /\ request[q] \in RequestRec /\ RequestOK(request[q]) /\ ContentOK(request[q])
      /\ UNCHANGED <<control, review>> /\ saves \in Nat
      /\ formLock \in Requests \cup {None}
  BY DEF ShapeInv, ReleaseInv, Types, Contents, WriteVersion, RecheckBatch, WriteBatch, Abort
<1>2. ASSUME NEW r, Step(q, r), ContentOK(r) PROVE Contents'
  BY <1>1, <1>2, CarryOn DEF control
<1>3. ASSUME NEW r, Step(q, r), Locking(r), formLock' \in {formLock, q} PROVE Holder'
  <2>1. \A o \in Requests : request'[o] = IF o = q THEN r ELSE request[o]
    BY <1>3 DEF Step, ShapeInv, ReleaseInv, Types
  <2>2. formLock' # None => formLock' \in Requests /\ Locking(request'[formLock'])
    BY <1>1, <1>3, <2>1 DEF ShapeInv, Holder
  <2>3. QED
    BY <2>2 DEF Holder, Locking
<1>4. CASE WriteVersion(q)
  <2> DEFINE r == [request[q] EXCEPT !.pc = "writing", !.version = Len(versions) + 1,
                     !.deletes = (draft # None),
                     !.closed = [e \in request[q].targets |-> ClosedIn(e)]]
  <2>1. /\ request[q].pc = "frozen" /\ request[q].kind \in {"publish", "pubrel"}
        /\ Step(q, r) /\ UNCHANGED formLock
    BY <1>4 DEF WriteVersion, In
  <2>2. r.content = request[q].content /\ request[q].content # 0
    BY <1>1, <2>1 DEF ContentOK, RequestRec
  <2>3. ContentOK(r)
    BY <1>1, <2>2 DEF ContentOK
  <2>4. ~Locking(request[q])
    BY <2>1 DEF Locking
  <2>5. Holder'
    BY <2>1, <2>4, HolderStays
  <2>6. QED
    BY <1>2, <2>1, <2>3, <2>5
<1>5. CASE RecheckBatch(q)
  <2> DEFINE r == [request[q] EXCEPT !.pc = "rechecked"]
  <2>1. request[q].kind = "batch" /\ Step(q, r) /\ formLock' = q
    BY <1>5 DEF RecheckBatch, In
  <2>2. r.content = request[q].content /\ r.pc = "rechecked" /\ r.kind = "batch"
    BY <1>1, <2>1 DEF RequestRec
  <2>3. ContentOK(r) /\ Locking(r)
    BY <1>1, <2>2 DEF ContentOK, Numbering, Locking
  <2>4. QED
    BY <1>2, <1>3, <2>1, <2>3
<1>6. CASE WriteBatch(q)
  <2> DEFINE r == [request[q] EXCEPT !.pc = "writing",
                     !.version = IF @ = 0 THEN Len(versions) + 1 ELSE @,
                     !.deletes = (request[q].version = 0 /\ draft # None),
                     !.closed = [e \in request[q].targets |-> ClosedIn(e)]]
  <2>1. request[q].kind = "batch" /\ Step(q, r) /\ UNCHANGED formLock
    BY <1>6 DEF WriteBatch, In
  <2>2. r.content = request[q].content /\ r.pc = "writing" /\ r.kind = "batch"
    BY <1>1, <2>1 DEF RequestRec
  <2>3. ContentOK(r) /\ Locking(r)
    BY <1>1, <2>2 DEF ContentOK, Numbering, Locking
  <2>4. QED
    BY <1>2, <1>3, <2>1, <2>3
<1>7. CASE Abort(q)
  <2> DEFINE r == [Idle EXCEPT !.pc = "done"]
  <2>1. Step(q, r) /\ formLock' = IF formLock = q THEN None ELSE formLock
    BY <1>7 DEF Abort
  <2>2. r.content = 0 /\ r.pc = "done"
    BY DEF Idle
  <2>3. ContentOK(r)
    BY <1>1, <2>2 DEF ContentOK, Numbering
  <2>4. Holder'
    <3>1. CASE formLock = q
      BY <2>1, <3>1 DEF Holder
    <3>2. CASE formLock # q
      <4>1. \A o \in Requests : request'[o] = IF o = q THEN r ELSE request[o]
        BY <2>1 DEF Step, ShapeInv, ReleaseInv, Types
      <4>2. formLock' = formLock
        BY <2>1, <3>2
      <4>3. formLock # None => Locking(request'[formLock])
        BY <1>1, <3>2, <4>1 DEF ShapeInv, Holder
      <4>4. QED
        BY <4>2, <4>3 DEF Holder, Locking
    <3>3. QED
      BY <3>1, <3>2
  <2>5. QED
    BY <1>2, <2>1, <2>3, <2>4
<1>8. QED
  BY <1>4, <1>5, <1>6, <1>7

\* What is committed was saved.
LEMMA ShapeCommit ==
    ASSUME ShapeInv, NEW q \in Requests, Publish(q) \/ Release(q) \/ CommitBatch(q)
    PROVE  Contents' /\ Holder'
<1>1. /\ request[q] \in RequestRec /\ RequestOK(request[q]) /\ ContentOK(request[q])
      /\ saves \in Nat /\ saves' = saves /\ versions \in Seq(VersionRec)
      /\ formLock \in Requests \cup {None}
  BY DEF ShapeInv, ReleaseInv, Types, Contents, Publish, Release, CommitBatch
<1>2. PICK r : Step(q, r) /\ r.content = 0 /\ r.pc = "done"
  <2>1. \A result : [Done(q) EXCEPT !.result = result].content = 0
                    /\ [Done(q) EXCEPT !.result = result].pc = "done"
    BY DEF Done, Idle
  <2>2. Done(q).content = 0 /\ Done(q).pc = "done"
    BY DEF Done, Idle
  <2> DEFINE result == [version |-> request[q].version,
                        at |-> [e \in request[q].targets |-> Len(releases[e]) + 1]]
  <2>3. Step(q, Done(q)) \/ Step(q, [Done(q) EXCEPT !.result = result])
    BY DEF Publish, Release, CommitBatch
  <2> HIDE DEF result
  <2>4. QED
    BY <2>1, <2>2, <2>3
<1>3. \A o \in Requests : request'[o] = IF o = q THEN r ELSE request[o]
  BY <1>2 DEF Step, ShapeInv, ReleaseInv, Types
<1>4. \A o \in Requests : ContentOK(request[o])'
  BY <1>1, <1>2, <1>3 DEF ShapeInv, Contents, ContentOK, Numbering
<1>5. (draft # None => draft.content \in 1 .. saves)'
  BY <1>1 DEF ShapeInv, Contents, Publish, Release, CommitBatch, CommitVersion
<1>6. (\A v \in DOMAIN versions : versions[v].content \in 1 .. saves)'
  <2>1. CASE UNCHANGED versions
    BY <1>1, <2>1 DEF ShapeInv, Contents
  <2>2. CASE CommitVersion(q) /\ Numbering(request[q])
    <3>1. request[q].content \in 1 .. saves
      BY <1>1, <2>2 DEF ContentOK
    <3>2. request[q].version = Len(versions) + 1 /\ Len(versions) \in Nat
          /\ DOMAIN versions = 1 .. Len(versions)
      BY <1>1, <2>2 DEF ShapeInv, ReleaseInv, Exclusive
    <3>3. versions' = [v \in 1 .. (Len(versions) + 1) |->
                          IF v = Len(versions) + 1
                          THEN [content |-> request[q].content, by |-> request[q].by]
                          ELSE versions[v]]
      BY <2>2, <3>2 DEF CommitVersion
    <3>4. DOMAIN versions' = 1 .. (Len(versions) + 1)
      BY <3>3
    <3>5. \A v \in 1 .. (Len(versions) + 1) : versions'[v].content \in 1 .. saves
      BY <3>1, <3>2, <3>3 DEF ShapeInv, Contents
    <3>6. QED
      BY <1>1, <3>4, <3>5
  <2>3. QED
    BY <2>1, <2>2 DEF Publish, Release, CommitBatch, In, Numbering
<1>7. Holder'
  <2>1. CASE Publish(q) \/ Release(q)
    <3>1. ~Locking(request[q]) /\ formLock' = formLock
      BY <2>1 DEF Publish, Release, In, Locking
    <3>2. QED
      BY <1>2, <3>1, HolderStays
  <2>2. CASE CommitBatch(q)
    BY <2>2 DEF CommitBatch, Holder
  <2>3. QED
    BY <2>1, <2>2
<1>8. QED
  BY <1>4, <1>5, <1>6, <1>7 DEF Contents

\* Every step keeps what is published among what was saved.
LEMMA ShapeInvStep == ShapeInv /\ [Next]_vars => ShapeInv'
<1> SUFFICES ASSUME ShapeInv, [Next]_vars PROVE ShapeInv'
  OBVIOUS
<1>1. ReleaseInv'
  BY ReleaseInvStep DEF ShapeInv
<1>2. Contents' /\ Holder'
  <2>1. CASE SaveDraft
    <3>1. saves \in Nat /\ saves' = saves + 1 /\ draft'.content = saves + 1
          /\ UNCHANGED <<versions, formLock, request>>
      BY <2>1 DEF SaveDraft, ShapeInv, ReleaseInv, Types
    <3>2. \A q \in Requests : ContentOK(request[q])'
      BY <3>1 DEF ShapeInv, Contents, ContentOK, Numbering
    <3>3. QED
      BY <3>1, <3>2 DEF ShapeInv, Contents, Holder, Locking
  <2>2. CASE UNCHANGED <<draft, saves, versions, formLock, request>>
    BY <2>2 DEF ShapeInv, Contents, ContentOK, Numbering, Holder, Locking
  <2>3. ASSUME NEW k \in Keys, Review(k) \/ Purge(k)
        PROVE  UNCHANGED <<draft, saves, versions, formLock, request>>
    BY <2>3 DEF Review, Purge, control
  <2>4. QED
    BY <2>1, <2>2, <2>3, ShapeQuiet, ShapeWriting, ShapeCommit DEF Next, vars
<1>3. QED
  BY <1>1, <1>2 DEF ShapeInv

LEMMA ShapeInvInit == Init => ShapeInv
<1> SUFFICES ASSUME Init PROVE Contents /\ Holder
  BY ReleaseInvInit DEF ShapeInv
<1>1. Idle.content = 0 /\ Idle.pc = "idle"
  BY DEF Idle
<1>2. QED
  BY <1>1 DEF Init, Contents, ContentOK, Numbering, Holder

\* The shape of the state: published contents were saved, release rows name
\* published versions, and the form's lock is held by a confirmation under way.
THEOREM ReleasesTypeCorrect == Spec => []TypeOK
<1>1. Init => ShapeInv
  BY ShapeInvInit
<1>2. ShapeInv => TypeOK
  <2> SUFFICES ASSUME ShapeInv PROVE TypeOK
    OBVIOUS
  <2>1. draft = None \/ draft.content \in 1 .. saves
    BY DEF ShapeInv, Contents
  <2>2. \A v \in DOMAIN versions : versions[v].content \in 1 .. saves /\ versions[v].by \in Accounts
    <3>1. versions \in Seq(VersionRec)
      BY DEF ShapeInv, ReleaseInv, Types
    <3>2. \A v \in DOMAIN versions : versions[v] \in VersionRec
      BY <3>1
    <3>3. QED
      BY <3>2 DEF ShapeInv, Contents, VersionRec
  <2>3. \A e \in Environments : releases[e] \in Seq(Row) /\ Numbers(releases[e]) \subseteq DOMAIN versions
    BY DEF ShapeInv, ReleaseInv, Types, Pointed
  <2>4. formLock # None => In(formLock, "rechecked", {"batch"}) \/ In(formLock, "writing", {"batch"})
    BY DEF ShapeInv, Holder, Locking, In
  <2>5. QED
    BY <2>1, <2>2, <2>3, <2>4 DEF TypeOK
<1>3. QED
  BY <1>1, <1>2, ShapeInvStep, PTL DEF Spec

-----------------------------------------------------------------------------
(* The contract of the history.                                            *)

\* Nobody saves past the bound.
LEMMA SavesStep ==
    ASSUME saves \in Nat, saves <= MaxSaves, [Next]_vars
    PROVE  saves' <= MaxSaves
<1>1. CASE SaveDraft
  BY <1>1, NamesAssumption DEF SaveDraft
<1>2. CASE UNCHANGED saves
  BY <1>2
<1>3. CASE UNCHANGED vars
  BY <1>3 DEF vars
<1>4. ASSUME NEW k \in Keys, Review(k) \/ Purge(k) PROVE UNCHANGED saves
  BY <1>4 DEF Review, Purge, control
<1>5. ASSUME NEW q \in Requests,
             FreezeDraft(q) \/ WriteVersion(q) \/ Publish(q) \/ LoadRelease(q) \/ LoadIntake(q)
             \/ ReadReleased(q) \/ Release(q)
      PROVE  UNCHANGED saves
  BY <1>5 DEF FreezeDraft, WriteVersion, Publish, LoadRelease, LoadIntake, ReadReleased, Release,
              control
<1>6. ASSUME NEW q \in Requests,
             \/ \E k \in Keys : Replay(q, k) \/ LoadBatch(q, k)
             \/ ReplayLocked(q) \/ RecheckBatch(q) \/ WriteBatch(q) \/ CommitBatch(q) \/ Abort(q)
      PROVE  UNCHANGED saves
  BY <1>6 DEF Replay, LoadBatch, ReplayLocked, RecheckBatch, WriteBatch, CommitBatch, Abort, control
<1>7. QED
  BY <1>1, <1>2, <1>3, <1>4, <1>5, <1>6 DEF Next

\* The rows that a request inserts are one addition of the contract.
LEMMA InsertAdds ==
    ASSUME NEW q \in Requests, NEW approve \in BOOLEAN, InsertRelease(q, approve),
           request[q].closed \in [request[q].targets -> BOOLEAN]
    PROVE  Contract!Add(request[q].targets, request[q].version, request[q].by, approve)
BY DEF InsertRelease, Contract!Add, Contract!ApprovalNeeded, ApprovalNeeded

\* The version that a request commits comes after all others.
LEMMA CommitAppends ==
    ASSUME ReleaseInv, NEW q \in Requests, CommitVersion(q), Numbering(request[q]),
           request[q].by \in Accounts
    PROVE  /\ versions' = Append(versions, [content |-> request[q].content, by |-> request[q].by])
           /\ request[q].version = Len(versions) + 1
<1> DEFINE n == Len(versions) + 1
           row == [content |-> request[q].content, by |-> request[q].by]
<1>1. request[q].version = n /\ versions \in Seq(VersionRec)
  BY DEF ReleaseInv, Exclusive, Types
<1>2. Len(versions) \in Nat
  BY <1>1
<1>3. versions' = [v \in 1 .. n |-> IF v = n THEN row ELSE versions[v]]
  BY <1>1, <1>2 DEF CommitVersion
<1>4. row \in VersionRec
  BY DEF ReleaseInv, Types, RequestRec, VersionRec
<1> DEFINE longer == Append(versions, row)
<1>5. /\ longer \in Seq(VersionRec) /\ Len(longer) = n
      /\ \A v \in 1 .. n : longer[v] = IF v = n THEN row ELSE versions[v]
  BY <1>1, <1>2, <1>4
<1> HIDE DEF row, longer
<1>6. longer = [v \in 1 .. n |-> longer[v]]
  BY <1>5
<1>7. versions' = longer
  BY <1>3, <1>5, <1>6
<1>8. QED
  BY <1>1, <1>7 DEF row, longer

\* A request that commits a version publishes in the contract.
LEMMA PublishRefines ==
    ASSUME ShapeInv, saves <= MaxSaves, NEW q \in Requests, CommitVersion(q),
           Numbering(request[q]), InsertRelease(q, TRUE), request[q].by \in Accounts,
           request[q].closed \in [request[q].targets -> BOOLEAN],
           \A e \in request[q].targets : OwnRelease(e)
    PROVE  Contract!Next
<1>1. ReleaseInv /\ request[q] \in RequestRec /\ saves \in Nat
  BY DEF ShapeInv, ReleaseInv, Types
<1>2. /\ versions' = Append(versions, [content |-> request[q].content, by |-> request[q].by])
      /\ request[q].version = Len(versions) + 1
  BY <1>1, CommitAppends
<1>3. request[q].content \in 1 .. MaxSaves
  BY <1>1, NamesAssumption DEF ShapeInv, Contents, ContentOK, RequestRec
<1>4. Contract!Add(request[q].targets, Len(versions) + 1, request[q].by, TRUE)
  BY <1>2, InsertAdds
<1>5. \A e \in request[q].targets : ~Contract!Gated(e) /\ ~Contract!ApprovalNeeded(e)
  BY DEF OwnRelease, Gated, ApprovalNeeded, Contract!Gated, Contract!ApprovalNeeded
<1>6. Contract!Publish(request[q].by, request[q].targets)
  BY <1>2, <1>3, <1>4, <1>5 DEF Contract!Publish
<1>7. request[q].targets \in SUBSET Environments
  BY <1>1 DEF RequestRec
<1>8. QED
  BY <1>6, <1>7 DEF Contract!Next

\* A request that releases a version it was cleared for does so in the contract.
LEMMA ReleaseRefines ==
    ASSUME ReleaseInv, NEW q \in Requests, InsertRelease(q, TRUE), UNCHANGED versions,
           request[q].by \in Accounts,
           request[q].closed \in [request[q].targets -> BOOLEAN],
           request[q].version \in DOMAIN versions,
           \A e \in request[q].targets : Cleared(request[q].version, request[q].by, e)
    PROVE  Contract!Next
<1>1. Contract!Add(request[q].targets, request[q].version, request[q].by, TRUE)
  BY InsertAdds
<1>2. \A e \in request[q].targets :
        /\ Contract!ApprovalNeeded(e) => versions[request[q].version].by # request[q].by
        /\ Contract!Gated(e) =>
             request[q].version \in Contract!Served("test") \cup Contract!Served(e)
  BY DEF Cleared, Gated, ApprovalNeeded, Numbers, Contract!Gated, Contract!ApprovalNeeded,
         Contract!Served
<1>3. Contract!Release(request[q].version, request[q].by, request[q].targets)
  BY <1>1, <1>2 DEF Contract!Release
<1>4. request[q].targets \in SUBSET Environments
  BY DEF ReleaseInv, Types, RequestRec
<1>5. QED
  BY <1>3, <1>4 DEF Contract!Next

\* Rows for no target are none.
LEMMA NoTarget ==
    ASSUME ReleaseInv, NEW q \in Requests, NEW approve \in BOOLEAN, InsertRelease(q, approve),
           request[q].targets = {}
    PROVE  UNCHANGED releases
BY DEF InsertRelease, ReleaseInv, Types

\* A close or reopen repeats a version that its environment served.
LEMMA IntakeRefines ==
    ASSUME ReleaseInv, NEW q \in Requests, Release(q), request[q].kind = "intake"
    PROVE  Contract!Next \/ UNCHANGED Contract!vars
<1>1. /\ request[q] \in RequestRec /\ RequestOK(request[q]) /\ request[q].pc = "read"
      /\ InsertRelease(q, FALSE) /\ UNCHANGED versions
  BY DEF Release, In, ReleaseInv, Types
<1>2. /\ request[q].by \in Accounts /\ request[q].closed \in [request[q].targets -> BOOLEAN]
      /\ \A e, f \in request[q].targets : e = f
      /\ \A e \in request[q].targets : request[q].version \in Numbers(releases[e])
      /\ request[q].targets \subseteq Environments
  BY <1>1 DEF RequestOK, IntakeOK, RequestRec
<1>3. CASE request[q].targets = {}
  <2>1. UNCHANGED releases
    BY <1>1, <1>3, NoTarget
  <2>2. QED
    BY <1>1, <2>1 DEF Contract!vars
<1>4. ASSUME NEW e \in request[q].targets PROVE Contract!Next
  <2>1. request[q].targets = {e} /\ e \in Environments
    BY <1>2
  <2>2. Contract!Add(request[q].targets, request[q].version, request[q].by, FALSE)
    BY <1>1, <1>2, InsertAdds
  <2>3. request[q].version \in Contract!Served(e)
    BY <1>2 DEF Numbers, Contract!Served
  <2>4. Contract!Intake(request[q].version, request[q].by, e)
    BY <1>1, <2>1, <2>2, <2>3 DEF Contract!Intake
  <2>5. QED
    BY <1>2, <2>1, <2>3, <2>4 DEF Contract!Next
<1>5. QED
  BY <1>3, <1>4

\* A confirmation publishes the version it froze or releases the one it names.
LEMMA BatchRefines ==
    ASSUME ShapeInv, saves <= MaxSaves, NEW q \in Requests, CommitBatch(q)
    PROVE  Contract!Next
<1>1. /\ ReleaseInv /\ RequestOK(request[q])
      /\ request[q].pc = "writing" /\ request[q].kind = "batch"
      /\ IF request[q].content # 0 THEN CommitVersion(q) ELSE UNCHANGED <<versions, draft>>
      /\ InsertRelease(q, TRUE)
  BY DEF CommitBatch, In, ShapeInv, ReleaseInv
<1>2. request[q].by \in Accounts /\ request[q].closed \in [request[q].targets -> BOOLEAN]
  BY <1>1 DEF RequestOK, BatchOK
<1>3. CASE request[q].content # 0
  <2>1. Numbering(request[q]) /\ \A e \in request[q].targets : OwnRelease(e)
    BY <1>1, <1>3 DEF Numbering, RequestOK, BatchOK
  <2>2. QED
    BY <1>1, <1>2, <1>3, <2>1, PublishRefines
<1>4. CASE request[q].content = 0
  <2>1. /\ request[q].version \in DOMAIN versions
        /\ \A e \in request[q].targets : Cleared(request[q].version, request[q].by, e)
    BY <1>1, <1>4 DEF RequestOK, BatchOK
  <2>2. QED
    BY <1>1, <1>2, <1>4, <2>1, ReleaseRefines
<1>5. QED
  BY <1>3, <1>4

\* Every step is one of the contract or none.
LEMMA StepRefines ==
    ASSUME ShapeInv, saves <= MaxSaves, [Next]_vars
    PROVE  [Contract!Next]_Contract!vars
<1> DEFINE Refined == Contract!Next \/ UNCHANGED <<versions, releases>>
<1>1. ASSUME NEW q \in Requests, Publish(q) PROVE Refined
  <2>1. /\ RequestOK(request[q]) /\ request[q].pc = "writing"
        /\ request[q].kind \in {"publish", "pubrel"}
        /\ CommitVersion(q) /\ InsertRelease(q, TRUE)
    BY <1>1 DEF Publish, In, ShapeInv, ReleaseInv
  <2>2. /\ request[q].by \in Accounts /\ request[q].closed \in [request[q].targets -> BOOLEAN]
        /\ \A e \in request[q].targets : OwnRelease(e)
    BY <2>1 DEF RequestOK, PublishOK
  <2>3. Numbering(request[q])
    BY <2>1 DEF Numbering
  <2>4. QED
    BY <2>1, <2>2, <2>3, PublishRefines
<1>2. ASSUME NEW q \in Requests, Release(q) PROVE Refined
  <2>1. /\ ReleaseInv /\ RequestOK(request[q]) /\ request[q].pc = "read"
        /\ request[q].kind \in {"release", "intake"} /\ UNCHANGED versions
    BY <1>2 DEF Release, In, ShapeInv, ReleaseInv
  <2>2. CASE request[q].kind = "intake"
    BY <1>2, <2>1, <2>2, IntakeRefines DEF Contract!vars
  <2>3. CASE request[q].kind = "release"
    <3>1. /\ request[q].by \in Accounts /\ InsertRelease(q, TRUE)
          /\ request[q].closed \in [request[q].targets -> BOOLEAN]
          /\ \A e \in request[q].targets : Cleared(request[q].version, request[q].by, e)
      BY <1>2, <2>1, <2>3 DEF RequestOK, ReleaseOK, Release
    <3>2. CASE request[q].targets = {}
      BY <2>1, <3>1, <3>2, NoTarget
    <3>3. CASE request[q].targets # {}
      <4>1. request[q].version \in DOMAIN versions
        BY <3>1, <3>3 DEF Cleared
      <4>2. QED
        BY <2>1, <3>1, <4>1, ReleaseRefines
    <3>4. QED
      BY <3>2, <3>3
  <2>4. QED
    BY <2>1, <2>2, <2>3
<1>3. ASSUME NEW q \in Requests, CommitBatch(q) PROVE Refined
  BY <1>3, BatchRefines
<1>4. ASSUME SaveDraft PROVE Refined
  BY <1>4 DEF SaveDraft
<1>5. ASSUME NEW k \in Keys, Review(k) \/ Purge(k) PROVE Refined
  BY <1>5 DEF Review, Purge, control
<1>6. ASSUME NEW q \in Requests,
             \/ FreezeDraft(q) \/ WriteVersion(q) \/ LoadRelease(q) \/ LoadIntake(q)
             \/ ReadReleased(q) \/ (\E k \in Keys : Replay(q, k) \/ LoadBatch(q, k))
             \/ ReplayLocked(q) \/ RecheckBatch(q) \/ WriteBatch(q) \/ Abort(q)
      PROVE  Refined
  BY <1>6 DEF FreezeDraft, WriteVersion, LoadRelease, LoadIntake, ReadReleased, Replay, LoadBatch,
              ReplayLocked, RecheckBatch, WriteBatch, Abort, control
<1>7. ASSUME UNCHANGED vars PROVE Refined
  BY <1>7 DEF vars
<1>8. Refined
  <2> HIDE DEF Refined
  <2>1. QED
    BY <1>1, <1>2, <1>3, <1>4, <1>5, <1>6, <1>7 DEF Next
<1>9. QED
  BY <1>8 DEF Contract!vars

\* Whatever races, the history is that of one act after another, each by the
\* rules and the history at its commit: publishes, releases, closes and
\* confirmations implement the contract.
THEOREM ReleasesImplementContract == Spec => ImplementsReleases
<1>1. Init => Contract!Init /\ saves <= MaxSaves
  BY NamesAssumption DEF Init, Contract!Init
<1>2. Init => ShapeInv
  BY ShapeInvInit
<1>3. ShapeInv /\ saves <= MaxSaves /\ [Next]_vars => ShapeInv' /\ (saves <= MaxSaves)'
  BY ShapeInvStep, SavesStep DEF ShapeInv, ReleaseInv, Types
<1>4. ShapeInv /\ saves <= MaxSaves /\ [Next]_vars => [Contract!Next]_Contract!vars
  BY StepRefines
<1>5. QED
  BY <1>1, <1>2, <1>3, <1>4, PTL DEF Spec, ImplementsReleases, Contract!Spec

-----------------------------------------------------------------------------
(* One effect of a confirmation.                                           *)

\* The releases of a reviewed target have moved past its review.
Passed(k) == review[k] # None /\ \E e \in DOMAIN review[k].expected :
                                      Len(releases[e]) > review[k].expected[e]

Answered(k) == stored[k] # None \/ \E p \in Requests : request[p].result # None
                                                       /\ request[p].key = k

\* A review counted the releases of its targets as they were.
Behind(k) == review[k] # None =>
    /\ DOMAIN review[k].expected # {}
    /\ \A e \in DOMAIN review[k].expected : review[k].expected[e] <= Len(releases[e])

LockingOK(r) == Locking(r) => /\ r.key \in Keys /\ review[r.key] # None
                              /\ r.targets = DOMAIN review[r.key].expected

\* What the copies of a confirmation have been told, and that none is under way
\* once one has been.
OneAnswer(k) ==
    /\ Behind(k)
    /\ Answered(k) => Passed(k)
    /\ \A p \in Requests : Locking(request[p]) /\ request[p].key = k => ~Answered(k)
    /\ \A p, q \in Requests : /\ request[p].result # None /\ request[p].key = k
                              /\ request[q].result # None /\ request[q].key = k
                              => request[p].result = request[q].result
    /\ stored[k] # None =>
         \A p \in Requests : request[p].result # None /\ request[p].key = k =>
                                 request[p].result = stored[k]

ConfirmInv ==
    /\ ReleaseInv
    /\ \A p \in Requests : /\ request[p].result # None =>
                                request[p].key \in Keys /\ request[p].pc = "done"
                           /\ LockingOK(request[p])
    /\ \A k \in Keys : OneAnswer(k)

\* A review that was passed by stays so.
LEMMA PassedStays ==
    ASSUME ConfirmInv, ReleaseInv', Kept, NEW k \in Keys, Passed(k), review'[k] = review[k]
    PROVE  Passed(k)'
<1>1. review[k] \in ReviewRec
  BY DEF ConfirmInv, ReleaseInv, Types, Passed
<1>2. PICK e \in DOMAIN review[k].expected : Len(releases[e]) > review[k].expected[e]
  BY DEF Passed
<1>3. e \in Environments /\ review[k].expected[e] \in Nat
  BY <1>1, <1>2 DEF ReviewRec, Counts
<1>4. Len(releases[e]) \in Nat /\ Len(releases'[e]) \in Nat /\ Len(releases[e]) <= Len(releases'[e])
  BY <1>3 DEF ConfirmInv, ReleaseInv, Types, Kept
<1>5. QED
  BY <1>2, <1>3, <1>4 DEF Passed

\* The releases stay ahead of a review.
LEMMA BehindStays ==
    ASSUME ConfirmInv, ReleaseInv', Kept, NEW k \in Keys, review[k] # None, review'[k] = review[k]
    PROVE  Behind(k)'
<1>1. review[k] \in ReviewRec /\ Behind(k)
  BY DEF ConfirmInv, ReleaseInv, Types, OneAnswer
<1>2. ASSUME NEW e \in DOMAIN review[k].expected
      PROVE  review[k].expected[e] <= Len(releases'[e])
  <2>1. e \in Environments /\ review[k].expected[e] \in Nat
    BY <1>1 DEF ReviewRec, Counts
  <2>2. Len(releases[e]) \in Nat /\ Len(releases'[e]) \in Nat
        /\ Len(releases[e]) <= Len(releases'[e])
    BY <2>1 DEF ConfirmInv, ReleaseInv, Types, Kept
  <2>3. QED
    BY <1>1, <2>1, <2>2 DEF Behind
<1>3. QED
  BY <1>1, <1>2 DEF Behind

\* A step that stores nothing and answers nobody.
LEMMA NoAnswer ==
    ASSUME ConfirmInv, ReleaseInv', Kept,
           \A k \in Keys : /\ stored'[k] \in {stored[k], None}
                           /\ IF review[k] = None THEN Behind(k)' ELSE review'[k] = review[k],
           \A p \in Requests : \/ request'[p] = request[p]
                               \/ /\ request'[p].result = None /\ LockingOK(request'[p])
                                  /\ Locking(request'[p]) => ~Answered(request'[p].key)
    PROVE  ConfirmInv'
<1>1. \A p \in Requests : request'[p].result # None =>
                              request'[p] = request[p] /\ request[p].result # None
  OBVIOUS
<1>2. ASSUME NEW k \in Keys PROVE OneAnswer(k)'
  <2>1. OneAnswer(k)
    BY DEF ConfirmInv
  <2>2. Answered(k)' => Answered(k)
    BY <1>1 DEF Answered
  <2>3. Answered(k)' => Passed(k)'
    <3>1. Answered(k)' => Passed(k) /\ review'[k] = review[k]
      BY <2>1, <2>2 DEF OneAnswer, Passed
    <3>2. QED
      BY <3>1, PassedStays
  <2>4. \A p \in Requests : Locking(request'[p]) /\ request'[p].key = k => ~Answered(k)
    BY <2>1 DEF OneAnswer
  <2>5. \A p \in Requests : (Locking(request[p]) /\ request[p].key = k => ~Answered(k))'
    BY <2>2, <2>4 DEF Locking
  <2>6. \A p, q \in Requests : /\ request'[p].result # None /\ request'[p].key = k
                               /\ request'[q].result # None /\ request'[q].key = k
                               => request'[p].result = request'[q].result
    BY <1>1, <2>1 DEF OneAnswer
  <2>7. stored'[k] # None =>
          \A p \in Requests : request'[p].result # None /\ request'[p].key = k =>
                                  request'[p].result = stored'[k]
    BY <1>1, <2>1 DEF OneAnswer
  <2>8. Behind(k)'
    BY BehindStays
  <2>9. QED
    BY <2>3, <2>5, <2>6, <2>7, <2>8 DEF OneAnswer
<1>3. \A p \in Requests : request'[p].result # None =>
                              request'[p].key \in Keys /\ request'[p].pc = "done"
  BY <1>1 DEF ConfirmInv
<1>4. \A p \in Requests : LockingOK(request[p])'
  <2>1. \A p \in Requests : LockingOK(request'[p])
    BY DEF ConfirmInv
  <2>2. \A k \in Keys : review[k] # None => review'[k] = review[k]
    OBVIOUS
  <2>3. QED
    BY <2>1, <2>2 DEF LockingOK, Locking
<1>5. QED
  BY <1>2, <1>3, <1>4 DEF ConfirmInv

\* A replay is told what is stored.
LEMMA ReplayAnswers ==
    ASSUME ConfirmInv, ReleaseInv', NEW q \in Requests, NEW k \in Keys, NEW r,
           stored[k] # None, Step(q, r), r.result = stored[k], r.key = k, r.pc = "done",
           UNCHANGED <<control, review>>
    PROVE  ConfirmInv'
<1>1. \A p \in Requests : request'[p] = IF p = q THEN r ELSE request[p]
  BY DEF Step, ConfirmInv, ReleaseInv, Types
<1>2. ASSUME NEW j \in Keys PROVE OneAnswer(j)'
  <2>1. OneAnswer(j) /\ OneAnswer(k)
    BY DEF ConfirmInv
  <2>2. Answered(j)' => Answered(j)
    BY <1>1 DEF Answered, control
  <2>3. Answered(j)' => Passed(j)'
    BY <2>1, <2>2 DEF OneAnswer, Passed, control
  <2>4. \A p \in Requests : (Locking(request[p]) /\ request[p].key = j => ~Answered(j))'
    BY <1>1, <2>1, <2>2 DEF OneAnswer, Locking
  <2>5. \A p \in Requests : request'[p].result # None /\ request'[p].key = j =>
                                \/ p # q /\ request'[p] = request[p]
                                \/ p = q /\ j = k /\ request'[p].result = stored[k]
    BY <1>1
  <2>6. \A p, o \in Requests : /\ request'[p].result # None /\ request'[p].key = j
                               /\ request'[o].result # None /\ request'[o].key = j
                               => request'[p].result = request'[o].result
    BY <2>1, <2>5 DEF OneAnswer
  <2>7. stored'[j] # None =>
          \A p \in Requests : request'[p].result # None /\ request'[p].key = j =>
                                  request'[p].result = stored'[j]
    BY <2>1, <2>5 DEF OneAnswer, control
  <2>8. Behind(j)'
    BY <2>1 DEF OneAnswer, Behind, control
  <2>9. QED
    BY <2>3, <2>4, <2>6, <2>7, <2>8 DEF OneAnswer
<1>3. \A p \in Requests : request'[p].result # None =>
                              request'[p].key \in Keys /\ request'[p].pc = "done"
  BY <1>1 DEF ConfirmInv
<1>4. \A p \in Requests : LockingOK(request[p])'
  BY <1>1 DEF ConfirmInv, LockingOK, Locking
<1>5. QED
  BY <1>2, <1>3, <1>4 DEF ConfirmInv

\* The confirmation that commits is the first to be answered.
LEMMA CommitAnswers ==
    ASSUME ConfirmInv, ReleaseInv', Kept, NEW q \in Requests, CommitBatch(q),
           NEW k \in Keys, request[q].key = k
    PROVE  ConfirmInv'
<1> DEFINE result == [version |-> request[q].version,
                      at |-> [e \in request[q].targets |-> Len(releases[e]) + 1]]
           r == [Done(q) EXCEPT !.result = result]
<1>1. /\ request[q].pc = "writing" /\ request[q].kind = "batch" /\ InsertRelease(q, TRUE)
      /\ stored' = [stored EXCEPT ![k] = result] /\ Step(q, r) /\ review' = review
  BY DEF CommitBatch, In
<1>2. Locking(request[q]) /\ review[k] # None
      /\ request[q].targets = DOMAIN review[k].expected
  BY <1>1 DEF ConfirmInv, Locking, LockingOK
<1>3. r.key = k /\ r.pc = "done" /\ r.result = result
  BY DEF Done, Idle
<1>4. \A p \in Requests : request'[p] = IF p = q THEN r ELSE request[p]
  BY <1>1 DEF Step, ConfirmInv, ReleaseInv, Types
<1>5. \A j \in Keys : stored'[j] = IF j = k THEN result ELSE stored[j]
  BY <1>1 DEF ConfirmInv, ReleaseInv, Types
<1>6. OneAnswer(k) /\ ~Answered(k)
  BY <1>2 DEF ConfirmInv, OneAnswer
<1>7. Passed(k)'
  <2>1. review[k] \in ReviewRec
    BY <1>2 DEF ConfirmInv, ReleaseInv, Types
  <2>2. PICK e \in DOMAIN review[k].expected : review[k].expected[e] <= Len(releases[e])
    BY <1>2, <1>6 DEF OneAnswer, Behind
  <2>3. /\ e \in Environments /\ review[k].expected[e] \in Nat /\ Len(releases[e]) \in Nat
        /\ releases[e] \in Seq(Row)
    BY <2>1, <2>2 DEF ReviewRec, Counts, ConfirmInv, ReleaseInv, Types
  <2>4. PICK row : releases'[e] = Append(releases[e], row)
    BY <1>1, <1>2, <2>2, <2>3 DEF InsertRelease
  <2>5. Len(releases'[e]) = Len(releases[e]) + 1
    BY <2>3, <2>4
  <2>6. Len(releases'[e]) > review[k].expected[e]
    BY <2>2, <2>3, <2>5
  <2>7. review'[k] = review[k]
    BY <1>1
  <2>8. QED
    BY <1>2, <2>6, <2>7 DEF Passed
<1> HIDE DEF r, result
<1>8. ASSUME NEW j \in Keys PROVE OneAnswer(j)'
  <2>1. OneAnswer(j) /\ (review[j] # None => review'[j] = review[j])
    BY <1>1 DEF ConfirmInv
  <2>2. Behind(j)'
    <3>1. CASE review[j] = None
      BY <1>1, <3>1 DEF Behind
    <3>2. CASE review[j] # None
      BY <2>1, <3>2, BehindStays
    <3>3. QED
      BY <3>1, <3>2
  <2>3. CASE j = k
    <3>1. \A p \in Requests : request'[p].result # None /\ request'[p].key = k => p = q
      BY <1>4, <1>6 DEF Answered
    <3>2. \A p \in Requests : request'[p].result # None /\ request'[p].key = k =>
                                  request'[p].result = stored'[k]
      BY <1>2, <1>3, <1>4, <1>5, <3>1
    <3>3. \A p \in Requests : ~Locking(request'[p])
      <4>1. \A p \in Requests \ {q} : ~Locking(request[p])
        BY <1>2, OnlyTheHolder DEF ConfirmInv
      <4>2. QED
        BY <1>3, <1>4, <4>1 DEF Locking
    <3>4. \A p \in Requests : ~Locking(request[p])'
      BY <3>3 DEF Locking
    <3>5. \A p, o \in Requests : /\ request'[p].result # None /\ request'[p].key = j
                                 /\ request'[o].result # None /\ request'[o].key = j
                                 => request'[p].result = request'[o].result
      BY <2>3, <3>2
    <3>6. \A p \in Requests : (Locking(request[p]) /\ request[p].key = j => ~Answered(j))'
      BY <3>4
    <3>7. stored'[j] # None =>
            \A p \in Requests : request'[p].result # None /\ request'[p].key = j =>
                                    request'[p].result = stored'[j]
      BY <2>3, <3>2
    <3>8. Passed(j)'
      BY <1>7, <2>3
    <3>9. QED
      BY <2>2, <3>5, <3>6, <3>7, <3>8 DEF OneAnswer
  <2>4. CASE j # k
    <3>1. \A p \in Requests : request'[p].result # None /\ request'[p].key = j =>
                                  request'[p] = request[p]
      BY <1>3, <1>4, <2>4
    <3>2. Answered(j)' => Answered(j)
      BY <1>5, <2>4, <3>1 DEF Answered
    <3>3. Answered(j)' => Passed(j)'
      <4>1. Answered(j)' => Passed(j) /\ review'[j] = review[j]
        BY <2>1, <3>2 DEF OneAnswer, Passed
      <4>2. QED
        BY <4>1, PassedStays
    <3>4. \A p \in Requests : Locking(request'[p]) /\ request'[p].key = j => ~Answered(j)
      BY <1>3, <1>4, <2>1, <2>4 DEF OneAnswer
    <3>5. \A p \in Requests : (Locking(request[p]) /\ request[p].key = j => ~Answered(j))'
      BY <3>2, <3>4 DEF Locking
    <3>6. \A p, o \in Requests : /\ request'[p].result # None /\ request'[p].key = j
                                 /\ request'[o].result # None /\ request'[o].key = j
                                 => request'[p].result = request'[o].result
      BY <2>1, <3>1 DEF OneAnswer
    <3>7. stored'[j] # None =>
            \A p \in Requests : request'[p].result # None /\ request'[p].key = j =>
                                    request'[p].result = stored'[j]
      BY <1>5, <2>1, <2>4, <3>1 DEF OneAnswer
    <3>8. QED
      BY <2>2, <3>3, <3>5, <3>6, <3>7 DEF OneAnswer
  <2>5. QED
    BY <2>3, <2>4
<1>9. \A p \in Requests : request'[p].result # None =>
                              request'[p].key \in Keys /\ request'[p].pc = "done"
  BY <1>2, <1>3, <1>4 DEF ConfirmInv
<1>10. \A p \in Requests : LockingOK(request[p])'
  BY <1>1, <1>3, <1>4 DEF ConfirmInv, LockingOK, Locking
<1>11. QED
  BY <1>8, <1>9, <1>10 DEF ConfirmInv

\* NoAnswer, for a step of one request.
LEMMA OneMoves ==
    ASSUME ConfirmInv, ReleaseInv', Kept, NEW q \in Requests, NEW r, Step(q, r), r.result = None,
           LockingOK(r), Locking(r) => ~Answered(r.key), UNCHANGED <<stored, review>>
    PROVE  ConfirmInv'
<1>1. \A p \in Requests : request'[p] = IF p = q THEN r ELSE request[p]
  BY DEF Step, ConfirmInv, ReleaseInv, Types
<1>2. \A k \in Keys : review[k] = None => Behind(k)'
  BY DEF Behind
<1>3. QED
  BY <1>1, <1>2, NoAnswer

\* The requests that carry no answer and hold no lock.
LEMMA UnansweredSteps ==
    ASSUME ConfirmInv, ReleaseInv', Kept, NEW q \in Requests,
           \/ FreezeDraft(q) \/ WriteVersion(q) \/ Publish(q) \/ LoadRelease(q) \/ LoadIntake(q)
           \/ ReadReleased(q) \/ Release(q) \/ Abort(q) \/ \E k \in Keys : LoadBatch(q, k)
    PROVE  ConfirmInv'
<1>1. request[q] \in RequestRec
  BY DEF ConfirmInv, ReleaseInv, Types
<1>2. UNCHANGED <<stored, review>>
  BY DEF FreezeDraft, WriteVersion, Publish, LoadRelease, LoadIntake, ReadReleased, Release, Abort,
         LoadBatch, control
<1>3. ASSUME NEW r, Step(q, r), r.result = None, ~Locking(r) PROVE ConfirmInv'
  BY <1>2, <1>3, OneMoves DEF LockingOK
<1>4. request[q].pc # "done" => request[q].result = None
  BY DEF ConfirmInv
<1>5. Idle.result = None /\ Idle.pc = "idle"
  BY DEF Idle
<1>6. CASE FreezeDraft(q)
  <2>1. PICK by \in Accounts, kind \in {"publish", "pubrel"}, e \in Environments :
          Step(q, [Idle EXCEPT !.pc = "frozen", !.kind = kind, !.by = by,
                     !.content = draft.content,
                     !.targets = IF kind = "pubrel" THEN {e} ELSE {}])
    BY <1>6 DEF FreezeDraft
  <2> DEFINE r == [Idle EXCEPT !.pc = "frozen", !.kind = kind, !.by = by,
                     !.content = draft.content,
                     !.targets = IF kind = "pubrel" THEN {e} ELSE {}]
  <2>2. r.result = None /\ ~Locking(r)
    BY DEF Idle, Locking
  <2>3. QED
    BY <1>3, <2>1, <2>2
<1>7. CASE LoadRelease(q)
  <2>1. PICK by \in Accounts, e \in Environments, v \in DOMAIN versions :
          Step(q, [Idle EXCEPT !.pc = "loaded", !.kind = "release", !.by = by,
                               !.version = v, !.targets = {e}])
    BY <1>7 DEF LoadRelease
  <2> DEFINE r == [Idle EXCEPT !.pc = "loaded", !.kind = "release", !.by = by,
                               !.version = v, !.targets = {e}]
  <2>2. r.result = None /\ ~Locking(r)
    BY DEF Idle, Locking
  <2>3. QED
    BY <1>3, <2>1, <2>2
<1>8. CASE LoadIntake(q)
  <2>1. PICK by \in Accounts, e \in Environments, close \in BOOLEAN :
          Step(q, [Idle EXCEPT !.pc = "loaded", !.kind = "intake", !.by = by,
                               !.close = close, !.targets = {e}])
    BY <1>8 DEF LoadIntake
  <2> DEFINE r == [Idle EXCEPT !.pc = "loaded", !.kind = "intake", !.by = by,
                               !.close = close, !.targets = {e}]
  <2>2. r.result = None /\ ~Locking(r)
    BY DEF Idle, Locking
  <2>3. QED
    BY <1>3, <2>1, <2>2
<1>9. CASE WriteVersion(q)
  <2> DEFINE r == [request[q] EXCEPT !.pc = "writing", !.version = Len(versions) + 1,
                     !.deletes = (draft # None),
                     !.closed = [e \in request[q].targets |-> ClosedIn(e)]]
  <2>1. request[q].pc = "frozen" /\ request[q].kind \in {"publish", "pubrel"} /\ Step(q, r)
    BY <1>9 DEF WriteVersion, In
  <2>2. r.result = request[q].result /\ r.kind = request[q].kind
    BY <1>1 DEF RequestRec
  <2>3. QED
    BY <1>3, <1>4, <2>1, <2>2 DEF Locking
<1>10. CASE ReadReleased(q)
  <2>1. request[q].pc = "loaded"
    BY <1>10 DEF ReadReleased, In
  <2>2. PICK e \in request[q].targets :
          IF request[q].kind = "release"
          THEN Step(q, [request[q] EXCEPT !.pc = "read",
                          !.closed = [t \in request[q].targets |-> ClosedIn(t)]])
          ELSE Step(q, [request[q] EXCEPT !.pc = "read", !.version = Released(e).version,
                          !.closed = [t \in request[q].targets |-> request[q].close]])
    BY <1>10 DEF ReadReleased
  <2> DEFINE r1 == [request[q] EXCEPT !.pc = "read",
                      !.closed = [t \in request[q].targets |-> ClosedIn(t)]]
             r2 == [request[q] EXCEPT !.pc = "read", !.version = Released(e).version,
                      !.closed = [t \in request[q].targets |-> request[q].close]]
  <2>3. /\ r1.pc = "read" /\ r1.result = request[q].result
        /\ r2.pc = "read" /\ r2.result = request[q].result
    BY <1>1 DEF RequestRec
  <2>4. Step(q, r1) \/ Step(q, r2)
    BY <2>2
  <2>5. ~Locking(r1) /\ ~Locking(r2)
    BY <2>3 DEF Locking
  <2> HIDE DEF r1, r2
  <2>6. QED
    BY <1>3, <1>4, <2>1, <2>3, <2>4, <2>5
<1>11. CASE Publish(q) \/ Release(q)
  <2>1. Step(q, Done(q))
    BY <1>11 DEF Publish, Release
  <2>2. Done(q).result = None /\ Done(q).pc = "done"
    BY DEF Done, Idle
  <2>3. QED
    BY <1>3, <2>1, <2>2 DEF Locking
<1>12. CASE Abort(q)
  <2> DEFINE r == [Idle EXCEPT !.pc = "done"]
  <2>1. Step(q, r)
    BY <1>12 DEF Abort
  <2>2. r.result = None /\ ~Locking(r)
    BY DEF Idle, Locking
  <2>3. QED
    BY <1>3, <2>1, <2>2
<1>13. ASSUME NEW k \in Keys, LoadBatch(q, k) PROVE ConfirmInv'
  <2> DEFINE r == [Idle EXCEPT !.pc = "loaded", !.kind = "batch", !.by = review[k].by, !.key = k,
                     !.version = review[k].version, !.targets = DOMAIN review[k].expected,
                     !.content = IF review[k].version = 0 THEN draft.content ELSE 0]
  <2>1. Step(q, r)
    BY <1>13 DEF LoadBatch
  <2>2. r.result = None /\ ~Locking(r)
    BY DEF Idle, Locking
  <2>3. QED
    BY <1>3, <2>1, <2>2
<1>14. QED
  BY <1>6, <1>7, <1>8, <1>9, <1>10, <1>11, <1>12, <1>13

\* A confirmation in its transaction: it starts only if nothing was released
\* since the review, and then no copy of it has been answered.
LEMMA ConfirmingSteps ==
    ASSUME ConfirmInv, ReleaseInv', Kept, NEW q \in Requests, RecheckBatch(q) \/ WriteBatch(q)
    PROVE  ConfirmInv'
<1>1. /\ request[q] \in RequestRec /\ RequestOK(request[q]) /\ LockingOK(request[q])
      /\ request[q].pc # "done" => request[q].result = None
      /\ UNCHANGED <<stored, review>>
  BY DEF ConfirmInv, ReleaseInv, Types, RecheckBatch, WriteBatch, control
<1>2. CASE RecheckBatch(q)
  <2> DEFINE r == [request[q] EXCEPT !.pc = "rechecked"]
             k == request[q].key
  <2>1. /\ request[q].pc = "loaded" /\ request[q].kind = "batch" /\ Step(q, r)
        /\ stored[k] = None /\ \A e \in DOMAIN review[k].expected :
                                    Len(releases[e]) = review[k].expected[e]
    BY <1>2 DEF RecheckBatch, In, recheckTargets
  <2>2. k \in Keys /\ review[k] # None /\ request[q].targets = DOMAIN review[k].expected
    BY <1>1, <2>1 DEF RequestOK, BatchOK
  <2>3. r.result = None /\ r.key = k /\ r.targets = request[q].targets
    BY <1>1, <2>1 DEF RequestRec
  <2>4. LockingOK(r)
    BY <2>2, <2>3 DEF LockingOK
  <2>5. review[k] \in ReviewRec
    BY <2>2 DEF ConfirmInv, ReleaseInv, Types
  <2>6. ~Passed(k)
    <3> SUFFICES ASSUME NEW e \in DOMAIN review[k].expected
                 PROVE  ~(Len(releases[e]) > review[k].expected[e])
      BY DEF Passed
    <3>1. review[k].expected[e] \in Nat
      BY <2>5 DEF ReviewRec, Counts
    <3>2. QED
      BY <2>1, <3>1
  <2>7. ~Answered(k)
    BY <2>2, <2>6 DEF ConfirmInv, OneAnswer
  <2> HIDE DEF r
  <2>8. QED
    BY <1>1, <2>1, <2>3, <2>4, <2>7, OneMoves
<1>3. CASE WriteBatch(q)
  <2> DEFINE r == [request[q] EXCEPT !.pc = "writing",
                     !.version = IF @ = 0 THEN Len(versions) + 1 ELSE @,
                     !.deletes = (request[q].version = 0 /\ draft # None),
                     !.closed = [e \in request[q].targets |-> ClosedIn(e)]]
  <2>1. request[q].pc = "rechecked" /\ request[q].kind = "batch" /\ Step(q, r)
    BY <1>3 DEF WriteBatch, In
  <2>2. r.result = None /\ r.key = request[q].key /\ r.targets = request[q].targets
    BY <1>1, <2>1 DEF RequestRec
  <2>3. Locking(request[q])
    BY <2>1 DEF Locking
  <2>4. LockingOK(r) /\ ~Answered(r.key)
    BY <1>1, <2>2, <2>3 DEF LockingOK, ConfirmInv, OneAnswer
  <2> HIDE DEF r
  <2>5. QED
    BY <1>1, <2>1, <2>2, <2>4, OneMoves
<1>4. QED
  BY <1>2, <1>3

\* Every step keeps the answers of a confirmation in agreement.
LEMMA ConfirmInvStep == ConfirmInv /\ [Next]_vars => ConfirmInv'
<1> SUFFICES ASSUME ConfirmInv, [Next]_vars PROVE ConfirmInv'
  OBVIOUS
<1>1. ReleaseInv' /\ Kept
  BY ReleaseInvStep DEF ConfirmInv
<1>2. CASE SaveDraft
  <2>1. \A k \in Keys : review[k] = None => Behind(k)'
    BY <1>2 DEF SaveDraft, Behind
  <2>2. QED
    BY <1>1, <1>2, <2>1, NoAnswer DEF SaveDraft
<1>3. CASE UNCHANGED vars
  <2>1. \A k \in Keys : review[k] = None => Behind(k)'
    BY <1>3 DEF vars, Behind
  <2>2. QED
    BY <1>1, <1>3, <2>1, NoAnswer DEF vars
<1>4. ASSUME NEW j \in Keys, Purge(j) PROVE ConfirmInv'
  <2>1. \A k \in Keys : review[k] = None => Behind(k)'
    BY <1>4 DEF Purge, Behind
  <2>2. \A k \in Keys : stored'[k] \in {stored[k], None}
    BY <1>4 DEF Purge, ConfirmInv, ReleaseInv, Types
  <2>3. QED
    BY <1>1, <1>4, <2>1, <2>2, NoAnswer DEF Purge
<1>5. ASSUME NEW j \in Keys, Review(j) PROVE ConfirmInv'
  <2>1. UNCHANGED <<stored, releases, request>> /\ review[j] = None
    BY <1>5 DEF Review, control
  <2>2. \A k \in Keys \ {j} : review'[k] = review[k]
    BY <1>5 DEF Review, ConfirmInv, ReleaseInv, Types
  <2>3. PICK targets \in (SUBSET Environments) \ {{}} :
          review'[j].expected = [e \in targets |-> Len(releases[e])]
    <3>1. review \in [Keys -> ReviewRec \cup {None}]
      BY DEF ConfirmInv, ReleaseInv, Types
    <3>2. \A row : review' = [review EXCEPT ![j] = row] => review'[j] = row
      BY <3>1
    <3>3. PICK by \in Accounts, targets \in (SUBSET Environments) \ {{}} :
            \E v, rev, content :
              review' = [review EXCEPT ![j] =
                  [by |-> by, version |-> v, revision |-> rev, content |-> content,
                   expected |-> [e \in targets |-> Len(releases[e])]]]
      BY <1>5 DEF Review
    <3>4. PICK v, rev, content :
            review' = [review EXCEPT ![j] =
                [by |-> by, version |-> v, revision |-> rev, content |-> content,
                 expected |-> [e \in targets |-> Len(releases[e])]]]
      BY <3>3
    <3> DEFINE row == [by |-> by, version |-> v, revision |-> rev, content |-> content,
                       expected |-> [e \in targets |-> Len(releases[e])]]
    <3>5. review'[j] = row
      BY <3>2, <3>4
    <3>6. row.expected = [e \in targets |-> Len(releases[e])]
      OBVIOUS
    <3>7. QED
      BY <3>5, <3>6
  <2>4. \A e \in targets : Len(releases[e]) \in Nat
    BY DEF ConfirmInv, ReleaseInv, Types
  <2>5. Behind(j)'
    BY <2>1, <2>3, <2>4 DEF Behind
  <2>6. \A k \in Keys : IF review[k] = None THEN Behind(k)' ELSE review'[k] = review[k]
    BY <2>1, <2>2, <2>5 DEF Behind
  <2>7. QED
    BY <1>1, <2>1, <2>6, NoAnswer
<1>6. ASSUME NEW q \in Requests, NEW k \in Keys, Replay(q, k) PROVE ConfirmInv'
  <2> DEFINE r == [Idle EXCEPT !.pc = "done", !.key = k, !.result = stored[k]]
  <2>1. stored[k] # None /\ Step(q, r) /\ UNCHANGED <<control, review>>
    BY <1>6 DEF Replay
  <2>2. r.result = stored[k] /\ r.key = k /\ r.pc = "done"
    BY DEF Idle
  <2> HIDE DEF r
  <2>3. QED
    BY <1>1, <2>1, <2>2, ReplayAnswers
<1>7. ASSUME NEW q \in Requests, ReplayLocked(q) PROVE ConfirmInv'
  <2> DEFINE k == request[q].key
             r == [Done(q) EXCEPT !.result = stored[k]]
  <2>1. stored[k] # None /\ Step(q, r) /\ UNCHANGED <<control, review>>
    BY <1>7 DEF ReplayLocked
  <2>2. r.result = stored[k] /\ r.key = k /\ r.pc = "done"
    BY DEF Done, Idle
  <2>3. k \in Keys
    BY <1>7 DEF ReplayLocked, In, ConfirmInv, ReleaseInv, RequestOK, BatchOK
  <2> HIDE DEF r
  <2>4. QED
    BY <1>1, <2>1, <2>2, <2>3, ReplayAnswers
<1>8. ASSUME NEW q \in Requests, CommitBatch(q) PROVE ConfirmInv'
  <2>1. request[q].key \in Keys
    BY <1>8 DEF CommitBatch, In, Locking, LockingOK, ConfirmInv
  <2>2. QED
    BY <1>1, <1>8, <2>1, CommitAnswers
<1>9. ASSUME NEW q \in Requests,
             \/ FreezeDraft(q) \/ WriteVersion(q) \/ Publish(q) \/ LoadRelease(q) \/ LoadIntake(q)
             \/ ReadReleased(q) \/ Release(q) \/ Abort(q) \/ \E k \in Keys : LoadBatch(q, k)
      PROVE  ConfirmInv'
  BY <1>1, <1>9, UnansweredSteps
<1>10. ASSUME NEW q \in Requests, RecheckBatch(q) \/ WriteBatch(q) PROVE ConfirmInv'
  BY <1>1, <1>10, ConfirmingSteps
<1>11. QED
  BY <1>2, <1>3, <1>4, <1>5, <1>6, <1>7, <1>8, <1>9, <1>10 DEF Next

\* However often a confirmation is sent, and also after its stored result is
\* purged, every copy that is answered is told of the same version and rows.
THEOREM OneConfirmationOneEffect == Spec => []ConfirmedOnce
<1>1. Init => ConfirmInv
  <2> SUFFICES ASSUME Init
               PROVE  /\ \A p \in Requests : request[p].result = None /\ ~Locking(request[p])
                      /\ \A k \in Keys : review[k] = None /\ stored[k] = None
    BY ReleaseInvInit DEF ConfirmInv, OneAnswer, Answered, Behind, LockingOK
  <2>1. Idle.result = None /\ ~Locking(Idle)
    BY DEF Idle, Locking
  <2>2. QED
    BY <2>1 DEF Init
<1>2. ConfirmInv => ConfirmedOnce
  BY DEF ConfirmInv, OneAnswer, ConfirmedOnce
<1>3. QED
  BY <1>1, <1>2, ConfirmInvStep, PTL DEF Spec
=============================================================================
