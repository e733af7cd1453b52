------------------- MODULE ResponseSessionErasure_proofs -------------------
(***************************************************************************)
(* What an erasure leaves behind when nobody is answering any more, for    *)
(* any number of erasures and releases that overlap.                       *)
(***************************************************************************)
EXTENDS ResponseSession_proofs

\* Some erasure has started.
UnderWay == \E e \in Erasers : eraser[e].pc # "idle"

\* From then on no answer write and no submit is in flight.
NobodyAnswers == UnderWay => Resting(writer) /\ Resting(submitter)

\* What an erasure has yet to commit covers everything that is there: the
\* answers once it has deleted them, the submission once it has deleted that,
\* the events once it has redacted them.
AnswersCovered ==
    \A e \in Erasers :
        eraser[e].pc \in {"answersDeleted", "submissionDeleted", "payloadsRedacted"} =>
            ledger \subseteq eraser[e].rows
SubmissionCovered ==
    \A e \in Erasers :
        eraser[e].pc \in {"submissionDeleted", "payloadsRedacted"} =>
            submission = None \/ eraser[e].sealed
EventsCovered ==
    \A e \in Erasers :
        eraser[e].pc = "payloadsRedacted" =>
            \A x \in outbox : x.redacted \/ x.by \in eraser[e].events

QuietInv ==
    /\ WellTyped
    /\ NobodyAnswers
    /\ tombstone => UnderWay
    /\ AnswersCovered
    /\ SubmissionCovered
    /\ EventsCovered
    /\ ErasedHoldsNoContent

-----------------------------------------------------------------------------
\* Nothing has been erased at first.
LEMMA QuietInvInit == Init => QuietInv
<1> SUFFICES ASSUME Init PROVE QuietInv
  OBVIOUS
<1>1. \A e \in Erasers : eraser[e].pc = "idle"
  BY DEF Init, IdleEraser
<1>2. QED
  BY <1>1, WellTypedInit
  DEF Init, QuietInv, NobodyAnswers, UnderWay, AnswersCovered, SubmissionCovered,
      EventsCovered, ErasedHoldsNoContent

\* The state an erasure's guarantee is about.
held == <<ledger, submission, outbox, tombstone, eraser>>

\* A step that touches none of it, and starts no request once an erasure is
\* under way, changes nothing.
LEMMA HeldKept ==
    ASSUME QuietInv, WellTyped', UNCHANGED held,
           UnderWay => UNCHANGED <<writer, submitter>>
    PROVE  QuietInv'
BY DEF QuietInv, held, NobodyAnswers, UnderWay, Resting, AnswersCovered, SubmissionCovered,
       EventsCovered, ErasedHoldsNoContent

\* An answer write commits only before any erasure has started.
LEMMA WriterQuiet ==
    ASSUME QuietInv, WellTyped', QuietErasure, NEW w \in Writers,
           \/ LoadActiveSession(w) \/ BeginWrite(w) \/ LockWrite(w)
           \/ SkipEntry(w) \/ ApplyEntry(w) \/ AbortWrite(w) \/ CommitWrite(w)
    PROVE  QuietInv'
<1>1. UnderWay => UNCHANGED <<writer, submitter>>
  BY DEF QuietErasure, UnderWay
<1>2. CASE ~CommitWrite(w)
  <2>1. UNCHANGED held
    BY <1>2 DEF LoadActiveSession, BeginWrite, LockWrite, SkipEntry, ApplyEntry, AbortWrite,
                WriterStep, db, held
  <2>2. QED
    BY <1>1, <2>1, HeldKept
<1>3. CASE CommitWrite(w)
  <2>1. eraser' = eraser /\ tombstone' = tombstone
    BY <1>3 DEF CommitWrite, WriterStep
  <2>2. ~UnderWay
    <3>1. ASSUME UnderWay PROVE FALSE
      <4>1. w \in DOMAIN writer /\ writer[w].pc = "applying"
        BY <1>3 DEF CommitWrite, QuietInv, WellTyped, TypeOK
      <4>2. writer[w].pc \in {"idle", "done", "failed"}
        BY <3>1, <4>1 DEF QuietInv, NobodyAnswers, Resting
      <4>3. QED
        BY <4>1, <4>2
    <3>2. QED
      BY <3>1
  <2>3. ~tombstone /\ \A e \in Erasers : eraser[e].pc = "idle"
    BY <2>2 DEF QuietInv, UnderWay
  <2>4. QED
    BY <2>1, <2>3
    DEF QuietInv, NobodyAnswers, UnderWay, AnswersCovered, SubmissionCovered,
        EventsCovered, ErasedHoldsNoContent
<1>4. QED
  BY <1>2, <1>3

\* So does a submission.
LEMMA SubmitterQuiet ==
    ASSUME QuietInv, WellTyped', QuietErasure, NEW s \in Submitters,
           \/ ReplayReceipt(s) \/ LoadSubmit(s) \/ LockSubmitLost(s) \/ LockSubmit(s)
           \/ CommitSubmit(s) \/ FailSubmit(s)
    PROVE  QuietInv'
<1>1. UnderWay => UNCHANGED <<writer, submitter>>
  BY DEF QuietErasure, UnderWay
<1>2. CASE ~CommitSubmit(s)
  <2>1. UNCHANGED <<ledger, submission, outbox, tombstone>>
    BY <1>2 DEF ReplayReceipt, LoadSubmit, LockSubmitLost, LockSubmit, FailSubmit, db
  <2>2. UNCHANGED eraser
    BY <1>2 DEF ReplayReceipt, LoadSubmit, LockSubmitLost, LockSubmit, FailSubmit,
                SubmitterStep
  <2>3. QED
    BY <1>1, <2>1, <2>2, HeldKept DEF held
<1>3. CASE CommitSubmit(s)
  <2>1. eraser' = eraser /\ tombstone' = tombstone
    BY <1>3 DEF CommitSubmit, Seal, SubmitterStep
  <2>2. ~UnderWay
    <3>1. ASSUME UnderWay PROVE FALSE
      <4>1. s \in DOMAIN submitter /\ submitter[s].pc = "sealing"
        BY <1>3 DEF CommitSubmit, QuietInv, WellTyped, TypeOK
      <4>2. submitter[s].pc \in {"idle", "done", "failed"}
        BY <3>1, <4>1 DEF QuietInv, NobodyAnswers, Resting
      <4>3. QED
        BY <4>1, <4>2
    <3>2. QED
      BY <3>1
  <2>3. ~tombstone /\ \A e \in Erasers : eraser[e].pc = "idle"
    BY <2>2 DEF QuietInv, UnderWay
  <2>4. QED
    BY <2>1, <2>3
    DEF QuietInv, NobodyAnswers, UnderWay, AnswersCovered, SubmissionCovered,
        EventsCovered, ErasedHoldsNoContent
<1>4. QED
  BY <1>2, <1>3

\* A release that meets an erasure past its delete of the submission waits for
\* it, and then finds no submission: it enqueues nothing the erasure would miss.
LEMMA ReleaserQuiet ==
    ASSUME QuietInv, WellTyped', QuietErasure, NEW a \in Releasers,
           ReadSubmission(a) \/ ClearFlag(a)
    PROVE  QuietInv'
<1>1. UNCHANGED <<ledger, tombstone, writer, submitter, eraser>>
  BY DEF ReadSubmission, ClearFlag, ReleaserStep
<1>2. CASE UNCHANGED <<submission, outbox>>
  BY <1>1, <1>2, HeldKept DEF held
<1>3. CASE ~UNCHANGED <<submission, outbox>>
  <2>1. /\ SubmissionRowFree
        /\ submission # None
        /\ submission' = [submission EXCEPT !.flagged = FALSE]
    BY <1>3 DEF ReadSubmission, ClearFlag
  <2>2. ~tombstone
    BY <2>1 DEF QuietInv, ErasedHoldsNoContent
  <2>3. \A e \in Erasers : eraser[e].pc \notin {"submissionDeleted", "payloadsRedacted"}
    BY <2>1 DEF QuietInv, SubmissionCovered, SubmissionRowFree
  <2>4. QED
    BY <1>1, <2>2, <2>3
    DEF QuietInv, NobodyAnswers, UnderWay, Resting, AnswersCovered, SubmissionCovered,
        EventsCovered, ErasedHoldsNoContent
<1>4. QED
  BY <1>2, <1>3
\* What a commit does to the events: none disappears, none is un-redacted, and
\* those the erasure reached are redacted.
LEMMA RedactEffect ==
    ASSUME NEW events, NEW x \in Redact(events),
           outbox \in SUBSET Event
    PROVE  \E y \in outbox : /\ x.by = y.by
                             /\ y.redacted => x.redacted
                             /\ y.by \in events => x.redacted
<1>1. PICK y \in outbox : x = [y EXCEPT !.redacted = @ \/ y.by \in events]
  BY DEF Redact
<1>2. y \in Event
  OBVIOUS
<1>3. x.by = y.by /\ x.redacted = (y.redacted \/ y.by \in events)
  BY <1>1, <1>2 DEF Event
<1>4. QED
  BY <1>3

\* The commit of an erasure erases what everything that is there has been
\* covered by, and leaves the other erasures covering the rest.
LEMMA CommitQuiet ==
    ASSUME QuietInv, WellTyped', NEW e \in Erasers, CommitErase(e),
           UNCHANGED <<writer, submitter>>
    PROVE  QuietInv'
<1>1. /\ eraser[e].pc = "payloadsRedacted"
      /\ eraser \in [Erasers -> EraserRec]
      /\ outbox \in SUBSET Event
  BY DEF CommitErase, QuietInv, WellTyped, TypeOK
<1>2. /\ eraser' = [eraser EXCEPT ![e] = [IdleEraser EXCEPT !.pc = "done"]]
      /\ ledger' = ledger \ eraser[e].rows
      /\ submission' = IF eraser[e].sealed THEN None ELSE submission
      /\ outbox' = Redact(eraser[e].events)
  BY DEF CommitErase, EraserStep
<1>3. eraser'[e].pc = "done" /\ \A f \in Erasers : f # e => eraser'[f] = eraser[f]
  BY <1>1, <1>2 DEF IdleEraser
<1>4. ledger' = {} /\ submission' = None
  BY <1>1, <1>2 DEF QuietInv, AnswersCovered, SubmissionCovered
<1>5. \A x \in outbox' : x.redacted
  <2> TAKE x \in outbox'
  <2>1. PICK y \in outbox : /\ y.redacted => x.redacted
                            /\ y.by \in eraser[e].events => x.redacted
    BY <1>1, <1>2, RedactEffect
  <2>2. y.redacted \/ y.by \in eraser[e].events
    BY <1>1 DEF QuietInv, EventsCovered
  <2>3. QED
    BY <2>1, <2>2
<1>6. NobodyAnswers' /\ UnderWay'
  BY <1>1, <1>3 DEF QuietInv, NobodyAnswers, UnderWay
<1>7. QED
  BY <1>4, <1>5, <1>6
  DEF QuietInv, AnswersCovered, SubmissionCovered, EventsCovered, ErasedHoldsNoContent

\* Each statement of an erasure covers what is there when it runs.
LEMMA EraserQuiet ==
    ASSUME QuietInv, WellTyped', QuietErasure, NEW e \in Erasers,
           \/ EraseLookup(e) \/ EraseAnswers(e) \/ EraseSubmission(e) \/ ErasePayloads(e)
           \/ CommitErase(e) \/ FailErase(e)
    PROVE  QuietInv'
<1>1. UNCHANGED <<writer, submitter>>
  BY DEF EraseLookup, EraseAnswers, EraseSubmission, ErasePayloads, CommitErase, FailErase,
         EraserStep
<1>2. CASE CommitErase(e)
  BY <1>1, <1>2, CommitQuiet
<1>3. CASE ~CommitErase(e)
  <2>1. UNCHANGED <<ledger, submission, outbox, tombstone>>
    BY <1>3 DEF EraseLookup, EraseAnswers, EraseSubmission, ErasePayloads, FailErase
  <2>2. PICK r : eraser' = [eraser EXCEPT ![e] = r]
    BY <1>3 DEF EraseLookup, EraseAnswers, EraseSubmission, ErasePayloads, FailErase, EraserStep
  <2>3. eraser \in [Erasers -> EraserRec]
    BY DEF QuietInv, WellTyped, TypeOK
  <2>4. eraser'[e] = r /\ \A f \in Erasers : f # e => eraser'[f] = eraser[f]
    BY <2>2, <2>3
  <2>5. eraser'[e].pc # "idle"
    BY <1>3, <2>3
    DEF EraseLookup, EraseAnswers, EraseSubmission, ErasePayloads, FailErase, EraserStep,
        EraserRec, IdleEraser
  <2>6. NobodyAnswers' /\ UnderWay'
    <3>1. UnderWay'
      BY <2>5 DEF UnderWay
    <3>2. Resting(writer) /\ Resting(submitter)
      <4>1. CASE eraser[e].pc = "idle"
        BY <2>5, <4>1 DEF QuietErasure
      <4>2. CASE eraser[e].pc # "idle"
        BY <4>2 DEF QuietInv, NobodyAnswers, UnderWay
      <4>3. QED
        BY <4>1, <4>2
    <3>3. QED
      BY <1>1, <3>1, <3>2 DEF NobodyAnswers, Resting
  <2>7. /\ eraser'[e].pc \in {"answersDeleted", "submissionDeleted", "payloadsRedacted"} =>
             ledger \subseteq eraser'[e].rows
        /\ eraser'[e].pc \in {"submissionDeleted", "payloadsRedacted"} =>
             submission = None \/ eraser'[e].sealed
        /\ eraser'[e].pc = "payloadsRedacted" =>
             \A x \in outbox : x.redacted \/ x.by \in eraser'[e].events
    <3>1. CASE EraseLookup(e)
      BY <2>3, <3>1 DEF EraseLookup, EraserStep, EraserRec
    <3>2. CASE EraseAnswers(e)
      BY <2>3, <3>2 DEF EraseAnswers, EraserStep, EraserRec
    <3>3. CASE EraseSubmission(e)
      BY <2>3, <3>3 DEF EraseSubmission, EraserStep, EraserRec, QuietInv, AnswersCovered
    <3>4. CASE ErasePayloads(e)
      BY <2>3, <3>4 DEF ErasePayloads, EraserStep, EraserRec, QuietInv, AnswersCovered,
                        SubmissionCovered
    <3>5. CASE FailErase(e)
      BY <2>3, <3>5 DEF FailErase, EraserStep, IdleEraser
    <3>6. QED
      BY <1>3, <3>1, <3>2, <3>3, <3>4, <3>5
  <2>8. AnswersCovered' /\ SubmissionCovered' /\ EventsCovered'
    BY <2>1, <2>4, <2>7 DEF QuietInv, AnswersCovered, SubmissionCovered, EventsCovered
  <2>9. ErasedHoldsNoContent'
    BY <2>1 DEF QuietInv, ErasedHoldsNoContent
  <2>10. QED
    BY <2>6, <2>8, <2>9 DEF QuietInv
<1>4. QED
  BY <1>2, <1>3

\* Every step of the restricted specification keeps the invariant.
LEMMA QuietInvStep == QuietInv /\ [Next /\ QuietErasure]_vars => QuietInv'
<1> SUFFICES ASSUME QuietInv, [Next /\ QuietErasure]_vars PROVE QuietInv'
  OBVIOUS
<1>1. WellTyped'
  BY WellTypedStep DEF QuietInv
<1>2. CASE UNCHANGED vars
  BY <1>1, <1>2, HeldKept DEF vars, held
<1>3. ASSUME Next, QuietErasure PROVE QuietInv'
  <2>1. UnderWay => UNCHANGED <<writer, submitter>>
    BY <1>3 DEF QuietErasure, UnderWay
  <2>2. CASE ExpiryPasses
    BY <1>1, <2>1, <2>2, HeldKept DEF ExpiryPasses, db, held
  <2>3. CASE expireSessions
    BY <1>1, <2>1, <2>3, HeldKept DEF expireSessions, held
  <2>4. QED
    BY <1>1, <1>3, <2>2, <2>3, WriterQuiet, SubmitterQuiet, ReleaserQuiet, EraserQuiet DEF Next
<1>4. QED
  BY <1>2, <1>3

\* Once nobody answers any more, an erasure leaves no content of a respondent:
\* whatever other erasures it overlaps, whatever releases of the flagged
\* submission race with its six statements, and wherever one of them fails (I11).
THEOREM ErasureIsComplete == QuietSpec => []ErasedHoldsNoContent
<1>1. QuietInv => ErasedHoldsNoContent
  BY DEF QuietInv
<1>2. QED
  BY <1>1, QuietInvInit, QuietInvStep, PTL DEF QuietSpec
=============================================================================
