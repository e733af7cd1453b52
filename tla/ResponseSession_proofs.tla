----------------------- MODULE ResponseSession_proofs -----------------------
(***************************************************************************)
(* Type correctness and the safety of submission, for any number of        *)
(* concurrent requests, any form and any values.  None of the invariants   *)
(* is inductive alone: that a receipt, an event and a seal agree rests on  *)
(* what requests in flight have read (ReadsStillHold), which rests on who  *)
(* may hold the lock.                                                      *)
(***************************************************************************)
EXTENDS ResponseSession, TLAPS

-----------------------------------------------------------------------------
(* Operators.                                                              *)

\* latestAnswers gives every cell a canonical value or no answer at all.
LEMMA LatestAnswersType ==
    ASSUME NEW rows \in SUBSET Row
    PROVE  latestAnswers(rows) \in Answers
<1>1. ASSUME NEW c \in Cells, Deciding(rows, c) # {}
      PROVE  (CHOOSE r \in Deciding(rows, c) : TRUE).value \in Values
  <2>1. (CHOOSE r \in Deciding(rows, c) : TRUE) \in Deciding(rows, c)
    BY <1>1
  <2>2. \A r \in Deciding(rows, c) : r.value \in Values
    BY DEF Deciding, Row
  <2>3. QED
    BY <2>1, <2>2
<1>2. QED
  BY <1>1 DEF latestAnswers, Answers

\* The locked set is a set of answers.
LEMMA LockedAnswersType ==
    ASSUME NEW answers \in Answers
    PROVE  LockedAnswers(answers) \in Answers
BY DEF LockedAnswers, Answers

-----------------------------------------------------------------------------
(* Type correctness.                                                       *)

\* A writer past its session check has a body, and one holding the lock has
\* read the answers.
WriterLocals ==
    \A w \in Writers :
        /\ writer[w].pc \in {"loaded", "begun", "applying"} => writer[w].post \in Posts
        /\ writer[w].pc = "applying" => writer[w].before \in Answers

\* So has a submitter holding it.
SubmitterLocals ==
    \A s \in Submitters : submitter[s].pc = "sealing" => submitter[s].answers \in Answers

\* A releaser in its transaction has read a submission.
ReleaserLocals ==
    \A a \in Releasers : releaser[a].pc = "read" => releaser[a].locked \in Answers

WellTyped == TypeOK /\ WriterLocals /\ SubmitterLocals /\ ReleaserLocals

\* The entry a writer is about to apply is one of its body's entries.
LEMMA EntryType ==
    ASSUME WellTyped, NEW w \in Writers, Pending(w)
    PROVE  Entry(w) \in [cell : Cells, value : Input]
<1>1. writer[w].post \in Posts /\ writer[w].next \in Nat \ {0}
  BY DEF WellTyped, TypeOK, WriterRec, WriterLocals, Pending
<1>2. writer[w].post.entries \in Seq([cell : Cells, value : Input])
  BY <1>1, PostAssumption
<1>3. writer[w].next \in 1 .. Len(writer[w].post.entries)
  BY <1>1, <1>2 DEF Pending
<1>4. ASSUME NEW S, NEW q \in Seq(S), NEW i \in 1 .. Len(q)
      PROVE  q[i] \in S
  OBVIOUS
<1>5. QED
  BY ONLY <1>2, <1>3, <1>4 DEF Entry

\* The initial state is well typed.
LEMMA WellTypedInit == Init => WellTyped
<1> SUFFICES ASSUME Init PROVE WellTyped
  OBVIOUS
<1>1. TypeOK
  <2>1. IdleWriter \in WriterRec
    BY DEF IdleWriter, WriterRec
  <2>2. /\ IdleSubmitter \in SubmitterRec
        /\ IdleReleaser \in ReleaserRec
        /\ IdleEraser \in EraserRec
    BY DEF IdleSubmitter, IdleReleaser, IdleEraser, SubmitterRec, ReleaserRec, EraserRec
  <2>3. QED
    BY <2>1, <2>2 DEF Init, TypeOK
<1>2. WriterLocals /\ SubmitterLocals /\ ReleaserLocals
  BY DEF Init, WriterLocals, SubmitterLocals, ReleaserLocals,
         IdleWriter, IdleSubmitter, IdleReleaser
<1>3. QED
  BY <1>1, <1>2 DEF WellTyped

\* A step of one writer that gives it a well-typed record keeps the writers
\* well typed.
LEMMA WriterStepType ==
    ASSUME WellTyped, NEW w \in Writers, NEW r \in WriterRec, WriterStep(w, r),
           r.pc \in {"loaded", "begun", "applying"} => r.post \in Posts,
           r.pc = "applying" => r.before \in Answers
    PROVE  /\ writer' \in [Writers -> WriterRec]
           /\ WriterLocals'
<1>1. writer \in [Writers -> WriterRec]
  BY DEF WellTyped, TypeOK, WriterRec
<1>2. writer' = [writer EXCEPT ![w] = r]
  BY DEF WriterStep
<1>3. writer' \in [Writers -> WriterRec]
  BY <1>1, <1>2
<1>4. \A v \in Writers : writer'[v] = IF v = w THEN r ELSE writer[v]
  BY <1>1, <1>2
<1>5. WriterLocals'
  BY <1>4 DEF WellTyped, WriterLocals
<1>6. QED
  BY <1>3, <1>5

\* A step of one submitter that gives it a well-typed record keeps the
\* submitters well typed.
LEMMA SubmitterStepType ==
    ASSUME WellTyped, NEW s \in Submitters, NEW r \in SubmitterRec, SubmitterStep(s, r),
           r.pc = "sealing" => r.answers \in Answers
    PROVE  /\ submitter' \in [Submitters -> SubmitterRec]
           /\ SubmitterLocals'
<1>1. submitter \in [Submitters -> SubmitterRec]
  BY DEF WellTyped, TypeOK
<1>2. submitter' = [submitter EXCEPT ![s] = r]
  BY DEF SubmitterStep
<1>3. submitter' \in [Submitters -> SubmitterRec]
  BY <1>1, <1>2
<1>4. \A v \in Submitters : submitter'[v] = IF v = s THEN r ELSE submitter[v]
  BY <1>1, <1>2
<1>5. SubmitterLocals'
  BY <1>4 DEF WellTyped, SubmitterLocals
<1>6. QED
  BY <1>3, <1>5

\* The same of a releaser.
LEMMA ReleaserStepType ==
    ASSUME WellTyped, NEW a \in Releasers, NEW r \in ReleaserRec, ReleaserStep(a, r),
           r.pc = "read" => r.locked \in Answers
    PROVE  /\ releaser' \in [Releasers -> ReleaserRec]
           /\ ReleaserLocals'
<1>1. releaser \in [Releasers -> ReleaserRec]
  BY DEF WellTyped, TypeOK
<1>2. releaser' = [releaser EXCEPT ![a] = r]
  BY DEF ReleaserStep
<1>3. releaser' \in [Releasers -> ReleaserRec]
  BY <1>1, <1>2
<1>4. \A v \in Releasers : releaser'[v] = IF v = a THEN r ELSE releaser[v]
  BY <1>1, <1>2
<1>5. ReleaserLocals'
  BY <1>4 DEF WellTyped, ReleaserLocals
<1>6. QED
  BY <1>3, <1>5

\* What the lemmas below need to know of the state they start from.
LEMMA WellTypedFacts ==
    ASSUME WellTyped
    PROVE  /\ ledger \in SUBSET Row /\ outbox \in SUBSET Event
           /\ submission \in Submission \cup {None}
           /\ \A w \in Writers : writer[w] \in WriterRec
           /\ \A s \in Submitters : submitter[s] \in SubmitterRec
           /\ \A a \in Releasers : releaser[a] \in ReleaserRec
           /\ \A e \in Erasers : eraser[e] \in EraserRec
           /\ latestAnswers(ledger) \in Answers
<1>1. ledger \in SUBSET Row
  BY DEF WellTyped, TypeOK
<1>2. latestAnswers(ledger) \in Answers
  BY <1>1, LatestAnswersType
<1>3. QED
  BY <1>1, <1>2 DEF WellTyped, TypeOK

\* Answer writes keep the state well typed.
LEMMA WriterTypes ==
    ASSUME WellTyped, NEW w \in Writers,
           \/ LoadActiveSession(w) \/ BeginWrite(w) \/ LockWrite(w)
           \/ SkipEntry(w) \/ ApplyEntry(w) \/ AbortWrite(w) \/ CommitWrite(w)
    PROVE  WellTyped'
<1>1. writer[w] \in WriterRec /\ ledger \in SUBSET Row /\ latestAnswers(ledger) \in Answers
  BY WellTypedFacts
<1>2. IdleWriter \in WriterRec /\ [IdleWriter EXCEPT !.pc = "done"] \in WriterRec
  BY DEF IdleWriter, WriterRec
<1>next. writer[w].next + 1 \in Nat \ {0}
  BY <1>1 DEF WriterRec
<1>3. ASSUME NEW r \in WriterRec, WriterStep(w, r),
             r.pc \in {"loaded", "begun", "applying"} => r.post \in Posts,
             r.pc = "applying" => r.before \in Answers,
             status' \in {"created", "in_progress", "submitted", "expired"},
             ledger' \in SUBSET Row, lock' \in Writers \cup Submitters \cup {None},
             clock' \in Nat, UNCHANGED <<submission, outbox, tombstone>>
      PROVE  WellTyped'
  <2>1. writer' \in [Writers -> WriterRec] /\ WriterLocals'
    BY <1>3, WriterStepType
  <2>2. TypeOK'
    BY <1>3, <2>1 DEF WellTyped, TypeOK, WriterStep
  <2>3. SubmitterLocals' /\ ReleaserLocals'
    BY <1>3 DEF WellTyped, SubmitterLocals, ReleaserLocals, WriterStep
  <2>4. QED
    BY <2>1, <2>2, <2>3 DEF WellTyped
<1>4. CASE LoadActiveSession(w)
  <2>1. PICK p \in Posts :
            WriterStep(w, [writer[w] EXCEPT !.pc = "loaded", !.post = p])
    BY <1>4 DEF LoadActiveSession
  <2> DEFINE r == [writer[w] EXCEPT !.pc = "loaded", !.post = p]
  <2>2. r \in WriterRec /\ r.pc = "loaded" /\ r.post = p
    BY <1>1 DEF WriterRec
  <2>3. QED
    BY <1>3, <1>4, <2>1, <2>2 DEF LoadActiveSession, db, WellTyped, TypeOK
<1>5. CASE BeginWrite(w)
  <2> DEFINE r == [writer[w] EXCEPT !.pc = "begun", !.at = clock + 1]
  <2>1. clock \in Nat /\ clock + 1 \in Nat
    BY DEF WellTyped, TypeOK
  <2>2. r \in WriterRec /\ r.pc = "begun" /\ r.post = writer[w].post
    BY <1>1, <2>1 DEF WriterRec
  <2>3. writer[w].post \in Posts
    BY <1>5 DEF WellTyped, WriterLocals, BeginWrite
  <2>4. QED
    BY <1>3, <1>5, <2>1, <2>2, <2>3 DEF BeginWrite, db, WellTyped, TypeOK
<1>6. CASE LockWrite(w)
  <2> DEFINE before == latestAnswers(ledger)
             r == [writer[w] EXCEPT !.pc = "applying", !.before = before,
                                    !.visible = Visible(before)]
  <2>1. before \in Answers /\ Visible(before) \in SUBSET Cells
    BY <1>1, VisibleAssumption
  <2>2. r \in WriterRec /\ r.pc = "applying" /\ r.post = writer[w].post /\ r.before = before
    <3> HIDE DEF before
    <3> QED
      BY <1>1, <2>1 DEF WriterRec
  <2>3. writer[w].post \in Posts
    BY <1>6 DEF WellTyped, WriterLocals, LockWrite
  <2>4. WriterStep(w, r) /\ lock' = w /\ UNCHANGED <<db, clock>>
    BY <1>6 DEF LockWrite
  <2>5. QED
    BY <1>3, <2>1, <2>2, <2>3, <2>4 DEF db, WellTyped, TypeOK
<1>7. CASE SkipEntry(w)
  <2> DEFINE before == IF Refused(w) THEN writer[w].before
                       ELSE latestAnswers(ledger \cup writer[w].rows)
             r == [writer[w] EXCEPT !.next = @ + 1, !.before = before]
  <2>1. writer[w].pc = "applying" /\ writer[w].post \in Posts /\ writer[w].before \in Answers
    BY <1>7 DEF WellTyped, WriterLocals, SkipEntry, Pending
  <2>2. before \in Answers
    BY <1>1, <2>1, LatestAnswersType DEF WriterRec
  <2>3. r \in WriterRec /\ r.pc = "applying" /\ r.post = writer[w].post /\ r.before = before
    <3> HIDE DEF before
    <3> QED
      BY <1>1, <1>next, <2>1, <2>2 DEF WriterRec
  <2>4. WriterStep(w, r) /\ UNCHANGED <<db, lock, clock>>
    BY <1>7 DEF SkipEntry
  <2>5. QED
    BY <1>3, <2>1, <2>2, <2>3, <2>4 DEF db, WellTyped, TypeOK
<1>8. CASE ApplyEntry(w)
  <2>1. PICK id \in Ids :
          LET rows == writer[w].rows \cup {[cell |-> Entry(w).cell, value |-> Entry(w).value,
                                            at |-> writer[w].at, id |-> id]}
          IN WriterStep(w, [writer[w] EXCEPT !.next = @ + 1, !.rows = rows,
                                !.before = latestAnswers(ledger \cup rows)])
    BY <1>8 DEF ApplyEntry
  <2> DEFINE row == [cell |-> Entry(w).cell, value |-> Entry(w).value,
                     at |-> writer[w].at, id |-> id]
             rows == writer[w].rows \cup {row}
             before == latestAnswers(ledger \cup rows)
             r == [writer[w] EXCEPT !.next = @ + 1, !.rows = rows, !.before = before]
  <2>2. writer[w].pc = "applying" /\ writer[w].post \in Posts
    BY <1>8 DEF WellTyped, WriterLocals, ApplyEntry, Pending
  <2>3. row \in Row
    <3>1. Entry(w) \in [cell : Cells, value : Input] /\ Entry(w).value # BadInput
      BY <1>8, EntryType DEF ApplyEntry, Refused
    <3>2. Entry(w).cell \in Cells /\ Entry(w).value \in Values \cup {Clear}
      BY <3>1 DEF Input
    <3>3. writer[w].at \in Nat
      BY <1>1 DEF WriterRec
    <3>4. QED
      BY <3>2, <3>3 DEF Row
  <2>4. rows \in SUBSET Row /\ before \in Answers
    <3>1. rows \in SUBSET Row
      BY <1>1, <2>3 DEF WriterRec
    <3>2. QED
      BY <1>1, <3>1, LatestAnswersType
  <2>5. r \in WriterRec /\ r.pc = "applying" /\ r.post = writer[w].post /\ r.before = before
    <3> HIDE DEF before, rows
    <3> QED
      BY <1>1, <1>next, <2>2, <2>4 DEF WriterRec
  <2>6. WriterStep(w, r) /\ UNCHANGED <<db, lock, clock>>
    BY <1>8, <2>1 DEF ApplyEntry
  <2>7. QED
    BY <1>3, <2>2, <2>4, <2>5, <2>6 DEF db, WellTyped, TypeOK
<1>9. CASE AbortWrite(w)
  BY <1>2, <1>3, <1>9 DEF AbortWrite, IdleWriter, db, WellTyped, TypeOK
<1>10. CASE CommitWrite(w)
  <2>1. ledger \cup writer[w].rows \in SUBSET Row
    BY <1>1 DEF WriterRec
  <2>2. QED
    BY <1>2, <1>3, <1>10, <2>1 DEF CommitWrite, IdleWriter, WellTyped, TypeOK
<1>11. QED
  BY <1>4, <1>5, <1>6, <1>7, <1>8, <1>9, <1>10

\* Submissions keep the state well typed.
LEMMA SubmitterTypes ==
    ASSUME WellTyped, NEW s \in Submitters,
           \/ ReplayReceipt(s) \/ LoadSubmit(s) \/ LockSubmitLost(s) \/ LockSubmit(s)
           \/ CommitSubmit(s) \/ FailSubmit(s)
    PROVE  WellTyped'
<1>1. /\ submitter[s] \in SubmitterRec /\ submission \in Submission \cup {None}
      /\ outbox \in SUBSET Event /\ latestAnswers(ledger) \in Answers
  BY WellTypedFacts
<1>2. ASSUME NEW r \in SubmitterRec, SubmitterStep(s, r),
             r.pc = "sealing" => r.answers \in Answers,
             status' \in {"created", "in_progress", "submitted", "expired"},
             submission' \in Submission \cup {None}, outbox' \in SUBSET Event,
             lock' \in Writers \cup Submitters \cup {None}, UNCHANGED <<ledger, tombstone>>
      PROVE  WellTyped'
  <2>1. submitter' \in [Submitters -> SubmitterRec] /\ SubmitterLocals'
    BY <1>2, SubmitterStepType
  <2>2. TypeOK'
    BY <1>2, <2>1 DEF WellTyped, TypeOK, SubmitterStep
  <2>3. WriterLocals' /\ ReleaserLocals'
    BY <1>2 DEF WellTyped, WriterLocals, ReleaserLocals, SubmitterStep
  <2>4. QED
    BY <2>1, <2>2, <2>3 DEF WellTyped
<1>3. CASE ReplayReceipt(s) \/ LockSubmitLost(s)
  <2>1. submission # None => submission.locked \in Answers
    BY <1>1 DEF Submission
  <2>2. Answered(s) \in SubmitterRec /\ Answered(s).pc # "sealing"
    BY <1>1, <2>1 DEF Answered, SubmitterRec
  <2>3. SubmitterStep(s, Answered(s)) /\ UNCHANGED <<db, lock>>
    BY <1>3 DEF ReplayReceipt, LockSubmitLost
  <2>4. QED
    BY <1>2, <2>2, <2>3 DEF db, WellTyped, TypeOK
<1>4. CASE LoadSubmit(s)
  <2>1. PICK flagged \in BOOLEAN :
            SubmitterStep(s, [submitter[s] EXCEPT !.pc = "loaded", !.flagged = flagged])
    BY <1>4 DEF LoadSubmit
  <2> DEFINE r == [submitter[s] EXCEPT !.pc = "loaded", !.flagged = flagged]
  <2>2. r \in SubmitterRec /\ r.pc = "loaded"
    BY <1>1 DEF SubmitterRec
  <2>3. QED
    BY <1>2, <1>4, <2>1, <2>2 DEF LoadSubmit, db, WellTyped, TypeOK
<1>5. CASE LockSubmit(s)
  <2> DEFINE answers == latestAnswers(ledger)
             r == [submitter[s] EXCEPT !.pc = "sealing", !.answers = answers]
  <2>1. r \in SubmitterRec /\ r.answers = answers
    <3> HIDE DEF answers
    <3>1. answers \in Answers
      BY <1>1 DEF answers
    <3>2. QED
      BY <1>1, <3>1 DEF SubmitterRec
  <2>2. SubmitterStep(s, r) /\ lock' = s /\ UNCHANGED db
    BY <1>5 DEF LockSubmit
  <2>3. QED
    BY <1>1, <1>2, <2>1, <2>2 DEF db, WellTyped, TypeOK
<1>6. CASE CommitSubmit(s)
  <2> DEFINE locked == LockedAnswers(submitter[s].answers)
             r == [submitter[s] EXCEPT !.pc = "done", !.answers = None, !.receipt = locked]
             row == [locked |-> locked, flagged |-> submitter[s].flagged]
             event == [by |-> s, locked |-> locked, redacted |-> FALSE]
  <2>1. locked \in Answers
    <3>1. submitter[s].answers \in Answers
      BY <1>6 DEF CommitSubmit, WellTyped, SubmitterLocals
    <3>2. QED
      BY <3>1, LockedAnswersType
  <2>2. SubmitterStep(s, r) /\ submission' = row /\ outbox' \in {outbox, outbox \cup {event}}
    BY <1>6 DEF CommitSubmit, Seal
  <2>3. status' = "submitted" /\ lock' = None /\ UNCHANGED <<ledger, tombstone>>
    BY <1>6 DEF CommitSubmit, Seal
  <2> HIDE DEF locked
  <2>4. r \in SubmitterRec /\ r.pc = "done"
    BY <1>1, <2>1 DEF SubmitterRec
  <2>5. row \in Submission /\ event \in Event
    BY <1>1, <2>1 DEF SubmitterRec, Submission, Event
  <2>6. outbox' \in SUBSET Event
    BY <1>1, <2>2, <2>5
  <2>7. QED
    BY <1>2, <2>2, <2>3, <2>4, <2>5, <2>6
<1>7. CASE FailSubmit(s)
  <2> DEFINE r == [submitter[s] EXCEPT !.pc = "failed", !.answers = None]
  <2>1. r \in SubmitterRec /\ r.pc = "failed"
    BY <1>1 DEF SubmitterRec
  <2>2. QED
    BY <1>2, <1>7, <2>1 DEF FailSubmit, db, WellTyped, TypeOK
<1>8. QED
  BY <1>3, <1>4, <1>5, <1>6, <1>7

\* Releases keep the state well typed.
LEMMA ReleaserTypes ==
    ASSUME WellTyped, NEW a \in Releasers, ReadSubmission(a) \/ ClearFlag(a)
    PROVE  WellTyped'
<1>1. /\ releaser[a] \in ReleaserRec /\ submission \in Submission \cup {None}
      /\ outbox \in SUBSET Event
  BY WellTypedFacts
<1>2. ASSUME NEW r \in ReleaserRec, ReleaserStep(a, r),
             r.pc = "read" => r.locked \in Answers,
             submission' \in Submission \cup {None}, outbox' \in SUBSET Event
      PROVE  WellTyped'
  <2>1. releaser' \in [Releasers -> ReleaserRec] /\ ReleaserLocals'
    BY <1>2, ReleaserStepType
  <2>2. TypeOK'
    BY <1>2, <2>1 DEF WellTyped, TypeOK, ReleaserStep
  <2>3. WriterLocals' /\ SubmitterLocals'
    BY <1>2 DEF WellTyped, WriterLocals, SubmitterLocals, ReleaserStep
  <2>4. QED
    BY <2>1, <2>2, <2>3 DEF WellTyped
<1>3. CASE ReadSubmission(a)
  <2>1. submission \in Submission
    BY <1>1, <1>3 DEF ReadSubmission
  <2> DEFINE r == [pc |-> "read", locked |-> submission.locked]
  <2>2. r \in ReleaserRec /\ r.locked \in Answers
    BY <2>1 DEF ReleaserRec, Submission
  <2>3. QED
    BY <1>1, <1>2, <1>3, <2>2 DEF ReadSubmission
<1>4. CASE ClearFlag(a)
  <2> DEFINE event == [by |-> a, locked |-> releaser[a].locked, redacted |-> FALSE]
  <2>1. event \in Event
    BY <1>4 DEF ClearFlag, WellTyped, ReleaserLocals, Event
  <2>2. submission' \in {submission, [submission EXCEPT !.flagged = FALSE]}
    BY <1>4 DEF ClearFlag
  <2>3. submission' \in Submission \cup {None}
    <3>1. submission # None => [submission EXCEPT !.flagged = FALSE] \in Submission
      BY <1>1 DEF Submission
    <3>2. submission = None => submission' = None
      BY <1>4 DEF ClearFlag
    <3>3. QED
      BY <1>1, <2>2, <3>1, <3>2
  <2>4. outbox' \in SUBSET Event
    <3>1. outbox' \in {outbox, outbox \cup {event}}
      BY <1>4 DEF ClearFlag
    <3>2. QED
      BY <1>1, <2>1, <3>1
  <2> DEFINE r == [IdleReleaser EXCEPT !.pc = "done"]
  <2>5. r \in ReleaserRec /\ r.pc = "done"
    BY DEF IdleReleaser, ReleaserRec
  <2>6. ReleaserStep(a, r)
    BY <1>4 DEF ClearFlag
  <2>7. QED
    BY <1>2, <2>3, <2>4, <2>5, <2>6
<1>5. QED
  BY <1>3, <1>4

\* Redaction keeps the outbox a set of events.
LEMMA RedactType ==
    ASSUME outbox \in SUBSET Event, NEW events
    PROVE  Redact(events) \in SUBSET Event
<1>1. ASSUME NEW x \in Event
      PROVE  [x EXCEPT !.redacted = @ \/ x.by \in events] \in Event
  BY DEF Event
<1>2. QED
  BY <1>1 DEF Redact

\* Erasures keep the state well typed.
LEMMA EraserTypes ==
    ASSUME WellTyped, NEW e \in Erasers,
           \/ EraseLookup(e) \/ EraseAnswers(e) \/ EraseSubmission(e) \/ ErasePayloads(e)
           \/ CommitErase(e) \/ FailErase(e)
    PROVE  WellTyped'
<1>1. /\ eraser[e] \in EraserRec /\ submission \in Submission \cup {None}
      /\ ledger \in SUBSET Row /\ outbox \in SUBSET Event
  BY WellTypedFacts
<1>2. ASSUME NEW r \in EraserRec, EraserStep(e, r), ledger' \in SUBSET Row,
             submission' \in Submission \cup {None}, outbox' \in SUBSET Event,
             tombstone' \in BOOLEAN
      PROVE  WellTyped'
  <2>1. eraser' \in [Erasers -> EraserRec]
    BY <1>2 DEF WellTyped, TypeOK, EraserStep
  <2>2. TypeOK'
    BY <1>2, <2>1 DEF WellTyped, TypeOK, EraserStep
  <2>3. WriterLocals' /\ SubmitterLocals' /\ ReleaserLocals'
    BY <1>2 DEF WellTyped, WriterLocals, SubmitterLocals, ReleaserLocals, EraserStep
  <2>4. QED
    BY <2>2, <2>3 DEF WellTyped
<1>3. CASE EraseLookup(e)
  <2> DEFINE r == [eraser[e] EXCEPT !.pc = IF tombstone THEN "done" ELSE "found"]
  <2>1. r \in EraserRec
    BY <1>1 DEF EraserRec
  <2>2. QED
    BY <1>2, <1>3, <2>1 DEF EraseLookup, WellTyped, TypeOK
<1>4. CASE EraseAnswers(e)
  <2> DEFINE r == [eraser[e] EXCEPT !.pc = "answersDeleted", !.rows = ledger]
  <2>1. r \in EraserRec
    BY <1>1 DEF EraserRec
  <2>2. QED
    BY <1>2, <1>4, <2>1 DEF EraseAnswers, WellTyped, TypeOK
<1>5. CASE EraseSubmission(e)
  <2> DEFINE r == [eraser[e] EXCEPT !.pc = "submissionDeleted", !.sealed = submission # None]
  <2>1. r \in EraserRec
    BY <1>1 DEF EraserRec
  <2>2. QED
    BY <1>2, <1>5, <2>1 DEF EraseSubmission, WellTyped, TypeOK
<1>6. CASE ErasePayloads(e)
  <2> DEFINE enqueuers == {x.by : x \in outbox}
             r == [eraser[e] EXCEPT !.pc = "payloadsRedacted", !.events = enqueuers]
  <2>1. enqueuers \in SUBSET (Submitters \cup Releasers)
    BY <1>1 DEF Event
  <2>2. r \in EraserRec
    <3> HIDE DEF enqueuers
    <3> QED
      BY <1>1, <2>1 DEF EraserRec
  <2>3. QED
    BY <1>2, <1>6, <2>2 DEF ErasePayloads, WellTyped, TypeOK
<1>7. [IdleEraser EXCEPT !.pc = "done"] \in EraserRec
  BY DEF IdleEraser, EraserRec
<1>8. CASE CommitErase(e)
  <2>1. outbox' \in SUBSET Event
    BY <1>1, <1>8, RedactType DEF CommitErase
  <2>2. QED
    BY <1>1, <1>2, <1>7, <1>8, <2>1 DEF CommitErase
<1>9. CASE FailErase(e)
  BY <1>1, <1>2, <1>7, <1>9 DEF FailErase, WellTyped, TypeOK
<1>10. QED
  BY <1>3, <1>4, <1>5, <1>6, <1>8, <1>9

\* Every step keeps the state well typed.
LEMMA WellTypedStep == WellTyped /\ [Next]_vars => WellTyped'
<1> SUFFICES ASSUME WellTyped, [Next]_vars PROVE WellTyped'
  OBVIOUS
<1>1. CASE ExpiryPasses
  BY <1>1 DEF ExpiryPasses, db, WellTyped, TypeOK, WriterLocals, SubmitterLocals, ReleaserLocals
<1>2. CASE expireSessions
  BY <1>2 DEF expireSessions, WellTyped, TypeOK, WriterLocals, SubmitterLocals, ReleaserLocals
<1>3. ASSUME NEW w \in Writers,
             \/ LoadActiveSession(w) \/ BeginWrite(w) \/ LockWrite(w)
             \/ SkipEntry(w) \/ ApplyEntry(w) \/ AbortWrite(w) \/ CommitWrite(w)
      PROVE  WellTyped'
  BY <1>3, WriterTypes
<1>4. ASSUME NEW s \in Submitters,
             \/ ReplayReceipt(s) \/ LoadSubmit(s) \/ LockSubmitLost(s) \/ LockSubmit(s)
             \/ CommitSubmit(s) \/ FailSubmit(s)
      PROVE  WellTyped'
  BY <1>4, SubmitterTypes
<1>5. ASSUME NEW a \in Releasers, ReadSubmission(a) \/ ClearFlag(a)
      PROVE  WellTyped'
  BY <1>5, ReleaserTypes
<1>6. ASSUME NEW e \in Erasers,
             \/ EraseLookup(e) \/ EraseAnswers(e) \/ EraseSubmission(e) \/ ErasePayloads(e)
             \/ CommitErase(e) \/ FailErase(e)
      PROVE  WellTyped'
  BY <1>6, EraserTypes
<1>7. CASE UNCHANGED vars
  BY <1>7 DEF vars, WellTyped, TypeOK, WriterLocals, SubmitterLocals, ReleaserLocals
<1>8. QED
  BY <1>1, <1>2, <1>3, <1>4, <1>5, <1>6, <1>7 DEF Next

\* However many requests race, every column, receipt and in-flight value keeps
\* its type: in particular the current answers of a cell are always one of its
\* canonical values or none (latestAnswers never returns a retraction).
THEOREM TypeCorrect == Spec => []TypeOK
<1>1. WellTyped => TypeOK
  BY DEF WellTyped
<1>2. QED
  BY <1>1, WellTypedInit, WellTypedStep, PTL DEF Spec

-----------------------------------------------------------------------------
(* The safety of submission.                                               *)

\* The advisory lock is held by a request from its lock to its end, and by no
\* other.
LockHeldByOne ==
    /\ \A w \in Writers : writer[w].pc = "applying" <=> lock = w
    /\ \A s \in Submitters : submitter[s].pc = "sealing" <=> lock = s

\* A transaction that has not been granted the lock has written nothing.
NothingBuffered ==
    \A w \in Writers : writer[w].pc # "applying" => writer[w].rows = {}

\* The inductive invariant.
SessionInv ==
    /\ WellTyped
    /\ LockHeldByOne
    /\ NothingBuffered
    /\ ReadsStillHold
    /\ StatusTellsHistory
    /\ ReceiptsAgree
    /\ AnnouncedOnce

-----------------------------------------------------------------------------
\* The initial state satisfies the invariant.
LEMMA SessionInvInit == Init => SessionInv
<1> SUFFICES ASSUME Init PROVE SessionInv
  OBVIOUS
<1>1. WellTyped
  BY WellTypedInit
<1>2. /\ \A w \in Writers : writer[w].pc = "idle" /\ writer[w].rows = {}
      /\ \A s \in Submitters : submitter[s].pc = "idle" /\ submitter[s].receipt = None
      /\ \A a \in Releasers : releaser[a].pc = "idle"
  BY DEF Init, IdleWriter, IdleSubmitter, IdleReleaser
<1>3. LockHeldByOne /\ NothingBuffered
  BY <1>2, ProcessAssumption DEF Init, LockHeldByOne, NothingBuffered
<1>4. ReadsStillHold
  BY <1>2 DEF ReadsStillHold
<1>5. StatusTellsHistory /\ ReceiptsAgree /\ AnnouncedOnce
  BY <1>2 DEF Init, StatusTellsHistory, ReceiptsAgree, AnnouncedOnce
<1>6. QED
  BY <1>1, <1>3, <1>4, <1>5 DEF SessionInv

-----------------------------------------------------------------------------
(* Answer writes.                                                          *)

\* What a step of a writer must satisfy to keep the invariant: it moves only
\* its own lock, appends only while it holds it, and acts on a current view.
LEMMA WriterKeeps ==
    ASSUME SessionInv, WellTyped', NEW w \in Writers, NEW r, WriterStep(w, r),
           UNCHANGED <<submission, outbox, tombstone>>,
           r.pc = "applying" <=> lock' = w,
           \/ lock' = lock
           \/ lock = None /\ lock' = w
           \/ lock = w /\ lock' = None,
           r.pc # "applying" => r.rows = {},
           r.pc = "applying" /\ ~tombstone =>
               /\ r.visible = Visible(latestAnswers(ledger))
               /\ \A x \in r.rows : x.cell \in r.visible,
           ledger' = ledger \/ (lock = w /\ lock' = None),
           (status' = status /\ ledger' = ledger) \/ status' = "in_progress"
    PROVE  SessionInv'
<1>1. /\ \A v \in Writers : writer'[v] = IF v = w THEN r ELSE writer[v]
      /\ UNCHANGED <<submitter, releaser>>
  BY DEF WriterStep, SessionInv, WellTyped, TypeOK
<1>2. LockHeldByOne'
  <2>1. None \notin Writers \cup Submitters /\ w \notin Submitters
    BY ProcessAssumption
  <2>2. QED
    BY <1>1, <2>1 DEF SessionInv, LockHeldByOne
<1>3. NothingBuffered'
  BY <1>1 DEF SessionInv, NothingBuffered
<1>4. ReadsStillHold'
  <2>1. ASSUME ~tombstone, NEW v \in Writers, writer'[v].pc = "applying"
        PROVE  /\ writer'[v].visible = Visible(latestAnswers(ledger'))
               /\ \A x \in writer'[v].rows : x.cell \in writer'[v].visible
    <3>1. lock' = v
      BY <1>2, <2>1 DEF LockHeldByOne
    <3>2. ledger' = ledger
      BY <3>1, ProcessAssumption
    <3>3. CASE v = w
      BY <1>1, <2>1, <3>2, <3>3
    <3>4. CASE v # w
      BY <1>1, <2>1, <3>2, <3>4 DEF SessionInv, ReadsStillHold
    <3>5. QED
      BY <3>3, <3>4
  <2>2. ASSUME ~tombstone, NEW s \in Submitters, submitter[s].pc = "sealing"
        PROVE  submitter[s].answers = latestAnswers(ledger')
    <3>1. lock = s
      BY <2>2 DEF SessionInv, LockHeldByOne
    <3>2. ledger' = ledger
      BY <3>1, ProcessAssumption
    <3>3. QED
      BY <2>2, <3>2 DEF SessionInv, ReadsStillHold
  <2>3. ASSUME ~tombstone, NEW a \in Releasers, releaser[a].pc = "read"
        PROVE  submission # None /\ releaser[a].locked = submission.locked
    BY <2>3 DEF SessionInv, ReadsStillHold
  <2>4. QED
    BY <1>1, <2>1, <2>2, <2>3 DEF ReadsStillHold
<1>5. StatusTellsHistory'
  BY DEF SessionInv, StatusTellsHistory
<1>6. ReceiptsAgree' /\ AnnouncedOnce'
  BY <1>1 DEF SessionInv, ReceiptsAgree, AnnouncedOnce
<1>7. QED
  BY <1>2, <1>3, <1>4, <1>5, <1>6 DEF SessionInv

\* Answer writes keep the invariant.
LEMMA WriterSafe ==
    ASSUME SessionInv, NEW w \in Writers,
           \/ LoadActiveSession(w) \/ BeginWrite(w) \/ LockWrite(w)
           \/ SkipEntry(w) \/ ApplyEntry(w) \/ AbortWrite(w) \/ CommitWrite(w)
    PROVE  SessionInv'
<1>1. WellTyped'
  BY WriterTypes DEF SessionInv
<1>2. /\ writer[w] \in WriterRec
      /\ w # None
      /\ writer[w].pc = "applying" <=> lock = w
      /\ writer[w].pc # "applying" => writer[w].rows = {}
      /\ writer[w].pc = "applying" /\ ~tombstone =>
             /\ writer[w].visible = Visible(latestAnswers(ledger))
             /\ \A x \in writer[w].rows : x.cell \in writer[w].visible
  BY WellTypedFacts, ProcessAssumption
     DEF SessionInv, LockHeldByOne, NothingBuffered, ReadsStillHold
<1>3. CASE LoadActiveSession(w)
  <2>1. PICK p \in Posts :
            WriterStep(w, [writer[w] EXCEPT !.pc = "loaded", !.post = p])
    BY <1>3 DEF LoadActiveSession
  <2> DEFINE r == [writer[w] EXCEPT !.pc = "loaded", !.post = p]
  <2>2. writer[w].pc = "idle" /\ UNCHANGED <<db, lock>>
    BY <1>3 DEF LoadActiveSession
  <2>3. r.pc = "loaded" /\ r.rows = writer[w].rows
    BY <1>2 DEF WriterRec
  <2> HIDE DEF r
  <2>4. QED
    BY <1>1, <1>2, <2>1, <2>2, <2>3, WriterKeeps DEF db, r
<1>4. CASE BeginWrite(w)
  <2> DEFINE r == [writer[w] EXCEPT !.pc = "begun", !.at = clock + 1]
  <2>1. WriterStep(w, r)
    BY <1>4 DEF BeginWrite
  <2>2. writer[w].pc = "loaded" /\ UNCHANGED <<db, lock>>
    BY <1>4 DEF BeginWrite
  <2>3. r.pc = "begun" /\ r.rows = writer[w].rows
    BY <1>2 DEF WriterRec
  <2> HIDE DEF r
  <2>4. QED
    BY <1>1, <1>2, <2>1, <2>2, <2>3, WriterKeeps DEF db
<1>5. CASE LockWrite(w)
  <2> DEFINE before == latestAnswers(ledger)
             r == [writer[w] EXCEPT !.pc = "applying", !.before = before,
                                    !.visible = Visible(before)]
  <2>1. WriterStep(w, r)
    BY <1>5 DEF LockWrite
  <2>2. /\ writer[w].pc = "begun" /\ lock = None /\ lock' = w
        /\ UNCHANGED db
    BY <1>5 DEF LockWrite
  <2>3. /\ r.pc = "applying" /\ r.visible = Visible(latestAnswers(ledger))
        /\ r.rows = writer[w].rows
    BY <1>2 DEF WriterRec
  <2> HIDE DEF r
  <2>4. QED
    BY <1>1, <1>2, <2>1, <2>2, <2>3, WriterKeeps DEF db
<1>6. CASE SkipEntry(w)
  <2> DEFINE before == IF Refused(w) THEN writer[w].before
                       ELSE latestAnswers(ledger \cup writer[w].rows)
             r == [writer[w] EXCEPT !.next = @ + 1, !.before = before]
  <2>1. WriterStep(w, r)
    BY <1>6 DEF SkipEntry
  <2>2. writer[w].pc = "applying" /\ UNCHANGED <<db, lock>>
    BY <1>6 DEF SkipEntry, Pending
  <2>3. r.pc = writer[w].pc /\ r.visible = writer[w].visible /\ r.rows = writer[w].rows
    BY <1>2 DEF WriterRec
  <2> HIDE DEF r
  <2>4. QED
    BY <1>1, <1>2, <2>1, <2>2, <2>3, WriterKeeps DEF db
<1>7. CASE ApplyEntry(w)
  <2>1. PICK id \in Ids :
          LET rows == writer[w].rows \cup {[cell |-> Entry(w).cell, value |-> Entry(w).value,
                                            at |-> writer[w].at, id |-> id]}
          IN WriterStep(w, [writer[w] EXCEPT !.next = @ + 1, !.rows = rows,
                                !.before = latestAnswers(ledger \cup rows)])
    BY <1>7 DEF ApplyEntry
  <2> DEFINE row == [cell |-> Entry(w).cell, value |-> Entry(w).value,
                     at |-> writer[w].at, id |-> id]
             rows == writer[w].rows \cup {row}
             before == latestAnswers(ledger \cup rows)
             r == [writer[w] EXCEPT !.next = @ + 1, !.rows = rows, !.before = before]
  <2>2. /\ writer[w].pc = "applying" /\ UNCHANGED <<db, lock>>
        /\ row.cell \in writer[w].visible
    BY <1>7 DEF ApplyEntry, Pending, Refused
  <2>3. WriterStep(w, r)
    BY <2>1
  <2>4. r.pc = writer[w].pc /\ r.visible = writer[w].visible /\ r.rows = writer[w].rows \cup {row}
    BY <1>2 DEF WriterRec
  <2> HIDE DEF r, row
  <2>5. QED
    BY <1>1, <1>2, <2>2, <2>3, <2>4, WriterKeeps DEF db
<1>8. CASE AbortWrite(w) \/ CommitWrite(w)
  <2> DEFINE r == [IdleWriter EXCEPT !.pc = "done"]
  <2>1. WriterStep(w, r) /\ r.pc = "done" /\ r.rows = {}
    BY <1>8 DEF AbortWrite, CommitWrite, IdleWriter
  <2> HIDE DEF r
  <2>2. CASE AbortWrite(w)
    BY <1>1, <1>2, <2>1, <2>2, WriterKeeps DEF AbortWrite, db
  <2>3. CASE CommitWrite(w)
    <3>1. /\ lock = w /\ lock' = None /\ UNCHANGED <<submission, outbox, tombstone>>
          /\ (status' = status /\ ledger' = ledger) \/ status' = "in_progress"
      BY <1>2, <2>3 DEF CommitWrite
    <3>2. QED
      BY <1>1, <1>2, <2>1, <3>1, WriterKeeps
  <2>4. QED
    BY <1>8, <2>2, <2>3
<1>9. QED
  BY <1>3, <1>4, <1>5, <1>6, <1>7, <1>8

-----------------------------------------------------------------------------
(* Submissions.                                                            *)

\* What a step of a submitter that seals nothing must satisfy: it moves only
\* its own lock, acts on current answers and hands out the sealed receipt.
LEMMA SubmitterKeeps ==
    ASSUME SessionInv, WellTyped', NEW s \in Submitters, NEW r, SubmitterStep(s, r),
           UNCHANGED db,
           r.pc = "sealing" <=> lock' = s,
           \/ lock' = lock
           \/ lock = None /\ lock' = s
           \/ lock = s /\ lock' = None,
           r.pc = "sealing" => r.answers = latestAnswers(ledger) \/ tombstone,
           r.receipt # None /\ ~tombstone => submission # None /\ r.receipt = submission.locked
    PROVE  SessionInv'
<1>1. /\ \A v \in Submitters : submitter'[v] = IF v = s THEN r ELSE submitter[v]
      /\ UNCHANGED <<writer, releaser>>
  BY DEF SubmitterStep, SessionInv, WellTyped, TypeOK
<1>2. LockHeldByOne'
  <2>1. None \notin Writers \cup Submitters /\ s \notin Writers
    BY ProcessAssumption
  <2>2. QED
    BY <1>1, <2>1 DEF SessionInv, LockHeldByOne
<1>3. NothingBuffered'
  BY <1>1 DEF SessionInv, NothingBuffered
<1>4. ReadsStillHold'
  BY <1>1 DEF SessionInv, ReadsStillHold, db
<1>5. StatusTellsHistory' /\ AnnouncedOnce'
  BY DEF SessionInv, StatusTellsHistory, AnnouncedOnce, db
<1>6. ReceiptsAgree'
  BY <1>1 DEF SessionInv, ReceiptsAgree, db
<1>7. QED
  BY <1>2, <1>3, <1>4, <1>5, <1>6 DEF SessionInv

\* What a seal does to the state.
LEMMA SealEffect ==
    ASSUME SessionInv, NEW s \in Submitters, CommitSubmit(s)
    PROVE  LET locked == LockedAnswers(submitter[s].answers)
               event == [by |-> s, locked |-> locked, redacted |-> FALSE]
           IN /\ submission = None /\ submission' # None
              /\ submission'.locked = locked /\ locked \in Answers
              /\ submission'.flagged = submitter[s].flagged
              /\ outbox' = IF submission'.flagged THEN outbox ELSE outbox \cup {event}
              /\ lock = s /\ lock' = None /\ status' = "submitted"
              /\ UNCHANGED <<ledger, tombstone, writer, releaser>>
              /\ submitter'[s].pc = "done" /\ submitter'[s].receipt = locked
              /\ \A v \in Submitters \ {s} : submitter'[v] = submitter[v]
<1> DEFINE locked == LockedAnswers(submitter[s].answers)
           r == [submitter[s] EXCEPT !.pc = "done", !.answers = None, !.receipt = locked]
           row == [locked |-> locked, flagged |-> submitter[s].flagged]
<1>1. submitter[s] \in SubmitterRec /\ submitter \in [Submitters -> SubmitterRec]
  BY DEF SessionInv, WellTyped, TypeOK
<1>2. submitter[s].pc = "sealing" /\ submission = None /\ Seal(s, ~submitter[s].flagged)
  BY DEF CommitSubmit
<1>3. lock = s
  BY <1>2 DEF SessionInv, LockHeldByOne
<1>4. locked \in Answers
  BY <1>2, LockedAnswersType DEF SessionInv, WellTyped, SubmitterLocals
<1>5. row # None
  <2>1. row \in [locked : Answers, flagged : BOOLEAN]
    BY <1>1, <1>4 DEF SubmitterRec
  <2>2. QED
    BY <2>1, ProcessAssumption
<1>6. submitter' = [submitter EXCEPT ![s] = r] /\ UNCHANGED <<writer, releaser>>
  BY <1>2 DEF Seal, SubmitterStep
<1>7. r.pc = "done" /\ r.receipt = locked
  BY <1>1 DEF SubmitterRec
<1>8. /\ submission' = row /\ status' = "submitted" /\ lock' = None
      /\ outbox' = IF ~submitter[s].flagged
                   THEN outbox \cup {[by |-> s, locked |-> locked, redacted |-> FALSE]}
                   ELSE outbox
      /\ UNCHANGED <<ledger, tombstone>>
  BY <1>2 DEF Seal
<1>9. row.locked = locked /\ row.flagged = submitter[s].flagged
  OBVIOUS
<1>10. submitter'[s] = r /\ \A v \in Submitters \ {s} : submitter'[v] = submitter[v]
  BY <1>1, <1>6
<1> HIDE DEF locked, r, row
<1>11. QED
  BY <1>2, <1>3, <1>4, <1>5, <1>6, <1>7, <1>8, <1>9, <1>10 DEF locked

\* A seal keeps the invariant.
LEMMA SealSafe ==
    ASSUME SessionInv, NEW s \in Submitters, CommitSubmit(s)
    PROVE  SessionInv'
<1> DEFINE locked == LockedAnswers(submitter[s].answers)
           event == [by |-> s, locked |-> locked, redacted |-> FALSE]
<1>1. WellTyped'
  BY SubmitterTypes DEF SessionInv
<1>2. /\ submission = None /\ submission' # None
      /\ submission'.locked = locked
      /\ outbox' = IF submission'.flagged THEN outbox ELSE outbox \cup {event}
      /\ lock = s /\ lock' = None /\ status' = "submitted"
      /\ UNCHANGED <<ledger, tombstone, writer, releaser>>
      /\ submitter'[s].pc = "done" /\ submitter'[s].receipt = locked
      /\ \A v \in Submitters \ {s} : submitter'[v] = submitter[v]
  BY SealEffect
<1>3. event.locked = locked /\ event.by = s /\ event.redacted = FALSE
  OBVIOUS
<1> HIDE DEF locked
<1>4. LockHeldByOne' /\ NothingBuffered'
  <2>1. None \notin Writers \cup Submitters /\ s \notin Writers
    BY ProcessAssumption
  <2>2. QED
    BY <1>2, <2>1 DEF SessionInv, LockHeldByOne, NothingBuffered
<1>5. ReadsStillHold'
  BY <1>2 DEF SessionInv, ReadsStillHold
<1>6. StatusTellsHistory'
  BY <1>2 DEF SessionInv, StatusTellsHistory
<1>7. ReceiptsAgree'
  BY <1>2 DEF SessionInv, ReceiptsAgree
<1>8. AnnouncedOnce'
  <2>1. SUFFICES ASSUME ~tombstone
                 PROVE  AnnouncedOnce'
    BY <1>2 DEF AnnouncedOnce
  <2>2. outbox = {}
    BY <1>2, <2>1 DEF SessionInv, AnnouncedOnce
  <2>3. submission'.flagged => outbox' = {}
    BY <1>2, <2>2
  <2>4. ~submission'.flagged => outbox' = {[by |-> s, locked |-> submission'.locked,
                                             redacted |-> FALSE]}
    BY <1>2, <2>2
  <2>5. QED
    BY <1>2, <2>3, <2>4 DEF AnnouncedOnce
<1>9. QED
  BY <1>1, <1>4, <1>5, <1>6, <1>7, <1>8 DEF SessionInv

\* Submissions keep the invariant.
LEMMA SubmitterSafe ==
    ASSUME SessionInv, NEW s \in Submitters,
           \/ ReplayReceipt(s) \/ LoadSubmit(s) \/ LockSubmitLost(s) \/ LockSubmit(s)
           \/ CommitSubmit(s) \/ FailSubmit(s)
    PROVE  SessionInv'
<1>1. WellTyped'
  BY SubmitterTypes DEF SessionInv
<1>2. /\ submitter[s] \in SubmitterRec
      /\ s # None
      /\ submitter[s].pc = "sealing" <=> lock = s
      /\ submitter[s].receipt # None /\ ~tombstone =>
             submission # None /\ submitter[s].receipt = submission.locked
  BY WellTypedFacts, ProcessAssumption DEF SessionInv, LockHeldByOne, ReceiptsAgree
<1>3. CASE ReplayReceipt(s) \/ LockSubmitLost(s)
  <2>1. /\ SubmitterStep(s, Answered(s)) /\ UNCHANGED <<db, lock>>
        /\ submitter[s].pc # "sealing"
    BY <1>3 DEF ReplayReceipt, LockSubmitLost
  <2>2. /\ Answered(s).pc # "sealing"
        /\ Answered(s).receipt # None => submission # None /\ Answered(s).receipt = submission.locked
    BY <1>2 DEF Answered, SubmitterRec
  <2>3. QED
    BY <1>1, <1>2, <2>1, <2>2, SubmitterKeeps
<1>4. CASE LoadSubmit(s)
  <2>1. PICK flagged \in BOOLEAN :
            SubmitterStep(s, [submitter[s] EXCEPT !.pc = "loaded", !.flagged = flagged])
    BY <1>4 DEF LoadSubmit
  <2> DEFINE r == [submitter[s] EXCEPT !.pc = "loaded", !.flagged = flagged]
  <2>2. r.pc = "loaded" /\ r.receipt = submitter[s].receipt
    BY <1>2 DEF SubmitterRec
  <2>3. submitter[s].pc = "idle" /\ UNCHANGED <<db, lock>>
    BY <1>4 DEF LoadSubmit
  <2>4. SubmitterStep(s, r)
    BY <2>1
  <2> HIDE DEF r
  <2>5. QED
    BY <1>1, <1>2, <2>2, <2>3, <2>4, SubmitterKeeps
<1>5. CASE LockSubmit(s)
  <2> DEFINE answers == latestAnswers(ledger)
             r == [submitter[s] EXCEPT !.pc = "sealing", !.answers = answers]
  <2>1. r.pc = "sealing" /\ r.receipt = submitter[s].receipt /\ r.answers = answers
    BY <1>2 DEF SubmitterRec
  <2>2. SubmitterStep(s, r) /\ lock = None /\ lock' = s /\ UNCHANGED db
    BY <1>5 DEF LockSubmit
  <2> HIDE DEF r
  <2>3. QED
    BY <1>1, <1>2, <2>1, <2>2, SubmitterKeeps
<1>6. CASE CommitSubmit(s)
  BY <1>6, SealSafe
<1>7. CASE FailSubmit(s)
  <2> DEFINE r == [submitter[s] EXCEPT !.pc = "failed", !.answers = None]
  <2>1. r.pc = "failed" /\ r.receipt = submitter[s].receipt
    BY <1>2 DEF SubmitterRec
  <2>2. SubmitterStep(s, r) /\ lock' = (IF lock = s THEN None ELSE lock) /\ UNCHANGED db
    BY <1>7 DEF FailSubmit
  <2> HIDE DEF r
  <2>3. QED
    BY <1>1, <1>2, <2>1, <2>2, SubmitterKeeps
<1>8. QED
  BY <1>3, <1>4, <1>5, <1>6, <1>7

-----------------------------------------------------------------------------
(* Releases and erasures.                                                  *)

\* What a release does to the state: it flips the flag of a flagged submission
\* and enqueues the one event, or changes nothing.
LEMMA ReleaseEffect ==
    ASSUME SessionInv, NEW a \in Releasers, ClearFlag(a)
    PROVE  LET event == [by |-> a, locked |-> releaser[a].locked, redacted |-> FALSE]
           IN /\ \/ UNCHANGED <<submission, outbox>>
                 \/ /\ submission # None /\ submission.flagged
                    /\ submission' # None /\ ~submission'.flagged
                    /\ submission'.locked = submission.locked
                    /\ outbox' = outbox \cup {event}
              /\ releaser[a].pc = "read"
              /\ \A b \in Releasers : releaser'[b].pc = "read" => releaser'[b] = releaser[b]
              /\ UNCHANGED <<status, ledger, tombstone, lock, writer, submitter>>
<1>1. /\ releaser \in [Releasers -> ReleaserRec] /\ submission \in Submission \cup {None}
  BY DEF SessionInv, WellTyped, TypeOK
<1>2. /\ releaser' = [releaser EXCEPT ![a] = [IdleReleaser EXCEPT !.pc = "done"]]
      /\ UNCHANGED <<status, ledger, tombstone, lock, writer, submitter>>
  BY DEF ClearFlag, ReleaserStep
<1>3. \A b \in Releasers : releaser'[b].pc = "read" => releaser'[b] = releaser[b]
  BY <1>1, <1>2 DEF IdleReleaser
<1>4. CASE submission # None /\ submission.flagged
  <2> DEFINE row == [submission EXCEPT !.flagged = FALSE]
  <2>1. submission' = row /\ outbox' = outbox \cup
            {[by |-> a, locked |-> releaser[a].locked, redacted |-> FALSE]}
    BY <1>4 DEF ClearFlag
  <2>2. row \in [locked : Answers, flagged : BOOLEAN] /\ ~row.flagged
        /\ row.locked = submission.locked
    BY <1>1, <1>4 DEF Submission
  <2>3. row # None
    BY <2>2, ProcessAssumption
  <2> HIDE DEF row
  <2>4. QED
    BY <1>2, <1>3, <1>4, <2>1, <2>2, <2>3 DEF ClearFlag
<1>5. CASE ~(submission # None /\ submission.flagged)
  BY <1>2, <1>3, <1>5 DEF ClearFlag
<1>6. QED
  BY <1>4, <1>5

\* Releases keep the invariant.
LEMMA ReleaserSafe ==
    ASSUME SessionInv, NEW a \in Releasers, ReadSubmission(a) \/ ClearFlag(a)
    PROVE  SessionInv'
<1>1. WellTyped'
  BY ReleaserTypes DEF SessionInv
<1>2. CASE ReadSubmission(a)
  <2>1. /\ releaser \in [Releasers -> ReleaserRec]
        /\ releaser' = [releaser EXCEPT ![a] = [pc |-> "read", locked |-> submission.locked]]
        /\ submission # None
        /\ UNCHANGED <<status, ledger, submission, outbox, tombstone, lock, writer, submitter>>
    BY <1>2 DEF ReadSubmission, ReleaserStep, SessionInv, WellTyped, TypeOK
  <2>2. \A b \in Releasers : \/ releaser'[b] = releaser[b]
                             \/ releaser'[b].locked = submission.locked
    BY <2>1
  <2>3. LockHeldByOne' /\ NothingBuffered'
    BY <2>1 DEF SessionInv, LockHeldByOne, NothingBuffered
  <2>4. ReadsStillHold'
    BY <2>1, <2>2 DEF SessionInv, ReadsStillHold
  <2>5. StatusTellsHistory' /\ ReceiptsAgree' /\ AnnouncedOnce'
    BY <2>1 DEF SessionInv, StatusTellsHistory, ReceiptsAgree, AnnouncedOnce
  <2>6. QED
    BY <1>1, <2>3, <2>4, <2>5 DEF SessionInv
<1>3. CASE ClearFlag(a)
  <2> DEFINE event == [by |-> a, locked |-> releaser[a].locked, redacted |-> FALSE]
  <2>1. /\ \/ UNCHANGED <<submission, outbox>>
           \/ /\ submission # None /\ submission.flagged
              /\ submission' # None /\ ~submission'.flagged
              /\ submission'.locked = submission.locked
              /\ outbox' = outbox \cup {event}
        /\ releaser[a].pc = "read"
        /\ \A b \in Releasers : releaser'[b].pc = "read" => releaser'[b] = releaser[b]
        /\ UNCHANGED <<status, ledger, tombstone, lock, writer, submitter>>
    BY <1>3, ReleaseEffect
  <2>2. LockHeldByOne' /\ NothingBuffered'
    BY <2>1 DEF SessionInv, LockHeldByOne, NothingBuffered
  <2>3. ReadsStillHold'
    BY <2>1 DEF SessionInv, ReadsStillHold
  <2>4. StatusTellsHistory'
    BY <2>1 DEF SessionInv, StatusTellsHistory
  <2>5. ReceiptsAgree'
    BY <2>1 DEF SessionInv, ReceiptsAgree
  <2>6. AnnouncedOnce'
    <3>1. CASE UNCHANGED <<submission, outbox>>
      BY <2>1, <3>1 DEF SessionInv, AnnouncedOnce
    <3>2. CASE /\ submission # None /\ submission.flagged /\ ~tombstone
               /\ submission' # None /\ ~submission'.flagged
               /\ submission'.locked = submission.locked
               /\ outbox' = outbox \cup {event}
      <4>1. outbox = {} /\ releaser[a].locked = submission.locked
        BY <2>1, <3>2 DEF SessionInv, AnnouncedOnce, ReadsStillHold
      <4>2. outbox' = {[by |-> a, locked |-> submission'.locked, redacted |-> FALSE]}
        BY <3>2, <4>1
      <4>3. QED
        BY <3>2, <4>2 DEF AnnouncedOnce
    <3>3. CASE tombstone
      BY <2>1, <3>3 DEF AnnouncedOnce
    <3>4. QED
      BY <2>1, <3>1, <3>2, <3>3
  <2>7. QED
    BY <1>1, <2>2, <2>3, <2>4, <2>5, <2>6 DEF SessionInv
<1>4. QED
  BY <1>2, <1>3

\* Erasures keep the invariant: they change what is stored only at their
\* commit, and what the invariant says of stored content ends there.
LEMMA EraserSafe ==
    ASSUME SessionInv, NEW e \in Erasers,
           \/ EraseLookup(e) \/ EraseAnswers(e) \/ EraseSubmission(e) \/ ErasePayloads(e)
           \/ CommitErase(e) \/ FailErase(e)
    PROVE  SessionInv'
<1>1. WellTyped'
  BY EraserTypes DEF SessionInv
<1>2. UNCHANGED <<status, lock, writer, submitter, releaser>>
  BY DEF EraseLookup, EraseAnswers, EraseSubmission, ErasePayloads, CommitErase, FailErase,
         EraserStep
<1>3. LockHeldByOne' /\ NothingBuffered'
  BY <1>2 DEF SessionInv, LockHeldByOne, NothingBuffered
<1>4. CASE UNCHANGED <<ledger, submission, outbox, tombstone>>
  BY <1>1, <1>2, <1>3, <1>4
     DEF SessionInv, ReadsStillHold, StatusTellsHistory, ReceiptsAgree, AnnouncedOnce
<1>5. CASE CommitErase(e)
  <2>1. tombstone' /\ ledger' \subseteq ledger /\ submission' \in {None, submission}
    BY <1>5 DEF CommitErase
  <2>2. ReadsStillHold' /\ ReceiptsAgree' /\ AnnouncedOnce'
    BY <2>1 DEF ReadsStillHold, ReceiptsAgree, AnnouncedOnce
  <2>3. StatusTellsHistory'
    BY <1>2, <2>1 DEF SessionInv, StatusTellsHistory
  <2>4. QED
    BY <1>1, <1>3, <2>2, <2>3 DEF SessionInv
<1>6. QED
  BY <1>4, <1>5 DEF EraseLookup, EraseAnswers, EraseSubmission, ErasePayloads, FailErase

\* The passing of time and the sweep keep the invariant.
LEMMA SweepSafe ==
    ASSUME SessionInv, ExpiryPasses \/ expireSessions
    PROVE  SessionInv'
<1>1. WellTyped'
  BY WellTypedStep DEF SessionInv, Next
<1>2. /\ UNCHANGED <<ledger, submission, outbox, tombstone, lock, writer, submitter, releaser>>
      /\ status' = status \/ status' = "expired"
  BY DEF ExpiryPasses, expireSessions, db
<1>3. LockHeldByOne' /\ NothingBuffered' /\ ReadsStillHold'
  BY <1>2 DEF SessionInv, LockHeldByOne, NothingBuffered, ReadsStillHold
<1>4. StatusTellsHistory' /\ ReceiptsAgree' /\ AnnouncedOnce'
  BY <1>2 DEF SessionInv, StatusTellsHistory, ReceiptsAgree, AnnouncedOnce
<1>5. QED
  BY <1>1, <1>3, <1>4 DEF SessionInv

-----------------------------------------------------------------------------
(* The theorems.                                                           *)

\* Every step keeps the invariant.
LEMMA SessionInvStep == SessionInv /\ [Next]_vars => SessionInv'
<1> SUFFICES ASSUME SessionInv, [Next]_vars PROVE SessionInv'
  OBVIOUS
<1>1. CASE ExpiryPasses \/ expireSessions
  BY <1>1, SweepSafe
<1>2. ASSUME NEW w \in Writers,
             \/ LoadActiveSession(w) \/ BeginWrite(w) \/ LockWrite(w)
             \/ SkipEntry(w) \/ ApplyEntry(w) \/ AbortWrite(w) \/ CommitWrite(w)
      PROVE  SessionInv'
  BY <1>2, WriterSafe
<1>3. ASSUME NEW s \in Submitters,
             \/ ReplayReceipt(s) \/ LoadSubmit(s) \/ LockSubmitLost(s) \/ LockSubmit(s)
             \/ CommitSubmit(s) \/ FailSubmit(s)
      PROVE  SessionInv'
  BY <1>3, SubmitterSafe
<1>4. ASSUME NEW a \in Releasers, ReadSubmission(a) \/ ClearFlag(a)
      PROVE  SessionInv'
  BY <1>4, ReleaserSafe
<1>5. ASSUME NEW e \in Erasers,
             \/ EraseLookup(e) \/ EraseAnswers(e) \/ EraseSubmission(e) \/ ErasePayloads(e)
             \/ CommitErase(e) \/ FailErase(e)
      PROVE  SessionInv'
  BY <1>5, EraserSafe
<1>6. CASE UNCHANGED vars
  <2>1. WellTyped'
    BY <1>6, WellTypedStep DEF SessionInv
  <2>2. QED
    BY <1>6, <2>1 DEF vars, SessionInv, LockHeldByOne, NothingBuffered, ReadsStillHold,
                      StatusTellsHistory, ReceiptsAgree, AnnouncedOnce
<1>7. QED
  BY <1>1, <1>2, <1>3, <1>4, <1>5, <1>6 DEF Next

\* The invariant holds throughout.
THEOREM SessionInvariant == Spec => []SessionInv
BY SessionInvInit, SessionInvStep, PTL DEF Spec

\* For every number of answer requests, submits, releases and erasures: what a
\* request read before it acts is still so when it acts.
THEOREM ReadsHold == Spec => []ReadsStillHold
<1>1. SessionInv => ReadsStillHold
  BY DEF SessionInv
<1>2. QED
  BY <1>1, SessionInvariant, PTL

\* A session still "created" holds no answer, and a "submitted" one has the
\* receipt the submit handler replays.
THEOREM StatusTruthful == Spec => []StatusTellsHistory
<1>1. SessionInv => StatusTellsHistory
  BY DEF SessionInv
<1>2. QED
  BY <1>1, SessionInvariant, PTL

\* However many submits race or are retried, all receipts are of one submission.
THEOREM OneReceipt == Spec => []ReceiptsAgree
<1>1. SessionInv => ReceiptsAgree
  BY DEF SessionInv
<1>2. QED
  BY <1>1, SessionInvariant, PTL

\* However many submits and releases race, a submission has one event, and a
\* withheld one has none.
THEOREM OneAnnouncement == Spec => []AnnouncedOnce
<1>1. SessionInv => AnnouncedOnce
  BY DEF SessionInv
<1>2. QED
  BY <1>1, SessionInvariant, PTL

\* Only the commit of a submit creates a submission, and only the commit of a
\* write appends rows.
LEMMA WhoWrites ==
    ASSUME SessionInv, [Next]_vars
    PROVE  /\ submission = None /\ submission' # None => \E s \in Submitters : CommitSubmit(s)
           /\ ledger' \subseteq ledger \/ \E w \in Writers : CommitWrite(w)
<1>1. ASSUME NEW s \in Submitters,
             ReplayReceipt(s) \/ LoadSubmit(s) \/ LockSubmitLost(s) \/ LockSubmit(s) \/ FailSubmit(s)
      PROVE  UNCHANGED <<ledger, submission>>
  BY <1>1 DEF ReplayReceipt, LoadSubmit, LockSubmitLost, LockSubmit, FailSubmit, db
<1>2. ASSUME NEW w \in Writers,
             \/ LoadActiveSession(w) \/ BeginWrite(w) \/ LockWrite(w)
             \/ SkipEntry(w) \/ ApplyEntry(w) \/ AbortWrite(w)
      PROVE  UNCHANGED <<ledger, submission>>
  BY <1>2 DEF LoadActiveSession, BeginWrite, LockWrite, SkipEntry, ApplyEntry, AbortWrite, db
<1>3. ASSUME NEW a \in Releasers, ReadSubmission(a) \/ ClearFlag(a)
      PROVE  ledger' = ledger /\ (submission = None => submission' = None)
  BY <1>3 DEF ReadSubmission, ClearFlag, ReleaserStep
<1>4. ASSUME NEW e \in Erasers,
             \/ EraseLookup(e) \/ EraseAnswers(e) \/ EraseSubmission(e) \/ ErasePayloads(e)
             \/ CommitErase(e) \/ FailErase(e)
      PROVE  ledger' \subseteq ledger /\ (submission = None => submission' = None)
  BY <1>4 DEF EraseLookup, EraseAnswers, EraseSubmission, ErasePayloads, CommitErase, FailErase
<1>5. ASSUME NEW s \in Submitters, CommitSubmit(s)
      PROVE  ledger' = ledger
  BY <1>5 DEF CommitSubmit, Seal
<1>6. ASSUME NEW w \in Writers, CommitWrite(w)
      PROVE  submission' = submission
  BY <1>6 DEF CommitWrite
<1>7. CASE ExpiryPasses \/ expireSessions \/ UNCHANGED vars
  BY <1>7 DEF ExpiryPasses, expireSessions, vars, db
<1>8. QED
  BY <1>1, <1>2, <1>3, <1>4, <1>5, <1>6, <1>7 DEF Next

\* What is sealed is what the ledger holds at the seal, and it passes the sweep.
THEOREM SealIsExact == Spec => SealsTheLedger
<1>1. SessionInv /\ [Next]_vars => [SealStep]_vars
  <2> SUFFICES ASSUME SessionInv, [Next]_vars, submission = None, submission' # None, ~tombstone
               PROVE  /\ Ready(latestAnswers(ledger))
                      /\ submission'.locked = LockedAnswers(latestAnswers(ledger))
    BY DEF SealStep
  <2>1. PICK s \in Submitters : CommitSubmit(s)
    BY WhoWrites
  <2>2. submitter[s].pc = "sealing" /\ Ready(submitter[s].answers)
    BY <2>1 DEF CommitSubmit
  <2>3. submitter[s].answers = latestAnswers(ledger)
    BY <2>2 DEF SessionInv, ReadsStillHold
  <2>4. submission'.locked = LockedAnswers(submitter[s].answers)
    BY <2>1, SealEffect
  <2>5. QED
    BY <2>2, <2>3, <2>4
<1>2. QED
  BY <1>1, SessionInvariant, PTL DEF Spec, SealsTheLedger

\* A row is appended only to a cell that is visible at its commit, whatever
\* other writes hid or showed while it waited.
THEOREM AppendsAreVisible == Spec => VisibleWhenAppended
<1>1. SessionInv /\ [Next]_vars => [AppendStep]_vars
  <2> SUFFICES ASSUME SessionInv, [Next]_vars, ~tombstone, NEW r \in ledger' \ ledger
               PROVE  r.cell \in Visible(latestAnswers(ledger))
    BY DEF AppendStep
  <2>1. PICK w \in Writers : CommitWrite(w)
    BY WhoWrites
  <2>2. writer[w].pc = "applying" /\ r \in writer[w].rows
    BY <2>1 DEF CommitWrite
  <2>3. QED
    BY <2>2 DEF SessionInv, ReadsStillHold
<1>2. QED
  BY <1>1, SessionInvariant, PTL DEF Spec, VisibleWhenAppended

-----------------------------------------------------------------------------
(* The session implements the submission contract.                         *)

\* A commit of a submit is the contract's seal.
LEMMA SealRefines ==
    ASSUME SessionInv, NEW s \in Submitters, CommitSubmit(s), ~tombstone
    PROVE  Contract!Seal
<1> DEFINE locked == LockedAnswers(submitter[s].answers)
           event == [by |-> s, locked |-> locked, redacted |-> FALSE]
<1>1. /\ submission = None /\ submission' # None /\ submission'.locked = locked
      /\ locked \in Answers /\ ~tombstone'
      /\ outbox' = IF submission'.flagged THEN outbox ELSE outbox \cup {event}
  BY SealEffect
<1>2. outbox = {}
  BY <1>1 DEF SessionInv, AnnouncedOnce
<1>3. event.by = s /\ event.locked = locked
  OBVIOUS
<1>4. outbox' \in {{}, {event}}
  BY <1>1, <1>2
<1> HIDE DEF locked, event
<1>5. outbox' = {} => {[by |-> x.by, content |-> x.locked] : x \in outbox'} = {}
  OBVIOUS
<1>6. outbox' = {event} =>
          {[by |-> x.by, content |-> x.locked] : x \in outbox'} = {[by |-> s, content |-> locked]}
  BY <1>3
<1>7. QED
  BY <1>1, <1>4, <1>5, <1>6 DEF Contract!Seal

\* A release is the contract's release, or announces nothing.
LEMMA ReleaseRefines ==
    ASSUME SessionInv, NEW a \in Releasers, ClearFlag(a), ~tombstone
    PROVE  Contract!Release \/ UNCHANGED Contract!vars
<1> DEFINE event == [by |-> a, locked |-> releaser[a].locked, redacted |-> FALSE]
<1>1. /\ \/ UNCHANGED <<submission, outbox>>
         \/ /\ submission # None /\ submission.flagged
            /\ submission' # None /\ ~submission'.flagged
            /\ submission'.locked = submission.locked
            /\ outbox' = outbox \cup {event}
      /\ releaser[a].pc = "read"
      /\ UNCHANGED tombstone
  BY ReleaseEffect
<1>2. CASE UNCHANGED <<submission, outbox>>
  BY <1>1, <1>2 DEF Contract!vars
<1>3. CASE /\ submission # None /\ submission.flagged
           /\ submission' # None /\ submission'.locked = submission.locked
           /\ outbox' = outbox \cup {event}
  <2>1. outbox = {} /\ releaser[a].locked = submission.locked
    BY <1>1, <1>3 DEF SessionInv, AnnouncedOnce, ReadsStillHold
  <2>2. {[by |-> x.by, content |-> x.locked] : x \in outbox'} =
            {[by |-> a, content |-> submission.locked]}
    BY <1>3, <2>1
  <2>3. {[by |-> x.by, content |-> x.locked] : x \in outbox} = {}
    BY <2>1
  <2>4. QED
    BY <1>1, <1>3, <2>2, <2>3 DEF Contract!Release
<1>4. QED
  BY <1>1, <1>2, <1>3

\* Every step of the session is a step of the contract or leaves it unchanged.
LEMMA StepRefines == SessionInv /\ [Next]_vars => [Contract!Next]_(Contract!vars)
<1> SUFFICES ASSUME SessionInv, [Next]_vars
             PROVE  Contract!Next \/ UNCHANGED Contract!vars
  OBVIOUS
<1>1. CASE UNCHANGED <<submission, outbox, tombstone>>
  BY <1>1 DEF Contract!vars
<1>2. CASE tombstone
  <2>1. tombstone'
    <3>1. ASSUME NEW s \in Submitters, CommitSubmit(s)
          PROVE  tombstone' = tombstone
      BY <3>1 DEF CommitSubmit, Seal
    <3>2. ASSUME NEW a \in Releasers, ReadSubmission(a) \/ ClearFlag(a)
          PROVE  tombstone' = tombstone
      BY <3>2 DEF ReadSubmission, ClearFlag, ReleaserStep
    <3>3. QED
      BY <1>2, <3>1, <3>2
         DEF Next, vars, db, ExpiryPasses, expireSessions, LoadActiveSession, BeginWrite, LockWrite,
             SkipEntry, ApplyEntry, AbortWrite, CommitWrite, ReplayReceipt, LoadSubmit,
             LockSubmitLost, LockSubmit, FailSubmit, EraseLookup, EraseAnswers,
             EraseSubmission, ErasePayloads, CommitErase, FailErase
  <2>2. QED
    BY <1>2, <2>1 DEF Contract!vars
<1>3. ASSUME ~tombstone, NEW s \in Submitters, CommitSubmit(s)
      PROVE  Contract!Next
  BY <1>3, SealRefines DEF Contract!Next
<1>4. ASSUME ~tombstone, NEW a \in Releasers, ClearFlag(a)
      PROVE  Contract!Next \/ UNCHANGED Contract!vars
  BY <1>4, ReleaseRefines DEF Contract!Next
<1>5. ASSUME ~tombstone, NEW e \in Erasers, CommitErase(e)
      PROVE  Contract!Next
  BY <1>5 DEF CommitErase, Contract!Next, Contract!Erase
<1>6. ASSUME NEW a \in Releasers, ReadSubmission(a)
      PROVE  UNCHANGED <<submission, outbox, tombstone>>
  BY <1>6 DEF ReadSubmission, ReleaserStep
<1>7. QED
  BY <1>1, <1>2, <1>3, <1>4, <1>5, <1>6
     DEF Next, vars, db, ExpiryPasses, expireSessions, LoadActiveSession, BeginWrite, LockWrite,
         SkipEntry, ApplyEntry, AbortWrite, CommitWrite, ReplayReceipt, LoadSubmit,
         LockSubmitLost, LockSubmit, FailSubmit, EraseLookup, EraseAnswers,
         EraseSubmission, ErasePayloads, FailErase

\* However many requests race, a session seals at most one content, which never
\* changes and is announced at most once, at the seal or at the release.
THEOREM SessionImplementsContract == Spec => ImplementsContract
<1>1. Init => Contract!Init
  BY DEF Init, Contract!Init
<1>2. QED
  BY <1>1, StepRefines, SessionInvariant, PTL DEF Spec, ImplementsContract, Contract!Spec
=============================================================================
