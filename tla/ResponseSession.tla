-------------------------- MODULE ResponseSession --------------------------
(***************************************************************************)
(* One respondent session, from its first answer to its erasure, as the    *)
(* API's request handlers and the retention sweep drive it against         *)
(* PostgreSQL.  Every transaction runs at READ COMMITTED: a statement sees *)
(* what was committed when it started, and a transaction's own writes      *)
(* reach the others at its commit.  The advisory lock on the session id is *)
(* taken by answer writes and submissions and by nobody else.              *)
(*                                                                         *)
(* The form has no repeating group, so a serve writes nothing.  Rule       *)
(* evaluation is the operator Visible, answer validation the distinction   *)
(* between Values and BadInput.                                            *)
(***************************************************************************)
EXTENDS Naturals, Sequences

CONSTANTS
    Writers,        \* answer requests: POST answers and POST answers/batch
    Submitters,     \* submit requests, a client's retries included
    Releasers,      \* admin requests that release a flagged submission
    Erasers,        \* admin requests that erase the session
    Cells,          \* the (question, instance) pairs the form pins
    Required,       \* the cells whose question is required
    Values,         \* canonical answer values
    BadInput,       \* a posted value validateAnswer refuses
    Clear,          \* the literal null a client posts to clear a cell
    Unanswered,     \* the absence of an answer
    Ids,            \* the order of random row ids, used to break timestamp ties
    Posts,          \* the request bodies writers may post
    Visible(_),     \* the cells evaluateRules shows, given the current answers
    None            \* no row, no holder

Input == Values \cup {BadInput, Clear}
Answers == [Cells -> Values \cup {Unanswered}]
Row == [cell : Cells, value : Values \cup {Clear}, at : Nat, id : Ids]

ASSUME CellAssumption == Required \subseteq Cells
ASSUME ValueAssumption ==
    /\ BadInput \notin Values /\ Clear \notin Values /\ Unanswered \notin Values
    /\ Clear # BadInput
ASSUME PostAssumption ==
    \A p \in Posts : /\ p.kind \in {"single", "batch"}
                     /\ p.entries \in Seq([cell : Cells, value : Input])
                     /\ p.kind = "single" => Len(p.entries) = 1
ASSUME VisibleAssumption == \A a \in Answers : Visible(a) \in SUBSET Cells
ASSUME ProcessAssumption ==
    /\ None \notin Writers \cup Submitters \cup Answers \cup Posts
    /\ None \notin [locked : Answers, flagged : BOOLEAN]
    /\ Writers \cap Submitters = {}
    /\ Submitters \cap Releasers = {}

VARIABLES
    \* the database
    status,         \* sessions.status
    ledger,         \* committed rows of answers
    submission,     \* the submissions row, or None
    outbox,         \* response.submitted events: who enqueued them and what they carry
    tombstone,      \* whether erasure_tombstones has the session's row
    lock,           \* the holder of pg_advisory_xact_lock(hashtext(sessionId))
    \* time
    lapsed,         \* whether expires_at has passed
    clock,          \* how many answer transactions have begun
    \* requests in flight
    writer, submitter, releaser, eraser

db == <<status, ledger, submission, outbox, tombstone>>
vars == <<status, ledger, submission, outbox, tombstone, lock, lapsed, clock,
          writer, submitter, releaser, eraser>>

-----------------------------------------------------------------------------
(* The ledger read as current answers: latestAnswers.                      *)

Later(r, s) == r.at > s.at \/ (r.at = s.at /\ r.id > s.id)

\* Fault: the retraction filter is forgotten.
DecidingUnfiltered(rows, c) ==
    {r \in rows : r.cell = c /\ \A s \in rows : s.cell = c => ~Later(s, r)}

\* The row that decides a cell is the newest by (answered_at, id), and a
\* retraction leaves the cell unanswered.
Deciding(rows, c) ==
    {r \in rows : /\ r.cell = c /\ r.value # Clear
                  /\ \A s \in rows : s.cell = c => ~Later(s, r)}

latestAnswers(rows) ==
    [c \in Cells |-> IF Deciding(rows, c) = {} THEN Unanswered
                     ELSE (CHOOSE r \in Deciding(rows, c) : TRUE).value]

(* prepareSubmission: the sweep over visible cells, and the locked set.    *)
Ready(answers) == \A c \in Visible(answers) \cap Required : answers[c] # Unanswered

LockedAnswers(answers) ==
    [c \in Cells |-> IF c \in Visible(answers) THEN answers[c] ELSE Unanswered]

-----------------------------------------------------------------------------
IdleWriter == [pc |-> "idle", post |-> None, next |-> 1, at |-> 0,
               before |-> None, visible |-> {}, rows |-> {}]
IdleSubmitter == [pc |-> "idle", flagged |-> FALSE, answers |-> None, receipt |-> None]
IdleReleaser == [pc |-> "idle", locked |-> None]
IdleEraser == [pc |-> "idle", rows |-> {}, sealed |-> FALSE, events |-> {}]

Init ==
    /\ status = "created"
    /\ ledger = {}
    /\ submission = None
    /\ outbox = {}
    /\ tombstone = FALSE
    /\ lock = None
    /\ lapsed = FALSE
    /\ clock = 0
    /\ writer = [w \in Writers |-> IdleWriter]
    /\ submitter = [s \in Submitters |-> IdleSubmitter]
    /\ releaser = [a \in Releasers |-> IdleReleaser]
    /\ eraser = [e \in Erasers |-> IdleEraser]

-----------------------------------------------------------------------------
(* Time and the retention sweep.                                           *)

ExpiryPasses ==
    /\ ~lapsed
    /\ lapsed' = TRUE
    /\ UNCHANGED <<db, lock, clock, writer, submitter, releaser, eraser>>

\* One UPDATE over every non-terminal session past its expiry.  It takes no
\* advisory lock, and waits only for the row a write has marked in progress.
expireSessions ==
    /\ lapsed
    /\ status \in {"created", "in_progress"}
    /\ \A w \in Writers : writer[w].rows = {}
    /\ status' = "expired"
    /\ UNCHANGED <<ledger, submission, outbox, tombstone, lock, lapsed, clock,
                   writer, submitter, releaser, eraser>>

-----------------------------------------------------------------------------
(* Answer writes: makeSubmitAnswerHandler and makeBatchAnswersHandler.     *)

\* Other than w's record, what an unfinished write leaves alone.
WriterStep(w, r) ==
    /\ writer' = [writer EXCEPT ![w] = r]
    /\ UNCHANGED <<lapsed, submitter, releaser, eraser>>

\* loadActiveSession reads the session row before the transaction begins and
\* outside the lock.
LoadActiveSession(w) ==
    /\ writer[w].pc = "idle"
    /\ status \notin {"submitted", "expired"}
    /\ ~lapsed
    /\ \E p \in Posts : WriterStep(w, [writer[w] EXCEPT !.pc = "loaded", !.post = p])
    /\ UNCHANGED <<db, lock, clock>>

\* answered_at defaults to now(), which is when the transaction began: before
\* the wait for the lock.
BeginWrite(w) ==
    /\ writer[w].pc = "loaded"
    /\ clock' = clock + 1
    /\ WriterStep(w, [writer[w] EXCEPT !.pc = "begun", !.at = clock + 1])
    /\ UNCHANGED <<db, lock>>

\* Fault: the write does not take the lock.
LockWriteUnlocked(w) ==
    /\ writer[w].pc = "begun"
    /\ LET before == latestAnswers(ledger)
       IN WriterStep(w, [writer[w] EXCEPT !.pc = "applying", !.before = before,
                                          !.visible = Visible(before)])
    /\ UNCHANGED <<db, lock, clock>>

\* The lock is granted; the answers are read and the flow is evaluated once.
\* The session row is not read again.
LockWrite(w) ==
    /\ writer[w].pc = "begun"
    /\ lock = None
    /\ lock' = w
    /\ LET before == latestAnswers(ledger)
       IN WriterStep(w, [writer[w] EXCEPT !.pc = "applying", !.before = before,
                                          !.visible = Visible(before)])
    /\ UNCHANGED <<db, clock>>

Entry(w) == writer[w].post.entries[writer[w].next]
Pending(w) == writer[w].pc = "applying" /\ writer[w].next <= Len(writer[w].post.entries)
Refused(w) == Entry(w).cell \notin writer[w].visible \/ Entry(w).value = BadInput
Redundant(w) == Entry(w).value = Clear /\ writer[w].before[Entry(w).cell] = Unanswered

\* Whether applying the entry appends no row: a refused entry of a batch is
\* reported and skipped, and clearing an unanswered cell is a no-op.
Skips(w) == IF Refused(w) THEN writer[w].post.kind = "batch" ELSE Redundant(w)

\* The answers are read again before the next entry.
SkipEntry(w) ==
    /\ Pending(w)
    /\ Skips(w)
    /\ WriterStep(w, [writer[w] EXCEPT !.next = @ + 1,
                          !.before = IF Refused(w) THEN @
                                     ELSE latestAnswers(ledger \cup writer[w].rows)])
    /\ UNCHANGED <<db, lock, clock>>

\* appendAnswer or retractAnswer: rows of one transaction share answered_at,
\* and their ids are random.
ApplyEntry(w) ==
    /\ Pending(w)
    /\ ~Refused(w) /\ ~Redundant(w)
    /\ \E id \in Ids \ {r.id : r \in writer[w].rows} :
         LET rows == writer[w].rows \cup {[cell |-> Entry(w).cell, value |-> Entry(w).value,
                                           at |-> writer[w].at, id |-> id]}
         IN WriterStep(w, [writer[w] EXCEPT !.next = @ + 1, !.rows = rows,
                               !.before = latestAnswers(ledger \cup rows)])
    /\ UNCHANGED <<db, lock, clock>>

\* A single write that is refused throws, which rolls its transaction back.
\* So does a crash or a lost connection at any point before the commit.
AbortWrite(w) ==
    /\ writer[w].pc \in {"loaded", "begun", "applying"}
    /\ lock' = IF lock = w THEN None ELSE lock
    /\ WriterStep(w, [IdleWriter EXCEPT !.pc = "done"])
    /\ UNCHANGED <<db, clock>>

\* Fault: markInProgress is not called.
CommitWriteUnmarked(w) ==
    /\ writer[w].pc = "applying"
    /\ ~Pending(w)
    /\ ledger' = ledger \cup writer[w].rows
    /\ lock' = None
    /\ WriterStep(w, [IdleWriter EXCEPT !.pc = "done"])
    /\ UNCHANGED <<status, submission, outbox, tombstone, clock>>

\* markInProgress followed the appends: it sets the status whatever it was.
CommitWrite(w) ==
    /\ writer[w].pc = "applying"
    /\ ~Pending(w)
    /\ ledger' = ledger \cup writer[w].rows
    /\ status' = IF writer[w].rows = {} THEN status ELSE "in_progress"
    /\ lock' = None
    /\ WriterStep(w, [IdleWriter EXCEPT !.pc = "done"])
    /\ UNCHANGED <<submission, outbox, tombstone, clock>>

-----------------------------------------------------------------------------
(* makeSubmitHandler.                                                      *)

SubmitterStep(s, r) ==
    /\ submitter' = [submitter EXCEPT ![s] = r]
    /\ UNCHANGED <<lapsed, clock, writer, releaser, eraser>>

\* The existing receipt, or the error thrown when the row is missing.
Answered(s) ==
    [submitter[s] EXCEPT !.pc = IF submission = None THEN "failed" ELSE "done",
                         !.receipt = IF submission = None THEN None ELSE submission.locked]

ReplayReceipt(s) ==
    /\ submitter[s].pc = "idle"
    /\ status = "submitted"
    /\ SubmitterStep(s, Answered(s))
    /\ UNCHANGED <<db, lock>>

\* detectAbuse decides on the request body and the age of the session.
LoadSubmit(s) ==
    /\ submitter[s].pc = "idle"
    /\ status = "in_progress"
    /\ ~lapsed
    /\ \E flagged \in BOOLEAN :
         SubmitterStep(s, [submitter[s] EXCEPT !.pc = "loaded", !.flagged = flagged])
    /\ UNCHANGED <<db, lock>>

\* Re-checked under the lock: a concurrent submit may have won, and then this
\* transaction ends at once.
LockSubmitLost(s) ==
    /\ submitter[s].pc = "loaded"
    /\ lock = None
    /\ status = "submitted"
    /\ SubmitterStep(s, Answered(s))
    /\ UNCHANGED <<db, lock>>

\* Fault: the submit does not take the lock.
LockSubmitUnlocked(s) ==
    /\ submitter[s].pc = "loaded"
    /\ status # "submitted"
    /\ SubmitterStep(s, [submitter[s] EXCEPT !.pc = "sealing", !.answers = latestAnswers(ledger)])
    /\ UNCHANGED <<db, lock>>

LockSubmit(s) ==
    /\ submitter[s].pc = "loaded"
    /\ lock = None
    /\ status # "submitted"
    /\ lock' = s
    /\ SubmitterStep(s, [submitter[s] EXCEPT !.pc = "sealing", !.answers = latestAnswers(ledger)])
    /\ UNCHANGED db

\* A row an uncommitted erasure has deleted makes other writers of it wait.
SubmissionRowFree == submission = None \/ \A e \in Erasers : ~eraser[e].sealed

\* insertSubmission, markSubmitted and, when the event is not withheld, enqueue.
Seal(s, announce) ==
    LET locked == LockedAnswers(submitter[s].answers)
    IN /\ submission' = [locked |-> locked, flagged |-> submitter[s].flagged]
       /\ outbox' = IF announce
                    THEN outbox \cup {[by |-> s, locked |-> locked, redacted |-> FALSE]}
                    ELSE outbox
       /\ status' = "submitted"
       /\ lock' = None
       /\ SubmitterStep(s, [submitter[s] EXCEPT !.pc = "done", !.answers = None,
                                                !.receipt = locked])
       /\ UNCHANGED <<ledger, tombstone>>

\* Fault: the submission row is overwritten when it exists.
CommitSubmitUpsert(s) ==
    /\ submitter[s].pc = "sealing"
    /\ Ready(submitter[s].answers)
    /\ Seal(s, ~submitter[s].flagged)

\* Fault: a flagged submission is announced as well.
CommitSubmitUnwithheld(s) ==
    /\ submitter[s].pc = "sealing"
    /\ Ready(submitter[s].answers)
    /\ submission = None
    /\ Seal(s, TRUE)

\* The primary key on the session id makes a second insert fail, and a flagged
\* submission is withheld from the webhooks.
CommitSubmit(s) ==
    /\ submitter[s].pc = "sealing"
    /\ Ready(submitter[s].answers)
    /\ submission = None
    /\ Seal(s, ~submitter[s].flagged)

\* 422 when the sweep finds errors, 500 on the key violation; or a crash.
\* Each rolls the transaction back.
FailSubmit(s) ==
    /\ \/ submitter[s].pc = "loaded"
       \/ submitter[s].pc = "sealing" /\ SubmissionRowFree
    /\ lock' = IF lock = s THEN None ELSE lock
    /\ SubmitterStep(s, [submitter[s] EXCEPT !.pc = "failed", !.answers = None])
    /\ UNCHANGED db

-----------------------------------------------------------------------------
(* makeUnflagHandler.                                                      *)

ReleaserStep(a, r) ==
    /\ releaser' = [releaser EXCEPT ![a] = r]
    /\ UNCHANGED <<status, ledger, tombstone, lock, lapsed, clock, writer, submitter, eraser>>

\* The locked answers the event will carry are read before the transaction.
ReadSubmission(a) ==
    /\ releaser[a].pc = "idle"
    /\ submission # None
    /\ ReleaserStep(a, [pc |-> "read", locked |-> submission.locked])
    /\ UNCHANGED <<submission, outbox>>

\* Fault: the event is enqueued whether or not this caller flipped the flag.
ClearFlagUnconditional(a) ==
    /\ releaser[a].pc = "read"
    /\ SubmissionRowFree
    /\ submission' = IF submission = None THEN None ELSE [submission EXCEPT !.flagged = FALSE]
    /\ outbox' = outbox \cup {[by |-> a, locked |-> releaser[a].locked, redacted |-> FALSE]}
    /\ ReleaserStep(a, [IdleReleaser EXCEPT !.pc = "done"])

\* clearSubmissionFlag is a compare-and-set, and only the caller that flips
\* the flag enqueues.
ClearFlag(a) ==
    /\ releaser[a].pc = "read"
    /\ SubmissionRowFree
    /\ IF submission # None /\ submission.flagged
       THEN /\ submission' = [submission EXCEPT !.flagged = FALSE]
            /\ outbox' = outbox \cup {[by |-> a, locked |-> releaser[a].locked, redacted |-> FALSE]}
       ELSE UNCHANGED <<submission, outbox>>
    /\ ReleaserStep(a, [IdleReleaser EXCEPT !.pc = "done"])

-----------------------------------------------------------------------------
(* eraseSession: one transaction of six statements, without the advisory   *)
(* lock.  The session row is read and not written.                         *)

EraserStep(e, r) ==
    /\ eraser' = [eraser EXCEPT ![e] = r]
    /\ UNCHANGED <<status, lock, lapsed, clock, writer, submitter, releaser>>

EraseLookup(e) ==
    /\ eraser[e].pc = "idle"
    /\ EraserStep(e, [eraser[e] EXCEPT !.pc = IF tombstone THEN "done" ELSE "found"])
    /\ UNCHANGED <<ledger, submission, outbox, tombstone>>

\* A delete removes the rows committed when it runs; rows another erasure is
\* deleting make it wait.
EraseAnswers(e) ==
    /\ eraser[e].pc = "found"
    /\ \A f \in Erasers : eraser[f].rows \cap ledger = {}
    /\ EraserStep(e, [eraser[e] EXCEPT !.pc = "answersDeleted", !.rows = ledger])
    /\ UNCHANGED <<ledger, submission, outbox, tombstone>>

EraseSubmission(e) ==
    /\ eraser[e].pc = "answersDeleted"
    /\ SubmissionRowFree
    /\ EraserStep(e, [eraser[e] EXCEPT !.pc = "submissionDeleted", !.sealed = submission # None])
    /\ UNCHANGED <<ledger, submission, outbox, tombstone>>

\* redactOutboxPayloads reaches the events committed by now.
ErasePayloads(e) ==
    /\ eraser[e].pc = "submissionDeleted"
    /\ EraserStep(e, [eraser[e] EXCEPT !.pc = "payloadsRedacted", !.events = {x.by : x \in outbox}])
    /\ UNCHANGED <<ledger, submission, outbox, tombstone>>

Redact(events) ==
    {[x EXCEPT !.redacted = @ \/ x.by \in events] : x \in outbox}

\* The tombstone is inserted last; its key makes a second erasure fail.
CommitErase(e) ==
    /\ eraser[e].pc = "payloadsRedacted"
    /\ ~tombstone
    /\ tombstone' = TRUE
    /\ ledger' = ledger \ eraser[e].rows
    /\ submission' = IF eraser[e].sealed THEN None ELSE submission
    /\ outbox' = Redact(eraser[e].events)
    /\ EraserStep(e, [IdleEraser EXCEPT !.pc = "done"])

\* The key violation, or a crash between two statements: nothing was erased.
FailErase(e) ==
    /\ eraser[e].pc \in {"found", "answersDeleted", "submissionDeleted", "payloadsRedacted"}
    /\ EraserStep(e, [IdleEraser EXCEPT !.pc = "done"])
    /\ UNCHANGED <<ledger, submission, outbox, tombstone>>

-----------------------------------------------------------------------------
Next ==
    \/ ExpiryPasses
    \/ expireSessions
    \/ \E w \in Writers :
         \/ LoadActiveSession(w) \/ BeginWrite(w) \/ LockWrite(w)
         \/ SkipEntry(w) \/ ApplyEntry(w) \/ AbortWrite(w) \/ CommitWrite(w)
    \/ \E s \in Submitters :
         \/ ReplayReceipt(s) \/ LoadSubmit(s) \/ LockSubmitLost(s) \/ LockSubmit(s)
         \/ CommitSubmit(s) \/ FailSubmit(s)
    \/ \E a \in Releasers : ReadSubmission(a) \/ ClearFlag(a)
    \/ \E e \in Erasers :
         \/ EraseLookup(e) \/ EraseAnswers(e) \/ EraseSubmission(e) \/ ErasePayloads(e)
         \/ CommitErase(e) \/ FailErase(e)

Spec == Init /\ [][Next]_vars

\* Erasure of a session nobody is answering any more: no answer write or submit
\* is in flight when an erasure starts, and none starts afterwards.  Releases of
\* a flagged submission still race with it.
Resting(procs) == \A p \in DOMAIN procs : procs[p].pc \in {"idle", "done", "failed"}
QuietErasure ==
    /\ (\E e \in Erasers : eraser[e].pc = "idle" /\ eraser'[e].pc # "idle") =>
           Resting(writer) /\ Resting(submitter)
    /\ (\E e \in Erasers : eraser[e].pc # "idle") => UNCHANGED <<writer, submitter>>
QuietSpec == Init /\ [][Next /\ QuietErasure]_vars

-----------------------------------------------------------------------------
(* Properties.                                                             *)

Event == [by : Submitters \cup Releasers, locked : Answers, redacted : BOOLEAN]
Submission == [locked : Answers, flagged : BOOLEAN]

WriterRec ==
    [pc : {"idle", "loaded", "begun", "applying", "done"}, post : Posts \cup {None},
     next : Nat \ {0}, at : Nat, before : Answers \cup {None}, visible : SUBSET Cells,
     rows : SUBSET Row]
SubmitterRec ==
    [pc : {"idle", "loaded", "sealing", "done", "failed"}, flagged : BOOLEAN,
     answers : Answers \cup {None}, receipt : Answers \cup {None}]
ReleaserRec == [pc : {"idle", "read", "done"}, locked : Answers \cup {None}]
EraserRec ==
    [pc : {"idle", "found", "answersDeleted", "submissionDeleted", "payloadsRedacted", "done"},
     rows : SUBSET Row, sealed : BOOLEAN, events : SUBSET (Submitters \cup Releasers)]

\* Type invariant.
TypeOK ==
    /\ status \in {"created", "in_progress", "submitted", "expired"}
    /\ ledger \in SUBSET Row
    /\ submission \in Submission \cup {None}
    /\ outbox \in SUBSET Event
    /\ tombstone \in BOOLEAN
    /\ lock \in Writers \cup Submitters \cup {None}
    /\ lapsed \in BOOLEAN
    /\ clock \in Nat
    /\ writer \in [Writers -> WriterRec]
    /\ submitter \in [Submitters -> SubmitterRec]
    /\ releaser \in [Releasers -> ReleaserRec]
    /\ eraser \in [Erasers -> EraserRec]

\* The status column tells what happened to the session: "created" means no
\* answer was ever appended (the submit handler refuses on it), and, until an
\* erasure, "submitted" means there is a receipt to replay (the submit handler
\* throws without one).
StatusTellsHistory ==
    /\ status = "created" => ledger = {} /\ submission = None
    /\ status = "submitted" /\ ~tombstone => submission # None

\* However often a client submits or retries, and whoever wins, every receipt
\* it is given describes the one submission that was sealed.
ReceiptsAgree ==
    ~tombstone => \A s \in Submitters :
        submitter[s].receipt # None => /\ submission # None
                                       /\ submitter[s].receipt = submission.locked

\* One submission means one outbox event, carrying the locked answers and no
\* other; a flagged one has none until exactly one release enqueues it, however
\* many releases run at once.
AnnouncedOnce ==
    ~tombstone =>
        IF submission = None \/ submission.flagged THEN outbox = {}
        ELSE \E by \in Submitters \cup Releasers :
               outbox = {[by |-> by, locked |-> submission.locked, redacted |-> FALSE]}

\* What a request has read is still so when it acts on it: the flow a writer
\* evaluated and the answers a submit seals, because every writer of answers
\* takes the lock; the content a release will announce, read outside its
\* transaction, because a submission is never replaced.
ReadsStillHold ==
    ~tombstone =>
        /\ \A w \in Writers : writer[w].pc = "applying" =>
               /\ writer[w].visible = Visible(latestAnswers(ledger))
               /\ \A r \in writer[w].rows : r.cell \in writer[w].visible
        /\ \A s \in Submitters : submitter[s].pc = "sealing" =>
               submitter[s].answers = latestAnswers(ledger)
        /\ \A a \in Releasers : releaser[a].pc = "read" =>
               submission # None /\ releaser[a].locked = submission.locked

\* The answers sealed are the answers the ledger holds at that moment, and they
\* pass the sweep: no answer write commits between the read and the seal.
SealStep ==
    submission = None /\ submission' # None /\ ~tombstone =>
        /\ Ready(latestAnswers(ledger))
        /\ submission'.locked = LockedAnswers(latestAnswers(ledger))
SealsTheLedger == [][SealStep]_vars

\* A row is appended only to a cell that is visible given the answers it is
\* appended to, whatever the writes that raced with it hid or showed (I6).
AppendStep ==
    ~tombstone => \A r \in ledger' \ ledger : r.cell \in Visible(latestAnswers(ledger))
VisibleWhenAppended == [][AppendStep]_vars

\* A session implements the submission contract.
Contract == INSTANCE SubmissionContract WITH
    Contents <- Answers,
    Announcers <- Submitters \cup Releasers,
    NoContent <- None,
    phase <- IF tombstone THEN "erased" ELSE IF submission = None THEN "open" ELSE "sealed",
    sealed <- IF tombstone \/ submission = None THEN None ELSE submission.locked,
    announced <- IF tombstone THEN {}
                 ELSE {[by |-> x.by, content |-> x.locked] : x \in outbox}
ImplementsContract == Contract!Spec

\* An erased session holds no respondent content: no answer, no submission and
\* no event that still carries answers (I11).
ErasedHoldsNoContent ==
    tombstone => ledger = {} /\ submission = None /\ \A x \in outbox : x.redacted

\* While a submission stands, the ledger and the sealed content describe the
\* same answers: submission locks the answer set.
SealedLedgerAgrees ==
    submission # None /\ ~tombstone =>
        LockedAnswers(latestAnswers(ledger)) = submission.locked

\* Of two writes to a cell, the one that was serialized last is the cell's
\* current answer.
LastWriteStep ==
    \A w \in Writers :
        (/\ writer[w].pc = "applying" /\ writer'[w].pc = "done"
         /\ writer[w].rows # {} /\ writer[w].rows \subseteq ledger'
         /\ writer[w].post.kind = "single") =>
            \A r \in writer[w].rows :
                latestAnswers(ledger')[r.cell] = IF r.value = Clear THEN Unanswered ELSE r.value
LastWriteWins == [][LastWriteStep]_vars
=============================================================================
