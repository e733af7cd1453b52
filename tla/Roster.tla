------------------------------- MODULE Roster -------------------------------
(***************************************************************************)
(* The repeating groups of one respondent session: the instances a serve   *)
(* or a count answer mints, those a respondent adds and removes, and the   *)
(* ones a submission seals.  Every transaction that touches them takes the *)
(* session's advisory lock; its rows carry the time it BEGAN, before its   *)
(* wait for the lock.                                                      *)
(*                                                                         *)
(* A random instance id is named here by the transaction that minted it    *)
(* and a number: distinct as in the code, ordered inside one transaction.  *)
(* The answers inside an instance, visibility and erasure are not part of  *)
(* this module.                                                            *)
(***************************************************************************)
EXTENDS Naturals, FiniteSets

CONSTANTS
    Requests,       \* requests of the session's client, its retries included
    Groups,         \* the form's repeating groups
    Count,          \* group.count of each group, as countBounds shapes it
    Steps,          \* for each step of the form, the groups on it
    Sizes,          \* the numbers a client answers the count question with
    Tokens,         \* the one-time tokens rendered with the roster forms
    None

RepeatCount == [source : {"fixed", "fromAnswer", "open"}, min : Nat, max : Nat]

\* What publishing accepts: a max, never below the min, and a fixed group's
\* bounds are both its count.
ASSUME CountAssumption ==
    /\ IsFiniteSet(Groups)
    /\ Count \in [Groups -> RepeatCount]
    /\ \A g \in Groups : /\ Count[g].max >= 1
                         /\ Count[g].min <= Count[g].max
                         /\ Count[g].source = "fixed" => Count[g].min = Count[g].max
ASSUME InputAssumption ==
    /\ Steps \subseteq SUBSET Groups
    /\ Sizes \subseteq Nat
    /\ None \notin Nat \cup Requests \cup Tokens
    /\ \A g \in Groups : None # g

VARIABLES
    rows,           \* committed rows of answer_group_instances
    size,           \* the count question's newest answer, and its answered_at
    sealed,         \* the submission: the live instances and the count it locks, or None
    lock,           \* the holder of pg_advisory_xact_lock(hashtext(sessionId))
    clock,          \* how many transactions have begun
    request         \* requests in flight

vars == <<rows, size, sealed, lock, clock, request>>

Row == [group : Groups, instance : Nat \X Nat, event : {"added", "removed"},
        token : Tokens \cup {None}, at : Nat]

-----------------------------------------------------------------------------
(* readRosters and liveInstances.                                          *)

added(rs, g) == {r \in rs : r.group = g /\ r.event = "added"}

\* Every instance ever minted, removed ones included.
minted(rs, g) == {r.instance : r \in added(rs, g)}

\* The added rows no later row of the same instance removes.
presentRows(rs, g) ==
    {r \in added(rs, g) : \A s \in rs :
        s.group = g /\ s.instance = r.instance /\ s.event = "removed" => s.at < r.at}

\* ORDER BY occurred_at, instance_id.
Before(r, s) == r.at < s.at \/ (r.at = s.at /\ r.instance[2] < s.instance[2])

\* The first n of some rows in that order.
First(rs, n) == {r.instance : r \in {r \in rs : Cardinality({s \in rs : Before(s, r)}) < n}}

\* Fault: the answer is only raised to the min.
clampBelow(n, min, max) == IF n < min THEN min ELSE n

clamp(n, min, max) == IF n < min THEN min ELSE IF n > max THEN max ELSE n

\* How many instances of a group that is not open are live: none before the
\* count question is answered.
liveInstanceLimit(g, answer) ==
    CASE Count[g].source = "fixed" -> Count[g].max
      [] Count[g].source # "fixed" /\ answer = None -> 0
      [] OTHER -> clamp(answer, Count[g].min, Count[g].max)

liveInstances(rs, g, answer) ==
    LET present == presentRows(rs, g)
    IN IF Count[g].source = "open" THEN {r.instance : r \in present}
       ELSE First(present, liveInstanceLimit(g, answer))

-----------------------------------------------------------------------------
(* Minting: mintDueAndLoadRosters.                                         *)

mintTarget(g, answer) ==
    IF Count[g].source = "open" THEN (IF Count[g].min > 1 THEN Count[g].min ELSE 1)
    ELSE liveInstanceLimit(g, answer)

addInstances(rs, g, n, token, at) ==
    LET last == Cardinality(minted(rs, g))
    IN {[group |-> g, instance |-> <<at, i>>, event |-> "added", token |-> token, at |-> at] :
            i \in (last + 1) .. (last + n)}

\* Fault: a removed instance is replaced.
shortfallOfLive(rs, g, answer) ==
    LET missing == mintTarget(g, answer) - Cardinality(liveInstances(rs, g, answer))
    IN IF missing > 0 THEN missing ELSE 0

\* Against the instances ever minted: a removed one is not replaced.
shortfall(rs, g, answer) ==
    LET missing == mintTarget(g, answer) - Cardinality(minted(rs, g))
    IN IF missing > 0 THEN missing ELSE 0

\* Fault: only the groups on the rendered step are minted.
dueOnStep(step) == step

\* The groups a response may have to draw: those on its step, and every one
\* whose size an answer gives.
due(step) == step \cup {g \in Groups : Count[g].source = "fromAnswer"}

\* Every transaction ends with projectWithRosters, which renders some step.
mintDue(rs, answer, step, at) ==
    rs \cup UNION {addInstances(rs, g, shortfall(rs, g, answer), None, at) : g \in due(step)}

-----------------------------------------------------------------------------
\* An id no session minted.
Unknown == <<0, 0>>

NoOp == [kind |-> "none", group |-> None, token |-> None, instance |-> Unknown, value |-> None]

sizeOp(v) == [NoOp EXCEPT !.kind = "size", !.value = v]
addOp(g, t) == [NoOp EXCEPT !.kind = "add", !.group = g, !.token = t]
removeOp(g, t, i) == [NoOp EXCEPT !.kind = "remove", !.group = g, !.token = t, !.instance = i]

Ops == {[NoOp EXCEPT !.kind = "serve"], [NoOp EXCEPT !.kind = "submit"]}
    \cup {sizeOp(v) : v \in Sizes \cup {None}}
    \cup {addOp(g, t) : g \in Groups, t \in Tokens}
    \cup {removeOp(g, t, i) : g \in Groups, t \in Tokens,
                             i \in {Unknown} \cup UNION {minted(rows, h) : h \in Groups}}

Idle == [pc |-> "idle", op |-> NoOp, at |-> 0, rows |-> {}, size |-> None]

Init ==
    /\ rows = {}
    /\ size = [value |-> None, at |-> 0]
    /\ sealed = None
    /\ lock = None
    /\ clock = 0
    /\ request = [q \in Requests |-> Idle]

\* A form is rendered with one token, so a token always comes with one
\* operation; a client names an instance it was shown, or one that never
\* existed.
Begin(q) ==
    /\ request[q].pc = "idle"
    /\ sealed = None
    /\ clock' = clock + 1
    /\ \E op \in Ops :
         /\ \A p \in Requests : op.token # None /\ request[p].op.token = op.token =>
                                    request[p].op = op
         /\ op.instance = Unknown \/ op.instance \in minted(rows, op.group)
         /\ request' = [request EXCEPT ![q] = [Idle EXCEPT !.pc = "begun", !.op = op,
                                                           !.at = clock + 1]]
    /\ UNCHANGED <<rows, size, sealed, lock>>

\* Fault: the advisory lock is not taken.
LockUnlocked(q) ==
    /\ request[q].pc = "begun"
    /\ request' = [request EXCEPT ![q].pc = "locked", ![q].rows = rows, ![q].size = size]
    /\ UNCHANGED <<rows, size, sealed, lock, clock>>

\* The lock is granted, and the answers and the rosters are read.
Lock(q) ==
    /\ request[q].pc = "begun"
    /\ lock = None
    /\ lock' = q
    /\ request' = [request EXCEPT ![q].pc = "locked", ![q].rows = rows, ![q].size = size]
    /\ UNCHANGED <<rows, size, sealed, clock>>

\* What request q read, and its operation.
At(q) == request[q].at
Op(q) == request[q].op
Holds(q, kind) == request[q].pc = "locked" /\ Op(q).kind = kind

\* The commit: the rows reach the others, and the lock is released.
Commit(q, rs, sz) ==
    /\ rows' = rows \cup (rs \ request[q].rows)
    /\ size' = sz
    /\ lock' = IF lock = q THEN None ELSE lock
    /\ request' = [request EXCEPT ![q] = [Idle EXCEPT !.pc = "done", !.op = Op(q)]]
    /\ UNCHANGED clock

\* makeGetStepHandler: the read that writes.
Serve(q, step) ==
    /\ Holds(q, "serve")
    /\ Commit(q, mintDue(request[q].rows, request[q].size.value, step, At(q)), size)
    /\ UNCHANGED sealed

\* Fault: the newest row is the one committed last.
answeredLast(old, value, at) ==
    IF value = None /\ old.value = None THEN old ELSE [value |-> value, at |-> at]

\* latestAnswers after the append: the newest row by answered_at decides.  A
\* clear of an unanswered question appends nothing.
answered(old, value, at) ==
    IF value = None /\ old.value = None THEN old
    ELSE IF at > old.at THEN [value |-> value, at |-> at] ELSE old

\* An answer to the count question: the append and the mint commit together.
Resize(q, step) ==
    /\ Holds(q, "size")
    /\ LET after == answered(request[q].size, Op(q).value, At(q))
       IN Commit(q, mintDue(request[q].rows, after.value, step, At(q)), after)
    /\ UNCHANGED sealed

\* Fault: a token already spent is spent again.
rosterOpAppliedNever(rs, token) == FALSE

rosterOpApplied(rs, token) == \E r \in rs : r.token = token

Accepts(q) ==
    LET g == Op(q).group
        read == request[q].rows
    IN /\ Count[g].source = "open"
       /\ IF Op(q).kind = "remove" THEN Op(q).instance \in minted(read, g)
          ELSE Cardinality(liveInstances(read, g, request[q].size.value)) < Count[g].max

\* The row the operation appends.
Effect(q) ==
    LET g == Op(q).group
    IN IF Op(q).kind = "add" THEN addInstances(request[q].rows, g, 1, Op(q).token, At(q))
       ELSE {[group |-> g, instance |-> Op(q).instance, event |-> "removed",
              token |-> Op(q).token, at |-> At(q)]}

\* applyRosterOp: the token is looked up before the group's own rules.
ReplayRosterOp(q, step) ==
    /\ Holds(q, "add") \/ Holds(q, "remove")
    /\ rosterOpApplied(request[q].rows, Op(q).token)
    /\ Commit(q, mintDue(request[q].rows, request[q].size.value, step, At(q)), size)
    /\ UNCHANGED sealed

RosterOp(q, step) ==
    /\ Holds(q, "add") \/ Holds(q, "remove")
    /\ ~rosterOpApplied(request[q].rows, Op(q).token)
    /\ Accepts(q)
    /\ Commit(q, mintDue(request[q].rows \cup Effect(q), request[q].size.value, step, At(q)), size)
    /\ UNCHANGED sealed

Live(q) == [g \in Groups |-> liveInstances(request[q].rows, g, request[q].size.value)]

\* Fault: the counts are not checked at submit.
checkRepeatCountsNone(live) == TRUE

checkRepeatCounts(live) ==
    \A g \in Groups : Cardinality(live[g]) \in Count[g].min .. Count[g].max

\* A submit that finds the session submitted answers with the stored receipt.
Submit(q) ==
    /\ Holds(q, "submit")
    /\ sealed # None \/ checkRepeatCounts(Live(q))
    /\ sealed' = IF sealed # None THEN sealed
                 ELSE [live |-> Live(q), count |-> request[q].size.value]
    /\ Commit(q, request[q].rows, size)

\* Fault: the lock outlives the transaction.
AbortHolding(q) ==
    /\ request[q].pc = "locked"
    /\ request' = [request EXCEPT ![q] = [Idle EXCEPT !.pc = "failed", !.op = Op(q)]]
    /\ UNCHANGED <<rows, size, sealed, lock, clock>>

\* A refusal or a lost connection: the transaction rolls back.  (One lost before
\* the lock is a request that never gets it.)
Abort(q) ==
    /\ request[q].pc = "locked"
    /\ lock' = IF lock = q THEN None ELSE lock
    /\ request' = [request EXCEPT ![q] = [Idle EXCEPT !.pc = "failed", !.op = Op(q)]]
    /\ UNCHANGED <<rows, size, sealed, clock>>

Next ==
    \E q \in Requests :
        \/ Begin(q) \/ Lock(q) \/ Submit(q) \/ Abort(q)
        \/ \E step \in Steps \cup {{}} :
             Serve(q, step) \/ Resize(q, step) \/ ReplayRosterOp(q, step) \/ RosterOp(q, step)

Spec == Init /\ [][Next]_vars

-----------------------------------------------------------------------------
\* The shape of the state; only a request in its transaction holds the lock.
TypeOK ==
    /\ rows \subseteq Row
    /\ size \in [value : Sizes \cup {None}, at : Nat]
    /\ sealed = None \/ sealed.count \in Sizes \cup {None}
    /\ clock \in Nat
    /\ lock # None => request[lock].pc = "locked"
    /\ \A q \in Requests : request[q].pc \in {"idle", "begun", "locked", "done", "failed"}

\* Two simultaneous Adds, or an Add and a mint, never take a group past the
\* maximum its author declared (the check in applyRosterOp is made on a roster
\* read earlier).
WithinMax ==
    \A g \in Groups : Cardinality(liveInstances(rows, g, size.value)) <= Count[g].max

\* Concurrent serves mint one set between them, and a removed instance is never
\* replaced: the instances no Add accounts for are at most what the group opens
\* with.
MintedOnce ==
    \A g \in Groups :
        Cardinality({r \in added(rows, g) : r.token = None}) <=
            IF Count[g].source = "open" THEN mintTarget(g, None) ELSE Count[g].max

\* However often a roster form is posted, its token changes the roster once, and
\* a client that was told its post succeeded finds that change in the ledger.
OneEffectPerToken ==
    /\ \A r, s \in rows : r.token # None /\ r.token = s.token => r = s
    /\ \A q \in Requests : request[q].pc = "done" /\ Op(q).token # None =>
                               \E r \in rows : r.token = Op(q).token

\* Whenever the count question has an answer others can read, the instances it
\* asks for exist: the answer and the mint become visible together, in whatever
\* order answer writes and serves get the lock.
SizedAsAnswered ==
    \A g \in Groups : Count[g].source = "fromAnswer" =>
        Cardinality(liveInstances(rows, g, size.value)) = liveInstanceLimit(g, size.value)

\* What is sealed is a roster submit may accept, and a group sized by an answer
\* is sealed at the size of the answer sealed with it.
SealedInRange ==
    sealed # None =>
        \A g \in Groups :
            /\ Cardinality(sealed.live[g]) \in Count[g].min .. Count[g].max
            /\ Count[g].source = "fromAnswer" =>
                 Cardinality(sealed.live[g]) = liveInstanceLimit(g, sealed.count)

\* A count lowered and raised again re-lives the instances it had, and their
\* answers with them: later mints never displace one of the first n, although
\* they are ordered by when their transaction began and not by when it won the
\* lock.
RelivesTheSame ==
    [][\A g \in Groups : Count[g].source = "fromAnswer" =>
           \A n \in 1 .. Cardinality(added(rows, g)) :
               First(added(rows', g), n) = First(added(rows, g), n)]_vars

openGroups == {g \in Groups : Count[g].source = "open"}
sizedGroups == Groups \ openGroups

Made == [g \in openGroups |-> minted(rows, g)]
Listed == [g \in openGroups |-> {r.instance : r \in presentRows(rows, g)}]
Shown ==
    [g \in sizedGroups |->
        [n \in 0 .. Cardinality(added(rows, g)) |-> First(added(rows, g), n)]]

Contract == INSTANCE RosterContract WITH
    Open <- openGroups,
    Sized <- sizedGroups,
    made <- Made,
    listed <- Listed,
    shown <- Shown,
    answer <- size.value,
    spent <- {r.token : r \in rows} \ {None}

\* However the transactions race for the lock, and whatever was read before it,
\* the rosters change as if each were handled alone: one that is replayed, or
\* late, changes nothing; a removed instance stays removed, with none in its
\* place; and what a submit seals is what was there.
ImplementsRoster == Contract!Spec
=============================================================================
