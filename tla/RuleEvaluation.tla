--------------------------- MODULE RuleEvaluation ---------------------------
(***************************************************************************)
(* The visibility rules of a form: which sets of rules analyzeRuleGraph    *)
(* lets a publish freeze, and the single forward pass by which             *)
(* evaluateRules then decides, over the answers and rosters so far, what   *)
(* the respondent sees.  A comparison of an answer is the set of values it *)
(* accepts; the types of the compared values are checked at publish and    *)
(* left out, and so are the bounds on what an evaluation costs.            *)
(***************************************************************************)
EXTENDS Naturals, Sequences, FiniteSets, SequencesExt

CONSTANTS
    Document,       \* documentOrder(form): <<[step, question, group], ...>>
    PagedGroups,    \* the groups presented one instance per step
    Values,
    Conditions,     \* closed under the conditions a condition holds
    RuleSets,       \* the sets of rules an author may try to publish
    MaxInstances,   \* bound on the instances minted
    None

ASSUME DocumentAssumption ==
    /\ Document \in Seq(ToSet(Document))
    /\ \A i, j \in DOMAIN Document :
         Document[i].question = Document[j].question => i = j
    /\ \A i, j, n \in DOMAIN Document : i < n /\ n < j =>
         /\ Document[i].step = Document[j].step => Document[n].step = Document[i].step
         /\ Document[i].group = Document[j].group /\ Document[i].group # None
              => Document[n].group = Document[i].group
    /\ None \notin Values \cup Nat \cup PagedGroups /\ MaxInstances \in Nat

Positions == DOMAIN Document
Questions == {Document[n].question : n \in Positions}
Steps == {Document[n].step : n \in Positions}
Groups == {Document[n].group : n \in Positions} \ {None}
Instances == 1 .. MaxInstances

\* A condition is a tree: none holds itself, however deep.
ASSUME ConditionsAssumption ==
    /\ IsFiniteSet(Conditions)
    /\ \A c \in Conditions :
         CASE c.op = "test" -> c.question \in Questions
           [] c.op = "instanceCount" -> c.group \in Groups
           [] c.op \in {"anyInstance", "everyInstance"} ->
                c.group \in Groups /\ c.of \subseteq Conditions
           [] OTHER -> c.op \in {"and", "or", "not"} /\ c.of \subseteq Conditions
    /\ \A C \in (SUBSET Conditions) \ {{}} : \E c \in C :
         c.op \in {"test", "instanceCount"} \/ c.of \cap C = {}
ASSUME RulesAssumption == \A rs \in RuleSets : \A r \in rs : r.when \in Conditions

VARIABLES
    rules,          \* the published rules
    rosters,        \* the live instances of each group, in order
    minted,         \* how many instances there have been
    answers,        \* the latest answer of each key, or None
    flow            \* what the last evaluation returned

vars == <<rules, rosters, minted, answers, flow>>

position(q) == CHOOSE n \in Positions : Document[n].question = q
groupOf(q) == Document[position(q)].group
stepOf(q) == Document[position(q)].step

\* An answer key is a question and, inside a group, an instance.
Keys == {k \in Questions \X (Instances \cup {None}) : (k[2] = None) = (groupOf(k[1]) = None)}

-----------------------------------------------------------------------------
(* What a publish refuses. *)

LastOf(g) == CHOOSE n \in Positions :
    /\ Document[n].group = g
    /\ \A m \in Positions : Document[m].group = g => m <= n

\* The positions a condition reads: a whole-group operator reads to the
\* end of the group's span.
Reads[c \in Conditions] ==
    CASE c.op = "test" -> {position(c.question)}
      [] c.op = "instanceCount" -> {LastOf(c.group)}
      [] c.op \in {"anyInstance", "everyInstance"} ->
           {LastOf(c.group)} \cup UNION {Reads[d] : d \in c.of}
      [] OTHER -> UNION {Reads[d] : d \in c.of}

\* Where a target lies: a step's target covers every question of the step.
TargetPositions(t) == {n \in Positions : t \in {Document[n].step, Document[n].question}}

\* Fault: a whole-group operator is taken to read what its condition names.
ReadsNamed[c \in Conditions] ==
    CASE c.op = "test" -> {position(c.question)}
      [] c.op = "instanceCount" -> {}
      [] OTHER -> UNION {ReadsNamed[d] : d \in c.of}

ForwardOnlyNamed(r) ==
    \A t \in r.show : \A n \in ReadsNamed[r.when], m \in TargetPositions(t) : n < m

\* No RULE_BACKWARD_TARGET, and so no RULE_CYCLE either.
ForwardOnly(r) ==
    \A t \in r.show : \A n \in Reads[r.when], m \in TargetPositions(t) : n < m

targetScope(t) == IF t \in Questions THEN groupOf(t) ELSE None

\* No RULE_TARGETS_SPAN_SCOPES.
OneScope(r) == \A t, u \in r.show : targetScope(t) = targetScope(u)

\* No RULE_READS_GROUP_WITHOUT_OPERATOR: every read of a group's question
\* is inside an operator over the group, or a rule that targets the group.
Scoped[c \in Conditions, inScope \in SUBSET Groups] ==
    CASE c.op = "test" -> groupOf(c.question) \in inScope \cup {None}
      [] c.op = "instanceCount" -> TRUE
      [] c.op \in {"anyInstance", "everyInstance"} ->
           \A d \in c.of : Scoped[d, inScope \cup {c.group}]
      [] OTHER -> \A d \in c.of : Scoped[d, inScope]

\* No REPEAT_OPERATOR_NESTING_NOT_ALLOWED.
Unnested[c \in Conditions, inside \in BOOLEAN] ==
    CASE c.op = "test" -> TRUE
      [] c.op = "instanceCount" -> ~inside
      [] c.op \in {"anyInstance", "everyInstance"} ->
           ~inside /\ \A d \in c.of : Unnested[d, TRUE]
      [] OTHER -> \A d \in c.of : Unnested[d, inside]

analyzeRuleGraph(rs) == \A r \in rs :
    /\ ForwardOnly(r)
    /\ OneScope(r)
    /\ \A t \in r.show : Scoped[r.when, {targetScope(t)} \ {None}]
    /\ Unnested[r.when, FALSE]

-----------------------------------------------------------------------------
(* The forward pass. *)

\* The instance of each group a condition is evaluated in, or None.
Scopes == [Groups -> Instances \cup {None}]
NoScope == [g \in Groups |-> None]
withInstance(scope, g, i) == IF g = None THEN scope ELSE [scope EXCEPT ![g] = i]

\* Fault: an answer takes part though its key is not settled visible.
effectiveUnsettled(as, settled, q, scope) ==
    LET key == <<q, IF groupOf(q) = None THEN None ELSE scope[groupOf(q)]>>
    IN IF key \in Keys THEN as[key] ELSE None

\* An answer takes part once its key is settled visible; one of a group
\* that is not in scope is read as unanswered.
effective(as, settled, q, scope) ==
    LET key == <<q, IF groupOf(q) = None THEN None ELSE scope[groupOf(q)]>>
    IN IF key \in settled THEN as[key] ELSE None

\* For each condition, the scopes in which it holds.
evalCondition(as, settled, ros, condition, inScope) ==
    LET holds[c \in Conditions] ==
          {scope \in Scopes :
             LET inInstance(i) ==
                   \A d \in c.of : withInstance(scope, c.group, i) \in holds[d]
             IN CASE c.op = "and" -> \A d \in c.of : scope \in holds[d]
                  [] c.op = "or" -> \E d \in c.of : scope \in holds[d]
                  [] c.op = "not" -> \A d \in c.of : scope \notin holds[d]
                  [] c.op = "anyInstance" ->
                       \E i \in ToSet(ros[c.group]) : inInstance(i)
                  [] c.op = "everyInstance" ->
                       /\ ros[c.group] # <<>>
                       /\ \A i \in ToSet(ros[c.group]) : inInstance(i)
                  [] c.op = "instanceCount" -> Len(ros[c.group]) \in c.accepts
                  [] OTHER -> effective(as, settled, c.question, scope) \in c.accepts}
    IN inScope \in holds[condition]

\* A target no rule names is shown; one that rules name, when any holds.
anyRuleTrue(rs, as, settled, ros, target, scope) ==
    LET targeting == {r \in rs : target \in r.show}
    IN targeting = {} \/ \E r \in targeting : evalCondition(as, settled, ros, r.when, scope)

\* What the pass has settled when it comes to a step.
settledBefore(s, settled) ==
    {k \in settled : \A n \in Positions : Document[n].step = s => position(k[1]) < n}

stepShown(rs, as, settled, ros, s) ==
    anyRuleTrue(rs, as, settledBefore(s, settled), ros, s, NoScope)

walkQuestion(rs, as, settled, ros, key) ==
    /\ stepShown(rs, as, settled, ros, stepOf(key[1]))
    /\ anyRuleTrue(rs, as, settled, ros, key[1],
                   withInstance(NoScope, groupOf(key[1]), key[2]))

\* The live cells in document order, and member by member within a group.
liveKeys(ros) == FlattenSeq([n \in Positions |->
    LET entry == Document[n]
    IN IF entry.group = None THEN <<<<entry.question, None>>>>
       ELSE [j \in DOMAIN ros[entry.group] |-> <<entry.question, ros[entry.group][j]>>]])

visibleKeys(rs, as, ros) ==
    LET walked[n \in 0 .. Len(liveKeys(ros))] ==
          IF n = 0 THEN <<>>
          ELSE LET key == liveKeys(ros)[n]
                   seen == walked[n - 1]
               IN IF walkQuestion(rs, as, ToSet(seen), ros, key) THEN Append(seen, key) ELSE seen
    IN walked[Len(liveKeys(ros))]

\* A shown step that holds a group counts though no question of it is seen.
visibleSteps(rs, as, ros, visible) ==
    {stepOf(k[1]) : k \in ToSet(visible)} \cup
    {s \in Steps : /\ \E n \in Positions : Document[n].step = s /\ Document[n].group # None
                  /\ stepShown(rs, as, ToSet(visible), ros, s)}

\* A step is one page, or one for each instance of its first paged group.
pages(s, ros) ==
    LET paging == {n \in Positions : Document[n].step = s /\ Document[n].group \in PagedGroups}
        live == IF paging = {} THEN <<>> ELSE ros[Document[Min(paging)].group]
    IN IF live = <<>> THEN <<<<s, None>>>> ELSE [j \in DOMAIN live |-> <<s, live[j]>>]

opensStep(n) == \A m \in Positions : Document[m].step = Document[n].step => n <= m

\* The pages the cursor indexes, in the order of the form.
stepViews(steps, ros) == FlattenSeq([n \in Positions |->
    IF opensStep(n) /\ Document[n].step \in steps THEN pages(Document[n].step, ros) ELSE <<>>])

evaluateRules(rs, as, ros) ==
    LET visible == visibleKeys(rs, as, ros)
    IN [visible |-> visible,
        views |-> stepViews(visibleSteps(rs, as, ros, visible), ros)]

-----------------------------------------------------------------------------
(* A respondent filling the form in. *)

Init ==
    /\ rules \in {rs \in RuleSets : analyzeRuleGraph(rs)}
    /\ rosters = [g \in Groups |-> <<>>]
    /\ minted = 0
    /\ answers = [k \in Keys |-> None]
    /\ flow = evaluateRules(rules, answers, rosters)

\* Only a visible cell takes an answer; None retracts it.
Answer(key, value) ==
    /\ key \in ToSet(flow.visible)
    /\ answers' = [answers EXCEPT ![key] = value]
    /\ flow' = evaluateRules(rules, answers', rosters)
    /\ UNCHANGED <<rules, rosters, minted>>

AddInstance(g) ==
    /\ minted < MaxInstances
    /\ minted' = minted + 1
    /\ rosters' = [rosters EXCEPT ![g] = Append(@, minted + 1)]
    /\ flow' = evaluateRules(rules, answers, rosters')
    /\ UNCHANGED <<rules, answers>>

\* A removed instance keeps its answers, which no longer count.
RemoveInstance(g, i) ==
    /\ i \in DOMAIN rosters[g]
    /\ rosters' = [rosters EXCEPT ![g] = RemoveAt(@, i)]
    /\ flow' = evaluateRules(rules, answers, rosters')
    /\ UNCHANGED <<rules, minted, answers>>

Next ==
    \/ \E key \in Keys, value \in Values \cup {None} : Answer(key, value)
    \/ \E g \in Groups : AddInstance(g)
    \/ \E g \in Groups, i \in Instances : RemoveInstance(g, i)

Spec == Init /\ [][Next]_vars

-----------------------------------------------------------------------------
(* What the rules promise. *)

\* What the form shows follows from what it shows: a live cell is visible
\* exactly when its rules and its step's hold of the answers in visible
\* cells alone, all of them, in whatever order the pass went.  So an answer
\* that has gone out of sight, or whose instance has gone, never shows or
\* hides anything.
OnlyTheVisibleCounts ==
    LET visible == ToSet(flow.visible)
        seen == [k \in Keys |-> IF k \in visible THEN answers[k] ELSE None]
    IN \A key \in ToSet(liveKeys(rosters)) :
         key \in visible <=> walkQuestion(rules, seen, Keys, rosters, key)

visibleUpTo(n, f) == {k \in ToSet(f.visible) : position(k[1]) <= n}

\* The pages, with their numbers, of the steps that begin no later than n.
pagesUpTo(n, f) == {<<i, f.views[i]>> : i \in {i \in DOMAIN f.views :
    \E m \in Positions : Document[m].step = f.views[i][1] /\ m <= n}}
live == ToSet(liveKeys(rosters))

\* The rules a publish accepts only look forward: an answer leaves every
\* cell up to its question and every page up to its step as they were, so
\* the cursor of a respondent never comes to mean another page behind
\* them; an instance added or removed leaves the other cells up to the end
\* of its group as they were.
ChangesLookForward == [][
    /\ \A k \in Keys : answers'[k] # answers[k] =>
         /\ visibleUpTo(position(k[1]), flow') = visibleUpTo(position(k[1]), flow)
         /\ pagesUpTo(position(k[1]), flow') = pagesUpTo(position(k[1]), flow)
    /\ \A g \in Groups : rosters'[g] # rosters[g] =>
         visibleUpTo(LastOf(g), flow') \cap live = visibleUpTo(LastOf(g), flow) \cap live']_vars
=============================================================================
