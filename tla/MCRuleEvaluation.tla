-------------------------- MODULE MCRuleEvaluation --------------------------
(***************************************************************************)
(* Three steps: a question, a paged group of two questions, and a question *)
(* after the group.  An author tries any two of the rules below.           *)
(***************************************************************************)
EXTENDS RuleEvaluation

CONSTANTS s1, s2, s3, q1, m1, m2, q4, g, yes, no

MCDocument == <<
    [step |-> s1, question |-> q1, group |-> None],
    [step |-> s2, question |-> m1, group |-> g],
    [step |-> s2, question |-> m2, group |-> g],
    [step |-> s3, question |-> q4, group |-> None]>>

Test(q, vs) == [op |-> "test", question |-> q, accepts |-> vs]
Bool(o, cs) == [op |-> o, of |-> cs]
Group(o, c) == [op |-> o, group |-> g, of |-> {c}]
Count(ns) == [op |-> "instanceCount", group |-> g, accepts |-> ns]
Show(t, c) == [show |-> t, when |-> c]

Tests == {Test(q, {yes}) : q \in {q1, m1, m2, q4}}
Nots == {Bool("not", {t}) : t \in Tests}
Some == {Group("anyInstance", Test(m1, {yes, no})), Group("anyInstance", Test(m2, {yes}))}
Every == {Group("everyInstance", Bool("not", {Test(m2, {yes})}))}
Both == {Bool("and", {Test(q1, {yes}), Bool("not", {Group("anyInstance", Test(m1, {yes, no}))})})}
Either == {Bool("or", {Test(q1, {yes}), Test(m1, {yes})})}
MCConditions == Tests \cup {Test(m1, {yes, no})} \cup Nots \cup Some \cup Every \cup Both
    \cup Either \cup {Count({2}), Bool("not", {Group("anyInstance", Test(m1, {yes, no}))})}

Accepted == {
    Show({s2}, Test(q1, {yes})),
    Show({m1}, Bool("not", {Test(q1, {yes})})),
    Show({m2}, Bool("or", {Test(q1, {yes}), Test(m1, {yes})})),
    Show({q4}, Group("anyInstance", Test(m2, {yes}))),
    Show({q4}, Group("everyInstance", Bool("not", {Test(m2, {yes})}))),
    Show({s3}, Bool("and", {Test(q1, {yes}), Bool("not", {Group("anyInstance", Test(m1, {yes, no}))})})),
    Show({s3}, Count({2}))}

Refused == {
    Show({m2}, Count({2})),                       \* inside the span it reads
    Show({m2}, Group("anyInstance", Test(m1, {yes, no}))),
    Show({q1}, Bool("not", {Test(q4, {yes})})),   \* backward
    Show({q4}, Bool("not", {Test(q4, {yes})})),   \* reads itself
    Show({q4}, Test(m1, {yes})),                  \* no instance in scope
    Show({m2, q4}, Test(q1, {yes}))}              \* two scopes

MCRuleSets == {rs \in SUBSET (Accepted \cup Refused) : Cardinality(rs) \in 1 .. 2}
MCPagedGroups == {g}
MCValues == {yes, no}
=============================================================================
