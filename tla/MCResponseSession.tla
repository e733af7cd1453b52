------------------------- MODULE MCResponseSession -------------------------
(***************************************************************************)
(* A form with two required questions: a yes/no, "gate", and "detail",     *)
(* which is hidden while the gate is answered no.                          *)
(***************************************************************************)
EXTENDS ResponseSession, TLC

CONSTANTS w1, w2, s1, s2, a1, a2, e1, e2, gate, detail, yes, no, bad, clear, blank, none

TwoCells == {gate, detail}
YesNo == {yes, no}

\* evaluateRules on this form.
ShowDetail(answers) == IF answers[gate] = no THEN {gate} ELSE {gate, detail}

entry(c, v) == [cell |-> c, value |-> v]
Single(c, v) == [kind |-> "single", entries |-> <<entry(c, v)>>]
Batch(entries) == [kind |-> "batch", entries |-> entries]

\* Every kind of write: open and close the gate, answer and clear behind it,
\* an invalid value, and batches with a refused entry and with two entries for
\* one cell.
AllPosts == {
    Single(gate, yes), Single(gate, no), Single(detail, yes), Single(gate, bad),
    Batch(<<entry(gate, yes), entry(detail, no)>>),
    Batch(<<entry(gate, yes), entry(gate, clear)>>)}

\* Enough to race a write that changes what was sealed.
FewPosts == {Single(gate, yes), Single(gate, no), Single(detail, yes), Single(gate, clear)}

\* One batch completes the form.
CompletingPosts == {Batch(<<entry(gate, yes), entry(detail, no)>>), Single(gate, no)}

Symmetry == Permutations({a1, a2}) \cup Permutations({e1, e2})
=============================================================================
