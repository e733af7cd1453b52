--------------------------- MODULE RosterContract ---------------------------
(***************************************************************************)
(* What a respondent may rely on in the repeating groups of a form, as if  *)
(* each page, answer, Add, removal and submit were handled alone.  A list  *)
(* changes by what a form asked for, once; an instance is never dropped,   *)
(* replaced or listed again otherwise.  A group whose size is given shows, *)
(* at any count it has reached, what it first showed at that count.        *)
(***************************************************************************)
EXTENDS Naturals, FiniteSets

CONSTANTS
    Open,       \* the groups a respondent adds to
    Sized,      \* those whose size the form, or an answer, gives
    Count,      \* min, max and source of each
    Sizes,
    Tokens,
    None

VARIABLES
    made,       \* every instance an open group has had
    listed,     \* those it has now
    shown,      \* what a sized group shows at each count it has reached
    answer,     \* the answer to the count question, or None
    spent,      \* the tokens of the operations that took effect
    sealed      \* what was submitted, or None

vars == <<made, listed, shown, answer, spent, sealed>>

Init ==
    /\ made = [g \in Open |-> {}]
    /\ listed = [g \in Open |-> {}]
    /\ shown = [g \in Sized |-> [n \in 0 .. 0 |-> {}]]
    /\ answer = None
    /\ spent = {}
    /\ sealed = None

OpensWith(g) == IF Count[g].min > 1 THEN Count[g].min ELSE 1

\* An answer beyond the bounds asks for the bound.
Asked(g, a) ==
    CASE Count[g].source = "fixed" -> Count[g].max
      [] Count[g].source # "fixed" /\ a = None -> 0
      [] OTHER -> IF a < Count[g].min THEN Count[g].min
                  ELSE IF a > Count[g].max THEN Count[g].max ELSE a

\* Open group g, with these instances so far, comes out of a response, which
\* may be the one that gives it the instances it opens with.
Drawn(g, m, l) ==
    LET now == made'[g]
    IN /\ m \subseteq now
       /\ now = m \/ Cardinality(now) = OpensWith(g)
       /\ listed'[g] = l \cup (now \ m)

DrawnAsIs(groups) == \A g \in groups : Drawn(g, made[g], listed[g])

\* Sized group g grows to what is asked, or not at all; if an answer asks, at
\* once.
Grown(g) ==
    LET old == shown[g]
        new == shown'[g]
    IN /\ Count[g].source = "fromAnswer" => Asked(g, answer') \in DOMAIN new
       /\ \/ new = old
          \/ /\ DOMAIN new = 0 .. Asked(g, answer')
             /\ \A n \in DOMAIN old : n \in DOMAIN new /\ new[n] = old[n]
             /\ \A n \in DOMAIN new :
                  Cardinality(new[n]) = n /\ (n > 0 => new[n - 1] \subseteq new[n])

\* A page is rendered, for an answer to the count question perhaps; one that
\* comes late changes nothing.
Respond ==
    /\ answer' \in {answer, None} \cup Sizes
    /\ DrawnAsIs(Open)
    /\ UNCHANGED spent

Spend(t) ==
    /\ t \notin spent
    /\ spent' = spent \cup {t}
    /\ UNCHANGED answer

Add(g, t) ==
    /\ Spend(t)
    /\ Cardinality(listed[g]) < Count[g].max
    /\ \E i \in made'[g] \ made[g] : Drawn(g, made[g] \cup {i}, listed[g] \cup {i})
    /\ DrawnAsIs(Open \ {g})

Remove(g, t) ==
    /\ Spend(t)
    /\ \E i \in made[g] : Drawn(g, made[g], listed[g] \ {i})
    /\ DrawnAsIs(Open \ {g})

Live(g) == IF g \in Open THEN listed[g] ELSE shown[g][Asked(g, answer)]

Submit ==
    /\ sealed = None
    /\ \A g \in Sized : Asked(g, answer) \in DOMAIN shown[g]
    /\ \A g \in Open \cup Sized : Cardinality(Live(g)) \in Count[g].min .. Count[g].max
    /\ sealed' = [live |-> [g \in Open \cup Sized |-> Live(g)], count |-> answer]
    /\ UNCHANGED <<made, listed, shown, answer, spent>>

Next ==
    \/ /\ \/ Respond
          \/ \E g \in Open, t \in Tokens : Add(g, t) \/ Remove(g, t)
       /\ \A g \in Sized : Grown(g)
       /\ DOMAIN made' = Open /\ DOMAIN listed' = Open /\ DOMAIN shown' = Sized
       /\ UNCHANGED sealed
    \/ Submit

Spec == Init /\ [][Next]_vars
=============================================================================
