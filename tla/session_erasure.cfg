\* Releases of a flagged submission and erasures race once the respondent is done.
SPECIFICATION QuietSpec
CONSTANTS
    w1 = w1  w2 = w2  s1 = s1  s2 = s2  a1 = a1  a2 = a2  e1 = e1  e2 = e2
    gate = gate  detail = detail  yes = yes  no = no
    bad = bad  clear = clear  blank = blank  none = none
    Writers = {w1, w2}
    Submitters = {s1}
    Releasers = {a1, a2}
    Erasers = {e1, e2}
    Cells <- TwoCells
    Required <- TwoCells
    Values <- YesNo
    BadInput = bad
    Clear = clear
    Unanswered = blank
    None = none
    Ids = {1, 2}
    Posts <- CompletingPosts
    Visible <- ShowDetail
SYMMETRY Symmetry
INVARIANTS ErasedHoldsNoContent
CHECK_DEADLOCK FALSE
