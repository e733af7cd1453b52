\* Two answer writes to one cell.
SPECIFICATION Spec
CONSTANTS
    w1 = w1  w2 = w2  s1 = s1  s2 = s2  a1 = a1  a2 = a2  e1 = e1  e2 = e2
    gate = gate  detail = detail  yes = yes  no = no
    bad = bad  clear = clear  blank = blank  none = none
    Writers = {w1, w2}
    Submitters = {}
    Releasers = {}
    Erasers = {}
    Cells <- TwoCells
    Required <- TwoCells
    Values <- YesNo
    BadInput = bad
    Clear = clear
    Unanswered = blank
    None = none
    Ids = {1, 2}
    Posts <- FewPosts
    Visible <- ShowDetail
PROPERTIES LastWriteWins
CHECK_DEADLOCK FALSE
