SPECIFICATION Spec
CONSTANTS
    None = None
    s1 = s1
    s2 = s2
    s3 = s3
    q1 = q1
    m1 = m1
    m2 = m2
    q4 = q4
    g = g
    yes = yes
    no = no
    MaxInstances = 2
    Document <- MCDocument
    PagedGroups <- MCPagedGroups
    Values <- MCValues
    Conditions <- MCConditions
    RuleSets <- MCRuleSets
INVARIANTS OnlyTheVisibleCounts
PROPERTIES ChangesLookForward
