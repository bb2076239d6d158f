CONSTANTS
    n1 = n1  n2 = n2  m1 = m1  m2 = m2
    Nodes = {n1, n2}
    Consumers = {n2}
    Ids = {m1, m2}
    CopiesTo <- Copies
    MaxRetries = 2
    Attempts = 2
    MaxWrites <- WritesAtATime
    Budgets <- RestartOrTwo
SPECIFICATION FairSpec
INVARIANTS TypeOK NoMessageForgotten DeliveriesBounded AnsweredSurvives
PROPERTY EventuallySettled
CHECK_DEADLOCK FALSE
