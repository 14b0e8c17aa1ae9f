SPECIFICATION MCSpec
CONSTANTS
    p1 = p1
    p2 = p2
    t1 = t1
    t2 = t2
    a = a
    Proc = {p1, p2}
    Name = {n1, n2}
    NameTail = {t1, t2}
    Text = {a}
    Receivers <- SomeReceivers
    FreshHead <- WildHeap
    Bad = Bad
    MaxMailboxes = 2
    MaxMessages = 2
    MaxChain = 1
SYMMETRY NameSymmetry
INVARIANTS
    MailboxInv
    NeverUnblocked
    OneSenderOneQueue
    NamesAndIdsUnique
    ZeroedHeapStops
PROPERTIES
    QueueKept
\* PM stops when it crashes, hangs or has followed a bad pointer.
CHECK_DEADLOCK FALSE
