SPECIFICATION FairSpec
CONSTANTS
    None = None
    o1 = o1  r1 = r1  r2 = r2  p1 = p1  p2 = p2  l1 = l1  l2 = l2
    Occurrence = {o1}
    Recipient = {r1, r2}
    Proc = {p1}
    Lane = {l1}
    procOf <- sameProcess
    PushAttempts = 3
    MaxFaults = 1
PROPERTY EveryOccurrenceEnds
