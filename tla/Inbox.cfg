SPECIFICATION Spec
CONSTANTS
    m1 = m1
    m2 = m2
    s1 = s1
    s2 = s2
    s3 = s3
    Msgs = {m1, m2}
    Senders = {s1, s2, s3}
    Authors <- MCAuthors
    Local = {m1}
    Providers = {z1}
    Terminals = {t1, t2}
    Username <- MCUsername
    Known = {s3}
    Own = Own
    MaxFaults = 1
INVARIANTS HandedOverOnce ActsOnWhatItRead
PROPERTIES AccountedFor QueueRespectsBlock ReportedIsFound
