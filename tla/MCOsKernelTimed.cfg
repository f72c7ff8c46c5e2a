SPECIFICATION FairSpec
CONSTANTS
    t1 = t1
    t2 = t2
    t3 = t3
    t4 = t4
    idle = idle
    e1 = e1
    e2 = e2
    q1 = q1
    g1 = g1
    f1 = f1
    f2 = f2
    m1 = m1
    m2 = m2
    Tasks = {t1, t2, t3, t4, idle}
    IdleTask = idle
    Events = {e1, e2}
    Messages = {m1, m2}
    Queues = {q1}
    Groups = {g1}
    Flags = {f1, f2}
    Null = null
    Reserved = reserved
    OS_LOWEST_PRIO = 6
    MaxDelay = 2
    MaxCount = 2
    MemBlocks = 3
    Workloads <- TimedWorkloads
PROPERTY TimedWaitReturns
PROPERTY MutexGranted
