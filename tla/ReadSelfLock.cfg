SPECIFICATION Spec
CONSTANTS
    r1 = r1
    r2 = r2
    c1 = c1
    c2 = c2
    p1 = p1
    p2 = p2
    Readers = {r1, r2}
    Callers = {c1, c2}
    Pods = {p1, p2}
    PodOf <- MCPodOf
    Threshold = 2
    Successes = 2
    FailureLimit = 2
    MaxWaitLoops = 2
    Budgets <- OneReader
INVARIANTS
    NeverWaitsForItself
