\* Expected to fail: the property of generations.cfg, with two lanes.
CONSTANTS
    t1 = t1
    t2 = t2
    t3 = t3
    h1 = h1
    d1 = d1
    d2 = d2
    d3 = d3
    b1 = b1
    s1 = s1
    s2 = s2
    v1 = v1
    v2 = v2
    k1 = k1
    k2 = k2
    p1 = p1
    p2 = p2
    l1 = l1
    l2 = l2
    l3 = l3
    o1 = o1
    g1 = g1
    g2 = g2
    None = None
    Tenant = {t1}
    Host = {h1}
    Run = {d1, b1}
    Lane = {l1, l2}
    Proc = {p1}
    Occurrence = {}
    Generation = {}
    ExecutionKey = {k1}
    heavy = {}
    hostOf <- MCHostOf
    tenantOf <- MCTenantOf
    source <- MCSource
    executionKeyOf <- MCExecutionKeyOf
    occurrenceOf <- MCOccurrenceOf
    occurrenceTenant <- MCOccurrenceTenant
    request <- MCRequest
    generationTenant <- MCGenerationTenant
    procOf <- MCProcOf
    archivable = {}
    GlobalLimit = 4
    HostLimit = 2
    MaxFaults = 0

SPECIFICATION Spec
INVARIANT NoQueryDuringUncertainty
CHECK_DEADLOCK FALSE
