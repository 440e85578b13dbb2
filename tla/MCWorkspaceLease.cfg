SPECIFICATION LeaseFairSpec
CONSTANTS
    p1 = p1
    p2 = p2
    o1 = o1
    o2 = o2
    o3 = o3
    r1 = r1
    r2 = r2
    r3 = r3
    r4 = r4
    j1 = j1
    Processes = {p1, p2}
    Owners = {o1, o2, o3}
    Runs = {r1, r2, r3, r4}
    Jobs = {j1}
    ProcessOf <- MCProcessOf
    OwnerOf <- MCOwnerOf
    MaxFailures = 1
    MaxCrashes = 1
INVARIANTS OneWriter LeaseIsExact
PROPERTY WaitersProceed
