SPECIFICATION Spec
CONSTANTS
    v1 = v1
    v2 = v2
    s17 = s17
    s18 = s18
    d1 = d1
    d2 = d2
    n1 = n1
    n2 = n2
    o1 = o1
    None = None
    Vendor <- Vendors
    Service <- ServiceIds
    Order <- Orders
    District <- DistrictCodes
    Name <- AreaNames
    NameOf <- Named1
    RepairService = s17
    DemoNames <- Demo
    Sources <- SmallSources
    Migrations = 3
    MaxRuns = 2
INVARIANTS
    TypeOK
    GateShowsTheLastLoad
    SlotsResolve
PROPERTIES
    GateSpec
CHECK_DEADLOCK FALSE
