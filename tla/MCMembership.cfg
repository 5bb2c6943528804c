SPECIFICATION MembershipSpec
CONSTANTS
    pa = pa
    pb = pb
    root = root
    here = here
    other = other
    Never = Never
    Principals = {root, pa, pb}
    Root = root
    Revoked = {pb}
    Resources = {here, other}
    Here = here
    Unknown = {other}
    Commands <- Names
    Windows <- Times
    MaxLinks = 3
    MaxTime = 1
    c1 = c1
    c2 = c2
    s1 = s1
    s2 = s2
    None = None
    Torn = Torn
    NDevices = 2
    SeedOf <- Seeds
    Slots = {s1, s2}
    MaxCalls = 4
    MaxCrashes = 1
    MaxYears = 1
SYMMETRY SlotSymmetry
CHECK_DEADLOCK FALSE
INVARIANTS AcceptedAreGranted GrantedAreAccepted AdmitsMembersOnly KeysAgree InviteesOpen
