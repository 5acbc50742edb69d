SPECIFICATION Spec
CONSTANTS
    Accounts = {a1, a2}
    Unsigned = Unsigned
    Absent = Absent
    Domains = {d1, d2}
    ValidDomains = {d1, d2}
    Ips = {ip1, ip2}
    ValidIps = {ip1, ip2}
    Keys = {k1, k2}
    ValidKeys = {k1, k2}
    Names = {n1}
    ValidNames = {n1}
    Infos = {i1}
    ValidInfos = {i1}
    MaxEvents = 5
SYMMETRY Symmetry
INVARIANTS
    LatestListing
    EventsTellStorage
    ListingsWereAnnounced
PROPERTIES
    OwnerControls
    OthersKeepListings
    RemovalUnlists
