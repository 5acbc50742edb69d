SPECIFICATION Spec
CONSTANTS
    Accounts = {a1, a2}
    Unsigned = Unsigned
    Absent = Absent
    Domains = {d1, d2, dBad}
    ValidDomains = {d1, d2}
    Ips = {ip1, ip2, ipBad}
    ValidIps = {ip1, ip2}
    Keys = {k1, kBad}
    ValidKeys = {k1}
    Names = {n1, nBad}
    ValidNames = {n1}
    Infos = {i1, iBad}
    ValidInfos = {i1}
    MaxEvents = 3
SYMMETRY Symmetry
INVARIANT TypeOK
PROPERTY ImplementsService
