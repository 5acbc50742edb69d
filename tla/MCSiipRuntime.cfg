SPECIFICATION Spec
CONSTANTS
    alice = alice
    bob = bob
    broke = broke
    Accounts = {alice, bob, broke}
    Unsigned = Unsigned
    Absent = Absent
    Domains = {d1}
    ValidDomains = {d1}
    Ips = {ip1, ip2}
    ValidIps = {ip1, ip2}
    Keys = {k1}
    ValidKeys = {k1}
    Names = {n1}
    ValidNames = {n1}
    Infos = {i1}
    ValidInfos = {i1}
    MaxEvents = 2
    NoBlock = NoBlock
    NoMiner = NoMiner
    Genesis <- GenesisBalances
    Fee = 2
    ED = 2
    MaxTokens = 16
    RewardDivisor = 4
    Amounts = {0, 1, 3}
    MaxBody = 2
INVARIANTS
    TypeOK
    CoinsAccounted
    IssuanceCapped
    NoPoorAccounts
PROPERTIES
    NoCoinsLost
    ChangesArePaid
    OnlySignersPay
