SPECIFICATION Spec
CONSTANTS
    DomainMaxChars = 6
    TldMin = 2
    TldMax = 3
    Periods = 1
    MaxOctet = 26
    MaxText = 7
CHECK_DEADLOCK FALSE
INVARIANT
    SubdomainNotEmpty
