SPECIFICATION Spec
CONSTANTS
    Fields = {domain, name}
    Domain = domain
    DomainTexts = {a, bad}
    FieldTexts = {n, space}
    Empty = empty
    Blanks = {space}
    Domains = {a}
    FieldValues = {n, space}
    Users = {me}
    Me = me
    Free = Free
    Nobody = Nobody
    MaxInFlight = 1
INVARIANTS
    TypeOK
    Settled
    LookupCurrent
    ButtonsTellTheChain
