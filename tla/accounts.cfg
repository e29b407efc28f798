SPECIFICATION Spec
CONSTANTS
    Users = {u1, u2}
    NoUser = NoUser
    Emails = {e1, e2}
    NoEmail = NoEmail
    AppleIds = {a1}
    NoApple = NoApple
    CodeIds = {c1}
    NoCode = NoCode
    Requests = {r1, r2}
    MAX_CODE_ATTEMPTS = 2
    MaxChanges = 1
SYMMETRY Symmetric
INVARIANTS
    OneAccountPerAddress
    DeletionIsDated
    VerifiedAddressesAreProven
    
PROPERTIES
    ReactivatedInTime
