SPECIFICATION Spec
CONSTANTS
    Senders = {s1, s2}
    Contracts = {1, 2}
    Requests = {r1, r2}
    Settings <- DefaultAndTracked
INVARIANTS
    OneOwner
    NoContractLost
CHECK_DEADLOCK FALSE
