SPECIFICATION Spec
CONSTANTS
    MaxRequests = 4
    KeyModulus  = 3
INVARIANTS
    RequestAccounted
    PrivateInOrder
PROPERTIES
    NoneLostSilently
    ResponseMatches
