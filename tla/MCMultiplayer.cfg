CONSTANTS
    host = host
    guest = guest
    Nicks <- MCNicks
    Host = host
    Unreliable <- MCUnreliable
    MaxLinks = 2
    Slots = 2
    MaxCalls = 2
    ModRequests <- MCModRequests
SPECIFICATION Spec
CHECK_DEADLOCK FALSE
INVARIANTS
    MembersExact
    JoinAssert
    ListConverges
    MembershipAgrees
PROPERTIES
    JoinAnswered
    LeaveEnds
