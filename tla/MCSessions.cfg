CONSTANTS
    c1 = c1
    c2 = c2
    c3 = c3
    s1 = s1
    s2 = s2
    a = a
    b = b
    Clients <- MCClients
    Servers <- MCServers
    Mortal <- MCMortal
    Ids <- MCIds
    None = None
    MaxSessions <- MCMaxSessions
SPECIFICATION Spec
CHECK_DEADLOCK FALSE
INVARIANTS
    RequestTracked
    SessionsCounted
    NoLostWakeup
PROPERTIES
    ImplementsRequests
    RequestsTaken
