SPECIFICATION Spec
CONSTANTS
    s1 = s1
    s2 = s2
    noServer = noServer
    u1 = u1
    u2 = u2
    p2 = p2
    ue = ue
    noURL = noURL
    Callers = {c1}
    Servers <- MCServers
    NoServer = noServer
    URLs <- MCURLs
    NoURL = noURL
    EstablishmentURL = ue
    PreferServer = noServer
    Rewrite <- NoRewrite
    Host <- MCHost
    MaxSlot = 1
    Commands <- Writes
    Docs <- Moved
    MaxVersion = 2
    WmRetries = 1
    TrRetries = 1
CHECK_DEADLOCK FALSE
INVARIANT RetriesSendSameBytes
