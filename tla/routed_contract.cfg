SPECIFICATION FairSpec
CONSTANTS
    s1 = s1
    s2 = s2
    noServer = noServer
    u1 = u1
    u2 = u2
    p2 = p2
    ue = ue
    noURL = noURL
    Callers = {c1, c2}
    Servers <- MCServers
    NoServer = noServer
    URLs <- MCURLs
    NoURL = noURL
    EstablishmentURL = ue
    PreferServer = noServer
    Rewrite <- RewriteName
    Host <- MCHost
    MaxSlot = 1
    Commands <- Writes
    Docs <- MovedBack
    MaxVersion = 3
    WmRetries = 2
    TrRetries = 0
CHECK_DEADLOCK FALSE
INVARIANT SettledNeverWrongMachine
PROPERTIES
    ImplementsContract
    Termination
