SPECIFICATION FairSpec
CONSTANTS
    Hosts = {h1}
    t1 = t1
    t2 = t2
    Tokens = {t1, t2}
    NoToken = NoToken
    Stores = {"memory", "postgres"}
    BootToken = t1
    InstallToken <- MCInstallToken
    StartupTries = 1
    MaxAgents = 3
    MaxFaults = 1
    MaxRestarts = 1
    MaxOperator = 1
INVARIANTS
    TokenBuysOneAgent
PROPERTIES
    KnownAgentRecovers
