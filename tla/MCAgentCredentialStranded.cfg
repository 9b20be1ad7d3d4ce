SPECIFICATION FairSpec
CONSTANTS
    Hosts = {h1}
    t1 = t1
    t2 = t2
    Tokens = {t1}
    NoToken = NoToken
    Stores = {"postgres"}
    BootToken = NoToken
    InstallToken <- MCInstallToken
    StartupTries = 1
    MaxAgents = 1
    MaxFaults = 1
    MaxRestarts = 0
    MaxOperator = 0
PROPERTY RegisteredAgentNotStranded
