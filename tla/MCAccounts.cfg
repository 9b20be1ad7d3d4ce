SPECIFICATION Spec
CONSTANTS
    Handlers = {h1, h2}
    m1 = m1
    x1 = x1
    Mails = {m1, m2}
    NoMail = NoMail
    Subjects = {x1, x2}
    NoSubject = NoSubject
    MailOf <- MCMailOf
    AdminMail = m1
    Stores = {"memory", "postgres"}
    MaxUsers = 2
    MaxSessions = 2
    MaxStates = 2
    MaxRestarts = 1
INVARIANTS
    OneWizardOwner
    AccountsAreReachable
    StateUsedOnce
PROPERTIES
    IdentityStays
SYMMETRY Symmetric
CHECK_DEADLOCK FALSE
