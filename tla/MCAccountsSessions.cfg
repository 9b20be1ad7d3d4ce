\* One account on the memory store, whose calls never fail; two handlers.
SPECIFICATION Spec
CONSTANTS
    Handlers = {h1, h2}
    m1 = m1
    x1 = x1
    Mails = {m1}
    NoMail = NoMail
    Subjects = {x1}
    NoSubject = NoSubject
    MailOf <- MCMailOf
    AdminMail = m1
    Stores = {"memory"}
    MaxUsers = 1
    MaxSessions = 2
    MaxStates = 0
    MaxRestarts = 0
INVARIANTS
    OldSessionsEnd
SYMMETRY Symmetric
CHECK_DEADLOCK FALSE
