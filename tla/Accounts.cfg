SPECIFICATION Spec
CONSTANTS
    r1 = r1
    r2 = r2
    r3 = r3
    d1 = d1
    w1 = w1
    w2 = w2
    Calls = {r1, r2, r3}
    Devices = {d1}
    AuthWorkers = {w1, w2}
    NoOne = NoOne
    MailTries = 2
    Setups <- MCSetups
INVARIANTS
    SuccessIsSo
    
PROPERTIES
    ConfirmedIsFrozen
    ClientArrives
CHECK_DEADLOCK FALSE
