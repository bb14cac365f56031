CONSTANTS
    u1 = u1
    u2 = u2
    t1 = t1
    t2 = t2
    f1 = f1
    f2 = f2
    NoUser = NoUser
    Users = {u1, u2}
    Texts = {t1, t2}
    MaxId = 4
    Others = {f1, f2}
    Words = {t1}
    Setups <- MCSetups
SPECIFICATION Spec
INVARIANTS
    ReadingIsOwn
    ChatIsKept
    FriendsAgree
PROPERTIES
    MessagesSettle
CHECK_DEADLOCK FALSE
