\* Two saves of one name at once, or one of a name that has a copy in login
\* (LockedWalletDropsNothing).
SPECIFICATION Spec
CONSTANTS
    Handler = {"h1", "h2"}
    Conn = {"h1", "h2"}
    ConnOf <- OwnConnection
    Name = {"n1"}
    Requests <- TwoSaves
    i1 = i1
    i2 = i2
    i3 = i3
    i4 = i4
    i5 = i5
    Item = {i1, i2, i3, i4, i5}
    Labelled = {"cw"}
    Login = "login"
    Default = "dflt"
    Stored <- OneCopy
    Collections <- LoginAndCw
    GH = "gh"
    None = None
INVARIANT AtMostOneItem
\* INVARIANT LockedWalletDropsNothing
\* Every call may have returned, with no prompt left open.
CHECK_DEADLOCK FALSE
