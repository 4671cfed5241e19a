\* Two calls at once in the agent, on its one connection, whatever collections
\* there are; nobody need complete a prompt.
SPECIFICATION FairSpec
CONSTANTS
    Handler = {"h1", "h2"}
    Conn = {"agent"}
    ConnOf <- OneConnection
    Name = {"n1", "n2"}
    Requests <- AllPairs
    i1 = i1
    i2 = i2
    i3 = i3
    i4 = i4
    i5 = i5
    Item = {i1, i2, i3, i4, i5}
    Labelled = {"cw"}
    Login = "login"
    Default = "dflt"
    Stored <- NothingOrCopies
    Collections <- AnyCollections
    GH = "gh"
    None = None
INVARIANTS ReleasesOwnName ClearsEveryCollection WrongWalletDropsNothing
PROPERTIES ForeignItemsUntouched EveryCallReturns
\* Every call may have returned, with no prompt left open.
CHECK_DEADLOCK FALSE
