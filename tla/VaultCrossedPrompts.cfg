\* Two calls in the agent, on its one connection, under two names
\* (AlwaysReleasesOwnName); or an unlock that leaves items locked
\* (DeletesEveryItem).
SPECIFICATION Spec
CONSTANTS
    Handler = {"h1", "h2"}
    Conn = {"agent"}
    ConnOf <- OneConnection
    Name = {"n1", "n2"}
    Requests <- CallsOnTwoNames
    i1 = i1
    i2 = i2
    i3 = i3
    i4 = i4
    i5 = i5
    Item = {i1, i2, i3, i4, i5}
    Labelled = {"cw"}
    Login = "login"
    Default = "dflt"
    Stored <- TwoNames
    Collections <- LoginAndCw
    GH = "gh"
    None = None
INVARIANT AlwaysReleasesOwnName
\* INVARIANT DeletesEveryItem
\* Every call may have returned, with no prompt left open.
CHECK_DEADLOCK FALSE
