------------------------------- MODULE MCVault -------------------------------
(* Small instances of Vault.                                                 *)
EXTENDS Vault, Sequences, TLC

CONSTANTS i1, i2, i3, i4, i5

Items == {i1, i2, i3, i4, i5}
At(stored) == [i \in Items |-> IF i \in DOMAIN stored THEN stored[i] ELSE None]
AnItem(coll, key) == [coll |-> coll, key |-> key, value |-> key, live |-> TRUE]

\* gh's own entry in login, and copies of n1 and n2 in login, saved when there
\* was no other collection, or one of n1 in the CmdWarden collection.
GHEntry == i1 :> AnItem("login", "gh")
CopyInLogin == At(GHEntry @@ i2 :> AnItem("login", "n1"))
CopyInCw == At(GHEntry @@ i2 :> AnItem("cw", "n1"))
BothNames == At(GHEntry @@ i2 :> AnItem("login", "n1") @@ i3 :> AnItem("login", "n2"))
NothingStored == At(<<>>)

NothingOrCopies == {NothingStored, BothNames, CopyInCw}
TwoNames == {BothNames}
OneCopy == {CopyInLogin}

LoginAndCw == {{"login"}, {"login", "cw"}}
AnyCollections == {{}, {"cw"}, {"dflt"}, {"login"}, {"login", "cw"}}

Save(n) == [op |-> "save", name |-> n]
Remove(n) == [op |-> "delete", name |-> n]
Release(n) == [op |-> "release", name |-> n]
Import(n, s) == [op |-> "import", name |-> n, source |-> s]

AllRequests == <<Import("n1", "env"), Import("n1", "hosts"), Import("n1", "keyring"),
                 Save("n1"), Remove("n1"), Release("n1"), Release("n2")>>
OnTwoNames == {Release("n1"), Release("n2"), Remove("n2")}

\* Both handlers may be called with any of them; where they share a connection
\* it does not matter which of the two is called with which.
Calls(requests) == [{"h1", "h2"} -> requests]
Pairs(requests) ==
    {"h1" :> requests[p[1]] @@ "h2" :> requests[p[2]] :
        p \in {q \in (DOMAIN requests) \X (DOMAIN requests) : q[1] <= q[2]}}

AllPairs == Pairs(AllRequests)
CallsOnTwoNames == Calls(OnTwoNames)
TwoSaves == Calls({Save("n1")})

OwnConnection == [h \in Handler |-> h]
OneConnection == [h \in Handler |-> CHOOSE c \in Conn : TRUE]
=============================================================================
