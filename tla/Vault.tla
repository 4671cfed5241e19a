-------------------------------- MODULE Vault --------------------------------
(* The vault: SaveNamed, LookupNamed and DeleteNamed of                        *)
(* internal/secretservice, behind the agent's SaveSecret, ReleaseSecret,       *)
(* DeleteSecret and ImportGHToken and behind the import cw harden gh runs on a *)
(* connection of its own. Every step of a handler is one call of the Secret    *)
(* Service; a call may be answered at once, refused, or answered by a prompt   *)
(* the user completes, dismisses or leaves open.                               *)
(*                                                                             *)
(* A definition marked "mutant" is a bug the code could have had; no action    *)
(* uses it.                                                                    *)
EXTENDS Naturals, FiniteSets

CONSTANTS
    Handler,       \* the calls of the vault's methods
    Conn,
    ConnOf,        \* [Handler -> the bus connection its Secret Service client uses]
    Name,          \* names secrets are saved under
    Requests,      \* what this instance's handlers may be called with
    Item,          \* bound: the item paths there are to give out
    Labelled,      \* bound: the paths collections labelled "CmdWarden" can get
    Login,         \* the path of collection/login
    Default,       \* the path the default alias points to, where it is set
    Stored,        \* the items there may be at the start
    Collections,   \* the collections there may be at the start
    GH,            \* the attributes of gh's own items
    None

Collection == Labelled \cup {Login, Default}
Object == Item \cup Collection
Value == Handler \cup Name \cup {GH}
Results == {"ok", "error", "locked", "wrongWallet"}

\* An item the Secret Service has, or had.
Secret == [coll: Collection, key: Name \cup {GH}, value: Value \cup {None}, live: BOOLEAN]

ASSUME ConnAssumption == ConnOf \in [Handler -> Conn]
ASSUME GHAssumption == GH \notin Name
ASSUME RequestAssumption == \A r \in Requests : \A h \in Handler : r[h].name \in Name
ASSUME ItemAssumption == Item \cap (Results \cup Collection \cup {None}) = {}
ASSUME StoredAssumption == Stored \subseteq [Item -> Secret \cup {None}]
ASSUME CollectionsAssumption == Collections \subseteq SUBSET Collection
ASSUME NoneAssumption == None \notin Secret \cup Collection \cup Results

VARIABLES
    request,  \* [Handler -> what it was called with]
    call,     \* [Handler -> its locals]
    colls,    \* the service's collections
    locked,   \* those that are locked
    item,     \* [Item -> the item at that path, None when never given out]
    prompts   \* prompts the user has not completed

vars == <<request, call, colls, locked, item, prompts>>

Live(i) == item[i] # None /\ item[i].live
Matches(key) == {i \in Item : Live(i) /\ item[i].key = key}
CollOf(object) == IF object \in Item THEN item[object].coll ELSE object
LockedOf(objects) == {x \in objects : CollOf(x) \in locked}

\* The collection gh would use: login when it is listed, else the default
\* alias; None when that is unset or cannot be read. Neither comes or goes, so
\* that the code's older list of collections has them as well.
Wallets == IF Login \in colls THEN {Login} ELSE {None} \cup ({Default} \cap colls)

Init ==
    /\ request \in Requests
    /\ call = [h \in Handler |->
                 [at |-> "start", key |-> None, coll |-> None, found |-> {}, todo |-> {},
                  token |-> None, prompt |-> None, inbox |-> None,
                  seen |-> {}, dropped |-> FALSE, crossed |-> {}, result |-> None]]
    /\ colls \in Collections
    /\ locked \in SUBSET colls
    /\ item \in {stored \in Stored :
                   \A i \in Item : stored[i] # None => stored[i].coll \in colls}
    /\ prompts = {}

-----------------------------------------------------------------------------
(* What a handler does with an answer.                                        *)

\* It goes on, and watches no prompt any more.
Update(h, local) ==
    call' = [call EXCEPT ![h] = [local EXCEPT !.prompt = None, !.inbox = None]]
Goto(h, at) == Update(h, [call[h] EXCEPT !.at = at])
SaveToken(h, token) == Update(h, [call[h] EXCEPT !.at = "ensure", !.token = token])
SearchFor(h, key) == Update(h, [call[h] EXCEPT !.at = "search", !.key = key])
SaveIn(h, path) ==
    Update(h, [call[h] EXCEPT !.at = "search", !.key = request[h].name, !.coll = path])
Return(h, result) ==
    Update(h, [call[h] EXCEPT !.at = "done", !.result = result,
                              !.key = None, !.found = {}, !.todo = {}])

\* CreateCollection failed: EnsureCollection falls back to gh's wallet.
Fallback(h) ==
    \E wallet \in Wallets :
        IF wallet = None THEN Return(h, "wrongWallet") ELSE SaveIn(h, wallet)
Refuse(h) == IF call[h].at = "create" THEN Fallback(h) ELSE Return(h, "error")

AfterSearch(h) == IF call[h].key = GH \/ request[h].op = "release" THEN "read" ELSE "clear"

HoldsToken(objects) == IF Login \in colls THEN objects = {Login} ELSE Cardinality(objects) = 1

\* Of the items a search for a name finds, those that are to be deleted: what
\* stays locked is left out without an error.
ToClear(h, objects) == IF call[h].key = GH THEN {} ELSE objects

\* Unlocked items join what was found, deleted ones leave it.
Add(h, objects) ==
    Update(h, [call[h] EXCEPT !.at = AfterSearch(h), !.found = @ \cup objects, !.todo = {},
                              !.seen = @ \cup ToClear(h, objects)])
Drop(h, objects) ==
    Update(h, [call[h] EXCEPT !.found = @ \ objects, !.todo = {}, !.dropped = TRUE])

\* The call answered with these objects.
Succeed(h, objects) ==
    \/ /\ call[h].at = "hold"
       /\ IF HoldsToken(objects) THEN Goto(h, "source") ELSE Return(h, "wrongWallet")
    \/ /\ call[h].at = "create"
       /\ \E path \in objects : SaveIn(h, path)
    \/ /\ call[h].at = "unlock"
       /\ Add(h, objects)
    \/ /\ call[h].at = "clear"
       /\ Drop(h, call[h].todo)
    \/ call[h].at = "item" /\ Return(h, "ok")

\* The call needs a prompt for objects: the handler watches for Completed and
\* shows it. What was unlocked without it is kept.
Ask(h, objects, unlocked) ==
    LET p == [of |-> h, at |-> call[h].at, objects |-> objects]
    IN  /\ prompts' = prompts \cup {p}
        /\ call' = [call EXCEPT ![h] = [call[h] EXCEPT !.prompt = p, !.todo = objects,
                                                       !.found = @ \cup unlocked,
                                                       !.seen = @ \cup ToClear(h, unlocked)]]
        /\ UNCHANGED request

-----------------------------------------------------------------------------
(* What the service does; an answer names the objects it is about.            *)

Unlock(objects) == /\ locked' = locked \ {CollOf(x) : x \in objects}
                   /\ UNCHANGED <<colls, item>>

NewCollection(path) == /\ path \in Labelled \ colls
                       /\ colls' = colls \cup {path}
                       /\ UNCHANGED <<locked, item>>

Delete(objects) == /\ item' = [i \in Item |-> IF i \in objects THEN [item[i] EXCEPT !.live = FALSE]
                                                              ELSE item[i]]
                   /\ UNCHANGED <<colls, locked>>

\* The path a new item gets: one not given out before, and all those are alike.
NewPath == LET free == {i \in Item : item[i] = None}
           IN  {i \in free : i = CHOOSE j \in free : TRUE}

\* CreateItem with replace: an item of the collection with the same
\* attributes gets the new value, otherwise a new one is made.
Put(h, i) ==
    LET there == {j \in Matches(request[h].name) : item[j].coll = call[h].coll}
    IN  /\ i \in IF there # {} THEN there ELSE NewPath
        /\ item' = [item EXCEPT ![i] = [coll |-> call[h].coll, key |-> request[h].name,
                                        value |-> call[h].token, live |-> TRUE]]
        /\ UNCHANGED <<colls, locked>>

-----------------------------------------------------------------------------
(* A handler's calls.                                                         *)

Begin(h) ==
    /\ call[h].at = "start"
    /\ \/ request[h].op = "save" /\ SaveToken(h, h)
       \/ request[h].op = "import" /\ Goto(h, "hold")
       \/ /\ request[h].op \in {"release", "delete"}
          /\ SearchFor(h, request[h].name)
    /\ UNCHANGED <<request, colls, locked, item, prompts>>

\* Any call may be refused. A locked collection refuses a new item.
Fail(h) ==
    /\ call[h].at \notin {"start", "source", "done"}
    /\ call[h].prompt = None
    /\ call[h].at = "clear" => call[h].found # {}
    /\ IF call[h].at = "item" /\ call[h].coll \in locked THEN Return(h, "locked") ELSE Refuse(h)
    /\ UNCHANGED <<request, colls, locked, item, prompts>>

\* The service unlocks some of the objects at once, and leaves the others locked
\* or has a prompt for them. What it unlocked before the prompt counts if the
\* prompt is answered.
UnlockCall(h, objects) ==
    \E opened \in SUBSET objects :
        /\ objects \ LockedOf(objects) \subseteq opened
        /\ Unlock(opened)
        /\ \/ Succeed(h, opened) /\ UNCHANGED <<request, prompts>>
           \/ opened # objects /\ Ask(h, objects \ opened, opened)

\* Import: can gh's wallet hold a token at all?
Hold(h) ==
    /\ call[h].at = "hold" /\ call[h].prompt = None
    /\ \E wallet \in Wallets :
          IF wallet = None
          THEN Return(h, "wrongWallet") /\ UNCHANGED <<request, colls, locked, item, prompts>>
          ELSE UnlockCall(h, {wallet})

\* Import: where gh's active token comes from. hosts.yml is refused.
Source(h) ==
    /\ call[h].at = "source"
    /\ \/ request[h].source = "env" /\ SaveToken(h, h)
       \/ request[h].source = "keyring" /\ SearchFor(h, GH)
       \/ request[h].source = "hosts" /\ Return(h, "error")
    /\ UNCHANGED <<request, colls, locked, item, prompts>>

DeleteFirst(h) ==                                        \* mutant
    /\ call[h].at = "ensure"
    /\ Update(h, [call[h] EXCEPT !.at = "create", !.dropped = TRUE])
    /\ Delete(Matches(request[h].name))
    /\ UNCHANGED <<request, prompts>>

\* A collection whose label cannot be read is not a match.
Ensure(h) ==
    /\ call[h].at = "ensure"
    /\ \/ \E path \in colls \cap Labelled :
             SaveIn(h, path)
       \/ Goto(h, "create")
    /\ UNCHANGED <<request, colls, locked, item, prompts>>

CreateCollection(h) ==
    /\ call[h].at = "create" /\ call[h].prompt = None
    /\ \/ \E path \in Labelled :
             /\ NewCollection(path)
             /\ Succeed(h, {path})
             /\ UNCHANGED <<request, prompts>>
       \/ Ask(h, {}, {}) /\ UNCHANGED <<colls, locked, item>>

SearchOneCollection(h) ==                                \* mutant
    /\ call[h].at = "search"
    /\ LET matches == Matches(call[h].key)
           here == {i \in matches : call[h].coll \in {None, item[i].coll}}
       IN  Update(h, [call[h] EXCEPT
                      !.found = here \ LockedOf(here), !.todo = LockedOf(here),
                      !.at = IF LockedOf(here) = {} THEN AfterSearch(h) ELSE "unlock",
                      !.seen = ToClear(h, matches \ LockedOf(matches))])
    /\ UNCHANGED <<request, colls, locked, item, prompts>>

SearchByName(h) ==                                       \* mutant
    /\ call[h].at = "search"
    /\ LET matches == Matches(call[h].key) \cup Matches(GH)
       IN  Update(h, [call[h] EXCEPT
                      !.found = matches, !.todo = {}, !.at = AfterSearch(h), !.seen = {}])
    /\ UNCHANGED <<request, colls, locked, item, prompts>>

SearchBySchema(h) ==                                     \* mutant
    /\ call[h].at = "search"
    /\ LET matches == {i \in Item : Live(i) /\ item[i].key # GH}
       IN  Update(h, [call[h] EXCEPT
                      !.found = matches, !.todo = {}, !.at = AfterSearch(h), !.seen = {}])
    /\ UNCHANGED <<request, colls, locked, item, prompts>>

\* Service-wide; what comes back locked is unlocked next.
Search(h) ==
    /\ call[h].at = "search"
    /\ LET matches == Matches(call[h].key)
           shut == LockedOf(matches)
       IN  Update(h, [call[h] EXCEPT
                      !.found = matches \ shut, !.todo = shut,
                      !.at = IF shut = {} THEN AfterSearch(h) ELSE "unlock",
                      !.seen = ToClear(h, matches \ shut)])
    /\ UNCHANGED <<request, colls, locked, item, prompts>>

UnlockFound(h) ==
    /\ call[h].at = "unlock" /\ call[h].prompt = None
    /\ UnlockCall(h, call[h].todo)

\* LookupNamed, and gh's own entry on import: any match. None is no secret.
Read(h) ==
    /\ call[h].at = "read"
    /\ \/ call[h].found = {} /\ Return(h, "error")
       \/ \E i \in call[h].found \cap Item :
             /\ Live(i) /\ item[i].coll \notin locked
             /\ IF request[h].op = "release"
                THEN Return(h, i)
                ELSE SaveToken(h, item[i].value)
    /\ UNCHANGED <<request, colls, locked, item, prompts>>

\* DeleteNamed: one call for each match. A match that is gone fails it (Fail).
DeleteItem(h) ==
    /\ call[h].at = "clear" /\ call[h].prompt = None
    /\ \E i \in call[h].found \cap Item :
          /\ Live(i)
          /\ \/ /\ item[i].coll \notin locked
                /\ Delete({i})
                /\ Drop(h, {i})
                /\ UNCHANGED <<request, prompts>>
             \/ /\ item[i].coll \in locked
                /\ Ask(h, {i}, {})
                /\ UNCHANGED <<colls, locked, item>>

Cleared(h) ==
    /\ call[h].at = "clear" /\ call[h].found = {}
    /\ IF request[h].op = "delete" THEN Return(h, "ok") ELSE Goto(h, "item")
    /\ UNCHANGED <<request, colls, locked, item, prompts>>

CreateItem(h) ==
    /\ call[h].at = "item" /\ call[h].prompt = None
    /\ call[h].coll \in colls
    /\ \/ /\ call[h].coll \notin locked
          /\ \E i \in Item : Put(h, i)
          /\ Succeed(h, {})
          /\ UNCHANGED <<request, prompts>>
       \/ /\ call[h].coll \in locked
          /\ Ask(h, {call[h].coll}, {})
          /\ UNCHANGED <<colls, locked, item>>

-----------------------------------------------------------------------------
(* Prompts.                                                                   *)

\* The D-Bus types of what Completed carries, and of what each call stores it in.
Carries(at) == CASE at \in {"hold", "unlock"} -> "paths"
                 [] at \in {"create", "item"} -> "path"
                 [] OTHER -> "nothing"
Decodes(at, signal) == Carries(at) \in {signal.type, "nothing"}

\* A connection hands a signal it is sent to every channel registered on it,
\* and the match that has it sent is the prompting handler's own.
Watchers(p) == {w \in Handler : /\ call[w].prompt # None
                                /\ ConnOf[w] = ConnOf[p.of]
                                /\ call[p.of].prompt = p}

Deliver(p, dismissed, objects) ==
    LET signal == [dismissed |-> dismissed, type |-> Carries(p.at), objects |-> objects]
        other(w) == IF w = p.of THEN {} ELSE {call[w].at}
    IN  call' = [w \in Handler |-> IF w \in Watchers(p) /\ call[w].inbox = None
                                   THEN [call[w] EXCEPT !.inbox = signal,
                                                        !.crossed = @ \cup other(w)]
                                   ELSE call[w]]

\* The user completes or dismisses a prompt, in time or not. Some of what it
\* was to unlock may stay locked.
Dismiss(p) == /\ Deliver(p, TRUE, {})
              /\ UNCHANGED <<colls, locked, item>>
Complete(p) ==
    \/ /\ p.at \in {"hold", "unlock"}
       /\ \E opened \in SUBSET p.objects : Unlock(opened) /\ Deliver(p, FALSE, opened)
    \/ /\ p.at = "create"
       /\ \E path \in Labelled : NewCollection(path) /\ Deliver(p, FALSE, {path})
    \/ /\ p.at = "clear"
       /\ Delete(p.objects)
       /\ Deliver(p, FALSE, {})
    \/ /\ p.at = "item"
       /\ \E i \in Item : Put(p.of, i) /\ Deliver(p, FALSE, {i})
Completed(p) ==
    /\ prompts' = prompts \ {p}
    /\ Dismiss(p) \/ Complete(p)
    /\ UNCHANGED request

\* runPromptWithTimeout takes the first signal on its channel.
Answered(h) ==
    /\ call[h].inbox # None
    /\ LET signal == call[h].inbox
       IN  IF signal.dismissed \/ ~Decodes(call[h].at, signal)
           THEN Refuse(h)
           ELSE Succeed(h, signal.objects)
    /\ UNCHANGED <<request, colls, locked, item, prompts>>

WaitForever(h) == FALSE /\ UNCHANGED vars                \* mutant
\* The handler gives up on the prompt; the prompt stays on the screen.
TimedOut(h) ==
    /\ call[h].prompt # None
    /\ Refuse(h)
    /\ UNCHANGED <<request, colls, locked, item, prompts>>

-----------------------------------------------------------------------------
Handle(h) ==
    \/ Begin(h) \/ Fail(h) \/ Hold(h) \/ Source(h) \/ Ensure(h) \/ CreateCollection(h)
    \/ Search(h) \/ UnlockFound(h) \/ Read(h) \/ DeleteItem(h) \/ Cleared(h)
    \/ CreateItem(h) \/ Answered(h) \/ TimedOut(h)

Next == \/ \E h \in Handler : Handle(h)
        \/ \E p \in prompts : Completed(p)

Spec == Init /\ [][Next]_vars

\* The service answers every call. The user need not complete a prompt.
FairSpec == Spec /\ \A h \in Handler : WF_vars(Handle(h))

-----------------------------------------------------------------------------
Place == {"start", "hold", "source", "ensure", "create", "search", "unlock", "read", "clear",
          "item", "done"}
Prompt == [of: Handler, at: Place, objects: SUBSET Object]
Signal == [dismissed: BOOLEAN, type: {"path", "paths", "nothing"}, objects: SUBSET Object]
Local == [at: Place, key: Name \cup {GH, None}, coll: Object \cup {None},
          found: SUBSET Object, todo: SUBSET Object, token: Value \cup {None},
          prompt: Prompt \cup {None}, inbox: Signal \cup {None},
          seen: SUBSET Object, dropped: BOOLEAN, crossed: SUBSET Place,
          result: Results \cup Item \cup {None}]

\* The handlers' locals and the service's contents keep their types, and only
\* the call that asked for a prompt has a channel a signal can be put on.
TypeOK ==
    /\ request \in Requests
    /\ call \in [Handler -> Local]
    /\ \A h \in Handler :
          /\ call[h].coll \in colls \cup Item \cup {None}
          /\ call[h].prompt # None => call[h].prompt.at = call[h].at
          /\ call[h].inbox # None => call[h].prompt # None
    /\ colls \subseteq Collection
    /\ locked \subseteq colls
    /\ item \in [Item -> Secret \cup {None}]
    /\ \A i \in Item : item[i] # None => item[i].coll \in colls
    /\ prompts \subseteq Prompt

\* What a call may have prompts for.
Wanted(h) == {request[h].name} \cup
             (IF request[h].op = "import" /\ request[h].source = "keyring" THEN {GH} ELSE {})

\* A call took the answer to an unlock prompt of another one of its connection,
\* which looked for key.
TookFromPeer(h, key) ==
    /\ "unlock" \in call[h].crossed
    /\ \E w \in Handler \ {h} : ConnOf[w] = ConnOf[h] /\ key \in Wanted(w)

\* A secret is released under the name it was saved under ("LookupNamed
\* returns the stored value for name"), unless the Completed signal of another
\* call's prompt came first; then it is what that call asked for, and both are
\* calls of one connection. (runPromptWithTimeout's channel)
ReleasesOwnName ==
    \A h \in Handler : call[h].result \in Item =>
        LET key == item[call[h].result].key
        IN  key = request[h].name \/ TookFromPeer(h, key)

\* gh's own items are neither deleted nor overwritten, although they may be in
\* the collection the vault falls back to, unless a save or a delete took them
\* from the unlock prompt of an import. (VaultItemSchema, DeleteNamed)
ForeignItemsUntouched ==
    [][\A i \in Item : item[i] # None /\ item[i].key = GH =>
          \/ item'[i] = item[i]
          \/ \E h \in Handler : request[h].op # "release" /\ TookFromPeer(h, GH)]_vars

\* A save or a delete that returned has removed every item of that name that its
\* search found unlocked or got unlocked, whichever collection it was in, unless
\* it took the signal of another call's prompt for the answer to a deletion.
\* (DeleteNamed, DeleteItem)
ClearsEveryCollection ==
    \A h \in Handler : call[h].result = "ok" /\ "clear" \notin call[h].crossed =>
        \A i \in call[h].seen \cap Item : ~Live(i)

\* A save for which there is no wallet has dropped no stored copy.
WrongWalletDropsNothing ==
    \A h \in Handler : call[h].result = "wrongWallet" => ~call[h].dropped

\* Every call of the vault returns, whatever the user does with the prompts.
EveryCallReturns == \A h \in Handler : <>(call[h].at = "done")

\* What the comment on SaveNamed says: a wallet that cannot hold the token does
\* not drop a stored copy; a locked one is such a wallet.
LockedWalletDropsNothing ==
    \A h \in Handler : call[h].result = "locked" => ~call[h].dropped

\* What the comment on SaveSecret says: there is at most one item of a name,
\* looked at when no call is under way and no prompt is open.
AtMostOneItem ==
    (prompts = {} /\ \A h \in Handler : call[h].at = "done")
        => \A n \in Name : Cardinality(Matches(n)) <= 1

-----------------------------------------------------------------------------
(* What the comments say without an exception, and the code does not do.      *)

\* "LookupNamed returns the stored value for name", whatever else the agent does.
AlwaysReleasesOwnName ==
    \A h \in Handler : call[h].result \in Item => item[call[h].result].key = request[h].name

\* "DeleteNamed removes every item stored under name": a delete that reports
\* success leaves none, where nothing else saves under that name.
DeletesEveryItem ==
    \A h \in Handler :
        /\ request[h].op = "delete" /\ call[h].result = "ok"
        /\ \A w \in Handler \ {h} : request[w].op \in {"save", "import"} =>
                                      request[w].name # request[h].name
        => Matches(request[h].name) = {}

=============================================================================
