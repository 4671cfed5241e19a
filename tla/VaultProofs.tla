----------------------------- MODULE VaultProofs -----------------------------
(* What is proved of Vault for every value of its constants, also where calls  *)
(* share a connection and take the signals of each other's prompts: what is    *)
(* released, what happens to gh's own items, and what a save or a delete       *)
(* clears.                                                                     *)
EXTENDS Vault, TLAPS

Asking == {"hold", "create", "unlock", "clear", "item"}

\* An item that was deleted. Its path is not given out again.
Dead(i) == item[i] # None /\ ~item[i].live
Keyed(objects, key) == \A i \in objects \cap Item : item[i] # None /\ item[i].key = key

\* What a call has come by: items under the name it looks for, or taken from a peer.
CameBy(h, objects) ==
    \A i \in objects \cap Item :
        item[i] # None /\ (item[i].key = call[h].key \/ TookFromPeer(h, item[i].key))

\* What a call may delete: no item of gh's, unless it took it from a peer.
GHTaken(h) == request[h].op # "release" /\ TookFromPeer(h, GH)
Clearable(h, objects) ==
    \A i \in objects \cap Item : item[i] # None /\ (item[i].key = GH => GHTaken(h))

\* A handler waits for its own prompt. The signal it was sent says what was asked
\* for, or is of a peer's prompt and is then marked in crossed.
WaitInv(h) ==
    /\ call[h].prompt # None => /\ call[h].prompt.of = h /\ call[h].prompt.at = call[h].at
                                /\ call[h].prompt.objects = call[h].todo
                                /\ call[h].at \in Asking
    /\ call[h].inbox # None =>
         /\ call[h].prompt # None
         /\ ~call[h].inbox.dismissed =>
              /\ call[h].at = "unlock" /\ call[h].inbox.type = "paths" =>
                   CameBy(h, call[h].inbox.objects)
              /\ call[h].at = "create" /\ call[h].inbox.type = "path" =>
                   call[h].inbox.objects \subseteq colls \cup Item
              /\ call[h].at = "clear" /\ "clear" \notin call[h].crossed =>
                   \A i \in call[h].todo : Dead(i)

\* What a handler found is under the name it looks for, or is gh's own and only
\* read, or came from a peer.
FoundInv(h) ==
    /\ call[h].at \in {"search", "unlock", "read", "clear"} => call[h].key \in Wanted(h)
    /\ call[h].at \in {"hold", "source"} => request[h].op = "import"
    /\ call[h].at \in {"unlock", "read", "clear"} => CameBy(h, call[h].found)
    /\ call[h].at = "unlock" => call[h].todo \subseteq Item /\ Keyed(call[h].todo, call[h].key)
    /\ call[h].at = "clear" => /\ request[h].op # "release" /\ call[h].key # GH
                               /\ call[h].todo \subseteq call[h].found \cap Item
    /\ call[h].result \in Item =>
         LET i == call[h].result
         IN  item[i] # None /\ (item[i].key = request[h].name \/ TookFromPeer(h, item[i].key))

\* What a call is to clear is still to be cleared, or is deleted.
SeenInv(h) ==
    /\ call[h].at = "unlock" =>
         \A i \in call[h].seen \cap Item : i \in call[h].found \/ Dead(i)
    /\ call[h].at = "clear" /\ "clear" \notin call[h].crossed =>
         \A i \in call[h].seen \cap Item : i \in call[h].found \/ Dead(i)
    /\ (call[h].at = "item" \/ call[h].result = "ok") /\ "clear" \notin call[h].crossed =>
         \A i \in call[h].seen \cap Item : Dead(i)

\* Nothing is deleted before there is a collection for the new item.
DroppedInv(h) ==
    /\ call[h].at \notin {"clear", "item", "done"} \/ call[h].result = "wrongWallet"
         => ~call[h].dropped
    /\ call[h].at # "done" => call[h].result = None

\* A prompt is for what its call may ask for; one to create has its collection.
PromptInv(p) ==
    /\ p.at = "hold" => p.objects \cap Item = {}
    /\ p.at = "unlock" =>
         \A i \in p.objects \cap Item : item[i] # None /\ item[i].key \in Wanted(p.of)
    /\ p.at = "clear" => Clearable(p.of, p.objects)
    /\ p.at = "item" => call[p.of].at \in {"item", "done"} /\ call[p.of].coll \in colls

CallInv(h) == WaitInv(h) /\ FoundInv(h) /\ SeenInv(h) /\ DroppedInv(h)
IInv == /\ TypeOK
        /\ \A h \in Handler : CallInv(h)
        /\ \A p \in prompts : PromptInv(p)

USE ConnAssumption, GHAssumption, RequestAssumption, ItemAssumption, NoneAssumption

-----------------------------------------------------------------------------
(* Records, items and the service                                            *)

LEMMA Distinct == None \notin Item \cup Results /\ Item \cap Results = {}
BY DEF Results

\* Update changes one handler's locals.
LEMMA Updated ==
    ASSUME TypeOK, NEW h \in Handler, NEW local \in Local, Update(h, local)
    PROVE  /\ \A g \in Handler \ {h} : call'[g] = call[g]
           /\ call' \in [Handler -> Local]
           /\ call'[h].prompt = None /\ call'[h].inbox = None
           /\ call'[h].at = local.at /\ call'[h].key = local.key /\ call'[h].coll = local.coll
           /\ call'[h].found = local.found /\ call'[h].todo = local.todo
           /\ call'[h].token = local.token /\ call'[h].seen = local.seen
           /\ call'[h].dropped = local.dropped /\ call'[h].result = local.result
           /\ call'[h].crossed = local.crossed
BY DEF Update, TypeOK, Local

\* What Goto, SaveToken and the other transitions do to the locals of a handler.
OnlyMoves(h) == /\ \A g \in Handler \ {h} : call'[g] = call[g]
                /\ call' \in [Handler -> Local]
                /\ call'[h].prompt = None /\ call'[h].inbox = None
                /\ call'[h].crossed = call[h].crossed

LEMMA GotoMoves ==
    ASSUME TypeOK, NEW h \in Handler, NEW at \in Place, Goto(h, at)
    PROVE  /\ OnlyMoves(h)
           /\ call'[h].at = at /\ call'[h].key = call[h].key /\ call'[h].coll = call[h].coll
           /\ call'[h].found = call[h].found /\ call'[h].todo = call[h].todo
           /\ call'[h].token = call[h].token /\ call'[h].seen = call[h].seen
           /\ call'[h].dropped = call[h].dropped /\ call'[h].result = call[h].result
<1> DEFINE local == [call[h] EXCEPT !.at = at]
<1>1. call[h] \in Local /\ at \in Place
  BY DEF TypeOK, Place
<1>2. Update(h, local)
  BY <1>1 DEF Local, Goto
<1>3. local \in Local
  BY <1>1 DEF Local
<1>4. /\ local.at = at /\ local.key = call[h].key /\ local.coll = call[h].coll
      /\ local.found = call[h].found /\ local.todo = call[h].todo
      /\ local.token = call[h].token /\ local.seen = call[h].seen
      /\ local.dropped = call[h].dropped /\ local.result = call[h].result
      /\ local.crossed = call[h].crossed
  BY <1>1 DEF Local
<1> HIDE DEF local
<1>5. QED
  BY <1>2, <1>3, <1>4, Updated DEF OnlyMoves

LEMMA SaveTokenMoves ==
    ASSUME TypeOK, NEW h \in Handler, NEW token \in Value \cup {None}, SaveToken(h, token)
    PROVE  /\ OnlyMoves(h)
           /\ call'[h].at = "ensure" /\ call'[h].key = call[h].key
           /\ call'[h].coll = call[h].coll /\ call'[h].found = call[h].found
           /\ call'[h].todo = call[h].todo /\ call'[h].token = token
           /\ call'[h].seen = call[h].seen /\ call'[h].dropped = call[h].dropped
           /\ call'[h].result = call[h].result
<1> DEFINE local == [call[h] EXCEPT !.at = "ensure", !.token = token]
<1>1. call[h] \in Local /\ "ensure" \in Place
  BY DEF TypeOK, Place
<1>2. Update(h, local)
  BY <1>1 DEF Local, SaveToken
<1>3. local \in Local
  BY <1>1 DEF Local
<1>4. /\ local.at = "ensure" /\ local.key = call[h].key /\ local.coll = call[h].coll
      /\ local.found = call[h].found /\ local.todo = call[h].todo /\ local.token = token
      /\ local.seen = call[h].seen /\ local.dropped = call[h].dropped
      /\ local.result = call[h].result /\ local.crossed = call[h].crossed
  BY <1>1 DEF Local
<1> HIDE DEF local
<1>5. QED
  BY <1>2, <1>3, <1>4, Updated DEF OnlyMoves

LEMMA SearchForMoves ==
    ASSUME TypeOK, NEW h \in Handler, NEW key \in Name \cup {GH}, SearchFor(h, key)
    PROVE  /\ OnlyMoves(h)
           /\ call'[h].at = "search" /\ call'[h].key = key /\ call'[h].coll = call[h].coll
           /\ call'[h].found = call[h].found /\ call'[h].todo = call[h].todo
           /\ call'[h].token = call[h].token /\ call'[h].seen = call[h].seen
           /\ call'[h].dropped = call[h].dropped /\ call'[h].result = call[h].result
<1> DEFINE local == [call[h] EXCEPT !.at = "search", !.key = key]
<1>1. call[h] \in Local /\ "search" \in Place
  BY DEF TypeOK, Place
<1>2. Update(h, local)
  BY <1>1 DEF Local, SearchFor
<1>3. local \in Local
  BY <1>1 DEF Local
<1>4. /\ local.at = "search" /\ local.key = key /\ local.coll = call[h].coll
      /\ local.found = call[h].found /\ local.todo = call[h].todo
      /\ local.token = call[h].token /\ local.seen = call[h].seen
      /\ local.dropped = call[h].dropped /\ local.result = call[h].result
      /\ local.crossed = call[h].crossed
  BY <1>1 DEF Local
<1> HIDE DEF local
<1>5. QED
  BY <1>2, <1>3, <1>4, Updated DEF OnlyMoves

LEMMA SaveInMoves ==
    ASSUME TypeOK, NEW h \in Handler, NEW path \in Object, SaveIn(h, path)
    PROVE  /\ OnlyMoves(h)
           /\ call'[h].at = "search" /\ call'[h].key = request[h].name
           /\ call'[h].coll = path /\ call'[h].found = call[h].found
           /\ call'[h].todo = call[h].todo /\ call'[h].token = call[h].token
           /\ call'[h].seen = call[h].seen /\ call'[h].dropped = call[h].dropped
           /\ call'[h].result = call[h].result
<1> DEFINE name == request[h].name
           local == [call[h] EXCEPT !.at = "search", !.key = name, !.coll = path]
<1>1. call[h] \in Local /\ "search" \in Place /\ name \in Name
  BY DEF TypeOK, Place
<1>2. Update(h, local)
  BY <1>1 DEF Local, SaveIn
<1> HIDE DEF name
<1>3. local \in Local
  BY <1>1 DEF Local
<1>4. /\ local.at = "search" /\ local.key = name /\ local.coll = path
      /\ local.found = call[h].found /\ local.todo = call[h].todo
      /\ local.token = call[h].token /\ local.seen = call[h].seen
      /\ local.dropped = call[h].dropped /\ local.result = call[h].result
      /\ local.crossed = call[h].crossed
  BY <1>1 DEF Local
<1> HIDE DEF local
<1>5. QED
  BY <1>2, <1>3, <1>4, Updated DEF OnlyMoves, name

LEMMA ReturnMoves ==
    ASSUME TypeOK, NEW h \in Handler, NEW result \in Results \cup Item, Return(h, result)
    PROVE  /\ OnlyMoves(h)
           /\ call'[h].at = "done" /\ call'[h].key = None /\ call'[h].coll = call[h].coll
           /\ call'[h].found = {} /\ call'[h].todo = {} /\ call'[h].token = call[h].token
           /\ call'[h].seen = call[h].seen /\ call'[h].dropped = call[h].dropped
           /\ call'[h].result = result
<1> DEFINE local == [call[h] EXCEPT !.at = "done", !.result = result, !.key = None, !.found = {}, !.todo = {}]
<1>1. call[h] \in Local /\ "done" \in Place
  BY DEF TypeOK, Place
<1>2. Update(h, local)
  BY <1>1 DEF Local, Return
<1>3. local \in Local
  BY <1>1 DEF Local
<1>4. /\ local.at = "done" /\ local.key = None /\ local.coll = call[h].coll
      /\ local.found = {} /\ local.todo = {} /\ local.token = call[h].token
      /\ local.seen = call[h].seen /\ local.dropped = call[h].dropped
      /\ local.result = result /\ local.crossed = call[h].crossed
  BY <1>1 DEF Local
<1> HIDE DEF local
<1>5. QED
  BY <1>2, <1>3, <1>4, Updated DEF OnlyMoves

LEMMA AddMoves ==
    ASSUME TypeOK, NEW h \in Handler, NEW objects \in SUBSET Object, Add(h, objects)
    PROVE  /\ OnlyMoves(h)
           /\ call'[h].at = AfterSearch(h) /\ call'[h].key = call[h].key
           /\ call'[h].coll = call[h].coll /\ call'[h].found = call[h].found \cup objects
           /\ call'[h].todo = {} /\ call'[h].token = call[h].token
           /\ call'[h].seen = call[h].seen \cup ToClear(h, objects)
           /\ call'[h].dropped = call[h].dropped /\ call'[h].result = call[h].result
<1> DEFINE at == AfterSearch(h)
           found == call[h].found \cup objects
           seen == call[h].seen \cup ToClear(h, objects)
           local == [call[h] EXCEPT !.at = at, !.found = found, !.todo = {}, !.seen = seen]
<1>1. call[h] \in Local /\ at \in Place /\ found \in SUBSET Object /\ seen \in SUBSET Object
  BY DEF TypeOK, Local, Place, AfterSearch, ToClear
<1>2. Update(h, local)
  BY <1>1 DEF Local, Add
<1> HIDE DEF at, found, seen
<1>3. local \in Local
  BY <1>1 DEF Local
<1>4. /\ local.at = at /\ local.key = call[h].key /\ local.coll = call[h].coll
      /\ local.found = found /\ local.todo = {} /\ local.token = call[h].token
      /\ local.seen = seen /\ local.dropped = call[h].dropped
      /\ local.result = call[h].result /\ local.crossed = call[h].crossed
  BY <1>1 DEF Local
<1> HIDE DEF local
<1>5. QED
  BY <1>2, <1>3, <1>4, Updated DEF OnlyMoves, at, found, seen

LEMMA DropMoves ==
    ASSUME TypeOK, NEW h \in Handler, NEW objects \in SUBSET Object, Drop(h, objects)
    PROVE  /\ OnlyMoves(h)
           /\ call'[h].at = call[h].at /\ call'[h].key = call[h].key
           /\ call'[h].coll = call[h].coll /\ call'[h].found = call[h].found \ objects
           /\ call'[h].todo = {} /\ call'[h].token = call[h].token
           /\ call'[h].seen = call[h].seen /\ call'[h].dropped = TRUE
           /\ call'[h].result = call[h].result
<1> DEFINE found == call[h].found \ objects
           local == [call[h] EXCEPT !.found = found, !.todo = {}, !.dropped = TRUE]
<1>1. call[h] \in Local /\ found \in SUBSET Object
  BY DEF TypeOK, Local
<1>2. Update(h, local)
  BY <1>1 DEF Local, Drop
<1> HIDE DEF found
<1>3. local \in Local
  BY <1>1 DEF Local
<1>4. /\ local.at = call[h].at /\ local.key = call[h].key /\ local.coll = call[h].coll
      /\ local.found = found /\ local.todo = {} /\ local.token = call[h].token
      /\ local.seen = call[h].seen /\ local.dropped = TRUE /\ local.result = call[h].result
      /\ local.crossed = call[h].crossed
  BY <1>1 DEF Local
<1> HIDE DEF local
<1>5. QED
  BY <1>2, <1>3, <1>4, Updated DEF OnlyMoves, found

LEMMA SearchMoves ==
    ASSUME TypeOK, NEW h \in Handler, Search(h)
    PROVE  LET matches == Matches(call[h].key)
               shut == LockedOf(matches)
           IN  /\ OnlyMoves(h)
               /\ call'[h].at = IF shut = {} THEN AfterSearch(h) ELSE "unlock"
               /\ call'[h].key = call[h].key /\ call'[h].coll = call[h].coll
               /\ call'[h].found = matches \ shut /\ call'[h].todo = shut
               /\ call'[h].seen = ToClear(h, matches \ shut)
               /\ call'[h].dropped = call[h].dropped /\ call'[h].result = call[h].result
<1> DEFINE matches == Matches(call[h].key)
           shut == LockedOf(matches)
           found == matches \ shut
           at == IF shut = {} THEN AfterSearch(h) ELSE "unlock"
           seen == ToClear(h, found)
           local == [call[h] EXCEPT !.found = found, !.todo = shut, !.at = at, !.seen = seen]
<1>1. /\ call[h] \in Local /\ at \in Place
      /\ found \in SUBSET Object /\ shut \in SUBSET Object /\ seen \in SUBSET Object
  BY DEF TypeOK, Place, Object, AfterSearch, Matches, LockedOf, ToClear
<1>2. Update(h, local)
  BY <1>1 DEF Local, Search
<1> HIDE DEF matches, shut, found, at, seen
<1>3. local \in Local
  BY <1>1 DEF Local
<1>4. /\ local.at = at /\ local.key = call[h].key /\ local.coll = call[h].coll
      /\ local.found = found /\ local.todo = shut /\ local.seen = seen
      /\ local.dropped = call[h].dropped /\ local.result = call[h].result
      /\ local.crossed = call[h].crossed
  BY <1>1 DEF Local
<1> HIDE DEF local
<1>5. QED
  BY <1>2, <1>3, <1>4, Updated DEF OnlyMoves, matches, shut, found, at, seen

LEMMA AskMoves ==
    ASSUME TypeOK, NEW h \in Handler, NEW objects \in SUBSET Object,
           NEW unlocked \in SUBSET Object, Ask(h, objects, unlocked)
    PROVE  LET p == [of |-> h, at |-> call[h].at, objects |-> objects]
           IN  /\ \A g \in Handler \ {h} : call'[g] = call[g]
               /\ call' \in [Handler -> Local]
               /\ p \in Prompt /\ prompts' = prompts \cup {p}
               /\ call'[h].prompt = p /\ call'[h].inbox = call[h].inbox
               /\ call'[h].todo = objects /\ call'[h].found = call[h].found \cup unlocked
               /\ call'[h].at = call[h].at /\ call'[h].key = call[h].key
               /\ call'[h].seen = call[h].seen \cup ToClear(h, unlocked)
               /\ call'[h].result = call[h].result /\ call'[h].coll = call[h].coll
               /\ call'[h].dropped = call[h].dropped /\ call'[h].crossed = call[h].crossed
<1> DEFINE p == [of |-> h, at |-> call[h].at, objects |-> objects]
           found == call[h].found \cup unlocked
           seen == call[h].seen \cup ToClear(h, unlocked)
           local == [call[h] EXCEPT !.prompt = p, !.todo = objects, !.found = found, !.seen = seen]
<1>1. call[h] \in Local /\ p \in Prompt /\ found \in SUBSET Object /\ seen \in SUBSET Object
  BY DEF TypeOK, Local, Prompt, ToClear
<1>2. call' = [call EXCEPT ![h] = local] /\ prompts' = prompts \cup {p}
  BY <1>1 DEF Ask, TypeOK, Local
<1> HIDE DEF p, found, seen
<1>3. local \in Local
  BY <1>1 DEF Local
<1>4. /\ local.prompt = p /\ local.inbox = call[h].inbox /\ local.todo = objects
      /\ local.found = found /\ local.at = call[h].at /\ local.key = call[h].key
      /\ local.seen = seen /\ local.result = call[h].result /\ local.coll = call[h].coll
      /\ local.dropped = call[h].dropped /\ local.crossed = call[h].crossed
  BY <1>1 DEF Local
<1> HIDE DEF local
<1>5. QED
  BY <1>1, <1>2, <1>3, <1>4 DEF TypeOK, p, found, seen
-----------------------------------------------------------------------------
(* What the service may do                                                    *)

\* Collections stay, and so do items, under their name, once deleted for good;
\* gh's own are not touched unless a call that may delete took one.
ServiceOK ==
    /\ colls \subseteq colls' /\ colls' \subseteq Collection /\ locked' \subseteq colls'
    /\ item' \in [Item -> Secret \cup {None}]
    /\ \A i \in Item : item'[i] # None => item'[i].coll \in colls'
    /\ \A i \in Item : item[i] # None =>
         /\ item'[i] # None /\ item'[i].key = item[i].key
         /\ ~item[i].live => ~item'[i].live
         /\ item[i].key = GH => item'[i] = item[i] \/ \E h \in Handler : GHTaken(h)

LEMMA NothingDone ==
    ASSUME TypeOK, UNCHANGED <<colls, locked, item>>
    PROVE  ServiceOK
BY DEF TypeOK, ServiceOK

LEMMA UnlockDone ==
    ASSUME TypeOK, NEW objects, Unlock(objects)
    PROVE  ServiceOK
BY DEF TypeOK, ServiceOK, Unlock

LEMMA CollectionMade ==
    ASSUME TypeOK, NEW path, NewCollection(path)
    PROVE  ServiceOK /\ path \in Collection \cap colls'
BY DEF TypeOK, ServiceOK, NewCollection, Collection

LEMMA DeleteDone ==
    ASSUME TypeOK, NEW objects, Delete(objects),
           NEW h \in Handler, Clearable(h, objects)
    PROVE  ServiceOK /\ \A i \in objects \cap Item : Dead(i)'
<1>1. UNCHANGED <<colls, locked>> /\ \A i \in Item \ objects : item'[i] = item[i]
  BY DEF Delete
<1>2. ASSUME NEW i \in objects \cap Item
      PROVE  item'[i] \in Secret /\ item'[i].key = item[i].key
             /\ item'[i].coll = item[i].coll /\ ~item'[i].live
  <2>1. item[i] \in Secret /\ item'[i] = [item[i] EXCEPT !.live = FALSE]
    BY DEF TypeOK, Delete, Clearable
  <2>2. QED
    BY <2>1 DEF Secret
<1>3. DOMAIN item' = Item /\ item' = [i \in Item |-> item'[i]]
  BY DEF Delete
<1>4. item' \in [Item -> Secret \cup {None}]
  BY <1>1, <1>2, <1>3 DEF TypeOK
<1>5. ASSUME NEW i \in objects \cap Item
      PROVE  item[i] # None /\ (item[i].key = GH => GHTaken(h))
  BY DEF Clearable
<1>6. QED
  BY <1>1, <1>2, <1>4, <1>5 DEF TypeOK, ServiceOK, Dead

LEMMA PutDone ==
    ASSUME TypeOK, NEW h \in Handler, NEW i \in Item, Put(h, i), call[h].coll \in colls
    PROVE  ServiceOK
<1>1. request[h].name \in Name /\ call[h].token \in Value \cup {None}
  BY DEF TypeOK, Local
<1> DEFINE new == [coll |-> call[h].coll, key |-> request[h].name, value |-> call[h].token,
                   live |-> TRUE]
<1>2. new \in Secret /\ new.coll \in colls /\ new.key = request[h].name /\ new.live
  BY <1>1 DEF Secret, TypeOK
<1>3. item' = [item EXCEPT ![i] = new] /\ UNCHANGED <<colls, locked>>
  BY DEF Put
<1>4. item[i] # None => item[i].key = request[h].name /\ item[i].live
  BY DEF Put, Matches, Live, NewPath
<1> HIDE DEF new
<1>5. QED
  BY <1>1, <1>2, <1>3, <1>4 DEF TypeOK, ServiceOK

-----------------------------------------------------------------------------
(* The invariant of a handler, step by step                                   *)

CallType(h) == /\ call[h].coll \in colls \cup Item \cup {None}
               /\ call[h].prompt # None => call[h].prompt.at = call[h].at
               /\ call[h].inbox # None => call[h].prompt # None

\* A handler that has nothing left but to make its item goes on only to its end,
\* and keeps what it took from its peers.
Ends(h) == /\ call[h].at \in {"item", "done"} =>
                call'[h].at \in {"item", "done"} /\ call'[h].coll = call[h].coll
           /\ call[h].crossed \subseteq call'[h].crossed

Keeps(h) == /\ \A g \in Handler \ {h} : call'[g] = call[g]
            /\ call' \in [Handler -> Local]
            /\ CallType(h)' /\ CallInv(h)' /\ Ends(h)

\* What came from a peer, came from it for good.
LEMMA TakenStays ==
    ASSUME request' = request, NEW h \in Handler, call[h].crossed \subseteq call'[h].crossed
    PROVE  /\ Wanted(h)' = Wanted(h)
           /\ \A key : TookFromPeer(h, key) => TookFromPeer(h, key)'
           /\ GHTaken(h) => GHTaken(h)'
BY DEF Wanted, TookFromPeer, GHTaken

\* What a call has come by stays so while its key does.
LEMMA CameByStays ==
    ASSUME ServiceOK, request' = request, NEW h \in Handler, NEW objects, CameBy(h, objects),
           call'[h].key = call[h].key, call[h].crossed \subseteq call'[h].crossed
    PROVE  CameBy(h, objects)'
BY TakenStays DEF CameBy, ServiceOK

\* The others' steps do not disturb a handler.
LEMMA OthersKeep ==
    ASSUME IInv, ServiceOK, request' = request, NEW g \in Handler, call'[g] = call[g]
    PROVE  CallType(g)' /\ CallInv(g)'
<1>1. call[g] \in Local /\ TypeOK /\ CallInv(g) /\ call[g].crossed \subseteq call'[g].crossed
  BY DEF IInv, TypeOK
<1>2. /\ \A objects : CameBy(g, objects) => CameBy(g, objects)'
      /\ Wanted(g)' = Wanted(g)
      /\ \A key : TookFromPeer(g, key) => TookFromPeer(g, key)'
  BY <1>1, CameByStays, TakenStays
<1>3. CallType(g)'
  BY <1>1 DEF CallType, TypeOK, ServiceOK
<1>4. WaitInv(g)'
  BY <1>1, <1>2 DEF ServiceOK, CallInv, WaitInv, FoundInv, Dead
<1>5. FoundInv(g)'
  BY <1>1, <1>2 DEF ServiceOK, CallInv, FoundInv, Keyed
<1>6. SeenInv(g)' /\ DroppedInv(g)'
  BY <1>1 DEF ServiceOK, CallInv, SeenInv, DroppedInv, Dead
<1>7. QED
  BY <1>3, <1>4, <1>5, <1>6 DEF CallInv

LEMMA PromptsKeep ==
    ASSUME IInv, ServiceOK, request' = request, NEW p \in prompts, p.of \in Handler, Ends(p.of)
    PROVE  PromptInv(p)'
<1>1. PromptInv(p) /\ Wanted(p.of)' = Wanted(p.of) /\ (GHTaken(p.of) => GHTaken(p.of)')
  BY TakenStays DEF IInv, Ends
<1>2. p.at = "unlock" =>
        \A i \in p.objects \cap Item : item'[i] # None /\ item'[i].key \in Wanted(p.of)'
  BY <1>1 DEF PromptInv, ServiceOK
<1>3. p.at = "clear" => Clearable(p.of, p.objects)'
  BY <1>1 DEF PromptInv, ServiceOK, Clearable
<1>4. p.at = "item" => call'[p.of].at \in {"item", "done"} /\ call'[p.of].coll \in colls'
  BY <1>1 DEF PromptInv, ServiceOK, Ends
<1>5. QED
  BY <1>1, <1>2, <1>3, <1>4 DEF PromptInv

\* A handler that returns has deleted nothing for want of a wallet, everything it
\* was to clear when all is well, and found what it returns under its name.
LEMMA ReturnKeeps ==
    ASSUME IInv, ServiceOK, request' = request, NEW h \in Handler,
           NEW result \in Results \cup Item, Return(h, result),
           result = "wrongWallet" => ~call[h].dropped,
           result = "ok" /\ "clear" \notin call[h].crossed =>
             \A i \in call[h].seen \cap Item : Dead(i),
           result \in Item => /\ item[result] # None
                              /\ \/ item[result].key = request[h].name
                                 \/ TookFromPeer(h, item[result].key)
    PROVE  Keeps(h)
<1>1. TypeOK /\ call[h] \in Local
  BY DEF IInv, TypeOK
<1>2. /\ OnlyMoves(h) /\ call'[h].at = "done" /\ call'[h].coll = call[h].coll
      /\ call'[h].seen = call[h].seen /\ call'[h].dropped = call[h].dropped
      /\ call'[h].result = result
  BY <1>1, ReturnMoves
<1>3. CallType(h)' /\ WaitInv(h)' /\ Ends(h)
  BY <1>1, <1>2 DEF CallType, WaitInv, Ends, OnlyMoves, TypeOK, ServiceOK
<1>4. \A key : TookFromPeer(h, key) => TookFromPeer(h, key)'
  BY <1>2, TakenStays DEF OnlyMoves
<1>5. FoundInv(h)' /\ DroppedInv(h)'
  BY <1>1, <1>2, <1>4 DEF FoundInv, DroppedInv, ServiceOK
<1>6. SeenInv(h)'
  BY <1>1, <1>2 DEF SeenInv, ServiceOK, Dead, OnlyMoves
<1>7. QED
  BY <1>2, <1>3, <1>5, <1>6 DEF Keeps, OnlyMoves, CallInv

LEMMA GotoKeeps ==
    ASSUME IInv, ServiceOK, request' = request, NEW h \in Handler,
           NEW at \in {"hold", "source", "create", "item"}, Goto(h, at),
           at # "item" => call[h].at \notin {"clear", "item", "done"},
           at \in {"hold", "source"} => request[h].op = "import",
           at = "item" => /\ call[h].at = "clear"
                          /\ "clear" \notin call[h].crossed =>
                               \A i \in call[h].seen \cap Item : Dead(i)
    PROVE  Keeps(h)
<1>1. TypeOK /\ call[h] \in Local /\ CallInv(h) /\ at \in Place
  BY DEF IInv, TypeOK, Place
<1>2. /\ OnlyMoves(h) /\ call'[h].at = at /\ call'[h].coll = call[h].coll
      /\ call'[h].seen = call[h].seen /\ call'[h].dropped = call[h].dropped
      /\ call'[h].result = call[h].result
  BY <1>1, GotoMoves
<1>3. CallType(h)' /\ WaitInv(h)' /\ Ends(h)
  BY <1>1, <1>2 DEF CallType, WaitInv, Ends, OnlyMoves, TypeOK, ServiceOK
<1>4. call[h].result = None
  BY <1>1 DEF CallInv, DroppedInv
<1>5. FoundInv(h)' /\ DroppedInv(h)'
  BY <1>1, <1>2, <1>4, Distinct DEF FoundInv, DroppedInv, ServiceOK, CallInv, Results
<1>6. SeenInv(h)'
  BY <1>1, <1>2, <1>4, Distinct DEF SeenInv, ServiceOK, Dead, OnlyMoves, Results
<1>7. QED
  BY <1>2, <1>3, <1>5, <1>6 DEF Keeps, OnlyMoves, CallInv

LEMMA SaveTokenKeeps ==
    ASSUME IInv, ServiceOK, request' = request, NEW h \in Handler,
           NEW token \in Value \cup {None}, SaveToken(h, token),
           call[h].at \in {"start", "source", "read"}
    PROVE  Keeps(h)
<1>1. TypeOK /\ call[h] \in Local /\ CallInv(h)
  BY DEF IInv, TypeOK
<1>2. /\ OnlyMoves(h) /\ call'[h].at = "ensure" /\ call'[h].coll = call[h].coll
      /\ call'[h].dropped = call[h].dropped /\ call'[h].result = call[h].result
  BY <1>1, SaveTokenMoves
<1>3. CallType(h)' /\ WaitInv(h)' /\ Ends(h)
  BY <1>1, <1>2 DEF CallType, WaitInv, Ends, OnlyMoves, TypeOK, ServiceOK
<1>4. ~call[h].dropped /\ call[h].result = None
  BY <1>1 DEF CallInv, DroppedInv
<1>5. FoundInv(h)' /\ DroppedInv(h)' /\ SeenInv(h)'
  BY <1>2, <1>4, Distinct DEF FoundInv, DroppedInv, SeenInv, Results
<1>6. QED
  BY <1>2, <1>3, <1>5 DEF Keeps, OnlyMoves, CallInv

LEMMA SearchForKeeps ==
    ASSUME IInv, ServiceOK, request' = request, NEW h \in Handler,
           NEW key \in Wanted(h), SearchFor(h, key), call[h].at \in {"start", "source"}
    PROVE  Keeps(h)
<1>1. TypeOK /\ call[h] \in Local /\ CallInv(h) /\ key \in Name \cup {GH}
  BY DEF IInv, TypeOK, Wanted
<1>2. /\ OnlyMoves(h) /\ call'[h].at = "search" /\ call'[h].coll = call[h].coll
      /\ call'[h].key = key
      /\ call'[h].dropped = call[h].dropped /\ call'[h].result = call[h].result
  BY <1>1, SearchForMoves
<1>3. CallType(h)' /\ WaitInv(h)' /\ Ends(h)
  BY <1>1, <1>2 DEF CallType, WaitInv, Ends, OnlyMoves, TypeOK, ServiceOK
<1>4. ~call[h].dropped /\ call[h].result = None
  BY <1>1 DEF CallInv, DroppedInv
<1>5. FoundInv(h)' /\ DroppedInv(h)' /\ SeenInv(h)'
  BY <1>2, <1>4, Distinct DEF FoundInv, DroppedInv, SeenInv, Results, Wanted
<1>6. QED
  BY <1>2, <1>3, <1>5 DEF Keeps, OnlyMoves, CallInv

LEMMA SaveInKeeps ==
    ASSUME IInv, ServiceOK, request' = request, NEW h \in Handler,
           NEW path \in colls' \cup Item, SaveIn(h, path), call[h].at \in {"ensure", "create"}
    PROVE  Keeps(h)
<1>1. TypeOK /\ call[h] \in Local /\ CallInv(h) /\ path \in Object
  BY DEF IInv, TypeOK, ServiceOK, Object
<1>2. /\ OnlyMoves(h) /\ call'[h].at = "search" /\ call'[h].coll = path
      /\ call'[h].key = request[h].name
      /\ call'[h].dropped = call[h].dropped /\ call'[h].result = call[h].result
  BY <1>1, SaveInMoves
<1>3. CallType(h)' /\ WaitInv(h)' /\ Ends(h)
  BY <1>1, <1>2 DEF CallType, WaitInv, Ends, OnlyMoves
<1>4. ~call[h].dropped /\ call[h].result = None
  BY <1>1 DEF CallInv, DroppedInv
<1>5. FoundInv(h)' /\ DroppedInv(h)' /\ SeenInv(h)'
  BY <1>2, <1>4, Distinct DEF FoundInv, DroppedInv, SeenInv, Results, Wanted
<1>6. QED
  BY <1>2, <1>3, <1>5 DEF Keeps, OnlyMoves, CallInv

LEMMA SearchKeeps ==
    ASSUME IInv, NEW h \in Handler, Search(h)
    PROVE  Keeps(h)
<1> DEFINE matches == Matches(call[h].key)
           shut == LockedOf(matches)
<1>1. /\ TypeOK /\ CallInv(h) /\ ServiceOK /\ UNCHANGED <<request, item, colls>>
      /\ call[h].at = "search" /\ ~call[h].dropped /\ call[h].result = None
  BY NothingDone DEF IInv, TypeOK, Search, CallInv, DroppedInv
<1>2. /\ OnlyMoves(h) /\ call'[h].at = (IF shut = {} THEN AfterSearch(h) ELSE "unlock")
      /\ call'[h].coll = call[h].coll /\ call'[h].key = call[h].key
      /\ call'[h].found = matches \ shut /\ call'[h].todo = shut
      /\ call'[h].seen = ToClear(h, matches \ shut)
      /\ call'[h].dropped = call[h].dropped /\ call'[h].result = None
  BY <1>1, SearchMoves
<1>3. /\ matches \subseteq Item /\ shut \subseteq matches
      /\ Keyed(matches, call[h].key)
      /\ call'[h].at \in {"read", "clear", "unlock"}
      /\ call'[h].at = "clear" => shut = {} /\ call[h].key # GH /\ request[h].op # "release"
      /\ call'[h].seen \subseteq call'[h].found
  BY <1>2 DEF Matches, LockedOf, Live, AfterSearch, Keyed, ToClear
<1> HIDE DEF matches, shut
<1>4. CallType(h)' /\ WaitInv(h)' /\ Ends(h)
  BY <1>1, <1>2 DEF CallType, WaitInv, Ends, OnlyMoves, TypeOK
<1>5. CameBy(h, call[h].found)' /\ Keyed(call[h].todo, call[h].key)'
      /\ Wanted(h)' = Wanted(h)
  BY <1>1, <1>2, <1>3 DEF CameBy, Keyed, Wanted
<1>6. FoundInv(h)'
  BY <1>1, <1>2, <1>3, <1>5, Distinct DEF CallInv, FoundInv
<1>7. DroppedInv(h)' /\ SeenInv(h)'
  BY <1>1, <1>2, <1>3, Distinct DEF DroppedInv, SeenInv, Results
<1>8. QED
  BY <1>2, <1>4, <1>6, <1>7 DEF Keeps, OnlyMoves, CallInv

LEMMA AddKeeps ==
    ASSUME IInv, ServiceOK, request' = request, NEW h \in Handler, call[h].at = "unlock",
           NEW objects \in SUBSET Object, CameBy(h, objects), Add(h, objects)
    PROVE  Keeps(h)
<1>1. /\ TypeOK /\ CallInv(h)
      /\ ~call[h].dropped /\ call[h].result = None
  BY DEF IInv, CallInv, DroppedInv
<1>2. /\ OnlyMoves(h) /\ call'[h].at = AfterSearch(h)
      /\ call'[h].coll = call[h].coll /\ call'[h].key = call[h].key
      /\ call'[h].found = call[h].found \cup objects /\ call'[h].todo = {}
      /\ call'[h].seen = call[h].seen \cup ToClear(h, objects)
      /\ call'[h].dropped = call[h].dropped /\ call'[h].result = None
  BY <1>1, AddMoves
<1>3. /\ AfterSearch(h) \in {"read", "clear"}
      /\ AfterSearch(h) = "clear" => call[h].key # GH /\ request[h].op # "release"
      /\ ToClear(h, objects) \subseteq objects
  BY DEF AfterSearch, ToClear
<1>4. CallType(h)' /\ WaitInv(h)' /\ Ends(h)
  BY <1>1, <1>2 DEF CallType, WaitInv, Ends, OnlyMoves, TypeOK, ServiceOK
<1>5. CameBy(h, call[h].found)' /\ Wanted(h)' = Wanted(h)
  <2>1. CameBy(h, call[h].found \cup objects)
    BY <1>1 DEF CallInv, FoundInv, CameBy
  <2>2. QED
    BY <1>2, <2>1, CameByStays, TakenStays DEF OnlyMoves
<1>6. FoundInv(h)'
  BY <1>1, <1>2, <1>3, <1>5, Distinct DEF CallInv, FoundInv
<1>7. DroppedInv(h)' /\ SeenInv(h)'
  BY <1>1, <1>2, <1>3, Distinct DEF CallInv, DroppedInv, SeenInv, ServiceOK, Dead, Results
<1>8. QED
  BY <1>2, <1>4, <1>6, <1>7 DEF Keeps, OnlyMoves, CallInv

LEMMA DropKeeps ==
    ASSUME IInv, ServiceOK, request' = request, NEW h \in Handler, call[h].at = "clear",
           NEW objects \in SUBSET Object, Drop(h, objects),
           "clear" \notin call[h].crossed => \A i \in objects \cap Item : Dead(i)'
    PROVE  Keeps(h)
<1>1. TypeOK /\ CallInv(h) /\ call[h].result = None
  BY DEF IInv, CallInv, DroppedInv
<1>2. /\ OnlyMoves(h) /\ call'[h].at = "clear"
      /\ call'[h].coll = call[h].coll /\ call'[h].key = call[h].key
      /\ call'[h].found = call[h].found \ objects /\ call'[h].todo = {}
      /\ call'[h].seen = call[h].seen /\ call'[h].result = None
  BY <1>1, DropMoves
<1>3. CallType(h)' /\ WaitInv(h)' /\ Ends(h)
  BY <1>1, <1>2 DEF CallType, WaitInv, Ends, OnlyMoves, TypeOK, ServiceOK
<1>4. CameBy(h, call[h].found)' /\ Wanted(h)' = Wanted(h)
  <2>1. CameBy(h, call[h].found \ objects)
    BY <1>1 DEF CallInv, FoundInv, CameBy
  <2>2. QED
    BY <1>2, <2>1, CameByStays, TakenStays DEF OnlyMoves
<1>5. FoundInv(h)'
  BY <1>1, <1>2, <1>4, Distinct DEF CallInv, FoundInv
<1>6. DroppedInv(h)' /\ SeenInv(h)'
  BY <1>1, <1>2, Distinct
     DEF CallInv, DroppedInv, SeenInv, ServiceOK, Dead, Results, OnlyMoves
<1>7. QED
  BY <1>2, <1>3, <1>5, <1>6 DEF Keeps, OnlyMoves, CallInv

\* What is asked for is what is still locked, one of the items to delete, or room
\* for the new one.
LEMMA AskKeeps ==
    ASSUME IInv, ServiceOK, NEW h \in Handler, NEW objects \in SUBSET Object,
           NEW unlocked \in SUBSET Object, Ask(h, objects, unlocked),
           call[h].prompt = None, call[h].at \in Asking,
           call[h].at = "hold" => objects \cap Item = {},
           call[h].at = "unlock" => objects \cup unlocked \subseteq call[h].todo,
           call[h].at = "clear" => objects \subseteq call[h].found \cap Item,
           call[h].at \in {"clear", "item"} => unlocked = {},
           call[h].at = "item" => call[h].coll \in colls
    PROVE  /\ request' = request /\ Keeps(h)
           /\ prompts' \subseteq Prompt /\ \A p \in prompts' \ prompts : PromptInv(p)'
<1> DEFINE p == [of |-> h, at |-> call[h].at, objects |-> objects]
<1>1. /\ TypeOK /\ CallInv(h) /\ call[h].inbox = None
      /\ request' = request /\ Wanted(h)' = Wanted(h)
  BY DEF IInv, TypeOK, Ask, Wanted
<1>2. /\ \A g \in Handler \ {h} : call'[g] = call[g]
      /\ call' \in [Handler -> Local] /\ p \in Prompt /\ prompts' = prompts \cup {p}
      /\ call'[h].prompt = p /\ call'[h].inbox = None /\ call'[h].todo = objects
      /\ call'[h].found = call[h].found \cup unlocked /\ call'[h].at = call[h].at
      /\ call'[h].key = call[h].key /\ call'[h].seen = call[h].seen \cup ToClear(h, unlocked)
      /\ call'[h].result = call[h].result /\ call'[h].dropped = call[h].dropped
      /\ call'[h].coll = call[h].coll /\ call'[h].crossed = call[h].crossed
  BY <1>1, AskMoves
<1>3. p.of = h /\ p.at = call[h].at /\ p.objects = objects
  OBVIOUS
<1> HIDE DEF p
<1>4. CallType(h)' /\ WaitInv(h)' /\ Ends(h)
  BY <1>1, <1>2, <1>3 DEF CallType, WaitInv, Ends, TypeOK, ServiceOK
<1>5. call[h].result = None /\ ToClear(h, unlocked) \subseteq unlocked
  BY <1>1 DEF CallInv, DroppedInv, Asking, ToClear
<1>6. call[h].at = "unlock" => Keyed(objects \cup unlocked, call[h].key)
  BY <1>1 DEF CallInv, FoundInv, Keyed
<1>7. call[h].at \in {"unlock", "clear"} => CameBy(h, call[h].found)'
  <2>1. call[h].at \in {"unlock", "clear"} => CameBy(h, call[h].found \cup unlocked)
    BY <1>1, <1>6 DEF CallInv, FoundInv, CameBy, Keyed
  <2>2. QED
    BY <1>1, <1>2, <2>1, CameByStays
<1>8. FoundInv(h)'
  <2>1. call[h].at = "unlock" => objects \subseteq Item /\ Keyed(objects, call[h].key)'
    <3>1. call[h].at = "unlock" => objects \subseteq Item /\ Keyed(objects, call[h].key)
      BY <1>1, <1>6 DEF CallInv, FoundInv, Keyed
    <3>2. QED
      BY <1>2, <3>1 DEF Keyed, ServiceOK
  <2>2. call[h].at = "clear" => objects \subseteq call'[h].found \cap Item
    BY <1>2
  <2>3. FoundInv(h) /\ call'[h].result \notin Item
    BY <1>1, <1>2, <1>5, Distinct DEF CallInv
  <2>4. QED
    BY <1>1, <1>2, <1>7, <2>1, <2>2, <2>3 DEF FoundInv, Asking
<1>9. DroppedInv(h)' /\ SeenInv(h)'
  BY <1>1, <1>2, <1>5, Distinct DEF CallInv, DroppedInv, SeenInv, Dead, ServiceOK, Asking, Results
<1>10. ASSUME NEW q \in prompts' \ prompts PROVE PromptInv(q)'
  <2>1. q.of = h /\ q.at = call[h].at /\ q.objects = objects
    BY <1>2, <1>3
  <2>2. q.at = "unlock" =>
          \A i \in q.objects \cap Item : item'[i] # None /\ item'[i].key \in Wanted(h)'
    BY <1>1, <1>6, <2>1 DEF CallInv, FoundInv, Keyed, ServiceOK
  <2>3. q.at = "clear" => Clearable(h, q.objects)'
    <3>1. q.at = "clear" => Clearable(h, q.objects)
      BY <1>1, <2>1 DEF CallInv, FoundInv, CameBy, Clearable, GHTaken
    <3>2. GHTaken(h) => GHTaken(h)'
      BY <1>1, <1>2, TakenStays
    <3>3. QED
      BY <3>1, <3>2 DEF Clearable, ServiceOK
  <2>4. q.at = "item" => call'[h].at = "item" /\ call'[h].coll \in colls'
    BY <1>2, <2>1 DEF ServiceOK
  <2>5. QED
    BY <2>1, <2>2, <2>3, <2>4 DEF PromptInv
<1>11. QED
  BY <1>1, <1>2, <1>4, <1>8, <1>9, <1>10 DEF Keeps, CallInv, TypeOK

LEMMA RefuseKeeps ==
    ASSUME IInv, UNCHANGED <<request, colls, locked, item>>, NEW h \in Handler, Refuse(h)
    PROVE  Keeps(h)
<1>1. ServiceOK /\ TypeOK
  BY NothingDone DEF IInv
<1>2. CASE call[h].at = "create"
  <2>1. PICK wallet \in Wallets :
          IF wallet = None THEN Return(h, "wrongWallet") ELSE SaveIn(h, wallet)
    BY <1>2 DEF Refuse, Fallback
  <2>2. ~call[h].dropped
    BY <1>2 DEF IInv, CallInv, DroppedInv
  <2>3. CASE wallet = None
    BY <1>1, <2>1, <2>2, <2>3, ReturnKeeps, Distinct DEF Results
  <2>4. CASE wallet # None
    <3>1. wallet \in colls'
      BY <2>1, <2>4 DEF Wallets
    <3>2. QED
      BY <1>1, <1>2, <2>1, <2>4, <3>1, SaveInKeeps
  <2>5. QED
    BY <2>3, <2>4
<1>3. CASE call[h].at # "create"
  BY <1>1, <1>3, ReturnKeeps, Distinct DEF Refuse, Results
<1>4. QED
  BY <1>2, <1>3

LEMMA SucceedKeeps ==
    ASSUME IInv, ServiceOK, request' = request, NEW h \in Handler, NEW objects,
           Succeed(h, objects),
           call[h].at = "unlock" => objects \in SUBSET Object /\ CameBy(h, objects),
           call[h].at = "create" => objects \subseteq colls' \cup Item,
           call[h].at = "clear" /\ "clear" \notin call[h].crossed =>
             \A i \in call[h].todo : Dead(i)
    PROVE  Keeps(h)
<1>1. TypeOK /\ call[h] \in Local /\ CallInv(h)
  BY DEF IInv, TypeOK
<1>2. CASE call[h].at = "hold"
  <2>1. Goto(h, "source") \/ Return(h, "wrongWallet")
    BY <1>2 DEF Succeed
  <2>2. ~call[h].dropped /\ request[h].op = "import"
    BY <1>1, <1>2 DEF CallInv, DroppedInv, FoundInv
  <2>3. QED
    BY <1>2, <2>1, <2>2, GotoKeeps, ReturnKeeps, Distinct DEF Results
<1>3. CASE call[h].at = "create"
  BY <1>3, SaveInKeeps DEF Succeed
<1>4. CASE call[h].at = "unlock"
  BY <1>4, AddKeeps DEF Succeed
<1>5. CASE call[h].at = "clear"
  <2>1. Drop(h, call[h].todo) /\ call[h].todo \in SUBSET Object
    BY <1>1, <1>5 DEF Succeed, Local
  <2>2. "clear" \notin call[h].crossed => \A i \in call[h].todo \cap Item : Dead(i)'
    BY <1>5 DEF ServiceOK, Dead
  <2>3. QED
    BY <1>5, <2>1, <2>2, DropKeeps
<1>6. CASE call[h].at = "item"
  <2>1. /\ Return(h, "ok")
        /\ "clear" \notin call[h].crossed => \A i \in call[h].seen \cap Item : Dead(i)
    BY <1>1, <1>6 DEF Succeed, CallInv, SeenInv
  <2>2. QED
    BY <2>1, ReturnKeeps, Distinct DEF Results
<1>7. QED
  BY <1>2, <1>3, <1>4, <1>5, <1>6 DEF Succeed

\* What every step does: it keeps the handler's invariant, and asks for nothing
\* but what it may delete or make.
Does(h) == /\ ServiceOK /\ request' = request /\ Keeps(h)
           /\ prompts' \subseteq Prompt /\ \A p \in prompts' \ prompts : PromptInv(p)'

LEMMA NoNewPrompt ==
    ASSUME IInv, ServiceOK, UNCHANGED <<request, prompts>>, NEW h, Keeps(h)
    PROVE  Does(h)
BY DEF Does, IInv, TypeOK

LEMMA AskDoes ==
    ASSUME IInv, ServiceOK, NEW h \in Handler, NEW objects \in SUBSET Object,
           Ask(h, objects, {}), call[h].prompt = None, call[h].at \in {"create", "clear", "item"},
           call[h].at = "clear" => objects \subseteq call[h].found \cap Item,
           call[h].at = "item" => call[h].coll \in colls
    PROVE  Does(h)
BY AskKeeps DEF Does, Asking

LEMMA UnlockCallDoes ==
    ASSUME IInv, NEW h \in Handler, NEW objects \in SUBSET Object, UnlockCall(h, objects),
           call[h].at \in {"hold", "unlock"}, call[h].prompt = None,
           call[h].at = "hold" => objects \cap Item = {},
           call[h].at = "unlock" => objects = call[h].todo
    PROVE  Does(h)
<1>1. PICK opened \in SUBSET objects :
        /\ Unlock(opened)
        /\ \/ Succeed(h, opened) /\ UNCHANGED <<request, prompts>>
           \/ Ask(h, objects \ opened, opened)
  BY DEF UnlockCall
<1>2. ServiceOK /\ opened \in SUBSET Object /\ objects \ opened \in SUBSET Object
  BY <1>1, UnlockDone DEF IInv
<1>3. CASE Succeed(h, opened) /\ UNCHANGED <<request, prompts>>
  <2>1. call[h].at = "unlock" => CameBy(h, opened)
    BY DEF IInv, CallInv, FoundInv, Keyed, CameBy
  <2>2. QED
    BY <1>2, <1>3, <2>1, SucceedKeeps, NoNewPrompt
<1>4. CASE Ask(h, objects \ opened, opened)
  BY <1>2, <1>4, AskKeeps DEF Does, Asking
<1>5. QED
  BY <1>1, <1>3, <1>4

LEMMA BeginDoes == ASSUME IInv, NEW h \in Handler, Begin(h) PROVE Does(h)
<1>1. TypeOK /\ ServiceOK /\ UNCHANGED <<request, prompts>> /\ call[h].at = "start"
  BY NothingDone DEF IInv, Begin
<1>2. CASE SaveToken(h, h)
  BY <1>1, <1>2, SaveTokenKeeps, NoNewPrompt DEF Value
<1>3. CASE request[h].op = "import" /\ Goto(h, "hold")
  BY <1>1, <1>3, GotoKeeps, NoNewPrompt
<1>4. CASE SearchFor(h, request[h].name)
  BY <1>1, <1>4, SearchForKeeps, NoNewPrompt DEF Wanted
<1>5. QED
  BY <1>2, <1>3, <1>4 DEF Begin

LEMMA FailDoes == ASSUME IInv, NEW h \in Handler, Fail(h) PROVE Does(h)
<1>1. ServiceOK /\ UNCHANGED <<request, colls, locked, item, prompts>>
  BY NothingDone DEF IInv, Fail
<1>2. CASE Return(h, "locked")
  BY <1>1, <1>2, ReturnKeeps, NoNewPrompt, Distinct DEF Results
<1>3. CASE Refuse(h)
  BY <1>1, <1>3, RefuseKeeps, NoNewPrompt
<1>4. QED
  BY <1>2, <1>3 DEF Fail

LEMMA HoldDoes == ASSUME IInv, NEW h \in Handler, Hold(h) PROVE Does(h)
<1>1. PICK wallet \in Wallets :
        IF wallet = None
        THEN Return(h, "wrongWallet") /\ UNCHANGED <<request, colls, locked, item, prompts>>
        ELSE UnlockCall(h, {wallet})
  BY DEF Hold
<1>2. call[h].at = "hold" /\ call[h].prompt = None
  BY DEF Hold
<1>3. CASE wallet = None
  <2>1. ServiceOK /\ ~call[h].dropped
    BY <1>1, <1>2, <1>3, NothingDone DEF IInv, CallInv, DroppedInv
  <2>2. QED
    BY <1>1, <1>3, <2>1, ReturnKeeps, NoNewPrompt, Distinct DEF Results
<1>4. CASE wallet # None
  <2>1. {wallet} \in SUBSET Object /\ {wallet} \cap Item = {}
    BY <1>1, <1>4 DEF Wallets, IInv, TypeOK, Object
  <2>2. QED
    BY <1>1, <1>2, <1>4, <2>1, UnlockCallDoes
<1>5. QED
  BY <1>3, <1>4

LEMMA SourceDoes == ASSUME IInv, NEW h \in Handler, Source(h) PROVE Does(h)
<1>1. ServiceOK /\ UNCHANGED <<request, prompts>> /\ call[h].at = "source"
  BY NothingDone DEF IInv, Source
<1>2. request[h].op = "import"
  BY <1>1 DEF IInv, CallInv, FoundInv
<1>3. CASE SaveToken(h, h)
  BY <1>1, <1>3, SaveTokenKeeps, NoNewPrompt DEF Value
<1>4. CASE request[h].source = "keyring" /\ SearchFor(h, GH)
  BY <1>1, <1>2, <1>4, SearchForKeeps, NoNewPrompt DEF Wanted
<1>5. CASE Return(h, "error")
  BY <1>1, <1>5, ReturnKeeps, NoNewPrompt, Distinct DEF Results
<1>6. QED
  BY <1>3, <1>4, <1>5 DEF Source

LEMMA EnsureDoes == ASSUME IInv, NEW h \in Handler, Ensure(h) PROVE Does(h)
<1>1. ServiceOK /\ UNCHANGED <<request, prompts, colls>> /\ call[h].at = "ensure"
  BY NothingDone DEF IInv, Ensure
<1>2. ASSUME NEW path \in colls \cap Labelled, SaveIn(h, path) PROVE Does(h)
  BY <1>1, <1>2, SaveInKeeps, NoNewPrompt
<1>3. CASE Goto(h, "create")
  BY <1>1, <1>3, GotoKeeps, NoNewPrompt
<1>4. QED
  BY <1>2, <1>3 DEF Ensure

LEMMA CreateCollectionDoes ==
    ASSUME IInv, NEW h \in Handler, CreateCollection(h) PROVE Does(h)
<1>1. call[h].at = "create" /\ call[h].prompt = None
  BY DEF CreateCollection
<1>2. ASSUME NEW path \in Labelled, NewCollection(path), Succeed(h, {path}),
             UNCHANGED <<request, prompts>>
      PROVE  Does(h)
  <2>1. ServiceOK /\ {path} \subseteq colls'
    BY <1>2, CollectionMade DEF IInv
  <2>2. QED
    BY <1>1, <1>2, <2>1, SucceedKeeps, NoNewPrompt
<1>3. CASE Ask(h, {}, {}) /\ UNCHANGED <<colls, locked, item>>
  BY <1>1, <1>3, NothingDone, AskDoes DEF IInv
<1>4. QED
  BY <1>2, <1>3 DEF CreateCollection

LEMMA ReadDoes == ASSUME IInv, NEW h \in Handler, Read(h) PROVE Does(h)
<1>1. ServiceOK /\ UNCHANGED <<request, prompts>> /\ call[h].at = "read"
  BY NothingDone DEF IInv, Read
<1>2. CASE Return(h, "error")
  BY <1>1, <1>2, ReturnKeeps, NoNewPrompt, Distinct DEF Results
<1>3. ASSUME NEW i \in call[h].found \cap Item, Live(i),
             IF request[h].op = "release" THEN Return(h, i) ELSE SaveToken(h, item[i].value)
      PROVE  Does(h)
  <2>1. /\ item[i] # None /\ (item[i].key = call[h].key \/ TookFromPeer(h, item[i].key))
        /\ request[h].op = "release" => call[h].key = request[h].name
    BY <1>1, <1>3 DEF IInv, CallInv, FoundInv, CameBy, Wanted
  <2>2. item[i].value \in Value \cup {None}
    BY <2>1 DEF IInv, TypeOK, Secret
  <2>3. CASE request[h].op = "release"
    BY <1>1, <1>3, <2>1, <2>3, ReturnKeeps, NoNewPrompt, Distinct DEF Results
  <2>4. CASE request[h].op # "release"
    BY <1>1, <1>3, <2>2, <2>4, SaveTokenKeeps, NoNewPrompt
  <2>5. QED
    BY <2>3, <2>4
<1>4. QED
  BY <1>2, <1>3 DEF Read

LEMMA DeleteItemDoes == ASSUME IInv, NEW h \in Handler, DeleteItem(h) PROVE Does(h)
<1>1. call[h].at = "clear" /\ call[h].prompt = None
  BY DEF DeleteItem
<1>2. PICK i \in call[h].found \cap Item :
        \/ Delete({i}) /\ Drop(h, {i}) /\ UNCHANGED <<request, prompts>>
        \/ Ask(h, {i}, {}) /\ UNCHANGED <<colls, locked, item>>
  BY DEF DeleteItem
<1>3. Clearable(h, {i}) /\ {i} \in SUBSET Object
  BY <1>1, <1>2 DEF IInv, CallInv, FoundInv, CameBy, Clearable, GHTaken, Object
<1>4. CASE Delete({i}) /\ Drop(h, {i}) /\ UNCHANGED <<request, prompts>>
  <2>1. ServiceOK /\ \A j \in {i} \cap Item : Dead(j)'
    BY <1>3, <1>4, DeleteDone DEF IInv
  <2>2. QED
    BY <1>1, <1>3, <1>4, <2>1, DropKeeps, NoNewPrompt
<1>5. CASE Ask(h, {i}, {}) /\ UNCHANGED <<colls, locked, item>>
  BY <1>1, <1>2, <1>3, <1>5, NothingDone, AskDoes DEF IInv
<1>6. QED
  BY <1>2, <1>4, <1>5

LEMMA ClearedDoes == ASSUME IInv, NEW h \in Handler, Cleared(h) PROVE Does(h)
<1>1. ServiceOK /\ UNCHANGED <<request, prompts>> /\ call[h].at = "clear" /\ call[h].found = {}
  BY NothingDone DEF IInv, Cleared
<1>2. "clear" \notin call[h].crossed => \A i \in call[h].seen \cap Item : Dead(i)
  BY <1>1 DEF IInv, CallInv, SeenInv
<1>3. CASE Return(h, "ok")
  BY <1>1, <1>2, <1>3, ReturnKeeps, NoNewPrompt, Distinct DEF Results
<1>4. CASE Goto(h, "item")
  BY <1>1, <1>2, <1>4, GotoKeeps, NoNewPrompt
<1>5. QED
  BY <1>3, <1>4 DEF Cleared

LEMMA CreateItemDoes == ASSUME IInv, NEW h \in Handler, CreateItem(h) PROVE Does(h)
<1>1. call[h].at = "item" /\ call[h].prompt = None /\ call[h].coll \in colls
  BY DEF CreateItem
<1>2. ASSUME NEW i \in Item, Put(h, i), Succeed(h, {}), UNCHANGED <<request, prompts>>
      PROVE  Does(h)
  <2>1. ServiceOK
    BY <1>1, <1>2, PutDone DEF IInv
  <2>2. QED
    BY <1>1, <1>2, <2>1, SucceedKeeps, NoNewPrompt
<1>3. CASE Ask(h, {call[h].coll}, {}) /\ UNCHANGED <<colls, locked, item>>
  <2>1. {call[h].coll} \in SUBSET Object
    BY <1>1 DEF IInv, TypeOK, Object
  <2>2. QED
    BY <1>1, <1>3, <2>1, NothingDone, AskDoes DEF IInv
<1>4. QED
  BY <1>2, <1>3 DEF CreateItem

LEMMA AnsweredDoes == ASSUME IInv, NEW h \in Handler, Answered(h) PROVE Does(h)
<1>1. ServiceOK /\ UNCHANGED <<request, colls, locked, item, prompts>> /\ call[h].inbox # None
  BY NothingDone DEF IInv, Answered
<1>2. CASE Refuse(h)
  BY <1>1, <1>2, RefuseKeeps, NoNewPrompt
<1>3. CASE /\ ~call[h].inbox.dismissed /\ Decodes(call[h].at, call[h].inbox)
           /\ Succeed(h, call[h].inbox.objects)
  <2>1. WaitInv(h) /\ call[h].inbox.objects \in SUBSET Object
    BY <1>1 DEF IInv, CallInv, TypeOK, Local, Signal
  <2>2. /\ call[h].at = "unlock" => call[h].inbox.type = "paths"
        /\ call[h].at = "create" => call[h].inbox.type = "path"
    BY <1>3 DEF Decodes, Carries
  <2>3. QED
    BY <1>1, <1>3, <2>1, <2>2, SucceedKeeps, NoNewPrompt DEF WaitInv
<1>4. QED
  BY <1>2, <1>3 DEF Answered

LEMMA HandleDoes == ASSUME IInv, NEW h \in Handler, Handle(h) PROVE Does(h)
<1>1. CASE Search(h)
  BY <1>1, SearchKeeps, NothingDone, NoNewPrompt DEF Search, IInv
<1>2. CASE UnlockFound(h)
  <2>1. call[h].todo \in SUBSET Object
    BY DEF IInv, TypeOK, Local
  <2>2. QED
    BY <1>2, <2>1, UnlockCallDoes DEF UnlockFound
<1>3. CASE TimedOut(h)
  BY <1>3, RefuseKeeps, NothingDone, NoNewPrompt DEF TimedOut, IInv
<1>4. QED
  BY <1>1, <1>2, <1>3, BeginDoes, FailDoes, HoldDoes, SourceDoes, EnsureDoes,
     CreateCollectionDoes, ReadDoes, DeleteItemDoes, ClearedDoes, CreateItemDoes, AnsweredDoes
     DEF Handle
-----------------------------------------------------------------------------
(* Prompts, and the invariant                                                 *)

\* What a signal says is what was done for the call that asked for its prompt.
Told(p, dismissed, objects) ==
    ~dismissed =>
        /\ p.at \in {"hold", "unlock"} => objects \subseteq p.objects
        /\ p.at = "create" => objects \subseteq colls'
        /\ p.at = "item" => objects \subseteq Item
        /\ p.at = "clear" => \A i \in p.objects \cap Item : Dead(i)'

\* A prompt that is completed tells the handler that asked for it, and marks
\* whomever else it tells.
LEMMA SignalKeeps ==
    ASSUME IInv, ServiceOK, request' = request, NEW p \in prompts,
           NEW dismissed \in BOOLEAN, NEW objects \in SUBSET Object,
           Deliver(p, dismissed, objects), Told(p, dismissed, objects)
    PROVE  /\ call' \in [Handler -> Local]
           /\ \A h \in Handler : CallType(h)' /\ CallInv(h)' /\ Ends(h)
<1> DEFINE signal == [dismissed |-> dismissed, type |-> Carries(p.at), objects |-> objects]
           other(w) == IF w = p.of THEN {} ELSE {call[w].at}
           gets(w) == [call[w] EXCEPT !.inbox = signal, !.crossed = @ \cup other(w)]
<1>1. TypeOK /\ p \in Prompt /\ p.of \in Handler /\ PromptInv(p)
  BY DEF IInv, TypeOK, Prompt
<1>2. /\ signal \in Signal /\ signal.dismissed = dismissed /\ signal.objects = objects
      /\ signal.type = Carries(p.at)
  BY DEF Signal, Carries
<1>3. call' = [w \in Handler |-> IF w \in Watchers(p) /\ call[w].inbox = None
                                THEN gets(w) ELSE call[w]]
  BY DEF Deliver
<1> HIDE DEF signal
<1>4. ASSUME NEW h \in Handler, call'[h] = call[h]
      PROVE  call'[h] \in Local /\ CallType(h)' /\ CallInv(h)' /\ Ends(h)
  BY <1>1, <1>4, OthersKeep DEF TypeOK, Ends
<1>5. ASSUME NEW h \in Handler, h \in Watchers(p), call'[h] = gets(h)
      PROVE  call'[h] \in Local /\ CallType(h)' /\ CallInv(h)' /\ Ends(h)
  <2>1. /\ call[h] \in Local /\ CallInv(h) /\ call[h].at \in Asking \cap Place
        /\ call[h].prompt # None /\ ConnOf[h] = ConnOf[p.of]
        /\ call[p.of].prompt = p
    BY <1>1, <1>5 DEF IInv, TypeOK, Local, Watchers, CallInv, WaitInv
  <2>2. other(h) \subseteq Place
    BY <2>1
  <2>3. /\ call'[h] \in Local /\ call'[h].inbox = signal /\ call'[h].prompt = call[h].prompt
        /\ call'[h].at = call[h].at /\ call'[h].key = call[h].key
        /\ call'[h].coll = call[h].coll /\ call'[h].found = call[h].found
        /\ call'[h].todo = call[h].todo /\ call'[h].seen = call[h].seen
        /\ call'[h].dropped = call[h].dropped /\ call'[h].result = call[h].result
        /\ call'[h].crossed = call[h].crossed \cup other(h)
    <3> DEFINE crossed == call[h].crossed \cup other(h)
    <3>1. crossed \subseteq Place
      BY <2>1, <2>2 DEF Local
    <3>2. call'[h] = [call[h] EXCEPT !.inbox = signal, !.crossed = crossed]
      BY <1>5
    <3> HIDE DEF crossed
    <3>3. call'[h] \in Local /\ call'[h].inbox = signal /\ call'[h].crossed = crossed
      BY <1>2, <2>1, <3>1, <3>2 DEF Local
    <3>4. /\ call'[h].prompt = call[h].prompt
          /\ call'[h].at = call[h].at /\ call'[h].key = call[h].key
          /\ call'[h].coll = call[h].coll /\ call'[h].found = call[h].found
          /\ call'[h].todo = call[h].todo /\ call'[h].seen = call[h].seen
          /\ call'[h].dropped = call[h].dropped /\ call'[h].result = call[h].result
      BY <2>1, <3>2 DEF Local
    <3>5. QED
      BY <3>3, <3>4 DEF crossed
  <2>4. /\ \A held : CameBy(h, held) => CameBy(h, held)'
        /\ Wanted(h)' = Wanted(h)
        /\ \A key : TookFromPeer(h, key) => TookFromPeer(h, key)'
    <3>1. call[h].crossed \subseteq call'[h].crossed
      BY <2>3
    <3>2. QED
      BY <2>3, <3>1, CameByStays, TakenStays
  <2>5. CallType(h)' /\ Ends(h)
    BY <1>1, <2>1, <2>3 DEF CallType, Ends, TypeOK, ServiceOK
  <2>6. h = p.of => p.at = call[h].at /\ p.objects = call[h].todo
    BY <2>1 DEF CallInv, WaitInv
  <2>7. ~dismissed /\ call[h].at = "unlock" /\ signal.type = "paths" => CameBy(h, objects)'
    <3> SUFFICES ASSUME ~dismissed, call[h].at = "unlock", Carries(p.at) = "paths"
                 PROVE  CameBy(h, objects)'
      BY <1>2
    <3>1. p.at \in {"hold", "unlock"} /\ objects \subseteq p.objects
      BY <1>1 DEF Carries, Told, Prompt, Place
    <3>2. CASE h = p.of
      BY <2>1, <2>3, <2>6, <3>1, <3>2 DEF CallInv, FoundInv, Keyed, CameBy, ServiceOK
    <3>3. CASE h # p.of
      <4>1. "unlock" \in call'[h].crossed
        BY <2>3, <3>3
      <4>2. \A key \in Wanted(p.of)' : TookFromPeer(h, key)'
        BY <1>1, <2>1, <3>3, <4>1 DEF TookFromPeer
      <4>3. ASSUME NEW i \in objects \cap Item
            PROVE  item'[i] # None /\ item'[i].key \in Wanted(p.of)'
        BY <1>1, <3>1 DEF PromptInv, ServiceOK, Wanted
      <4>4. QED
        BY <4>2, <4>3 DEF CameBy
    <3>4. QED
      BY <3>2, <3>3
  <2>8. ~dismissed /\ signal.type = "path" => objects \subseteq colls' \cup Item
    BY <1>1, <1>2 DEF Told, Carries, Prompt, Place
  <2>9. ~dismissed /\ call[h].at = "clear" /\ "clear" \notin call'[h].crossed =>
          \A i \in call[h].todo : Dead(i)'
    BY <2>1, <2>3, <2>6 DEF Told, CallInv, FoundInv
  <2>10. WaitInv(h)'
    BY <1>2, <2>1, <2>3, <2>7, <2>8, <2>9 DEF CallInv, WaitInv
  <2>11. FoundInv(h)'
    BY <2>1, <2>3, <2>4 DEF CallInv, FoundInv, Keyed, ServiceOK
  <2>12. SeenInv(h)' /\ DroppedInv(h)'
    BY <2>1, <2>3 DEF CallInv, SeenInv, DroppedInv, ServiceOK, Dead
  <2>13. QED
    BY <2>3, <2>5, <2>10, <2>11, <2>12 DEF CallInv
<1>6. \A h \in Handler : call'[h] \in Local /\ CallType(h)' /\ CallInv(h)' /\ Ends(h)
  BY <1>3, <1>4, <1>5
<1>7. QED
  BY <1>3, <1>6

LEMMA CompletedDoes ==
    ASSUME IInv, NEW p \in prompts, Completed(p)
    PROVE  /\ ServiceOK /\ call' \in [Handler -> Local]
           /\ \A h \in Handler : CallType(h)' /\ CallInv(h)' /\ Ends(h)
<1>1. /\ TypeOK /\ PromptInv(p) /\ p.of \in Handler /\ p.objects \in SUBSET Object
      /\ request' = request
  BY DEF IInv, TypeOK, Prompt, Completed
<1>2. CASE Dismiss(p)
  <2>1. ServiceOK /\ Deliver(p, TRUE, {}) /\ Told(p, TRUE, {})
    BY <1>1, <1>2, NothingDone DEF Dismiss, Told
  <2>2. QED
    BY <1>1, <2>1, SignalKeeps
<1>3. ASSUME p.at \in {"hold", "unlock"}, NEW opened \in SUBSET p.objects, Unlock(opened),
             Deliver(p, FALSE, opened)
      PROVE  ServiceOK /\ call' \in [Handler -> Local]
             /\ \A h \in Handler : CallType(h)' /\ CallInv(h)' /\ Ends(h)
  <2>1. ServiceOK /\ opened \in SUBSET Object /\ Told(p, FALSE, opened)
    BY <1>1, <1>3, UnlockDone DEF Told
  <2>2. QED
    BY <1>1, <1>3, <2>1, SignalKeeps
<1>4. ASSUME p.at = "create", NEW path \in Labelled, NewCollection(path),
             Deliver(p, FALSE, {path})
      PROVE  ServiceOK /\ call' \in [Handler -> Local]
             /\ \A h \in Handler : CallType(h)' /\ CallInv(h)' /\ Ends(h)
  <2>1. ServiceOK /\ {path} \in SUBSET Object /\ Told(p, FALSE, {path})
    BY <1>1, <1>4, CollectionMade DEF Object, Told
  <2>2. QED
    BY <1>1, <1>4, <2>1, SignalKeeps
<1>5. CASE p.at = "clear" /\ Delete(p.objects) /\ Deliver(p, FALSE, {})
  <2>1. ServiceOK /\ Told(p, FALSE, {})
    BY <1>1, <1>5, DeleteDone DEF PromptInv, Told
  <2>2. QED
    BY <1>1, <1>5, <2>1, SignalKeeps
<1>6. ASSUME p.at = "item", NEW i \in Item, Put(p.of, i), Deliver(p, FALSE, {i})
      PROVE  ServiceOK /\ call' \in [Handler -> Local]
             /\ \A h \in Handler : CallType(h)' /\ CallInv(h)' /\ Ends(h)
  <2>1. ServiceOK /\ {i} \in SUBSET Object /\ Told(p, FALSE, {i})
    BY <1>1, <1>6, PutDone DEF PromptInv, Object, Told
  <2>2. QED
    BY <1>1, <1>6, <2>1, SignalKeeps
<1>7. QED
  BY <1>2, <1>3, <1>4, <1>5, <1>6 DEF Completed, Complete

LEMMA InitIInv == Init => IInv
<1> SUFFICES ASSUME Init PROVE IInv
  OBVIOUS
<1>1. item \in [Item -> Secret \cup {None}] /\ colls \subseteq Collection
      /\ \A i \in Item : item[i] # None => item[i].coll \in colls
  BY StoredAssumption, CollectionsAssumption DEF Init
<1>2. call \in [Handler -> Local]
  BY DEF Init, Local, Place
<1>3. TypeOK
  BY <1>1, <1>2 DEF Init, TypeOK
<1>4. \A h \in Handler : CallInv(h)
  BY Distinct DEF Init, CallInv, WaitInv, FoundInv, SeenInv, DroppedInv, Results
<1>5. QED
  BY <1>3, <1>4 DEF IInv, Init

LEMMA IInvStep ==
    ASSUME IInv, [Next]_vars
    PROVE  IInv' /\ (ServiceOK \/ UNCHANGED vars)
<1>1. ASSUME NEW h \in Handler, Does(h)
      PROVE  IInv' /\ ServiceOK
  <2>1. \A g \in Handler : CallType(g)' /\ CallInv(g)' /\ Ends(g)
    BY <1>1, OthersKeep DEF Does, Keeps, Ends
  <2>2. TypeOK'
    BY <1>1, <2>1 DEF Does, Keeps, TypeOK, IInv, ServiceOK, CallType
  <2>3. \A p \in prompts' : PromptInv(p)'
    <3>1. ASSUME NEW p \in prompts PROVE p.of \in Handler
      BY DEF IInv, TypeOK, Prompt
    <3>2. QED
      BY <1>1, <2>1, <3>1, PromptsKeep DEF Does
  <2>4. QED
    BY <1>1, <2>1, <2>2, <2>3 DEF IInv, Does
<1>2. ASSUME NEW p \in prompts, Completed(p)
      PROVE  IInv' /\ ServiceOK
  <2>1. /\ ServiceOK /\ call' \in [Handler -> Local]
        /\ \A h \in Handler : CallType(h)' /\ CallInv(h)' /\ Ends(h)
        /\ prompts' \subseteq prompts /\ request' = request
    BY <1>2, CompletedDoes DEF Completed
  <2>2. TypeOK'
    BY <2>1 DEF TypeOK, IInv, ServiceOK, CallType
  <2>3. \A q \in prompts' : PromptInv(q)'
    <3>1. ASSUME NEW q \in prompts PROVE q.of \in Handler
      BY DEF IInv, TypeOK, Prompt
    <3>2. QED
      BY <2>1, <3>1, PromptsKeep
  <2>4. QED
    BY <2>1, <2>2, <2>3 DEF IInv
<1>3. CASE UNCHANGED vars
  BY <1>3 DEF vars, IInv, TypeOK, CallInv, WaitInv, FoundInv, SeenInv, DroppedInv, PromptInv,
             CameBy, Keyed, Dead, TookFromPeer, Wanted, Clearable, GHTaken
<1>4. QED
  BY <1>1, <1>2, <1>3, HandleDoes DEF Next

LEMMA Invariance == Spec => []IInv
<1>1. IInv /\ [Next]_vars => IInv'
  BY IInvStep
<1>2. QED
  BY <1>1, InitIInv, PTL DEF Spec

-----------------------------------------------------------------------------
(* The theorems                                                               *)

\* The handlers' locals and the contents of the service keep their types, and a
\* signal is put only on the channel of a call that waits for a prompt, also where
\* the calls share a connection. (runPromptWithTimeout)
THEOREM TypeCorrect == Spec => []TypeOK
<1>1. IInv => TypeOK
  BY DEF IInv
<1>2. QED
  BY <1>1, Invariance, PTL

\* A secret is released under the name it was saved under, or what is released is
\* what another call of the same connection had unlocked, and its signal came
\* first. Where a call has a connection of its own, it is the former.
\* (LookupNamed, runPromptWithTimeout)
THEOREM OwnNameReleased == Spec => []ReleasesOwnName
<1>1. IInv => ReleasesOwnName
  BY DEF IInv, CallInv, FoundInv, ReleasesOwnName
<1>2. QED
  BY <1>1, Invariance, PTL

\* A save or a delete that reports success left no item its search had found or
\* got unlocked, unless it took another call's signal for its own while it was
\* deleting. (DeleteNamed)
THEOREM EveryCollectionCleared == Spec => []ClearsEveryCollection
<1>1. IInv => ClearsEveryCollection
  BY DEF IInv, CallInv, SeenInv, ClearsEveryCollection, Dead, Live
<1>2. QED
  BY <1>1, Invariance, PTL

\* A save that finds no wallet dropped no copy. (SaveNamed's order)
THEOREM NothingDroppedForWallet == Spec => []WrongWalletDropsNothing
<1>1. IInv => WrongWalletDropsNothing
  BY DEF IInv, CallInv, DroppedInv, WrongWalletDropsNothing
<1>2. QED
  BY <1>1, Invariance, PTL

\* No call deletes or overwrites gh's own items, also where the vault shares
\* gh's collection, until a save or a delete takes them from the unlock prompt of
\* an import on the same connection. (VaultItemSchema, runPromptWithTimeout)
THEOREM ForeignItemsStay == Spec => ForeignItemsUntouched
<1> DEFINE Stay == \A i \in Item : item[i] # None /\ item[i].key = GH =>
                     \/ item'[i] = item[i]
                     \/ \E h \in Handler : request[h].op # "release" /\ TookFromPeer(h, GH)
<1>1. IInv /\ [Next]_vars => [Stay]_vars
  <2> SUFFICES ASSUME IInv, [Next]_vars PROVE Stay \/ UNCHANGED vars
    OBVIOUS
  <2>1. QED
    BY IInvStep DEF ServiceOK, GHTaken
<1>2. QED
  BY <1>1, Invariance, PTL DEF Spec, ForeignItemsUntouched
=============================================================================
