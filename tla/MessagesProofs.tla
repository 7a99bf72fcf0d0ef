---------------------------- MODULE MessagesProofs ----------------------------
(***************************************************************************)
(* The safety properties of Messages for any number of users, chats, calls *)
(* and messages, with joins and departures, failing statements and crashes.*)
(***************************************************************************)
EXTENDS Messages, TLAPS

\* The statements at which a call holds a message.
Holding == AfterWrite \cup {"save"}

\* The statements after the row was loaded, or deleted.
Final == {"recheck", "members", "broadcast"}

\* A row and the author its message was stored with agree.
Matches(row, who) == who = [chat |-> row.chat, user |-> row.user]

\* What a call carries from one statement to the next.
CallOK(r) ==
  /\ IF pc[r] = "idle" THEN req[r] = None ELSE req[r] \in Request
  /\ second[r] => pc[r] # "idle" /\ req[r].kind = "frame"
  /\ pc[r] \in {"check", "insert"} => req[r].kind \in {"post", "frame"}
  /\ pc[r] \in {"find", "save", "encrypt"} => req[r].kind = "patch"
  /\ pc[r] = "delete" => req[r].kind = "delete"
  /\ pc[r] = "load" => req[r].kind # "delete"
  /\ pc[r] \in {"find", "delete"} => req[r].id \in Ids
  /\ IF pc[r] \in Holding THEN target[r] \in 1..lastId ELSE target[r] = 0

CallInv == \A r \in Calls : CallOK(r)

\* Messages are numbered in the order they are stored; a row has the chat and the user its
\* message was stored with.
RowOK(id) ==
  /\ author[id] # None <=> id <= lastId
  /\ rows[id] # None => author[id] # None /\ Matches(rows[id], author[id])

RowInv == \A id \in Ids : RowOK(id)

\* The row a call holds was one of its message, and only its author edits it.
SeenOK(r) ==
  /\ \/ pc[r] \in {"save", "encrypt"}
     \/ pc[r] \in Final /\ req[r].kind # "delete"
     => seen[r] \in Row /\ Matches(seen[r], author[target[r]])
  /\ pc[r] \in {"save", "encrypt"} => author[target[r]].user = req[r].user

SeenInv == \A r \in Calls : SeenOK(r)

\* A message that two calls hold is overlapped, and so is one that is gone although a call
\* that has yet to load it holds it.
HoldOK(r) ==
  /\ \A q \in Calls : r # q /\ pc[r] \in Holding /\ target[r] = target[q] => target[r] \in overlapped
  /\ pc[r] \in {"save", "encrypt", "load"} =>
       rows[target[r]] # None \/ target[r] \in overlapped

HoldInv == \A r \in Calls : HoldOK(r)

\* What the row of a message is, statement by statement, as long as one call holds it.
AloneOK(r) ==
  pc[r] \in Holding /\ target[r] \notin overlapped =>
    /\ pc[r] = "save" => rows[target[r]] = seen[r]
    /\ pc[r] \in AfterWrite /\ req[r].kind = "patch" =>
         /\ rows[target[r]].text = req[r].text
         /\ pc[r] # "encrypt" /\ req[r].cipher # Blank => rows[target[r]].cipher = req[r].cipher
    /\ pc[r] \in Final =>
         rows[target[r]] = IF req[r].kind = "delete" THEN None ELSE seen[r]

AloneInv == \A r \in Calls : AloneOK(r)

\* What the chat should have been told last of a message.
Current(id) == IF rows[id] = None THEN Gone ELSE rows[id]

\* It was told so, or a call will tell it, unless the message is overlapped or untold.
ToldOK(id) ==
  author[id] # None =>
    \/ lastEvent[id] = Current(id)
    \/ id \in overlapped \cup untold
    \/ \E r \in Calls : pc[r] \in AfterWrite /\ target[r] = id

ToldInv == \A id \in Ids : ToldOK(id)

\* The members of a call's chat are between those who stayed and those who were there.
AudienceOK(r) ==
  pc[r] # "idle" =>
    /\ stayed[r] \subseteq members[req[r].chat]
    /\ members[req[r].chat] \subseteq ever[r]
    /\ pc[r] = "broadcast" => stayed[r] \subseteq to[r] /\ to[r] \subseteq ever[r]
    /\ pc[r] = "insert" => req[r].user \in ever[r]

AudienceInv == \A r \in Calls : AudienceOK(r)

Inv ==
  /\ TypeOK
  /\ CallInv
  /\ RowInv
  /\ SeenInv
  /\ HoldInv
  /\ AloneInv
  /\ ToldInv
  /\ AudienceInv

-----------------------------------------------------------------------------
\* What a client asks for, and the first statement of the call.
Asks(statement, request) ==
  /\ statement = "check" => request.kind \in {"post", "frame"}
  /\ statement = "find" => request.kind = "patch" /\ request.id \in Ids
  /\ statement = "delete" => request.kind = "delete" /\ request.id \in Ids

LEMMA ClientBegins ==
  ASSUME NEW r \in Calls, Client(r)
  PROVE  \E s \in {"check", "find", "delete"}, q \in Request : Asks(s, q) /\ Begin(r, s, q)
<1> USE MessagesAssumption DEF Request, Texts, Ids, Asks
<1>1. ASSUME NEW u \in Users, NEW c \in Chats, Frame(r, u, c)
      PROVE  \E s \in {"check", "find", "delete"}, q \in Request : Asks(s, q) /\ Begin(r, s, q)
  <2> DEFINE q == [kind |-> "frame", user |-> u, chat |-> c, id |-> 0, text |-> r, cipher |-> Blank]
  <2>1. q \in Request /\ Asks("check", q)
    OBVIOUS
  <2> QED BY <1>1, <2>1 DEF Frame
<1>2. ASSUME NEW u \in Users, NEW c \in Chats, NEW text \in {r, Blank}, NEW cipher \in {r, Blank},
             Post(r, u, c, text, cipher)
      PROVE  \E s \in {"check", "find", "delete"}, q \in Request : Asks(s, q) /\ Begin(r, s, q)
  <2> DEFINE q == [kind |-> "post", user |-> u, chat |-> c, id |-> 0, text |-> text, cipher |-> cipher]
  <2>1. q \in Request /\ Asks("check", q)
    OBVIOUS
  <2> QED BY <1>2, <2>1 DEF Post
<1>3. ASSUME NEW u \in Users, NEW c \in Chats, NEW text \in {r, Blank}, NEW cipher \in {r, Blank},
             NEW id \in Ids, Patch(r, u, c, id, text, cipher)
      PROVE  \E s \in {"check", "find", "delete"}, q \in Request : Asks(s, q) /\ Begin(r, s, q)
  <2> DEFINE q == [kind |-> "patch", user |-> u, chat |-> c, id |-> id, text |-> text, cipher |-> cipher]
  <2>1. q \in Request /\ Asks("find", q)
    OBVIOUS
  <2> QED BY <1>3, <2>1 DEF Patch
<1>4. ASSUME NEW u \in Users, NEW c \in Chats, NEW id \in Ids, Delete(r, u, c, id)
      PROVE  \E s \in {"check", "find", "delete"}, q \in Request : Asks(s, q) /\ Begin(r, s, q)
  <2> DEFINE q == [kind |-> "delete", user |-> u, chat |-> c, id |-> id,
                    text |-> Blank, cipher |-> Blank]
  <2>1. q \in Request /\ Asks("delete", q)
    OBVIOUS
  <2> QED BY <1>4, <2>1 DEF Delete
<1> QED BY <1>1, <1>2, <1>3, <1>4 DEF Client

\* A step of one call.
StepOf(r) ==
  \/ \E s \in {"check", "find", "delete"}, q \in Request : Asks(s, q) /\ Begin(r, s, q)
  \/ CheckMember(r) \/ Insert(r) \/ FindMessage(r) \/ NotFound(r) \/ SaveMessage(r)
  \/ UpdateEncryptedFields(r) \/ DeleteRow(r) \/ Load(r) \/ Recheck(r)
  \/ ReadMembers(r) \/ Broadcast(r) \/ StatementFails(r)

\* The next-state relation as the cases of the proofs below.
LEMMA NextCases ==
  ASSUME [Next]_vars
  PROVE  \/ \E r \in Calls : StepOf(r)
         \/ Crash
         \/ \E u \in Users, c \in Chats : Join(u, c) \/ Leave(u, c)
         \/ UNCHANGED vars
BY ClientBegins DEF Next, Serve, StepOf

\* The types of what belongs to calls.
CallTypes ==
  /\ pc \in [Calls -> Statement \cup {"idle"}]
  /\ req \in [Calls -> Request \cup {None}]
  /\ target \in [Calls -> 0..MaxId]
  /\ seen \in [Calls -> Row \cup {None}]
  /\ to \in [Calls -> SUBSET Users]
  /\ second \in [Calls -> BOOLEAN]
  /\ stayed \in [Calls -> SUBSET Users]
  /\ ever \in [Calls -> SUBSET Users]

\* What requests and rows are made of.
LEMMA Fields ==
  /\ \A q \in Request :
       /\ q.kind \in {"post", "frame", "patch", "delete"} /\ q.user \in Users /\ q.chat \in Chats
       /\ q.id \in 0..MaxId /\ q.text \in Texts /\ q.cipher \in Texts
  /\ \A row \in Row, text \in Texts :
       [row EXCEPT !.text = text] \in Row /\ [row EXCEPT !.cipher = text] \in Row
  /\ \A q \in Request :
       /\ [chat |-> q.chat, user |-> q.user, text |-> q.text, cipher |-> q.cipher] \in Row
       /\ [chat |-> q.chat, user |-> q.user] \in Origin
BY DEF Request, Row, Origin

LEMMA ReturnTypes ==
  ASSUME Inv, NEW r \in Calls, pc[r] # "idle", Return(r)
  PROVE  CallTypes'
<1>1. TypeOK /\ req[r] \in Request
  BY DEF Inv, CallInv, CallOK
<1>2. members[req[r].chat] \in SUBSET Users
  BY <1>1, Fields DEF TypeOK
<1>3. stayed' \in [Calls -> SUBSET Users] /\ ever' \in [Calls -> SUBSET Users]
  BY <1>1, <1>2 DEF TypeOK, Return
<1>4. pc' \in [Calls -> Statement \cup {"idle"}] /\ req' \in [Calls -> Request \cup {None}]
  BY <1>1 DEF TypeOK, Return, Statement
<1>5. target' \in [Calls -> 0..MaxId] /\ seen' \in [Calls -> Row \cup {None}]
  BY <1>1, MessagesAssumption DEF TypeOK, Return
<1>6. to' \in [Calls -> SUBSET Users] /\ second' \in [Calls -> BOOLEAN]
  BY <1>1 DEF TypeOK, Return, Again
<1> QED BY <1>3, <1>4, <1>5, <1>6 DEF CallTypes

LEMMA SilentTypes ==
  ASSUME Inv, NEW r \in Calls, NEW id \in Ids, pc[r] # "idle", ReturnSilently(r, id)
  PROVE  CallTypes' /\ untold' \in SUBSET Ids /\ lastEvent' \in [Ids -> Row \cup {None, Gone}]
BY ReturnTypes DEF Inv, TypeOK, ReturnSilently

\* The types of what a write is accompanied by.
WriteTypes ==
  /\ CallTypes
  /\ untold \in SUBSET Ids
  /\ lastEvent \in [Ids -> Row \cup {None, Gone}]
  /\ failures \in 0..MaxFailures

LEMMA WrittenTypes ==
  ASSUME Inv, NEW r \in Calls, NEW id \in Ids, NEW s \in Statement, NEW row \in Row \cup {None},
         pc[r] # "idle", Written(r, id, s, row)
  PROVE  WriteTypes'
<1> USE MessagesAssumption
<1>1. TypeOK /\ id \in 0..MaxId
  BY DEF Inv, Ids
<1>2. CASE ReturnSilently(r, id) /\ failures < MaxFailures /\ failures' = failures + 1
  BY <1>1, <1>2, SilentTypes DEF TypeOK, WriteTypes
<1>3. CASE /\ Goto(r, s) /\ UNCHANGED <<to, told, failures>>
           /\ target' = [target EXCEPT ![r] = id] /\ seen' = [seen EXCEPT ![r] = row]
  BY <1>1, <1>3 DEF TypeOK, WriteTypes, CallTypes, Goto, audience, told
<1> QED BY <1>2, <1>3 DEF Written

-----------------------------------------------------------------------------
\* What a step of one call leaves alone: the other calls.
Others(r) ==
  \A q \in Calls \ {r} :
    /\ pc'[q] = pc[q] /\ req'[q] = req[q] /\ second'[q] = second[q] /\ target'[q] = target[q]
    /\ seen'[q] = seen[q] /\ to'[q] = to[q] /\ stayed'[q] = stayed[q] /\ ever'[q] = ever[q]

\* A call returns and lets go of everything.
Ends(r) ==
  /\ Others(r)
  /\ target'[r] = 0 /\ seen'[r] = None /\ to'[r] = {}
  /\ \/ /\ pc'[r] = "idle" /\ req'[r] = None /\ second'[r] = FALSE
     \/ /\ pc'[r] = "check" /\ req'[r] = req[r] /\ second'[r] = TRUE /\ req[r].kind = "frame"
        /\ stayed'[r] = members[req[r].chat] /\ ever'[r] = members[req[r].chat]

\* It returns without an event about the message id.
Drops(r, id) == Ends(r) /\ untold' = untold \cup {id} /\ lastEvent' = lastEvent

\* It goes on with the next statement, a message and a row.
Advances(r, statement, id, row) ==
  /\ Others(r)
  /\ pc'[r] = statement /\ target'[r] = id /\ seen'[r] = row
  /\ req'[r] = req[r] /\ second'[r] = second[r] /\ stayed'[r] = stayed[r] /\ ever'[r] = ever[r]
  /\ UNCHANGED told

LEMMA ReturnEffect ==
  ASSUME TypeOK, NEW r \in Calls, Return(r)
  PROVE  Ends(r)
<1>1. CASE Again(r)
  BY <1>1 DEF TypeOK, Return, Again, Ends, Others
<1>2. CASE ~Again(r)
  BY <1>2 DEF TypeOK, Return, Ends, Others
<1> QED BY <1>1, <1>2

LEMMA GotoEffect ==
  ASSUME TypeOK, NEW r \in Calls, NEW s, Goto(r, s)
  PROVE  /\ pc'[r] = s /\ \A q \in Calls \ {r} : pc'[q] = pc[q]
         /\ req' = req /\ second' = second /\ stayed' = stayed /\ ever' = ever
BY DEF TypeOK, Goto, audience

LEMMA WrittenEffect ==
  ASSUME TypeOK, NEW r \in Calls, NEW id, NEW s, NEW row, Written(r, id, s, row)
  PROVE  \/ Advances(r, s, id, row) /\ UNCHANGED failures
         \/ Drops(r, id) /\ failures' = failures + 1
<1>1. CASE ReturnSilently(r, id) /\ failures' = failures + 1
  BY <1>1, ReturnEffect DEF ReturnSilently, Drops
<1>2. CASE /\ Goto(r, s) /\ UNCHANGED <<to, told, failures>>
           /\ target' = [target EXCEPT ![r] = id] /\ seen' = [seen EXCEPT ![r] = row]
  <2>1. UNCHANGED <<to, lastEvent, untold, failures>>
    BY <1>2 DEF told
  <2>2. /\ target'[r] = id /\ seen'[r] = row
        /\ \A q \in Calls \ {r} : target'[q] = target[q] /\ seen'[q] = seen[q]
    BY <1>2 DEF TypeOK
  <2> QED BY <1>2, <2>1, <2>2, GotoEffect DEF Advances, Others, told
<1> QED BY <1>1, <1>2 DEF Written

LEMMA BeginEffect ==
  ASSUME TypeOK, NEW r \in Calls, NEW s, NEW q \in Request, Begin(r, s, q)
  PROVE  /\ Others(r) /\ pc[r] = "idle" /\ pc'[r] = s /\ req'[r] = q
         /\ UNCHANGED <<members, rows, lastId, author, told, overlapped, target, seen, to, second,
                        failures>>
         /\ stayed'[r] = members[q.chat] /\ ever'[r] = members[q.chat]
BY DEF TypeOK, Begin, Others, db

LEMMA CheckEffect ==
  ASSUME TypeOK, NEW r \in Calls, CheckMember(r)
  PROVE  /\ pc[r] = "check"
         /\ \/ Ends(r)
            \/ req[r].user \in members[req[r].chat] /\ Advances(r, "insert", target[r], seen[r])
         /\ UNCHANGED <<members, rows, lastId, author, told, overlapped, failures>>
<1>1. pc[r] = "check" /\ UNCHANGED <<members, rows, lastId, author, told, overlapped, failures>>
  BY DEF CheckMember, db
<1>2. CASE Return(r)
  BY <1>1, <1>2, ReturnEffect
<1>3. CASE InChat(req[r].user, req[r].chat) /\ Goto(r, "insert") /\ UNCHANGED <<target, seen, to>>
  <2>1. Advances(r, "insert", target[r], seen[r])
    BY <1>1, <1>3, GotoEffect DEF Advances, Others
  <2> QED BY <1>1, <1>3, <2>1 DEF InChat
<1> QED BY <1>2, <1>3 DEF CheckMember

LEMMA InsertEffect ==
  ASSUME TypeOK, NEW r \in Calls, Insert(r)
  PROVE  /\ pc[r] = "insert" /\ lastId' = lastId + 1 /\ lastId' \in Ids
         /\ rows'[lastId'] = [chat |-> req[r].chat, user |-> req[r].user,
                             text |-> req[r].text, cipher |-> req[r].cipher]
         /\ author'[lastId'] = [chat |-> req[r].chat, user |-> req[r].user]
         /\ \A id \in Ids \ {lastId'} : rows'[id] = rows[id] /\ author'[id] = author[id]
         /\ \/ Advances(r, "load", lastId', None)
            \/ Drops(r, lastId') /\ failures' = failures + 1
         /\ UNCHANGED <<members, overlapped>>
<1>1. lastId' = lastId + 1 /\ lastId' \in Ids
  BY MessagesAssumption DEF TypeOK, Insert, Ids
<1>2. \/ Advances(r, "load", lastId', None)
      \/ Drops(r, lastId') /\ failures' = failures + 1
  BY WrittenEffect DEF Insert
<1> QED BY <1>1, <1>2 DEF TypeOK, Insert

LEMMA FindEffect ==
  ASSUME TypeOK, NEW r \in Calls, FindMessage(r)
  PROVE  /\ pc[r] = "find"
         /\ rows[req[r].id] # None /\ rows[req[r].id].user = req[r].user
         /\ Advances(r, "save", req[r].id, rows[req[r].id])
         /\ Overlap(r, req[r].id)
         /\ UNCHANGED <<members, rows, lastId, author, failures>>
<1>1. Advances(r, "save", req[r].id, rows[req[r].id])
  BY GotoEffect DEF TypeOK, FindMessage, Advances, Others, told
<1> QED BY <1>1 DEF FindMessage, Mine, db

LEMMA NotFoundEffect ==
  ASSUME TypeOK, NEW r \in Calls, NotFound(r)
  PROVE  /\ pc[r] \in {"find", "delete"} /\ Ends(r)
         /\ UNCHANGED <<members, rows, lastId, author, told, overlapped, failures>>
BY ReturnEffect DEF NotFound, db

LEMMA SaveEffect ==
  ASSUME Inv, NEW r \in Calls, SaveMessage(r)
  PROVE  /\ pc[r] = "save" /\ target[r] \in Ids /\ seen[r] \in Row /\ req[r] \in Request
         /\ rows'[target[r]] \in Row
         /\ rows'[target[r]].text = req[r].text /\ rows'[target[r]].cipher = seen[r].cipher
         /\ rows'[target[r]].chat = seen[r].chat /\ rows'[target[r]].user = seen[r].user
         /\ \A id \in Ids \ {target[r]} : rows'[id] = rows[id]
         /\ \/ Advances(r, IF req[r].cipher = Blank THEN "load" ELSE "encrypt", target[r], seen[r])
            \/ Drops(r, target[r]) /\ failures' = failures + 1
         /\ UNCHANGED <<members, lastId, author, overlapped>>
<1>0. TypeOK /\ target[r] \in Ids /\ seen[r] \in Row /\ req[r] \in Request
  BY DEF Inv, TypeOK, CallInv, CallOK, SeenInv, SeenOK, SaveMessage, Holding, AfterWrite, Ids
<1>1. /\ Saved(r) \in Row
      /\ Saved(r).text = req[r].text /\ Saved(r).cipher = seen[r].cipher
      /\ Saved(r).chat = seen[r].chat /\ Saved(r).user = seen[r].user
  BY <1>0 DEF Saved, Row, Request
<1>2. rows'[target[r]] = Saved(r) /\ \A id \in Ids \ {target[r]} : rows'[id] = rows[id]
  BY <1>0 DEF TypeOK, SaveMessage
<1>3. \/ Advances(r, IF req[r].cipher = Blank THEN "load" ELSE "encrypt", target[r], seen[r])
      \/ Drops(r, target[r]) /\ failures' = failures + 1
  BY <1>0, WrittenEffect DEF SaveMessage
<1> QED BY <1>0, <1>1, <1>2, <1>3 DEF SaveMessage

LEMMA EncryptEffect ==
  ASSUME Inv, NEW r \in Calls, UpdateEncryptedFields(r)
  PROVE  /\ pc[r] = "encrypt" /\ target[r] \in Ids /\ req[r] \in Request
         /\ IF rows[target[r]] = None THEN rows'[target[r]] = None
            ELSE /\ rows'[target[r]] # None
                 /\ rows'[target[r]].cipher = req[r].cipher
                 /\ rows'[target[r]].text = rows[target[r]].text
                 /\ rows'[target[r]].chat = rows[target[r]].chat
                 /\ rows'[target[r]].user = rows[target[r]].user
         /\ \A id \in Ids \ {target[r]} : rows'[id] = rows[id]
         /\ \/ Advances(r, "load", target[r], seen[r])
            \/ Drops(r, target[r]) /\ failures' = failures + 1
         /\ UNCHANGED <<members, lastId, author, overlapped>>
<1>0. TypeOK /\ target[r] \in Ids /\ req[r] \in Request
  BY DEF Inv, TypeOK, CallInv, CallOK, UpdateEncryptedFields, Holding, AfterWrite, Ids
<1>1. \/ Advances(r, "load", target[r], seen[r])
      \/ Drops(r, target[r]) /\ failures' = failures + 1
  BY <1>0, WrittenEffect DEF UpdateEncryptedFields
<1>2. \A id \in Ids \ {target[r]} : rows'[id] = rows[id]
  BY <1>0 DEF TypeOK, UpdateEncryptedFields, Encrypted
<1>3. CASE rows[target[r]] = None
  BY <1>0, <1>1, <1>2, <1>3 DEF UpdateEncryptedFields, Encrypted
<1>4. CASE rows[target[r]] # None
  <2>1. rows[target[r]] \in Row
    BY <1>0, <1>4 DEF TypeOK
  <2>2. rows'[target[r]] = [rows[target[r]] EXCEPT !.cipher = req[r].cipher]
    BY <1>0, <1>4 DEF TypeOK, UpdateEncryptedFields, Encrypted
  <2>3. rows'[target[r]] \in Row
    <3>1. req[r].cipher \in Texts
      BY <1>0, Fields
    <3> QED BY <2>1, <2>2, <3>1 DEF Row
  <2>4. /\ rows'[target[r]].cipher = req[r].cipher
        /\ rows'[target[r]].text = rows[target[r]].text
        /\ rows'[target[r]].chat = rows[target[r]].chat
        /\ rows'[target[r]].user = rows[target[r]].user
    BY <2>1, <2>2 DEF Row
  <2> QED BY <1>0, <1>1, <1>2, <1>4, <2>3, <2>4, NoneAssumption DEF UpdateEncryptedFields
<1> QED BY <1>3, <1>4

LEMMA DeleteEffect ==
  ASSUME Inv, NEW r \in Calls, DeleteRow(r)
  PROVE  /\ pc[r] = "delete" /\ req[r].id \in Ids /\ req[r].kind = "delete"
         /\ rows[req[r].id] # None /\ rows[req[r].id].user = req[r].user
         /\ rows'[req[r].id] = None
         /\ \A id \in Ids \ {req[r].id} : rows'[id] = rows[id]
         /\ Overlap(r, req[r].id)
         /\ \/ Advances(r, "recheck", req[r].id, None)
            \/ Drops(r, req[r].id) /\ failures' = failures + 1
         /\ UNCHANGED <<members, lastId, author>>
<1>0. TypeOK /\ req[r].id \in Ids /\ req[r].kind = "delete"
  BY DEF Inv, CallInv, CallOK, DeleteRow
<1>1. \/ Advances(r, "recheck", req[r].id, None)
      \/ Drops(r, req[r].id) /\ failures' = failures + 1
  BY <1>0, WrittenEffect DEF DeleteRow
<1>2. rows'[req[r].id] = None /\ \A id \in Ids \ {req[r].id} : rows'[id] = rows[id]
  BY <1>0 DEF TypeOK, DeleteRow
<1> QED BY <1>0, <1>1, <1>2 DEF DeleteRow, Mine

LEMMA LoadEffect ==
  ASSUME TypeOK, NEW r \in Calls, Load(r)
  PROVE  /\ pc[r] = "load"
         /\ IF rows[target[r]] # None THEN Advances(r, "recheck", target[r], rows[target[r]])
            ELSE Drops(r, target[r])
         /\ UNCHANGED <<members, rows, lastId, author, overlapped, failures>>
<1>1. CASE Stored(target[r])
  <2>1. Advances(r, "recheck", target[r], rows[target[r]])
    BY <1>1, GotoEffect DEF TypeOK, Load, Advances, Others, told
  <2> QED BY <1>1, <2>1 DEF Load, Stored, db
<1>2. CASE ~Stored(target[r])
  <2>1. Drops(r, target[r])
    BY <1>2, ReturnEffect DEF Load, ReturnSilently, Drops
  <2> QED BY <1>2, <2>1 DEF Load, Stored, db
<1> QED BY <1>1, <1>2

LEMMA RecheckEffect ==
  ASSUME TypeOK, NEW r \in Calls, Recheck(r)
  PROVE  /\ pc[r] = "recheck"
         /\ \/ Advances(r, "members", target[r], seen[r])
            \/ req[r].user \notin members[req[r].chat] /\ Drops(r, target[r])
         /\ UNCHANGED <<members, rows, lastId, author, overlapped, failures>>
<1>1. CASE InChat(req[r].user, req[r].chat)
  <2>1. Advances(r, "members", target[r], seen[r])
    BY <1>1, GotoEffect DEF Recheck, Advances, Others, told
  <2> QED BY <2>1 DEF Recheck, db
<1>2. CASE ~InChat(req[r].user, req[r].chat)
  <2>1. Drops(r, target[r])
    BY <1>2, ReturnEffect DEF Recheck, ReturnSilently, Drops
  <2> QED BY <1>2, <2>1 DEF Recheck, InChat, db
<1> QED BY <1>1, <1>2

LEMMA ReadEffect ==
  ASSUME TypeOK, NEW r \in Calls, ReadMembers(r)
  PROVE  /\ pc[r] = "members" /\ to'[r] = members[req[r].chat]
         /\ Advances(r, "broadcast", target[r], seen[r])
         /\ UNCHANGED <<members, rows, lastId, author, overlapped, failures>>
<1>1. Others(r)
  BY DEF TypeOK, ReadMembers, Goto, audience, Others
<1>2. pc'[r] = "broadcast" /\ to'[r] = members[req[r].chat]
  BY DEF TypeOK, ReadMembers, Goto, MemberIDs
<1> QED BY <1>1, <1>2 DEF ReadMembers, Goto, audience, Advances, db

LEMMA BroadcastEffect ==
  ASSUME Inv, NEW r \in Calls, Broadcast(r)
  PROVE  /\ pc[r] = "broadcast" /\ target[r] \in Ids /\ Ends(r)
         /\ \/ lastEvent'[target[r]] = Event(r) /\ untold' = untold \ {target[r]}
            \/ lastEvent' = lastEvent /\ untold' = untold \cup {target[r]}
         /\ \A id \in Ids \ {target[r]} : lastEvent'[id] = lastEvent[id]
         /\ UNCHANGED <<members, rows, lastId, author, overlapped, failures>>
<1>0. TypeOK /\ target[r] \in Ids
  BY DEF Inv, TypeOK, CallInv, CallOK, Broadcast, Holding, AfterWrite, Ids
<1>1. Ends(r)
  BY <1>0, ReturnEffect DEF Broadcast
<1>2. /\ \/ lastEvent'[target[r]] = Event(r) /\ untold' = untold \ {target[r]}
         \/ lastEvent' = lastEvent /\ untold' = untold \cup {target[r]}
      /\ \A id \in Ids \ {target[r]} : lastEvent'[id] = lastEvent[id]
  BY <1>0 DEF TypeOK, Broadcast
<1> QED BY <1>0, <1>1, <1>2 DEF Broadcast, db

LEMMA FailEffect ==
  ASSUME TypeOK, NEW r \in Calls, StatementFails(r)
  PROVE  /\ pc[r] \notin {"idle", "broadcast"} /\ failures' = failures + 1
         /\ IF pc[r] \in AfterWrite THEN Drops(r, target[r]) ELSE Ends(r) /\ UNCHANGED told
         /\ UNCHANGED <<members, rows, lastId, author, overlapped>>
<1>1. CASE pc[r] \in AfterWrite
  <2>1. Drops(r, target[r])
    BY <1>1, ReturnEffect DEF StatementFails, ReturnSilently, Drops
  <2> QED BY <1>1, <2>1 DEF StatementFails, db
<1>2. CASE pc[r] \notin AfterWrite
  <2>1. Ends(r)
    BY <1>2, ReturnEffect DEF StatementFails
  <2> QED BY <1>2, <2>1 DEF StatementFails, db
<1> QED BY <1>1, <1>2

\* Init establishes the invariant.
LEMMA InitInv == Init => Inv
BY MessagesAssumption, NoneAssumption
   DEF Init, Inv, TypeOK, CallInv, CallOK, RowInv, RowOK, SeenInv, SeenOK, HoldInv, HoldOK,
       AloneInv, AloneOK,
       ToldInv, ToldOK, AudienceInv, AudienceOK, Ids, Holding, AfterWrite, Final, Statement

\* Every step keeps the types.
LEMMA TypeStep ==
  ASSUME Inv, [Next]_vars
  PROVE  TypeOK'
<1> USE MessagesAssumption, NoneAssumption
<1>0. Inv /\ TypeOK /\ CallInv /\ SeenInv /\ moves' \in 0..MaxMoves
  BY DEF Inv, TypeOK, Next, Join, Leave, vars
<1>1. ASSUME NEW r \in Calls, NEW s \in {"check", "find", "delete"}, NEW q \in Request, Asks(s,
             q), Begin(r, s, q)
      PROVE  TypeOK'
  <2>1. members[q.chat] \in SUBSET Users
    BY <1>0, Fields DEF TypeOK
  <2>2. /\ pc' \in [Calls -> Statement \cup {"idle"}]
        /\ req' \in [Calls -> Request \cup {None}]
        /\ stayed' \in [Calls -> SUBSET Users]
        /\ ever' \in [Calls -> SUBSET Users]
    BY <1>0, <1>1, <2>1 DEF TypeOK, Begin, Statement
  <2>3. UNCHANGED <<members, rows, lastId, target, seen, to, second, author, lastEvent, untold,
                    overlapped, failures>>
    BY <1>1 DEF Begin, db, told
  <2> QED BY <1>0, <2>2, <2>3 DEF TypeOK
<1>2. ASSUME NEW r \in Calls, CheckMember(r)
      PROVE  TypeOK'
  <2>1. UNCHANGED <<members, rows, lastId, author, lastEvent, untold, overlapped, failures>>
    BY <1>2 DEF CheckMember, db, told
  <2>2. CASE Return(r)
    BY <1>0, <1>2, <2>1, <2>2, ReturnTypes DEF TypeOK, CallTypes, CheckMember
  <2>3. CASE Goto(r, "insert") /\ UNCHANGED <<target, seen, to>>
    BY <1>0, <2>1, <2>3 DEF TypeOK, Goto, audience, Statement
  <2> QED BY <1>2, <2>2, <2>3 DEF CheckMember
<1>3. ASSUME NEW r \in Calls, Insert(r)
      PROVE  TypeOK'
  <2>1. lastId' \in Ids /\ lastId' \in 0..MaxId /\ req[r] \in Request
    BY <1>0, <1>3 DEF TypeOK, CallInv, CallOK, Insert, Ids
  <2>2. rows' \in [Ids -> Row \cup {None}] /\ author' \in [Ids -> Origin \cup {None}]
    BY <1>0, <1>3, <2>1, Fields DEF TypeOK, Insert
  <2>3. UNCHANGED <<members, overlapped>>
    BY <1>3 DEF Insert
  <2>4. pc[r] # "idle" /\ Written(r, lastId', "load", None)
    BY <1>3 DEF Insert
  <2> QED BY <1>0, <2>1, <2>2, <2>3, <2>4, WrittenTypes DEF TypeOK, CallTypes, WriteTypes, Statement
<1>4. ASSUME NEW r \in Calls, FindMessage(r)
      PROVE  TypeOK'
  <2>1. req[r].id \in Ids /\ req[r].id \in 0..MaxId
    BY <1>0, <1>4 DEF CallInv, CallOK, FindMessage, Ids
  <2>2. rows[req[r].id] \in Row \cup {None}
    BY <1>0, <2>1 DEF TypeOK
  <2>3. pc' \in [Calls -> Statement \cup {"idle"}]
    BY <1>0, <1>4 DEF TypeOK, FindMessage, Goto, Statement
  <2>4. target' \in [Calls -> 0..MaxId] /\ seen' \in [Calls -> Row \cup {None}]
    BY <1>0, <1>4, <2>1, <2>2 DEF TypeOK, FindMessage
  <2>5. overlapped' \in SUBSET Ids
    BY <1>0, <1>4, <2>1 DEF TypeOK, FindMessage, Overlap
  <2>6. UNCHANGED <<members, rows, lastId, req, to, second, author, lastEvent, untold, stayed,
                    ever, failures>>
    BY <1>4 DEF FindMessage, Goto, db, told, audience
  <2> QED BY <1>0, <2>3, <2>4, <2>5, <2>6 DEF TypeOK
<1>5. ASSUME NEW r \in Calls, NotFound(r)
      PROVE  TypeOK'
  <2>1. UNCHANGED <<members, rows, lastId, author, lastEvent, untold, overlapped, failures>>
    BY <1>5 DEF NotFound, db, told
  <2> QED BY <1>0, <1>5, <2>1, ReturnTypes DEF TypeOK, CallTypes, NotFound
<1>6. ASSUME NEW r \in Calls, SaveMessage(r)
      PROVE  TypeOK'
  <2>1. target[r] \in Ids /\ req[r] \in Request /\ seen[r] \in Row
    BY <1>0, <1>6 DEF TypeOK, CallInv, CallOK, SeenInv, SeenOK, SaveMessage, Holding, AfterWrite,
                      Ids
  <2>2. rows' \in [Ids -> Row \cup {None}]
    BY <1>0, <1>6, <2>1, Fields DEF TypeOK, SaveMessage, Saved
  <2>3. UNCHANGED <<members, lastId, author, overlapped>>
    BY <1>6 DEF SaveMessage
  <2>4. pc[r] # "idle" /\ \E next \in Statement : Written(r, target[r], next, seen[r])
    BY <1>0, <1>6 DEF SaveMessage, TypeOK, Statement
  <2> QED BY <1>0, <2>1, <2>2, <2>3, <2>4, WrittenTypes DEF TypeOK, CallTypes, WriteTypes, Statement
<1>7. ASSUME NEW r \in Calls, UpdateEncryptedFields(r)
      PROVE  TypeOK'
  <2>1. target[r] \in Ids /\ req[r] \in Request /\ seen[r] \in Row
    BY <1>0, <1>7 DEF TypeOK, CallInv, CallOK, SeenInv, SeenOK, UpdateEncryptedFields, Holding,
                      AfterWrite, Ids
  <2>2. rows' \in [Ids -> Row \cup {None}]
    BY <1>0, <1>7, <2>1, Fields DEF TypeOK, UpdateEncryptedFields, Encrypted
  <2>3. UNCHANGED <<members, lastId, author, overlapped>>
    BY <1>7 DEF UpdateEncryptedFields
  <2>4. pc[r] # "idle" /\ \E next \in Statement : Written(r, target[r], next, seen[r])
    BY <1>0, <1>7 DEF UpdateEncryptedFields, TypeOK, Statement
  <2> QED BY <1>0, <2>1, <2>2, <2>3, <2>4, WrittenTypes DEF TypeOK, CallTypes, WriteTypes, Statement
<1>8. ASSUME NEW r \in Calls, DeleteRow(r)
      PROVE  TypeOK'
  <2>1. req[r].id \in Ids
    BY <1>0, <1>8 DEF CallInv, CallOK, DeleteRow
  <2>2. rows' \in [Ids -> Row \cup {None}] /\ overlapped' \in SUBSET Ids
    BY <1>0, <1>8, <2>1 DEF TypeOK, DeleteRow, Overlap
  <2>3. UNCHANGED <<members, lastId, author>>
    BY <1>8 DEF DeleteRow
  <2>4. pc[r] # "idle" /\ Written(r, req[r].id, "recheck", None)
    BY <1>8 DEF DeleteRow
  <2> QED BY <1>0, <2>1, <2>2, <2>3, <2>4, WrittenTypes DEF TypeOK, CallTypes, WriteTypes, Statement
<1>9. ASSUME NEW r \in Calls, Load(r)
      PROVE  TypeOK'
  <2>1. target[r] \in Ids
    BY <1>0, <1>9 DEF TypeOK, CallInv, CallOK, Load, Holding, AfterWrite, Ids
  <2>2. UNCHANGED <<members, rows, lastId, author, overlapped, failures>>
    BY <1>9 DEF Load, db
  <2>3. CASE ReturnSilently(r, target[r])
    BY <1>0, <1>9, <2>1, <2>2, <2>3, SilentTypes DEF TypeOK, CallTypes, Load
  <2>4. CASE /\ Goto(r, "recheck") /\ UNCHANGED <<target, to, told>>
             /\ seen' = [seen EXCEPT ![r] = rows[target[r]]]
    BY <1>0, <2>1, <2>2, <2>4 DEF TypeOK, Goto, told, audience, Statement
  <2> QED BY <1>9, <2>3, <2>4 DEF Load
<1>10. ASSUME NEW r \in Calls, Recheck(r)
       PROVE  TypeOK'
  <2>1. target[r] \in Ids
    BY <1>0, <1>10 DEF TypeOK, CallInv, CallOK, Recheck, Holding, AfterWrite, Ids
  <2>2. UNCHANGED <<members, rows, lastId, author, overlapped, failures>>
    BY <1>10 DEF Recheck, db
  <2>3. CASE ReturnSilently(r, target[r])
    BY <1>0, <1>10, <2>1, <2>2, <2>3, SilentTypes DEF TypeOK, CallTypes, Recheck
  <2>4. CASE Goto(r, "members") /\ UNCHANGED <<target, seen, to, told>>
    BY <1>0, <2>2, <2>4 DEF TypeOK, Goto, told, audience, Statement
  <2> QED BY <1>10, <2>3, <2>4 DEF Recheck
<1>11. ASSUME NEW r \in Calls, ReadMembers(r)
       PROVE  TypeOK'
  <2>1. req[r].chat \in Chats
    BY <1>0, <1>11, Fields DEF CallInv, CallOK, ReadMembers
  <2>2. pc' \in [Calls -> Statement \cup {"idle"}]
    BY <1>0, <1>11 DEF TypeOK, ReadMembers, Goto, Statement
  <2>3. to' \in [Calls -> SUBSET Users]
    BY <1>0, <1>11, <2>1 DEF TypeOK, ReadMembers, MemberIDs
  <2>4. UNCHANGED <<members, rows, lastId, req, target, seen, second, author, lastEvent, untold,
                    overlapped, stayed, ever, failures>>
    BY <1>11 DEF ReadMembers, Goto, db, told, audience
  <2> QED BY <1>0, <2>2, <2>3, <2>4 DEF TypeOK
<1>12. ASSUME NEW r \in Calls, Broadcast(r)
       PROVE  TypeOK'
  <2>1. target[r] \in Ids /\ Event(r) \in Row \cup {None, Gone}
    BY <1>0, <1>12 DEF TypeOK, CallInv, CallOK, Broadcast, Event, Holding, AfterWrite, Ids
  <2>2. lastEvent' \in [Ids -> Row \cup {None, Gone}] /\ untold' \in SUBSET Ids
    BY <1>0, <1>12, <2>1 DEF TypeOK, Broadcast
  <2>3. UNCHANGED <<members, rows, lastId, author, overlapped, failures>>
    BY <1>12 DEF Broadcast, db
  <2> QED BY <1>0, <1>12, <2>2, <2>3, ReturnTypes DEF TypeOK, CallTypes, Broadcast
<1>13. ASSUME NEW r \in Calls, StatementFails(r)
       PROVE  TypeOK'
  <2>1. /\ UNCHANGED <<members, rows, lastId, author, overlapped>>
        /\ pc[r] # "idle" /\ failures' \in 0..MaxFailures
    BY <1>0, <1>13 DEF TypeOK, StatementFails, db
  <2>2. CASE pc[r] \in AfterWrite
    <3>1. target[r] \in Ids
      BY <1>0, <2>2 DEF TypeOK, CallInv, CallOK, Holding, Ids
    <3> QED BY <1>0, <1>13, <2>1, <2>2, <3>1, SilentTypes DEF TypeOK, CallTypes, StatementFails
  <2>3. CASE pc[r] \notin AfterWrite
    BY <1>0, <1>13, <2>1, <2>3, ReturnTypes DEF TypeOK, CallTypes, StatementFails, told
  <2> QED BY <2>2, <2>3
<1>14. ASSUME Crash
       PROVE  TypeOK'
  <2>0. \A r \in Calls : pc[r] \in AfterWrite => target[r] \in Ids
    BY <1>0 DEF TypeOK, CallInv, CallOK, Holding, Ids
  <2>1. untold' \in SUBSET Ids
    BY <1>0, <1>14, <2>0 DEF TypeOK, Crash
  <2>2. CallTypes'
    BY <1>14 DEF Crash, CallTypes
  <2>3. /\ failures' \in 0..MaxFailures
        /\ UNCHANGED <<members, rows, lastId, author, lastEvent, overlapped>>
    BY <1>0, <1>14 DEF TypeOK, Crash, db
  <2> QED BY <1>0, <2>1, <2>2, <2>3 DEF TypeOK, CallTypes
<1>15. ASSUME NEW u \in Users, NEW c \in Chats, Join(u, c)
       PROVE  TypeOK'
  BY <1>0, <1>15 DEF TypeOK, Join, db, callVars, told, audience
<1>16. ASSUME NEW u \in Users, NEW c \in Chats, Leave(u, c)
       PROVE  TypeOK'
  BY <1>0, <1>16 DEF TypeOK, Leave, db, callVars, told, audience
<1>17. CASE UNCHANGED vars
  BY <1>0, <1>17 DEF TypeOK, vars, db, callVars, told, audience
<1> QED BY <1>1, <1>2, <1>3, <1>4, <1>5, <1>6, <1>7, <1>8, <1>9, <1>10, <1>11, <1>12, <1>13,
           <1>14, <1>15, <1>16, <1>17, NextCases DEF StepOf

\* A step of one call leaves the other calls and the members alone.
LEMMA StepEffect ==
  ASSUME Inv, NEW r \in Calls, StepOf(r)
  PROVE  Others(r) /\ members' = members /\ overlapped \subseteq overlapped'
<1>0. TypeOK
  BY DEF Inv
<1>1. ASSUME NEW s \in {"check", "find", "delete"}, NEW q \in Request, Asks(s, q), Begin(r, s, q)
      PROVE  Others(r) /\ members' = members /\ overlapped \subseteq overlapped'
  BY <1>0, <1>1, BeginEffect DEF Asks, Ends, Drops, Advances
<1>2. CASE CheckMember(r)
  BY <1>0, <1>2, CheckEffect DEF Ends, Drops, Advances
<1>3. CASE Insert(r)
  BY <1>0, <1>3, InsertEffect DEF Ends, Drops, Advances
<1>4. CASE FindMessage(r)
  BY <1>0, <1>4, FindEffect DEF Ends, Drops, Advances, Overlap
<1>5. CASE NotFound(r)
  BY <1>0, <1>5, NotFoundEffect DEF Ends, Drops, Advances
<1>6. CASE SaveMessage(r)
  BY <1>0, <1>6, SaveEffect DEF Ends, Drops, Advances
<1>7. CASE UpdateEncryptedFields(r)
  BY <1>0, <1>7, EncryptEffect DEF Ends, Drops, Advances
<1>8. CASE DeleteRow(r)
  <2>1. overlapped \subseteq overlapped'
    BY <1>8, DeleteEffect DEF Overlap
  <2>2. Others(r) /\ members' = members
    BY <1>8, DeleteEffect DEF Ends, Drops, Advances
  <2> QED BY <2>1, <2>2
<1>9. CASE Load(r)
  BY <1>0, <1>9, LoadEffect DEF Ends, Drops, Advances
<1>10. CASE Recheck(r)
  BY <1>0, <1>10, RecheckEffect DEF Ends, Drops, Advances
<1>11. CASE ReadMembers(r)
  BY <1>0, <1>11, ReadEffect DEF Ends, Drops, Advances
<1>12. CASE Broadcast(r)
  BY <1>0, <1>12, BroadcastEffect DEF Ends, Drops, Advances
<1>13. CASE StatementFails(r)
  BY <1>0, <1>13, FailEffect DEF Ends, Drops, Advances
<1> QED BY <1>1, <1>2, <1>3, <1>4, <1>5, <1>6, <1>7, <1>8, <1>9, <1>10, <1>11, <1>12, <1>13
           DEF StepOf

\* Only a post uses up a number.
LEMMA NumberOfStep ==
  ASSUME Inv, NEW r \in Calls, StepOf(r)
  PROVE  lastId' \in Nat /\ lastId' >= lastId
<1>0. TypeOK /\ lastId \in Nat
  BY MessagesAssumption DEF Inv, TypeOK
<1>1. ASSUME NEW s \in {"check", "find", "delete"}, NEW q \in Request, Asks(s, q), Begin(r, s, q)
      PROVE  lastId' \in Nat /\ lastId' >= lastId
  BY <1>0, <1>1, BeginEffect DEF Asks
<1>2. CASE CheckMember(r)
  BY <1>0, <1>2, CheckEffect
<1>3. CASE Insert(r)
  <2>1. lastId' = lastId + 1
    BY <1>0, <1>3, InsertEffect
  <2> QED BY <1>0, <2>1
<1>4. CASE FindMessage(r)
  BY <1>0, <1>4, FindEffect
<1>5. CASE NotFound(r)
  BY <1>0, <1>5, NotFoundEffect
<1>6. CASE SaveMessage(r)
  BY <1>0, <1>6, SaveEffect
<1>7. CASE UpdateEncryptedFields(r)
  BY <1>0, <1>7, EncryptEffect
<1>8. CASE DeleteRow(r)
  BY <1>0, <1>8, DeleteEffect
<1>9. CASE Load(r)
  BY <1>0, <1>9, LoadEffect
<1>10. CASE Recheck(r)
  BY <1>0, <1>10, RecheckEffect
<1>11. CASE ReadMembers(r)
  BY <1>0, <1>11, ReadEffect
<1>12. CASE Broadcast(r)
  BY <1>0, <1>12, BroadcastEffect
<1>13. CASE StatementFails(r)
  BY <1>0, <1>13, FailEffect
<1> QED BY <1>1, <1>2, <1>3, <1>4, <1>5, <1>6, <1>7, <1>8, <1>9, <1>10, <1>11, <1>12, <1>13
           DEF StepOf

\* What the call carries is right after its step.
LEMMA CallOfStep ==
  ASSUME Inv, NEW r \in Calls, StepOf(r)
  PROVE  CallOK(r)'
<1>0. TypeOK /\ CallOK(r)
  BY DEF Inv, CallInv
<1>1. ASSUME NEW s \in {"check", "find", "delete"}, NEW q \in Request, Asks(s, q), Begin(r, s, q)
      PROVE  CallOK(r)'
  <2>1. target'[r] = 0 /\ ~second'[r]
    BY <1>0, <1>1, BeginEffect DEF CallOK, Holding, AfterWrite
  <2>2. pc'[r] = s /\ req'[r] = q
    BY <1>0, <1>1, BeginEffect
  <2> QED BY <1>1, <2>1, <2>2 DEF Asks, CallOK, Holding, AfterWrite
<1>2. CASE CheckMember(r)
  BY <1>0, <1>2, CheckEffect DEF CallOK, Holding, AfterWrite, Ends, Drops, Advances
<1>3. CASE Insert(r)
  <2>1. CASE Advances(r, "load", lastId', None)
    <3>0. lastId \in Nat
      BY <1>0, MessagesAssumption DEF TypeOK
    <3>1. lastId' = lastId + 1
      BY <1>0, <1>3, InsertEffect
    <3>2. lastId' \in 1..lastId'
      BY <3>0, <3>1
    <3> QED BY <1>0, <1>3, <2>1, <3>2, InsertEffect DEF CallOK, Holding, AfterWrite, Advances
  <2>2. CASE Drops(r, lastId')
    BY <1>0, <1>3, <2>2, InsertEffect DEF CallOK, Holding, AfterWrite, Ends, Drops
  <2> QED BY <1>0, <1>3, <2>1, <2>2, InsertEffect
<1>4. CASE FindMessage(r)
  <2>1. req[r].id \in Ids /\ rows[req[r].id] # None
    BY <1>0, <1>4, FindEffect DEF CallOK
  <2>2. req[r].id \in 1..lastId
    BY <1>0, <2>1 DEF Inv, TypeOK, RowInv, RowOK, Ids
  <2> QED BY <1>0, <1>4, <2>2, FindEffect DEF CallOK, Holding, AfterWrite, Advances
<1>5. CASE NotFound(r)
  BY <1>0, <1>5, NotFoundEffect DEF CallOK, Holding, AfterWrite, Ends, Drops, Advances
<1>6. CASE SaveMessage(r)
  BY <1>0, <1>6, SaveEffect DEF CallOK, Holding, AfterWrite, Ends, Drops, Advances
<1>7. CASE UpdateEncryptedFields(r)
  BY <1>0, <1>7, EncryptEffect DEF CallOK, Holding, AfterWrite, Ends, Drops, Advances
<1>8. CASE DeleteRow(r)
  <2>1. req[r].id \in Ids /\ rows[req[r].id] # None
    BY <1>0, <1>8, DeleteEffect
  <2>2. req[r].id \in 1..lastId
    BY <1>0, <2>1 DEF Inv, TypeOK, RowInv, RowOK, Ids
  <2>3. lastId' = lastId
    BY <1>0, <1>8, DeleteEffect
  <2> QED BY <1>0, <1>8, <2>2, <2>3, DeleteEffect DEF CallOK, Holding, AfterWrite, Ends, Drops,
                                                      Advances
<1>9. CASE Load(r)
  BY <1>0, <1>9, LoadEffect DEF CallOK, Holding, AfterWrite, Ends, Drops, Advances
<1>10. CASE Recheck(r)
  BY <1>0, <1>10, RecheckEffect DEF CallOK, Holding, AfterWrite, Ends, Drops, Advances
<1>11. CASE ReadMembers(r)
  BY <1>0, <1>11, ReadEffect DEF CallOK, Holding, AfterWrite, Ends, Drops, Advances
<1>12. CASE Broadcast(r)
  BY <1>0, <1>12, BroadcastEffect DEF CallOK, Holding, AfterWrite, Ends, Drops, Advances
<1>13. CASE StatementFails(r)
  BY <1>0, <1>13, FailEffect DEF CallOK, Holding, AfterWrite, Ends, Drops, Advances
<1> QED BY <1>1, <1>2, <1>3, <1>4, <1>5, <1>6, <1>7, <1>8, <1>9, <1>10, <1>11, <1>12, <1>13
           DEF StepOf

\* The rows and their authors are right after it, and a message keeps its author.
LEMMA RowOfStep ==
  ASSUME Inv, NEW r \in Calls, StepOf(r)
  PROVE  \A id \in Ids : RowOK(id)' /\ (author[id] # None => author'[id] = author[id])
<1>0. TypeOK /\ \A id \in Ids : RowOK(id)
  BY DEF Inv, RowInv
<1>1. ASSUME NEW s \in {"check", "find", "delete"}, NEW q \in Request, Asks(s, q), Begin(r, s, q)
      PROVE  \A id \in Ids : RowOK(id)' /\ (author[id] # None => author'[id] = author[id])
  BY <1>0, <1>1, BeginEffect DEF Asks, RowOK, Matches
<1>2. CASE CheckMember(r)
  BY <1>0, <1>2, CheckEffect DEF RowOK, Matches
<1>3. CASE Insert(r)
  <2>0. lastId \in Nat
    BY <1>0, MessagesAssumption DEF TypeOK
  <2>1. lastId' = lastId + 1 /\ lastId' \in Ids
    BY <1>0, <1>3, InsertEffect
  <2>2. author[lastId'] = None
    BY <1>0, <2>0, <2>1 DEF RowOK, Ids
  <2>3. ASSUME NEW id \in Ids \ {lastId'} PROVE RowOK(id)' /\ author'[id] = author[id]
    <3>1. rows'[id] = rows[id] /\ author'[id] = author[id]
      BY <1>0, <1>3, <2>3, InsertEffect
    <3>2. id <= lastId' <=> id <= lastId
      BY <2>0, <2>1, <2>3 DEF Ids
    <3> QED BY <1>0, <2>3, <3>1, <3>2 DEF RowOK
  <2>4. ASSUME NEW id \in Ids, id = lastId' PROVE RowOK(id)'
    <3>1. req[r] \in Request
      BY <1>3, <1>0, InsertEffect DEF Inv, CallInv, CallOK
    <3>2. author'[id] \in Origin
      BY <1>0, <1>3, <2>4, <3>1, Fields, InsertEffect
    <3>3. rows'[id] = [chat |-> req[r].chat, user |-> req[r].user,
                       text |-> req[r].text, cipher |-> req[r].cipher]
      BY <1>0, <1>3, <2>4, InsertEffect
    <3>4. author'[id] = [chat |-> req[r].chat, user |-> req[r].user]
      BY <1>0, <1>3, <2>4, InsertEffect
    <3>5. author'[id] # None
      BY <3>2, NoneAssumption
    <3>6. id <= lastId'
      BY <2>0, <2>1, <2>4
    <3> QED BY <3>3, <3>4, <3>5, <3>6 DEF RowOK, Matches
  <2> QED BY <2>2, <2>3, <2>4
<1>4. CASE FindMessage(r)
  BY <1>0, <1>4, FindEffect DEF RowOK, Matches
<1>5. CASE NotFound(r)
  BY <1>0, <1>5, NotFoundEffect DEF RowOK, Matches
<1>6. CASE SaveMessage(r)
  <2>1. pc[r] = "save" /\ target[r] \in Ids
    BY <1>6, SaveEffect
  <2>2. Matches(seen[r], author[target[r]])
    BY <2>1 DEF Inv, SeenInv, SeenOK
  <2>3. author[target[r]] # None
    BY <1>0, <2>1 DEF Inv, TypeOK, CallInv, CallOK, Holding, RowOK
  <2>4. rows'[target[r]].chat = seen[r].chat /\ rows'[target[r]].user = seen[r].user
    BY <1>6, SaveEffect
  <2>5. Matches(rows'[target[r]], author[target[r]])
    BY <2>2, <2>4 DEF Matches
  <2>6. author' = author /\ lastId' = lastId /\ \A id \in Ids \ {target[r]} : rows'[id] = rows[id]
    BY <1>6, SaveEffect
  <2> QED BY <1>0, <2>1, <2>3, <2>5, <2>6 DEF RowOK
<1>7. CASE UpdateEncryptedFields(r)
  BY <1>0, <1>7, EncryptEffect DEF RowOK, Matches
<1>8. CASE DeleteRow(r)
  BY <1>0, <1>8, DeleteEffect DEF RowOK, Matches
<1>9. CASE Load(r)
  BY <1>0, <1>9, LoadEffect DEF RowOK, Matches
<1>10. CASE Recheck(r)
  BY <1>0, <1>10, RecheckEffect DEF RowOK, Matches
<1>11. CASE ReadMembers(r)
  BY <1>0, <1>11, ReadEffect DEF RowOK, Matches
<1>12. CASE Broadcast(r)
  BY <1>0, <1>12, BroadcastEffect DEF RowOK, Matches
<1>13. CASE StatementFails(r)
  BY <1>0, <1>13, FailEffect DEF RowOK, Matches
<1> QED BY <1>1, <1>2, <1>3, <1>4, <1>5, <1>6, <1>7, <1>8, <1>9, <1>10, <1>11, <1>12, <1>13
           DEF StepOf

\* The row the call holds is right after it.
LEMMA SeenOfStep ==
  ASSUME Inv, NEW r \in Calls, StepOf(r)
  PROVE  SeenOK(r)'
<1>0. CallOK(r) /\ SeenOK(r) /\ TypeOK
  BY DEF Inv, CallInv, SeenInv
<1>1. ASSUME NEW s \in {"check", "find", "delete"}, NEW q \in Request, Asks(s, q), Begin(r, s, q)
      PROVE  SeenOK(r)'
  BY <1>0, <1>1, BeginEffect DEF Asks, SeenOK, Final, Ends, Drops, Advances
<1>2. CASE CheckMember(r)
  BY <1>0, <1>2, CheckEffect DEF SeenOK, Final, Ends, Drops, Advances
<1>3. CASE Insert(r)
  BY <1>0, <1>3, InsertEffect DEF SeenOK, Final, Ends, Drops, Advances
<1>4. CASE FindMessage(r)
  <2>1. req[r].id \in Ids /\ rows[req[r].id] # None
    BY <1>0, <1>4, FindEffect DEF CallOK
  <2>2. rows[req[r].id] \in Row /\ Matches(rows[req[r].id], author[req[r].id])
    BY <1>0, <2>1 DEF Inv, TypeOK, RowInv, RowOK
  <2>3. author[req[r].id].user = req[r].user
    BY <1>0, <1>4, <2>2, FindEffect DEF Matches
  <2> QED BY <1>0, <1>4, <2>2, <2>3, FindEffect DEF SeenOK, Final, Advances
<1>5. CASE NotFound(r)
  BY <1>0, <1>5, NotFoundEffect DEF SeenOK, Final, Ends, Drops, Advances
<1>6. CASE SaveMessage(r)
  BY <1>0, <1>6, SaveEffect DEF SeenOK, Final, Ends, Drops, Advances
<1>7. CASE UpdateEncryptedFields(r)
  BY <1>0, <1>7, EncryptEffect DEF SeenOK, Final, Ends, Drops, Advances
<1>8. CASE DeleteRow(r)
  BY <1>0, <1>8, DeleteEffect DEF SeenOK, Final, Ends, Drops, Advances
<1>9. CASE Load(r)
  <2>1. CASE rows[target[r]] # None
    <3>1. target[r] \in Ids
      BY <1>0, <1>9, LoadEffect DEF TypeOK, CallOK, Holding, AfterWrite, Ids
    <3>2. rows[target[r]] \in Row /\ Matches(rows[target[r]], author[target[r]])
      BY <1>0, <2>1, <3>1 DEF Inv, TypeOK, RowInv, RowOK
    <3> QED BY <1>0, <1>9, <2>1, <3>2, LoadEffect DEF SeenOK, Final, Advances
  <2>2. CASE rows[target[r]] = None
    BY <1>0, <1>9, <2>2, LoadEffect DEF SeenOK, Final, Ends, Drops
  <2> QED BY <2>1, <2>2
<1>10. CASE Recheck(r)
  BY <1>0, <1>10, RecheckEffect DEF SeenOK, Final, Ends, Drops, Advances
<1>11. CASE ReadMembers(r)
  BY <1>0, <1>11, ReadEffect DEF SeenOK, Final, Ends, Drops, Advances
<1>12. CASE Broadcast(r)
  BY <1>0, <1>12, BroadcastEffect DEF SeenOK, Final, Ends, Drops, Advances
<1>13. CASE StatementFails(r)
  BY <1>0, <1>13, FailEffect DEF SeenOK, Final, Ends, Drops, Advances
<1> QED BY <1>1, <1>2, <1>3, <1>4, <1>5, <1>6, <1>7, <1>8, <1>9, <1>10, <1>11, <1>12, <1>13
           DEF StepOf

\* The row of a message another call holds changes only when the message is overlapped.
LEMMA RowKept ==
  ASSUME Inv, NEW r \in Calls, StepOf(r)
  PROVE  \A p \in Calls \ {r} :
            pc[p] \in Holding /\ target[p] \notin overlapped' => rows'[target[p]] = rows[target[p]]
<1>0. /\ TypeOK /\ HoldOK(r)
      /\ \A q \in Calls : pc[q] \in Holding => target[q] \in Ids /\ target[q] <= lastId
  BY MessagesAssumption DEF Inv, TypeOK, CallInv, CallOK, HoldInv, Ids
<1>1. ASSUME NEW s \in {"check", "find", "delete"}, NEW q \in Request, Asks(s, q), Begin(r, s, q)
      PROVE  \A p \in Calls \ {r} :
            pc[p] \in Holding /\ target[p] \notin overlapped' => rows'[target[p]] = rows[target[p]]
  BY <1>0, <1>1, BeginEffect DEF Asks
<1>2. CASE CheckMember(r)
  BY <1>0, <1>2, CheckEffect
<1>3. CASE Insert(r)
  <2>1. lastId \in Nat
    BY <1>0, MessagesAssumption DEF TypeOK
  <2>2. lastId' = lastId + 1 /\ \A id \in Ids \ {lastId'} : rows'[id] = rows[id]
    BY <1>0, <1>3, InsertEffect
  <2>3. \A q \in Calls : pc[q] \in Holding => target[q] \in Ids \ {lastId'}
    BY <1>0, <2>1, <2>2 DEF Ids
  <2> QED BY <2>2, <2>3
<1>4. CASE FindMessage(r)
  BY <1>0, <1>4, FindEffect
<1>5. CASE NotFound(r)
  BY <1>0, <1>5, NotFoundEffect
<1>6. CASE SaveMessage(r)
  <2>1. /\ pc[r] = "save" /\ overlapped' = overlapped
        /\ \A id \in Ids \ {target[r]} : rows'[id] = rows[id]
    BY <1>6, SaveEffect
  <2> QED BY <1>0, <2>1 DEF HoldOK, Holding
<1>7. CASE UpdateEncryptedFields(r)
  <2>1. /\ pc[r] = "encrypt" /\ overlapped' = overlapped
        /\ \A id \in Ids \ {target[r]} : rows'[id] = rows[id]
    BY <1>7, EncryptEffect
  <2> QED BY <1>0, <2>1 DEF HoldOK, Holding, AfterWrite
<1>8. CASE DeleteRow(r)
  <2>1. Overlap(r, req[r].id) /\ \A id \in Ids \ {req[r].id} : rows'[id] = rows[id]
    BY <1>8, DeleteEffect
  <2> QED BY <1>0, <2>1 DEF Overlap
<1>9. CASE Load(r)
  BY <1>0, <1>9, LoadEffect
<1>10. CASE Recheck(r)
  BY <1>0, <1>10, RecheckEffect
<1>11. CASE ReadMembers(r)
  BY <1>0, <1>11, ReadEffect
<1>12. CASE Broadcast(r)
  BY <1>0, <1>12, BroadcastEffect
<1>13. CASE StatementFails(r)
  BY <1>0, <1>13, FailEffect
<1> QED BY <1>1, <1>2, <1>3, <1>4, <1>5, <1>6, <1>7, <1>8, <1>9, <1>10, <1>11, <1>12, <1>13
           DEF StepOf

\* A call that has ended holds nothing, and hears of the members of now.
LEMMA EndsOK ==
  ASSUME NEW r \in Calls, Ends(r), members' = members
  PROVE  HoldOK(r)' /\ AloneOK(r)' /\ AudienceOK(r)'
<1>1. pc'[r] \in {"idle", "check"}
  BY DEF Ends
<1>2. pc'[r] \notin Holding
  BY <1>1 DEF Holding, AfterWrite
<1>3. HoldOK(r)'
  BY <1>1, <1>2 DEF HoldOK
<1>4. AloneOK(r)'
  BY <1>2 DEF AloneOK
<1>5. CASE pc'[r] = "idle"
  BY <1>3, <1>4, <1>5 DEF AudienceOK
<1>6. CASE pc'[r] # "idle"
  <2>1. req'[r] = req[r] /\ stayed'[r] = members[req[r].chat] /\ ever'[r] = members[req[r].chat]
    BY <1>6 DEF Ends
  <2> QED BY <1>1, <1>3, <1>4, <2>1 DEF AudienceOK
<1> QED BY <1>5, <1>6

\* A call that goes on keeps its audience.
LEMMA AdvancesAudience ==
  ASSUME NEW r \in Calls, NEW s, NEW id, NEW row, Advances(r, s, id, row), AudienceOK(r),
         members' = members,
         pc[r] # "idle", s \notin {"insert", "broadcast"}
  PROVE  AudienceOK(r)'
<1>1. pc'[r] = s /\ req'[r] = req[r] /\ stayed'[r] = stayed[r] /\ ever'[r] = ever[r]
  BY DEF Advances
<1> QED BY <1>1 DEF AudienceOK

\* A message that a step does not touch is accounted for as before.
LEMMA ToldKept ==
  ASSUME NEW r \in Calls, NEW id \in Ids, ToldOK(id), Others(r),
         author'[id] = author[id], rows'[id] = rows[id], lastEvent'[id] = lastEvent[id],
         overlapped \subseteq overlapped', id \in untold => id \in untold',
         pc[r] \in AfterWrite /\ target[r] = id =>
           \/ id \in untold'
           \/ pc'[r] \in AfterWrite /\ target'[r] = id
  PROVE  ToldOK(id)'
<1>1. Current(id)' = Current(id)
  BY DEF Current
<1>2. CASE author[id] = None
  BY <1>2 DEF ToldOK
<1>3. CASE lastEvent[id] = Current(id) \/ id \in overlapped \cup untold
  BY <1>1, <1>3 DEF ToldOK
<1>4. CASE \E q \in Calls : pc[q] \in AfterWrite /\ target[q] = id
  <2>1. PICK q \in Calls : pc[q] \in AfterWrite /\ target[q] = id
    BY <1>4
  <2>2. CASE q = r
    BY <2>1, <2>2 DEF ToldOK
  <2>3. CASE q # r
    <3>1. pc'[q] \in AfterWrite /\ target'[q] = id
      BY <2>1, <2>3 DEF Others
    <3> QED BY <3>1 DEF ToldOK
  <2> QED BY <2>2, <2>3
<1> QED BY <1>2, <1>3, <1>4 DEF ToldOK

\* The message of a write is one the call will tell of, or one untold.
LEMMA ToldWritten ==
  ASSUME NEW r \in Calls, NEW id \in Ids, NEW s \in AfterWrite, NEW row,
         Advances(r, s, id, row) \/ Drops(r, id)
  PROVE  ToldOK(id)'
<1>1. CASE Advances(r, s, id, row)
  <2>1. pc'[r] \in AfterWrite /\ target'[r] = id
    BY <1>1 DEF Advances
  <2> QED BY <2>1 DEF ToldOK
<1>2. CASE Drops(r, id)
  <2>1. id \in untold'
    BY <1>2 DEF Drops
  <2> QED BY <2>1 DEF ToldOK
<1> QED BY <1>1, <1>2

\* The call shares its message with no other, or the message is overlapped.
LEMMA HoldOfStep ==
  ASSUME Inv, NEW r \in Calls, StepOf(r)
  PROVE  HoldOK(r)'
<1>0. /\ TypeOK /\ members' = members /\ HoldOK(r) /\ CallOK(r) /\ CallOK(r)'
      /\ \A q \in Calls \ {r} : target'[q] = target[q]
  BY CallOfStep, StepEffect DEF Inv, CallInv, HoldInv, Others
<1>1. ASSUME NEW s \in {"check", "find", "delete"}, NEW q \in Request, Asks(s, q), Begin(r, s, q)
      PROVE  HoldOK(r)'
  BY <1>0, <1>1, BeginEffect, EndsOK DEF Asks, HoldOK, Holding, AfterWrite, Ends, Drops,
                                         Advances
<1>2. CASE CheckMember(r)
  BY <1>0, <1>2, CheckEffect, EndsOK DEF HoldOK, Holding, AfterWrite, Ends, Drops, Advances
<1>3. CASE Insert(r)
  <2>1. lastId \in Nat /\ \A q \in Calls : target[q] \in 0..lastId
    BY <1>0, MessagesAssumption DEF Inv, TypeOK, CallInv, CallOK
  <2>2. lastId' = lastId + 1 /\ lastId' \in Ids
    BY <1>0, <1>3, InsertEffect
  <2>3. \A q \in Calls \ {r} : target'[q] # lastId'
    BY <1>0, <2>1, <2>2
  <2>4. rows'[lastId'] = [chat |-> req[r].chat, user |-> req[r].user,
                        text |-> req[r].text, cipher |-> req[r].cipher]
    BY <1>0, <1>3, InsertEffect
  <2>5. req[r] \in Request
    BY <1>0, <1>3, InsertEffect DEF CallOK
  <2>6. rows'[lastId'] # None
    BY <2>4, <2>5, Fields, NoneAssumption
  <2>7. CASE Advances(r, "load", lastId', None)
    <3>1. target'[r] = lastId'
      BY <2>7 DEF Advances
    <3>2. \A q \in Calls \ {r} : target'[q] # target'[r]
      BY <2>3, <3>1
    <3> QED BY <2>6, <3>1, <3>2 DEF HoldOK
  <2>8. CASE Drops(r, lastId')
    BY <1>0, <2>8, EndsOK DEF Drops
  <2> QED BY <1>0, <1>3, <2>7, <2>8, InsertEffect
<1>4. CASE FindMessage(r)
  <2>1. Advances(r, "save", req[r].id, rows[req[r].id]) /\ rows[req[r].id] # None /\ rows' = rows
    BY <1>0, <1>4, FindEffect
  <2>2. ASSUME NEW q \in Calls \ {r}, req[r].id = target[q] PROVE req[r].id \in overlapped'
    BY <1>0, <1>4, <2>2, FindEffect DEF Overlap
  <2> QED BY <1>0, <2>1, <2>2 DEF HoldOK, Advances
<1>5. CASE NotFound(r)
  BY <1>0, <1>5, NotFoundEffect, EndsOK DEF HoldOK, Holding, AfterWrite, Ends, Drops,
                                            Advances
<1>6. CASE SaveMessage(r)
  <2>1. pc[r] = "save" /\ overlapped' = overlapped
    BY <1>0, <1>6, SaveEffect
  <2>2. CASE Drops(r, target[r])
    BY <1>0, <2>2, EndsOK DEF Drops
  <2>3. ASSUME pc'[r] \in {"load", "encrypt"}, target'[r] = target[r] PROVE HoldOK(r)'
    <3>1. rows'[target[r]] # None \/ target[r] \in overlapped
      BY <1>0, <1>6, <2>1, SaveEffect, NoneAssumption DEF HoldOK
    <3> QED BY <1>0, <2>1, <2>3, <3>1 DEF HoldOK, Holding, AfterWrite
  <2> QED BY <1>0, <1>6, <2>2, <2>3, SaveEffect DEF Advances
<1>7. CASE UpdateEncryptedFields(r)
  <2>1. pc[r] = "encrypt" /\ overlapped' = overlapped
    BY <1>0, <1>7, EncryptEffect
  <2>2. CASE Drops(r, target[r])
    BY <1>0, <2>2, EndsOK DEF Drops
  <2>3. ASSUME pc'[r] \in {"load"}, target'[r] = target[r] PROVE HoldOK(r)'
    <3>1. rows'[target[r]] # None \/ target[r] \in overlapped
      BY <1>0, <1>7, <2>1, EncryptEffect DEF HoldOK
    <3> QED BY <1>0, <2>1, <2>3, <3>1 DEF HoldOK, Holding, AfterWrite
  <2> QED BY <1>0, <1>7, <2>2, <2>3, EncryptEffect DEF Advances
<1>8. CASE DeleteRow(r)
  <2>1. Advances(r, "recheck", req[r].id, None) \/ Drops(r, req[r].id)
    BY <1>8, DeleteEffect
  <2>2. ASSUME NEW q \in Calls \ {r}, req[r].id = target[q] PROVE req[r].id \in overlapped'
    BY <1>8, <2>2, DeleteEffect DEF Overlap
  <2> QED BY <1>0, <2>1, <2>2 DEF HoldOK, Holding, AfterWrite, Ends, Drops, Advances
<1>9. CASE Load(r)
  <2>1. pc[r] = "load" /\ overlapped' = overlapped
    BY <1>0, <1>9, LoadEffect
  <2>2. CASE Drops(r, target[r])
    BY <1>0, <2>2, EndsOK DEF Drops
  <2>3. CASE Advances(r, "recheck", target[r], rows[target[r]])
    <3>1. pc'[r] = "recheck" /\ target'[r] = target[r]
      BY <2>3 DEF Advances
    <3> QED BY <1>0, <2>1, <3>1 DEF HoldOK, Holding, AfterWrite
  <2> QED BY <1>0, <1>9, <2>2, <2>3, LoadEffect
<1>10. CASE Recheck(r)
  <2>1. pc[r] = "recheck" /\ overlapped' = overlapped
    BY <1>0, <1>10, RecheckEffect
  <2>2. CASE Drops(r, target[r])
    BY <1>0, <2>2, EndsOK DEF Drops
  <2>3. CASE Advances(r, "members", target[r], seen[r])
    <3>1. pc'[r] = "members" /\ target'[r] = target[r]
      BY <2>3 DEF Advances
    <3> QED BY <1>0, <2>1, <3>1 DEF HoldOK, Holding, AfterWrite
  <2> QED BY <1>0, <1>10, <2>2, <2>3, RecheckEffect
<1>11. CASE ReadMembers(r)
  BY <1>0, <1>11, ReadEffect, EndsOK DEF HoldOK, Holding, AfterWrite, Ends, Drops, Advances
<1>12. CASE Broadcast(r)
  BY <1>0, <1>12, BroadcastEffect, EndsOK DEF HoldOK, Holding, AfterWrite, Ends, Drops,
                                              Advances
<1>13. CASE StatementFails(r)
  BY <1>0, <1>13, FailEffect, EndsOK DEF HoldOK, Holding, AfterWrite, Ends, Drops, Advances
<1> QED BY <1>1, <1>2, <1>3, <1>4, <1>5, <1>6, <1>7, <1>8, <1>9, <1>10, <1>11, <1>12, <1>13
           DEF StepOf

\* What its row is, as long as it holds the message alone.
LEMMA AloneOfStep ==
  ASSUME Inv, NEW r \in Calls, StepOf(r)
  PROVE  AloneOK(r)'
<1>0. /\ TypeOK /\ members' = members /\ CallOK(r)
      /\ HoldOK(r) /\ AloneOK(r)
  BY StepEffect DEF Inv, CallInv, HoldInv, AloneInv
<1>1. ASSUME NEW s \in {"check", "find", "delete"}, NEW q \in Request, Asks(s, q), Begin(r, s, q)
      PROVE  AloneOK(r)'
  BY <1>0, <1>1, BeginEffect, EndsOK DEF Asks, AloneOK, Holding, AfterWrite, Final, Ends,
                                         Drops, Advances
<1>2. CASE CheckMember(r)
  BY <1>0, <1>2, CheckEffect, EndsOK DEF AloneOK, Holding, AfterWrite, Final, Ends, Drops,
                                         Advances
<1>3. CASE Insert(r)
  BY <1>0, <1>3, InsertEffect, EndsOK DEF AloneOK, Holding, AfterWrite, Final, Ends, Drops,
                                          Advances, CallOK
<1>4. CASE FindMessage(r)
  BY <1>0, <1>4, FindEffect, EndsOK DEF AloneOK, Holding, AfterWrite, Final, Ends, Drops,
                                        Advances
<1>5. CASE NotFound(r)
  BY <1>0, <1>5, NotFoundEffect, EndsOK DEF AloneOK, Holding, AfterWrite, Final, Ends, Drops,
                                            Advances
<1>6. CASE SaveMessage(r)
  <2>1. pc[r] = "save" /\ rows'[target[r]].text = req[r].text
    BY <1>6, SaveEffect
  <2>2. CASE Drops(r, target[r])
    BY <1>0, <2>2, EndsOK DEF Drops
  <2>3. CASE Advances(r, IF req[r].cipher = Blank THEN "load" ELSE "encrypt", target[r], seen[r])
    <3>1. /\ pc'[r] = IF req[r].cipher = Blank THEN "load" ELSE "encrypt"
          /\ target'[r] = target[r] /\ req'[r] = req[r]
      BY <2>3 DEF Advances
    <3> QED BY <2>1, <3>1 DEF AloneOK, Final
  <2> QED BY <1>6, <2>2, <2>3, SaveEffect
<1>7. CASE UpdateEncryptedFields(r)
  <2>1. pc[r] = "encrypt" /\ overlapped' = overlapped
    BY <1>7, EncryptEffect
  <2>2. CASE Drops(r, target[r])
    BY <1>0, <2>2, EndsOK DEF Drops
  <2>3. CASE Advances(r, "load", target[r], seen[r])
    <3>1. pc'[r] = "load" /\ target'[r] = target[r] /\ req'[r] = req[r]
      BY <2>3 DEF Advances
    <3>2. ASSUME target[r] \notin overlapped
          PROVE  rows'[target[r]].text = req[r].text /\ rows'[target[r]].cipher = req[r].cipher
      <4>1. rows[target[r]] # None
        BY <1>0, <2>1, <3>2 DEF HoldOK
      <4>2. rows'[target[r]].text = rows[target[r]].text /\ rows'[target[r]].cipher = req[r].cipher
        BY <1>7, <4>1, EncryptEffect
      <4>3. req[r].kind = "patch"
        BY <1>0, <2>1 DEF CallOK
      <4> QED BY <1>0, <2>1, <3>2, <4>2, <4>3 DEF AloneOK, Holding, AfterWrite
    <3> QED BY <2>1, <3>1, <3>2 DEF AloneOK, Final
  <2> QED BY <1>0, <1>7, <2>2, <2>3, EncryptEffect
<1>8. CASE DeleteRow(r)
  <2>1. req[r].kind = "delete" /\ rows'[req[r].id] = None
    BY <1>8, DeleteEffect
  <2>2. CASE Drops(r, req[r].id)
    BY <1>0, <2>2, EndsOK DEF Drops
  <2>3. CASE Advances(r, "recheck", req[r].id, None)
    <3>1. pc'[r] = "recheck" /\ target'[r] = req[r].id /\ req'[r] = req[r]
      BY <2>3 DEF Advances
    <3> QED BY <2>1, <3>1 DEF AloneOK
  <2> QED BY <1>8, <2>2, <2>3, DeleteEffect
<1>9. CASE Load(r)
  <2>1. pc[r] = "load" /\ overlapped' = overlapped /\ rows' = rows
    BY <1>0, <1>9, LoadEffect
  <2>2. CASE Drops(r, target[r])
    BY <1>0, <2>2, EndsOK DEF Drops
  <2>3. CASE Advances(r, "recheck", target[r], rows[target[r]])
    <3>1. /\ pc'[r] = "recheck" /\ target'[r] = target[r] /\ req'[r] = req[r]
          /\ seen'[r] = rows[target[r]]
      BY <2>3 DEF Advances
    <3>2. req[r].kind # "delete"
      BY <1>0, <2>1 DEF CallOK
    <3> QED BY <1>0, <2>1, <3>1, <3>2 DEF AloneOK, Holding, AfterWrite, Final
  <2> QED BY <1>0, <1>9, <2>2, <2>3, LoadEffect
<1>10. CASE Recheck(r)
  <2>1. pc[r] = "recheck" /\ overlapped' = overlapped /\ rows' = rows
    BY <1>0, <1>10, RecheckEffect
  <2>2. CASE Drops(r, target[r])
    BY <1>0, <2>2, EndsOK DEF Drops
  <2>3. CASE Advances(r, "members", target[r], seen[r])
    <3>1. /\ pc'[r] = "members" /\ target'[r] = target[r] /\ req'[r] = req[r]
          /\ seen'[r] = seen[r]
      BY <2>3 DEF Advances
    <3> QED BY <1>0, <2>1, <3>1 DEF AloneOK, Holding, AfterWrite, Final
  <2> QED BY <1>0, <1>10, <2>2, <2>3, RecheckEffect
<1>11. CASE ReadMembers(r)
  BY <1>0, <1>11, ReadEffect, EndsOK DEF AloneOK, Holding, AfterWrite, Final, Ends, Drops,
                                         Advances
<1>12. CASE Broadcast(r)
  BY <1>0, <1>12, BroadcastEffect, EndsOK DEF AloneOK, Holding, AfterWrite, Final, Ends,
                                              Drops, Advances
<1>13. CASE StatementFails(r)
  BY <1>0, <1>13, FailEffect, EndsOK DEF AloneOK, Holding, AfterWrite, Final, Ends, Drops,
                                         Advances
<1> QED BY <1>1, <1>2, <1>3, <1>4, <1>5, <1>6, <1>7, <1>8, <1>9, <1>10, <1>11, <1>12, <1>13
           DEF StepOf

\* The chat was told of each message, will be told, or the message is accounted for.
LEMMA ToldOfStep ==
  ASSUME Inv, NEW r \in Calls, StepOf(r)
  PROVE  \A id \in Ids : ToldOK(id)'
<1>0. /\ TypeOK /\ Others(r) /\ overlapped \subseteq overlapped'
      /\ CallOK(r) /\ AloneOK(r) /\ \A id \in Ids : ToldOK(id)
  BY StepEffect DEF Inv, CallInv, AloneInv, ToldInv
<1>1. ASSUME NEW s \in {"check", "find", "delete"}, NEW q \in Request, Asks(s, q), Begin(r, s, q)
      PROVE  \A id \in Ids : ToldOK(id)'
  <2>1. pc[r] \notin AfterWrite
    BY <1>0, <1>1, BeginEffect DEF AfterWrite
  <2>2. UNCHANGED <<author, rows, lastEvent, untold>>
    BY <1>0, <1>1, BeginEffect DEF told
  <2> QED BY <1>0, <2>1, <2>2, ToldKept
<1>2. CASE CheckMember(r)
  <2>1. pc[r] \notin AfterWrite
    BY <1>0, <1>2, CheckEffect DEF AfterWrite
  <2>2. UNCHANGED <<author, rows, lastEvent, untold>>
    BY <1>0, <1>2, CheckEffect DEF told
  <2> QED BY <1>0, <2>1, <2>2, ToldKept
<1>3. CASE Insert(r)
  <2>1. PICK id \in Ids : id = lastId'
    BY <1>0, <1>3, InsertEffect
  <2>2. \E s \in AfterWrite : \E row : Advances(r, s, id, row) \/ Drops(r, id)
    BY <1>0, <1>3, <2>1, InsertEffect DEF AfterWrite
  <2>3. pc[r] \notin AfterWrite
    BY <1>0, <1>3, InsertEffect DEF AfterWrite
  <2>4. ToldOK(id)'
    BY <2>2, ToldWritten
  <2>5. \A i \in Ids \ {id} : rows'[i] = rows[i] /\ author'[i] = author[i]
    BY <1>0, <1>3, <2>1, InsertEffect
  <2>6. \A i \in Ids \ {id} : lastEvent'[i] = lastEvent[i] /\ (i \in untold => i \in untold')
    BY <2>2 DEF Advances, Drops, told
  <2>7. ASSUME NEW i \in Ids \ {id} PROVE ToldOK(i)'
    BY <1>0, <2>1, <2>3, <2>5, <2>6, ToldKept
  <2> QED BY <2>4, <2>7
<1>4. CASE FindMessage(r)
  <2>1. pc[r] \notin AfterWrite
    BY <1>0, <1>4, FindEffect DEF AfterWrite
  <2>2. UNCHANGED <<author, rows, lastEvent, untold>>
    BY <1>0, <1>4, FindEffect DEF told, Advances
  <2> QED BY <1>0, <2>1, <2>2, ToldKept
<1>5. CASE NotFound(r)
  <2>1. pc[r] \notin AfterWrite
    BY <1>0, <1>5, NotFoundEffect DEF AfterWrite
  <2>2. UNCHANGED <<author, rows, lastEvent, untold>>
    BY <1>0, <1>5, NotFoundEffect DEF told
  <2> QED BY <1>0, <2>1, <2>2, ToldKept
<1>6. CASE SaveMessage(r)
  <2>1. PICK id \in Ids : id = target[r]
    BY <1>6, SaveEffect
  <2>2. \E s \in AfterWrite : \E row : Advances(r, s, id, row) \/ Drops(r, id)
    BY <1>6, <2>1, SaveEffect DEF AfterWrite
  <2>4. ToldOK(id)'
    BY <2>2, ToldWritten
  <2>5. \A i \in Ids \ {id} : rows'[i] = rows[i] /\ author'[i] = author[i]
    BY <1>6, <2>1, SaveEffect
  <2>6. \A i \in Ids \ {id} : lastEvent'[i] = lastEvent[i] /\ (i \in untold => i \in untold')
    BY <2>2 DEF Advances, Drops, told
  <2>7. ASSUME NEW i \in Ids \ {id} PROVE ToldOK(i)'
    BY <1>0, <2>1, <2>5, <2>6, ToldKept
  <2> QED BY <2>4, <2>7
<1>7. CASE UpdateEncryptedFields(r)
  <2>1. PICK id \in Ids : id = target[r]
    BY <1>7, EncryptEffect
  <2>2. \E s \in AfterWrite : \E row : Advances(r, s, id, row) \/ Drops(r, id)
    BY <1>7, <2>1, EncryptEffect DEF AfterWrite
  <2>4. ToldOK(id)'
    BY <2>2, ToldWritten
  <2>5. \A i \in Ids \ {id} : rows'[i] = rows[i] /\ author'[i] = author[i]
    BY <1>7, <2>1, EncryptEffect
  <2>6. \A i \in Ids \ {id} : lastEvent'[i] = lastEvent[i] /\ (i \in untold => i \in untold')
    BY <2>2 DEF Advances, Drops, told
  <2>7. ASSUME NEW i \in Ids \ {id} PROVE ToldOK(i)'
    BY <1>0, <2>1, <2>5, <2>6, ToldKept
  <2> QED BY <2>4, <2>7
<1>8. CASE DeleteRow(r)
  <2>1. PICK id \in Ids : id = req[r].id
    BY <1>8, DeleteEffect
  <2>2. \E s \in AfterWrite : \E row : Advances(r, s, id, row) \/ Drops(r, id)
    BY <1>8, <2>1, DeleteEffect DEF AfterWrite
  <2>3. pc[r] \notin AfterWrite
    BY <1>8, DeleteEffect DEF AfterWrite
  <2>4. ToldOK(id)'
    BY <2>2, ToldWritten
  <2>5. \A i \in Ids \ {id} : rows'[i] = rows[i] /\ author'[i] = author[i]
    BY <1>8, <2>1, DeleteEffect
  <2>6. \A i \in Ids \ {id} : lastEvent'[i] = lastEvent[i] /\ (i \in untold => i \in untold')
    BY <2>2 DEF Advances, Drops, told
  <2>7. ASSUME NEW i \in Ids \ {id} PROVE ToldOK(i)'
    BY <1>0, <2>1, <2>3, <2>5, <2>6, ToldKept
  <2> QED BY <2>4, <2>7
<1>9. CASE Load(r)
  <2>1. UNCHANGED <<author, rows>>
    BY <1>0, <1>9, LoadEffect
  <2>2. \/ UNCHANGED told /\ pc'[r] \in AfterWrite /\ target'[r] = target[r]
        \/ lastEvent' = lastEvent /\ untold' = untold \cup {target[r]}
    BY <1>0, <1>9, LoadEffect DEF AfterWrite, Advances, Drops
  <2> QED BY <1>0, <2>1, <2>2, ToldKept DEF told
<1>10. CASE Recheck(r)
  <2>1. UNCHANGED <<author, rows>>
    BY <1>0, <1>10, RecheckEffect
  <2>2. \/ UNCHANGED told /\ pc'[r] \in AfterWrite /\ target'[r] = target[r]
        \/ lastEvent' = lastEvent /\ untold' = untold \cup {target[r]}
    BY <1>0, <1>10, RecheckEffect DEF AfterWrite, Advances, Drops
  <2> QED BY <1>0, <2>1, <2>2, ToldKept DEF told
<1>11. CASE ReadMembers(r)
  <2>1. UNCHANGED <<author, rows>>
    BY <1>0, <1>11, ReadEffect
  <2>2. \/ UNCHANGED told /\ pc'[r] \in AfterWrite /\ target'[r] = target[r]
        \/ lastEvent' = lastEvent /\ untold' = untold \cup {target[r]}
    BY <1>0, <1>11, ReadEffect DEF AfterWrite, Advances, Drops
  <2> QED BY <1>0, <2>1, <2>2, ToldKept DEF told
<1>12. CASE Broadcast(r)
  <2>1. PICK id \in Ids : id = target[r]
    BY <1>12, BroadcastEffect
  <2>2. pc[r] = "broadcast" /\ UNCHANGED <<author, rows, overlapped>>
    BY <1>12, BroadcastEffect
  <2>3. \A i \in Ids \ {id} : lastEvent'[i] = lastEvent[i] /\ (i \in untold => i \in untold')
    BY <1>12, <2>1, BroadcastEffect
  <2>4. ASSUME NEW i \in Ids \ {id} PROVE ToldOK(i)'
    BY <1>0, <2>1, <2>2, <2>3, ToldKept
  <2>5. CASE id \in overlapped \/ id \in untold'
    BY <2>2, <2>4, <2>5 DEF ToldOK
  <2>6. CASE id \notin overlapped /\ lastEvent'[id] = Event(r)
    <3>1. rows[id] = IF req[r].kind = "delete" THEN None ELSE seen[r]
      BY <1>0, <2>1, <2>2, <2>6 DEF AloneOK, Holding, AfterWrite, Final
    <3>2. req[r].kind # "delete" => seen[r] \in Row
      BY <2>2 DEF Inv, SeenInv, SeenOK, Final
    <3>3. Event(r) = Current(id)
      BY <3>1, <3>2, NoneAssumption DEF Event, Current
    <3>4. Current(id)' = Current(id)
      BY <2>2 DEF Current
    <3> QED BY <2>4, <2>6, <3>3, <3>4 DEF ToldOK
  <2> QED BY <1>12, <2>1, <2>5, <2>6, BroadcastEffect
<1>13. CASE StatementFails(r)
  <2>1. UNCHANGED <<author, rows>>
    BY <1>0, <1>13, FailEffect
  <2>2. \/ UNCHANGED told /\ pc[r] \notin AfterWrite
        \/ lastEvent' = lastEvent /\ untold' = untold \cup {target[r]}
    BY <1>0, <1>13, FailEffect DEF Drops
  <2> QED BY <1>0, <2>1, <2>2, ToldKept DEF told
<1> QED BY <1>1, <1>2, <1>3, <1>4, <1>5, <1>6, <1>7, <1>8, <1>9, <1>10, <1>11, <1>12, <1>13
           DEF StepOf

\* Who hears of the call is right after it.
LEMMA AudienceOfStep ==
  ASSUME Inv, NEW r \in Calls, StepOf(r)
  PROVE  AudienceOK(r)'
<1>0. TypeOK /\ members' = members /\ CallOK(r) /\ AudienceOK(r)
  BY StepEffect DEF Inv, CallInv, AudienceInv
<1>1. ASSUME NEW s \in {"check", "find", "delete"}, NEW q \in Request, Asks(s, q), Begin(r, s, q)
      PROVE  AudienceOK(r)'
  BY <1>0, <1>1, BeginEffect, EndsOK, AdvancesAudience DEF Asks, AudienceOK, Drops
<1>2. CASE CheckMember(r)
  <2>1. pc[r] = "check"
    BY <1>0, <1>2, CheckEffect
  <2>2. CASE Ends(r)
    BY <1>0, <2>2, EndsOK
  <2>3. CASE req[r].user \in members[req[r].chat] /\ Advances(r, "insert", target[r], seen[r])
    BY <1>0, <2>1, <2>3 DEF AudienceOK, Advances
  <2> QED BY <1>0, <1>2, <2>2, <2>3, CheckEffect
<1>3. CASE Insert(r)
  <2>0. pc[r] = "insert"
    BY <1>0, <1>3, InsertEffect
  <2>1. \/ Ends(r)
        \/ \E s \in AfterWrite \cup {"save"} : \E id, row :
             s # "broadcast" /\ Advances(r, s, id, row)
    BY <1>0, <1>3, InsertEffect DEF Drops, AfterWrite
  <2>2. CASE Ends(r)
    BY <1>0, <2>2, EndsOK
  <2>3. ASSUME NEW s \in AfterWrite \cup {"save"}, NEW id, NEW row, s # "broadcast", Advances(r,
               s, id, row)
        PROVE  AudienceOK(r)'
    <3>1. s \notin {"insert", "broadcast"} /\ pc[r] # "idle"
      BY <2>0, <2>3 DEF AfterWrite
    <3> QED BY <1>0, <2>3, <3>1, AdvancesAudience
  <2> QED BY <2>1, <2>2, <2>3
<1>4. CASE FindMessage(r)
  <2>0. pc[r] = "find"
    BY <1>0, <1>4, FindEffect
  <2>1. \/ Ends(r)
        \/ \E s \in AfterWrite \cup {"save"} : \E id, row :
             s # "broadcast" /\ Advances(r, s, id, row)
    BY <1>0, <1>4, FindEffect DEF Drops, AfterWrite
  <2>2. CASE Ends(r)
    BY <1>0, <2>2, EndsOK
  <2>3. ASSUME NEW s \in AfterWrite \cup {"save"}, NEW id, NEW row, s # "broadcast", Advances(r,
               s, id, row)
        PROVE  AudienceOK(r)'
    <3>1. s \notin {"insert", "broadcast"} /\ pc[r] # "idle"
      BY <2>0, <2>3 DEF AfterWrite
    <3> QED BY <1>0, <2>3, <3>1, AdvancesAudience
  <2> QED BY <2>1, <2>2, <2>3
<1>5. CASE NotFound(r)
  <2>1. Ends(r)
    BY <1>0, <1>5, NotFoundEffect DEF Drops
  <2> QED BY <1>0, <2>1, EndsOK
<1>6. CASE SaveMessage(r)
  <2>0. pc[r] = "save"
    BY <1>0, <1>6, SaveEffect
  <2>1. \/ Ends(r)
        \/ \E s \in AfterWrite \cup {"save"} : \E id, row :
             s # "broadcast" /\ Advances(r, s, id, row)
    BY <1>0, <1>6, SaveEffect DEF Drops, AfterWrite
  <2>2. CASE Ends(r)
    BY <1>0, <2>2, EndsOK
  <2>3. ASSUME NEW s \in AfterWrite \cup {"save"}, NEW id, NEW row, s # "broadcast", Advances(r,
               s, id, row)
        PROVE  AudienceOK(r)'
    <3>1. s \notin {"insert", "broadcast"} /\ pc[r] # "idle"
      BY <2>0, <2>3 DEF AfterWrite
    <3> QED BY <1>0, <2>3, <3>1, AdvancesAudience
  <2> QED BY <2>1, <2>2, <2>3
<1>7. CASE UpdateEncryptedFields(r)
  <2>0. pc[r] = "encrypt"
    BY <1>0, <1>7, EncryptEffect
  <2>1. \/ Ends(r)
        \/ \E s \in AfterWrite \cup {"save"} : \E id, row :
             s # "broadcast" /\ Advances(r, s, id, row)
    BY <1>0, <1>7, EncryptEffect DEF Drops, AfterWrite
  <2>2. CASE Ends(r)
    BY <1>0, <2>2, EndsOK
  <2>3. ASSUME NEW s \in AfterWrite \cup {"save"}, NEW id, NEW row, s # "broadcast", Advances(r,
               s, id, row)
        PROVE  AudienceOK(r)'
    <3>1. s \notin {"insert", "broadcast"} /\ pc[r] # "idle"
      BY <2>0, <2>3 DEF AfterWrite
    <3> QED BY <1>0, <2>3, <3>1, AdvancesAudience
  <2> QED BY <2>1, <2>2, <2>3
<1>8. CASE DeleteRow(r)
  <2>0. pc[r] = "delete"
    BY <1>0, <1>8, DeleteEffect
  <2>1. \/ Ends(r)
        \/ \E s \in AfterWrite \cup {"save"} : \E id, row :
             s # "broadcast" /\ Advances(r, s, id, row)
    BY <1>0, <1>8, DeleteEffect DEF Drops, AfterWrite
  <2>2. CASE Ends(r)
    BY <1>0, <2>2, EndsOK
  <2>3. ASSUME NEW s \in AfterWrite \cup {"save"}, NEW id, NEW row, s # "broadcast", Advances(r,
               s, id, row)
        PROVE  AudienceOK(r)'
    <3>1. s \notin {"insert", "broadcast"} /\ pc[r] # "idle"
      BY <2>0, <2>3 DEF AfterWrite
    <3> QED BY <1>0, <2>3, <3>1, AdvancesAudience
  <2> QED BY <2>1, <2>2, <2>3
<1>9. CASE Load(r)
  <2>0. pc[r] = "load"
    BY <1>0, <1>9, LoadEffect
  <2>1. \/ Ends(r)
        \/ \E s \in AfterWrite \cup {"save"} : \E id, row :
             s # "broadcast" /\ Advances(r, s, id, row)
    BY <1>0, <1>9, LoadEffect DEF Drops, AfterWrite
  <2>2. CASE Ends(r)
    BY <1>0, <2>2, EndsOK
  <2>3. ASSUME NEW s \in AfterWrite \cup {"save"}, NEW id, NEW row, s # "broadcast", Advances(r,
               s, id, row)
        PROVE  AudienceOK(r)'
    <3>1. s \notin {"insert", "broadcast"} /\ pc[r] # "idle"
      BY <2>0, <2>3 DEF AfterWrite
    <3> QED BY <1>0, <2>3, <3>1, AdvancesAudience
  <2> QED BY <2>1, <2>2, <2>3
<1>10. CASE Recheck(r)
  <2>0. pc[r] = "recheck"
    BY <1>0, <1>10, RecheckEffect
  <2>1. \/ Ends(r)
        \/ \E s \in AfterWrite \cup {"save"} : \E id, row :
             s # "broadcast" /\ Advances(r, s, id, row)
    BY <1>0, <1>10, RecheckEffect DEF Drops, AfterWrite
  <2>2. CASE Ends(r)
    BY <1>0, <2>2, EndsOK
  <2>3. ASSUME NEW s \in AfterWrite \cup {"save"}, NEW id, NEW row, s # "broadcast", Advances(r,
               s, id, row)
        PROVE  AudienceOK(r)'
    <3>1. s \notin {"insert", "broadcast"} /\ pc[r] # "idle"
      BY <2>0, <2>3 DEF AfterWrite
    <3> QED BY <1>0, <2>3, <3>1, AdvancesAudience
  <2> QED BY <2>1, <2>2, <2>3
<1>11. CASE ReadMembers(r)
  <2>1. pc[r] = "members" /\ to'[r] = members[req[r].chat]
    BY <1>0, <1>11, ReadEffect
  <2>2. Advances(r, "broadcast", target[r], seen[r])
    BY <1>0, <1>11, ReadEffect
  <2> QED BY <1>0, <2>1, <2>2 DEF AudienceOK, Advances
<1>12. CASE Broadcast(r)
  <2>1. Ends(r)
    BY <1>0, <1>12, BroadcastEffect DEF Drops
  <2> QED BY <1>0, <2>1, EndsOK
<1>13. CASE StatementFails(r)
  <2>1. Ends(r)
    BY <1>0, <1>13, FailEffect DEF Drops
  <2> QED BY <1>0, <2>1, EndsOK
<1> QED BY <1>1, <1>2, <1>3, <1>4, <1>5, <1>6, <1>7, <1>8, <1>9, <1>10, <1>11, <1>12, <1>13
           DEF StepOf

\* A step of one call keeps the invariant.
LEMMA StepInv ==
  ASSUME Inv, TypeOK', NEW r \in Calls, StepOf(r)
  PROVE  Inv'
<1>0. TypeOK /\ CallInv /\ RowInv /\ SeenInv /\ HoldInv /\ AloneInv /\ ToldInv /\ AudienceInv
  BY DEF Inv
<1>1. Others(r) /\ members' = members /\ overlapped \subseteq overlapped'
  BY StepEffect
<1>2. lastId \in Nat /\ lastId' \in Nat /\ lastId' >= lastId
  BY <1>0, NumberOfStep, MessagesAssumption DEF TypeOK
<1>3. CallInv'
  <2>1. ASSUME NEW p \in Calls \ {r} PROVE CallOK(p)'
    <3>1. CallOK(p)
      BY <1>0 DEF CallInv
    <3>2. pc'[p] = pc[p] /\ req'[p] = req[p] /\ second'[p] = second[p] /\ target'[p] = target[p]
      BY <1>1 DEF Others
    <3>3. target[p] \in 1..lastId => target[p] \in 1..lastId'
      BY <1>2
    <3> QED BY <3>1, <3>2, <3>3 DEF CallOK
  <2> QED BY <2>1, CallOfStep DEF CallInv
<1>4. RowInv'
  BY RowOfStep DEF RowInv
<1>5. \A p \in Calls : pc[p] \in Holding => target[p] \in Ids /\ author[target[p]] # None
  <2>1. ASSUME NEW p \in Calls, pc[p] \in Holding PROVE target[p] \in Ids /\ target[p] <= lastId
    <3>1. lastId <= MaxId
      BY <1>0, MessagesAssumption DEF TypeOK
    <3>2. target[p] \in 1..lastId
      BY <1>0, <2>1 DEF CallInv, CallOK
    <3> QED BY <1>2, <3>1, <3>2, MessagesAssumption DEF Ids
  <2> QED BY <1>0, <2>1 DEF RowInv, RowOK
<1>6. SeenInv'
  <2>1. ASSUME NEW p \in Calls \ {r} PROVE SeenOK(p)'
    <3>1. SeenOK(p)
      BY <1>0 DEF SeenInv
    <3>2. pc'[p] = pc[p] /\ req'[p] = req[p] /\ target'[p] = target[p] /\ seen'[p] = seen[p]
      BY <1>1 DEF Others
    <3>3. pc[p] \in Holding => author'[target[p]] = author[target[p]]
      BY <1>5, RowOfStep
    <3> QED BY <3>1, <3>2, <3>3 DEF SeenOK, Holding, AfterWrite, Final
  <2> QED BY <2>1, SeenOfStep DEF SeenInv
<1>7. HoldInv'
  <2>1. ASSUME NEW p \in Calls \ {r} PROVE HoldOK(p)'
    <3>1. HoldOK(p) /\ pc'[p] = pc[p] /\ target'[p] = target[p]
      BY <1>0, <1>1 DEF HoldInv, Others
    <3>2. ASSUME NEW p2 \in Calls \ {p, r}, pc[p] \in Holding, target[p] = target'[p2]
          PROVE  target[p] \in overlapped'
      <4>1. target'[p2] = target[p2]
        BY <1>1, <3>2 DEF Others
      <4> QED BY <1>1, <3>1, <3>2, <4>1 DEF HoldOK
    <3>3. ASSUME pc[p] \in Holding, target[p] = target'[r] PROVE target[p] \in overlapped'
      <4>1. target'[r] # 0
        BY <1>5, <3>3 DEF Ids
      <4>2. pc'[r] \in Holding
        BY <4>1, CallOfStep DEF CallOK
      <4>3. HoldOK(r)' /\ target'[p] = target'[r]
        BY <3>1, <3>3, HoldOfStep
      <4> QED BY <3>3, <4>2, <4>3 DEF HoldOK
    <3>4. ASSUME pc[p] \in {"save", "encrypt", "load"}
          PROVE  rows'[target[p]] # None \/ target[p] \in overlapped'
      <4>1. pc[p] \in Holding
        BY <3>4 DEF Holding, AfterWrite
      <4>2. rows'[target[p]] = rows[target[p]] \/ target[p] \in overlapped'
        BY <4>1, RowKept
      <4> QED BY <1>1, <3>1, <3>4, <4>2 DEF HoldOK
    <3> QED BY <3>1, <3>2, <3>3, <3>4 DEF HoldOK
  <2> QED BY <2>1, HoldOfStep DEF HoldInv
<1>8. AloneInv'
  <2>1. ASSUME NEW p \in Calls \ {r} PROVE AloneOK(p)'
    <3>1. AloneOK(p)
      BY <1>0 DEF AloneInv
    <3>2. pc'[p] = pc[p] /\ req'[p] = req[p] /\ target'[p] = target[p] /\ seen'[p] = seen[p]
      BY <1>1 DEF Others
    <3>3. pc[p] \in Holding /\ target[p] \notin overlapped' =>
            target[p] \notin overlapped /\ rows'[target[p]] = rows[target[p]]
      BY <1>1, RowKept
    <3> QED BY <3>1, <3>2, <3>3 DEF AloneOK
  <2> QED BY <2>1, AloneOfStep DEF AloneInv
<1>9. ToldInv'
  BY ToldOfStep DEF ToldInv
<1>10. AudienceInv'
  <2>1. ASSUME NEW p \in Calls \ {r} PROVE AudienceOK(p)'
    <3>1. /\ pc'[p] = pc[p] /\ req'[p] = req[p] /\ to'[p] = to[p]
          /\ stayed'[p] = stayed[p] /\ ever'[p] = ever[p]
      BY <1>1 DEF Others
    <3> QED BY <1>0, <1>1, <3>1 DEF AudienceInv, AudienceOK
  <2> QED BY <2>1, AudienceOfStep DEF AudienceInv
<1> QED BY <1>3, <1>4, <1>6, <1>7, <1>8, <1>9, <1>10 DEF Inv

\* A crash keeps it: no call is left, and what calls had changed is untold.
LEMMA CrashInv ==
  ASSUME Inv, TypeOK', Crash
  PROVE  Inv'
<1>0. TypeOK /\ RowInv /\ ToldInv
  BY DEF Inv
<1>1. UNCHANGED <<rows, lastId, author, lastEvent, overlapped>>
  BY DEF Crash, db
<1>2. \A p \in Calls : pc'[p] = "idle" /\ req'[p] = None /\ target'[p] = 0 /\ second'[p] = FALSE
  BY DEF Crash
<1>3. CallInv' /\ SeenInv' /\ HoldInv' /\ AloneInv' /\ AudienceInv'
  BY <1>2 DEF CallInv, CallOK, SeenInv, SeenOK, HoldInv, HoldOK, AloneInv, AloneOK, AudienceInv,
              AudienceOK,
              Holding, AfterWrite, Final
<1>4. RowInv'
  BY <1>0, <1>1 DEF RowInv, RowOK
<1>5. \A id \in Ids : (\E p \in Calls : pc[p] \in AfterWrite /\ target[p] = id) => id \in untold'
  BY DEF Crash
<1>6. untold \subseteq untold'
  BY DEF Crash
<1>7. ToldInv'
  BY <1>0, <1>1, <1>5, <1>6 DEF ToldInv, ToldOK, Current
<1> QED BY <1>3, <1>4, <1>7 DEF Inv

\* So does a user who joins or leaves.
LEMMA MoveInv ==
  ASSUME Inv, TypeOK', NEW u \in Users, NEW c \in Chats, Join(u, c) \/ Leave(u, c)
  PROVE  Inv'
<1>0. /\ TypeOK /\ CallInv /\ RowInv /\ SeenInv /\ HoldInv /\ AloneInv /\ ToldInv /\ AudienceInv
  BY DEF Inv
<1>1. UNCHANGED <<rows, lastId, pc, req, target, seen, to, second, author, lastEvent, untold,
                  overlapped>>
  BY DEF Join, Leave, callVars, told
<1>2. CallInv' /\ SeenInv' /\ HoldInv' /\ AloneInv'
  BY <1>0, <1>1 DEF CallInv, CallOK, SeenInv, SeenOK, HoldInv, HoldOK, AloneInv, AloneOK
<1>3. RowInv' /\ ToldInv'
  BY <1>0, <1>1 DEF RowInv, RowOK, ToldInv, ToldOK, Current
<1>4. ASSUME NEW p \in Calls PROVE AudienceOK(p)'
  <2>1. pc[p] # "idle" => req[p] # None /\ req[p].chat \in Chats
    BY <1>0, Fields, NoneAssumption DEF CallInv, CallOK
  <2>2. AudienceOK(p)
    BY <1>0 DEF AudienceInv
  <2>3. CASE Join(u, c)
    <3>1. \A d \in Chats : members'[d] = IF d = c THEN members[d] \cup {u} ELSE members[d]
      BY <1>0, <2>3 DEF TypeOK, Join
    <3>2. /\ stayed'[p] = stayed[p]
          /\ ever'[p] = IF req[p] # None /\ req[p].chat = c THEN ever[p] \cup {u} ELSE ever[p]
      BY <2>3 DEF Join
    <3> QED BY <1>1, <2>1, <2>2, <3>1, <3>2 DEF AudienceOK
  <2>4. CASE Leave(u, c)
    <3>1. \A d \in Chats : members'[d] = IF d = c THEN members[d] \ {u} ELSE members[d]
      BY <1>0, <2>4 DEF TypeOK, Leave
    <3>2. /\ ever'[p] = ever[p]
          /\ stayed'[p] = IF req[p] # None /\ req[p].chat = c THEN stayed[p] \ {u} ELSE stayed[p]
      BY <2>4 DEF Leave
    <3> QED BY <1>1, <2>1, <2>2, <3>1, <3>2 DEF AudienceOK
  <2> QED BY <2>3, <2>4
<1> QED BY <1>2, <1>3, <1>4 DEF Inv, AudienceInv

\* Every step keeps the invariant.
LEMMA NextInv == Inv /\ [Next]_vars => Inv'
<1> SUFFICES ASSUME Inv, [Next]_vars PROVE Inv'
  OBVIOUS
<1>1. TypeOK'
  BY TypeStep
<1>2. CASE UNCHANGED vars
  BY <1>2 DEF vars, db, callVars, told, audience, Inv, TypeOK, CallInv, CallOK, RowInv, RowOK,
              SeenInv, SeenOK,
              HoldInv, HoldOK, AloneInv, AloneOK, ToldInv, ToldOK, Current, AudienceInv, AudienceOK
<1> QED BY <1>1, <1>2, NextCases, StepInv, CrashInv, MoveInv

\* The invariant holds in every reachable state.
THEOREM Invariance == Spec => []Inv
BY InitInv, NextInv, PTL DEF Spec

-----------------------------------------------------------------------------
\* Every variable has its type.
THEOREM TypeCorrect == Spec => []TypeOK
<1>1. Inv => TypeOK
  BY DEF Inv
<1> QED BY <1>1, Invariance, PTL

\* When no call is running, the chat was last told of each message what the database
\* holds, unless two calls held the message at a time or it was changed with no event.
THEOREM ScreensCorrect == Spec => []ScreensCurrent
<1>1. Inv => ScreensCurrent
  BY DEF Inv, ToldInv, ToldOK, Current, ScreensCurrent, Idle, AfterWrite
<1> QED BY <1>1, Invariance, PTL

\* UpdateMessage answers with the row as edited, unless another call held the message.
THEOREM EditsCorrect == Spec => []EditTakesEffect
<1>1. ASSUME Inv, NEW r \in Calls, pc[r] \in {"recheck", "members", "broadcast"},
             req[r].kind = "patch", target[r] \notin overlapped
      PROVE  /\ seen[r].text = req[r].text
             /\ req[r].cipher # Blank => seen[r].cipher = req[r].cipher
  <2>1. pc[r] \in Holding /\ pc[r] \in AfterWrite /\ pc[r] \in Final /\ pc[r] # "encrypt"
    BY <1>1 DEF Holding, AfterWrite, Final
  <2>2. AloneOK(r)
    BY <1>1 DEF Inv, AloneInv
  <2> QED BY <1>1, <2>1, <2>2 DEF AloneOK
<1>2. Inv => EditTakesEffect
  BY <1>1 DEF EditTakesEffect
<1> QED BY <1>2, Invariance, PTL

\* An event goes to every member who stays in the chat during the call, and to nobody who
\* was outside all the time.
THEOREM AudienceCorrect == Spec => []AudienceRight
<1>1. Inv => AudienceRight
  BY DEF Inv, AudienceInv, AudienceOK, AudienceRight
<1> QED BY <1>1, Invariance, PTL

\* A step that changes a message is one of a call of its author.
LEMMA AuthorOfStep ==
  ASSUME Inv, NEW r \in Calls, StepOf(r)
  PROVE  \A id \in Ids : rows'[id] # rows[id] => pc'[r] # pc[r] /\ req[r].user = author'[id].user
<1>0. TypeOK /\ SeenOK(r)
  BY DEF Inv, SeenInv
<1>1. ASSUME NEW s \in {"check", "find", "delete"}, NEW q \in Request, Asks(s, q), Begin(r, s, q)
      PROVE  \A id \in Ids : rows'[id] # rows[id] => pc'[r] # pc[r] /\ req[r].user = author'[id].user
  <2>1. rows' = rows
    BY <1>0, <1>1, BeginEffect
  <2> QED BY <2>1
<1>2. CASE CheckMember(r)
  <2>1. rows' = rows
    BY <1>0, <1>2, CheckEffect
  <2> QED BY <2>1
<1>3. CASE Insert(r)
  <2>1. /\ pc[r] = "insert" /\ lastId' \in Ids /\ \A id \in Ids \ {lastId'} : rows'[id] = rows[id]
        /\ author'[lastId'] = [chat |-> req[r].chat, user |-> req[r].user]
    BY <1>0, <1>3, InsertEffect
  <2>2. pc'[r] # "insert"
    BY <1>0, <1>3, InsertEffect DEF Advances, Drops, Ends
  <2> QED BY <2>1, <2>2
<1>4. CASE FindMessage(r)
  <2>1. rows' = rows
    BY <1>0, <1>4, FindEffect
  <2> QED BY <2>1
<1>5. CASE NotFound(r)
  <2>1. rows' = rows
    BY <1>0, <1>5, NotFoundEffect
  <2> QED BY <2>1
<1>6. CASE SaveMessage(r)
  <2>1. /\ pc[r] = "save" /\ target[r] \in Ids /\ author' = author
        /\ \A id \in Ids \ {target[r]} : rows'[id] = rows[id]
    BY <1>6, SaveEffect
  <2>2. author[target[r]].user = req[r].user
    BY <1>0, <2>1 DEF SeenOK
  <2>3. pc'[r] # "save"
    BY <1>6, SaveEffect DEF Advances, Drops, Ends
  <2> QED BY <2>1, <2>2, <2>3
<1>7. CASE UpdateEncryptedFields(r)
  <2>1. /\ pc[r] = "encrypt" /\ target[r] \in Ids /\ author' = author
        /\ \A id \in Ids \ {target[r]} : rows'[id] = rows[id]
    BY <1>7, EncryptEffect
  <2>2. author[target[r]].user = req[r].user
    BY <1>0, <2>1 DEF SeenOK
  <2>3. pc'[r] # "encrypt"
    BY <1>7, EncryptEffect DEF Advances, Drops, Ends
  <2> QED BY <2>1, <2>2, <2>3
<1>8. CASE DeleteRow(r)
  <2>1. /\ pc[r] = "delete" /\ req[r].id \in Ids /\ author' = author
        /\ \A id \in Ids \ {req[r].id} : rows'[id] = rows[id]
        /\ rows[req[r].id] # None /\ rows[req[r].id].user = req[r].user
    BY <1>8, DeleteEffect
  <2>0. Matches(rows[req[r].id], author[req[r].id])
    BY <2>1 DEF Inv, RowInv, RowOK
  <2>2. author[req[r].id].user = req[r].user
    BY <2>0, <2>1 DEF Matches
  <2>3. pc'[r] # "delete"
    BY <1>8, DeleteEffect DEF Advances, Drops, Ends
  <2> QED BY <2>1, <2>2, <2>3
<1>9. CASE Load(r)
  <2>1. rows' = rows
    BY <1>0, <1>9, LoadEffect
  <2> QED BY <2>1
<1>10. CASE Recheck(r)
  <2>1. rows' = rows
    BY <1>0, <1>10, RecheckEffect
  <2> QED BY <2>1
<1>11. CASE ReadMembers(r)
  <2>1. rows' = rows
    BY <1>0, <1>11, ReadEffect
  <2> QED BY <2>1
<1>12. CASE Broadcast(r)
  <2>1. rows' = rows
    BY <1>0, <1>12, BroadcastEffect
  <2> QED BY <2>1
<1>13. CASE StatementFails(r)
  <2>1. rows' = rows
    BY <1>0, <1>13, FailEffect
  <2> QED BY <2>1
<1> QED BY <1>1, <1>2, <1>3, <1>4, <1>5, <1>6, <1>7, <1>8, <1>9, <1>10, <1>11, <1>12, <1>13
           DEF StepOf

\* A message changes by calls of its author only, and keeps its chat and its author: every
\* WHERE names the sender, and a stale row that Save writes back has the same columns.
THEOREM AuthorsCorrect == Spec => AuthorOnly
<1>1. Inv /\ [Next]_vars =>
       [\A id \in Ids : rows'[id] # rows[id] =>
             /\ \E r \in Calls : pc'[r] # pc[r] /\ req[r].user = author'[id].user
             /\ rows'[id] # None => author'[id] = [chat |-> rows'[id].chat, user |-> rows'[id].user]
             /\ author[id] # None => author'[id] = author[id]]_vars
  <2> DEFINE Authored == \A id \in Ids : rows'[id] # rows[id] =>
             /\ \E r \in Calls : pc'[r] # pc[r] /\ req[r].user = author'[id].user
             /\ rows'[id] # None => author'[id] = [chat |-> rows'[id].chat, user |-> rows'[id].user]
             /\ author[id] # None => author'[id] = author[id]
  <2> SUFFICES ASSUME Inv, [Next]_vars PROVE Authored
    OBVIOUS
  <2>1. ASSUME NEW r \in Calls, StepOf(r) PROVE Authored
    <3>1. \A id \in Ids : RowOK(id)' /\ (author[id] # None => author'[id] = author[id])
      BY <2>1, RowOfStep
    <3>2. \A id \in Ids : rows'[id] # None =>
            author'[id] = [chat |-> rows'[id].chat, user |-> rows'[id].user]
      BY <3>1 DEF RowOK, Matches
    <3> QED BY <2>1, <3>1, <3>2, AuthorOfStep
  <2>2. CASE rows' = rows
    BY <2>2
  <2>3. Crash \/ UNCHANGED vars => rows' = rows
    BY DEF Crash, vars, db
  <2>4. \A u \in Users, c \in Chats : Join(u, c) \/ Leave(u, c) => rows' = rows
    BY DEF Join, Leave
  <2> QED BY <2>1, <2>2, <2>3, <2>4, NextCases
<1> QED BY <1>1, Invariance, PTL DEF Spec, AuthorOnly

\* A step that brings a message back is the Save of an edit.
LEMMA ReturnOfStep ==
  ASSUME Inv, NEW r \in Calls, StepOf(r)
  PROVE  \A id \in Ids : rows[id] = None /\ author[id] # None /\ rows'[id] # None =>
            id \in overlapped /\ pc[r] = "save" /\ target[r] = id /\ rows'[id].text = req[r].text
<1>0. TypeOK /\ lastId \in Nat /\ HoldOK(r) /\ \A id \in Ids : RowOK(id)
  BY MessagesAssumption DEF Inv, TypeOK, HoldInv, RowInv
<1>1. ASSUME NEW s \in {"check", "find", "delete"}, NEW q \in Request, Asks(s, q), Begin(r, s, q)
      PROVE  \A id \in Ids : rows[id] = None /\ author[id] # None /\ rows'[id] # None =>
            id \in overlapped /\ pc[r] = "save" /\ target[r] = id /\ rows'[id].text = req[r].text
  <2>1. rows' = rows
    BY <1>0, <1>1, BeginEffect
  <2> QED BY <2>1
<1>2. CASE CheckMember(r)
  <2>1. rows' = rows
    BY <1>0, <1>2, CheckEffect
  <2> QED BY <2>1
<1>3. CASE Insert(r)
  <2>1. lastId' = lastId + 1 /\ lastId' \in Ids
    BY <1>0, <1>3, InsertEffect
  <2>2. \A id \in Ids \ {lastId'} : rows'[id] = rows[id]
    BY <1>0, <1>3, InsertEffect
  <2>3. author[lastId'] = None
    BY <1>0, <2>1 DEF RowOK
  <2> QED BY <2>2, <2>3
<1>4. CASE FindMessage(r)
  <2>1. rows' = rows
    BY <1>0, <1>4, FindEffect
  <2> QED BY <2>1
<1>5. CASE NotFound(r)
  <2>1. rows' = rows
    BY <1>0, <1>5, NotFoundEffect
  <2> QED BY <2>1
<1>6. CASE SaveMessage(r)
  <2>1. /\ pc[r] = "save" /\ target[r] \in Ids /\ rows'[target[r]].text = req[r].text
        /\ \A id \in Ids \ {target[r]} : rows'[id] = rows[id]
    BY <1>6, SaveEffect
  <2>2. rows[target[r]] # None \/ target[r] \in overlapped
    BY <1>0, <2>1 DEF HoldOK
  <2> QED BY <2>1, <2>2
<1>7. CASE UpdateEncryptedFields(r)
  <2>1. /\ \A id \in Ids \ {target[r]} : rows'[id] = rows[id]
        /\ rows[target[r]] = None => rows'[target[r]] = None
    BY <1>7, EncryptEffect
  <2> QED BY <2>1
<1>8. CASE DeleteRow(r)
  <2>1. rows'[req[r].id] = None /\ \A id \in Ids \ {req[r].id} : rows'[id] = rows[id]
    BY <1>8, DeleteEffect
  <2> QED BY <2>1
<1>9. CASE Load(r)
  <2>1. rows' = rows
    BY <1>0, <1>9, LoadEffect
  <2> QED BY <2>1
<1>10. CASE Recheck(r)
  <2>1. rows' = rows
    BY <1>0, <1>10, RecheckEffect
  <2> QED BY <2>1
<1>11. CASE ReadMembers(r)
  <2>1. rows' = rows
    BY <1>0, <1>11, ReadEffect
  <2> QED BY <2>1
<1>12. CASE Broadcast(r)
  <2>1. rows' = rows
    BY <1>0, <1>12, BroadcastEffect
  <2> QED BY <2>1
<1>13. CASE StatementFails(r)
  <2>1. rows' = rows
    BY <1>0, <1>13, FailEffect
  <2> QED BY <2>1
<1> QED BY <1>1, <1>2, <1>3, <1>4, <1>5, <1>6, <1>7, <1>8, <1>9, <1>10, <1>11, <1>12, <1>13
           DEF StepOf

\* A deleted message comes back only when an edit that had found it saves it, and the edit
\* and the deletion overlapped.
THEOREM ReturnsCorrect == Spec => ReturnsByStaleSave
<1>1. Inv /\ [Next]_vars =>
       [\A id \in Ids : rows[id] = None /\ author[id] # None /\ rows'[id] # None =>
             /\ id \in overlapped
             /\ \E r \in Calls : pc[r] = "save" /\ target[r] = id /\ rows'[id].text = req[r].text]_vars
  <2> DEFINE Returned == \A id \in Ids : rows[id] = None /\ author[id] # None /\ rows'[id] # None =>
             /\ id \in overlapped
             /\ \E r \in Calls : pc[r] = "save" /\ target[r] = id /\ rows'[id].text = req[r].text
  <2> SUFFICES ASSUME Inv, [Next]_vars PROVE Returned
    OBVIOUS
  <2>1. ASSUME NEW r \in Calls, StepOf(r) PROVE Returned
    BY <2>1, ReturnOfStep
  <2>2. CASE rows' = rows
    BY <2>2
  <2>3. Crash \/ UNCHANGED vars => rows' = rows
    BY DEF Crash, vars, db
  <2>4. \A u \in Users, c \in Chats : Join(u, c) \/ Leave(u, c) => rows' = rows
    BY DEF Join, Leave
  <2> QED BY <2>1, <2>2, <2>3, <2>4, NextCases
<1> QED BY <1>1, Invariance, PTL DEF Spec, ReturnsByStaleSave

\* A message is stored only for a user who was in the chat while the call ran.
THEOREM StoredCorrect == Spec => StoredForMembers
<1>1. Inv => [\A r \in Calls : pc[r] = "insert" /\ rows' # rows /\ pc'[r] # "insert" =>
                req[r].user \in ever[r]]_vars
  BY DEF Inv, AudienceInv, AudienceOK
<1> QED BY <1>1, Invariance, PTL DEF StoredForMembers

\* Why a call that has changed a message may end without an event.
Explained(r) ==
  pc[r] \in AfterWrite \ {"broadcast"} /\ pc'[r] \notin AfterWrite =>
    \/ failures' # failures
    \/ pc[r] = "recheck" /\ req[r].user \notin stayed[r]
    \/ pc[r] = "load" /\ target[r] \in overlapped

\* A step of a call is explained.
LEMMA SilenceOfStep ==
  ASSUME Inv, NEW r \in Calls, StepOf(r)
  PROVE  Explained(r)
<1>0. TypeOK /\ failures \in Nat /\ HoldOK(r) /\ AudienceOK(r)
  BY MessagesAssumption DEF Inv, TypeOK, HoldInv, AudienceInv
<1>1. ASSUME NEW s \in {"check", "find", "delete"}, NEW q \in Request, Asks(s, q), Begin(r, s, q)
      PROVE  Explained(r)
  <2>1. pc[r] \notin AfterWrite
    BY <1>0, <1>1, BeginEffect DEF AfterWrite
  <2> QED BY <2>1 DEF Explained
<1>2. CASE CheckMember(r)
  <2>1. pc[r] \notin AfterWrite
    BY <1>0, <1>2, CheckEffect DEF AfterWrite
  <2> QED BY <2>1 DEF Explained
<1>3. CASE Insert(r)
  <2>1. pc[r] \notin AfterWrite
    BY <1>0, <1>3, InsertEffect DEF AfterWrite
  <2> QED BY <2>1 DEF Explained
<1>4. CASE FindMessage(r)
  <2>1. pc[r] \notin AfterWrite
    BY <1>0, <1>4, FindEffect DEF AfterWrite
  <2> QED BY <2>1 DEF Explained
<1>5. CASE NotFound(r)
  <2>1. pc[r] \notin AfterWrite
    BY <1>0, <1>5, NotFoundEffect DEF AfterWrite
  <2> QED BY <2>1 DEF Explained
<1>6. CASE SaveMessage(r)
  <2>1. pc[r] \notin AfterWrite
    BY <1>0, <1>6, SaveEffect DEF AfterWrite
  <2> QED BY <2>1 DEF Explained
<1>7. CASE UpdateEncryptedFields(r)
  <2>1. pc'[r] = "load" \/ failures' = failures + 1
    BY <1>7, EncryptEffect DEF Advances
  <2> QED BY <1>0, <2>1 DEF Explained, AfterWrite
<1>8. CASE DeleteRow(r)
  <2>1. pc[r] \notin AfterWrite
    BY <1>0, <1>8, DeleteEffect DEF AfterWrite
  <2> QED BY <2>1 DEF Explained
<1>9. CASE Load(r)
  <2>1. pc[r] = "load"
    BY <1>0, <1>9, LoadEffect
  <2>2. CASE rows[target[r]] # None
    <3>1. pc'[r] = "recheck"
      BY <1>0, <1>9, <2>2, LoadEffect DEF Advances
    <3> QED BY <3>1 DEF Explained, AfterWrite
  <2>3. CASE rows[target[r]] = None
    BY <1>0, <2>1, <2>3 DEF Explained, HoldOK
  <2> QED BY <2>2, <2>3
<1>10. CASE Recheck(r)
  <2>1. pc[r] = "recheck"
    BY <1>0, <1>10, RecheckEffect
  <2>2. pc'[r] = "members" \/ req[r].user \notin members[req[r].chat]
    BY <1>0, <1>10, RecheckEffect DEF Advances
  <2>3. stayed[r] \subseteq members[req[r].chat]
    BY <1>0, <2>1 DEF AudienceOK
  <2> QED BY <2>1, <2>2, <2>3 DEF Explained, AfterWrite
<1>11. CASE ReadMembers(r)
  <2>1. pc'[r] = "broadcast"
    BY <1>0, <1>11, ReadEffect DEF Advances
  <2> QED BY <2>1 DEF Explained, AfterWrite
<1>12. CASE Broadcast(r)
  <2>1. pc[r] = "broadcast"
    BY <1>12, BroadcastEffect
  <2> QED BY <2>1 DEF Explained
<1>13. CASE StatementFails(r)
  <2>1. failures' = failures + 1
    BY <1>0, <1>13, FailEffect
  <2> QED BY <1>0, <2>1 DEF Explained
<1> QED BY <1>1, <1>2, <1>3, <1>4, <1>5, <1>6, <1>7, <1>8, <1>9, <1>10, <1>11, <1>12, <1>13
           DEF StepOf

\* A call changes a message and sends no event only when something failed, its user was out
\* of the chat, or another call deleted the message.
THEOREM SilenceCorrect == Spec => SilenceExplained
<1>1. Inv /\ [Next]_vars => [\A r \in Calls : Explained(r)]_vars
  <2> SUFFICES ASSUME Inv, [Next]_vars PROVE \A r \in Calls : Explained(r)
    OBVIOUS
  <2>1. ASSUME NEW r \in Calls, StepOf(r) PROVE \A p \in Calls : Explained(p)
    <3>1. ASSUME NEW p \in Calls \ {r} PROVE Explained(p)
      <4>1. pc'[p] = pc[p]
        BY <2>1, StepEffect DEF Others
      <4> QED BY <4>1 DEF Explained
    <3> QED BY <2>1, <3>1, SilenceOfStep
  <2>2. CASE Crash
    <3>1. failures \in Nat /\ failures' = failures + 1
      BY <2>2, MessagesAssumption DEF Inv, TypeOK, Crash
    <3> QED BY <3>1 DEF Explained
  <2>3. CASE pc' = pc
    BY <2>3 DEF Explained
  <2>4. UNCHANGED vars => pc' = pc
    BY DEF vars, callVars
  <2>5. \A u \in Users, c \in Chats : Join(u, c) \/ Leave(u, c) => pc' = pc
    BY DEF Join, Leave, callVars
  <2> QED BY <2>1, <2>2, <2>3, <2>4, <2>5, NextCases
<1>2. SilenceExplained <=> [][\A r \in Calls : Explained(r)]_vars
  BY DEF SilenceExplained, Explained
<1> QED BY <1>1, <1>2, Invariance, PTL DEF Spec
=============================================================================
