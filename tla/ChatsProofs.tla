----------------------------- MODULE ChatsProofs -----------------------------
(***************************************************************************)
(* The safety properties of Chats for any number of users, calls and chats,*)
(* with deadlocks, failing statements and crashes.                         *)
(***************************************************************************)
EXTENDS Chats, TLAPS

\* The statements of each handler.
Creating == {"findPrivate", "ensure", "insertUser", "commit"}
Adding == {"readMembers", "addFind", "addUpdate", "addCreate", "addRows"}
InTransaction == {"ensure", "insertUser", "commit"}

\* The statements after AddMembersToChat has read who is in the chat.
AfterRead == {"addFind", "addUpdate", "addCreate", "addRows"}

\* What a call carries from one statement to the next.
CallOK(r) ==
  /\ IF pc[r] = "idle" THEN asked[r] = None /\ user[r] = None
     ELSE asked[r] \in Asked /\ user[r] \in Users
  /\ pc[r] \in Creating => asked[r].op = "create"
  /\ pc[r] \in Adding \cup {"checkAdd"} => asked[r].op = "add"
  /\ pc[r] \in {"checkLeave", "remove"} => asked[r].op = "leave"
  /\ pc[r] \in {"insertUser", "addUpdate", "addCreate"} => current[r] \in todo[r]
  /\ pc[r] \in {"commit", "addRows"} => todo[r] = {}

\* Its transaction has inserted users that are not there yet, and no other has.
InsertedOK(r) ==
  /\ pc[r] \notin InTransaction => inserted[r] = {}
  /\ \A u \in inserted[r] : name[u] = None /\ u \notin Held(r)

\* It updates a user that is there, and has seen or inserted the users its loop has done.
SeenOK(r) ==
  /\ pc[r] = "syncUpdate" => name[user[r]] # None
  /\ pc[r] = "addUpdate" => name[current[r]] # None
  /\ pc[r] \in Creating => \A u \in asked[r].ids \ todo[r] : name[u] # None \/ u \in inserted[r]
  /\ pc[r] \in AfterRead => \A u \in new[r] \ todo[r] : name[u] # None

\* The chat it adds to or removes from is there; whom it was asked to add is in the chat, new
\* or has left.
ChatOK(r) ==
  /\ pc[r] \in Adding \cup {"remove"} => kind[asked[r].chat] # None
  /\ pc[r] \in AfterRead => asked[r].ids \subseteq new[r] \cup members[asked[r].chat] \cup left[r]

\* When it creates a private chat: a chat that it has not lacked has everybody of the request;
\* and after the lookup for a pair it has lacked every chat.
LackedOK(r) ==
  pc[r] # "idle" /\ Pairs(asked[r]) =>
    /\ \A c \in ChatIds : PrivateChatOf(c, asked[r].ids) \/ c \in lacked[r]
    /\ pc[r] \in InTransaction =>
         \A v \in Users : v # user[r] /\ asked[r].ids = {user[r], v} => ChatIds \subseteq lacked[r]

CallInv ==
  \A r \in Calls : CallOK(r) /\ InsertedOK(r) /\ SeenOK(r) /\ ChatOK(r) /\ LackedOK(r)

\* A chat that is not there has no members.
KindInv == \A c \in ChatIds : kind[c] = None => members[c] = {}

Inv ==
  /\ TypeOK
  /\ CallInv
  /\ KindInv
  /\ MembersAreUsers
-----------------------------------------------------------------------------
\* What requests are made of.
LEMMA Fields ==
  /\ \A q \in Asked : q.op \in {"create", "add", "leave"}
  /\ \A q \in Asked : q.op = "create" => q.kind \in Kinds /\ q.ids \in SUBSET Users
  /\ \A q \in Asked : q.op = "add" => q.chat \in ChatIds /\ q.ids \in SUBSET Users
  /\ \A q \in Asked : q.op = "leave" => q.chat \in ChatIds
BY DEF Asked

\* What a client asks for is a request.
LEMMA ClientBegins ==
  ASSUME NEW r \in Calls, Client(r)
  PROVE  \E u \in Users, q \in Asked : Begin(r, u, q)
<1>1. ASSUME NEW u \in Users, NEW body \in Bodies, Create(r, u, body)
      PROVE  \E q \in Asked : Begin(r, u, q)
  <2>1. body \in [op : {"create"}, kind : Kinds, ids : SUBSET Users]
    BY <1>1, BodiesAssumption DEF Asked, Create
  <2>2. [body EXCEPT !.ids = @ \cup {u}] \in Asked
    BY <2>1 DEF Asked
  <2> QED BY <1>1, <2>2 DEF Create
<1>2. ASSUME NEW u \in Users, NEW body \in Bodies, Add(r, u, body) \/ Leave(r, u, body)
      PROVE  \E q \in Asked : Begin(r, u, q)
  BY <1>2, BodiesAssumption DEF Add, Leave
<1> QED BY <1>1, <1>2 DEF Client

\* What a step of one call leaves alone: the other calls.
Bystanders(r) ==
  \A q \in Calls \ {r} :
    /\ pc'[q] = pc[q] /\ user'[q] = user[q] /\ asked'[q] = asked[q] /\ todo'[q] = todo[q]
    /\ current'[q] = current[q] /\ new'[q] = new[q] /\ inserted'[q] = inserted[q]
    /\ lacked[q] \subseteq lacked'[q] /\ left[q] \subseteq left'[q]

\* A call is answered and lets go of everything.
Ends(r) ==
  /\ Bystanders(r)
  /\ pc'[r] = "idle" /\ user'[r] = None /\ asked'[r] = None /\ todo'[r] = {} /\ current'[r] = None
  /\ new'[r] = {} /\ inserted'[r] = {}

\* It goes on with the next statement.
Goes(r, statement) ==
  /\ Bystanders(r)
  /\ pc'[r] = statement /\ user'[r] = user[r] /\ asked'[r] = asked[r]
  /\ left' = left /\ failures' = failures

\* What its loop and its transaction have done stays.
Stays(r) ==
  /\ todo'[r] = todo[r] /\ current'[r] = current[r] /\ new'[r] = new[r]
  /\ inserted'[r] = inserted[r] /\ lacked'[r] = lacked[r]

\* An answer ends the call.
LEMMA AnswerEffect ==
  ASSUME TypeOK, NEW r \in Calls, Answer(r)
  PROVE  Ends(r)
BY DEF TypeOK, Answer, Return, Ended, Ends, Bystanders

\* A call begins with the lookup of its user.
LEMMA BeginEffect ==
  ASSUME TypeOK, NEW r \in Calls, NEW u \in Users, NEW q \in Asked, Begin(r, u, q)
  PROVE  /\ Bystanders(r) /\ pc[r] = "idle" /\ pc'[r] = "syncFind" /\ user'[r] = u /\ asked'[r] = q
         /\ inserted'[r] = inserted[r] /\ lacked'[r] = Lacking(q)
         /\ UNCHANGED <<name, kind, members, left, failures>>
BY DEF TypeOK, Begin, Goes, Stays, Bystanders, db, history

\* The lookup decides on the statement that follows.
LEMMA SyncFindEffect ==
  ASSUME TypeOK, NEW r \in Calls, SyncFind(r)
  PROVE  /\ pc[r] = "syncFind" /\ Stays(r)
         /\ Goes(r, IF name[user[r]] = None THEN "syncCreate" ELSE "syncUpdate")
         /\ UNCHANGED <<name, kind, members>>
BY DEF TypeOK, SyncFind, Goto, Goes, Stays, Bystanders, db, history

\* A call comes to its handler.
LEMMA EnterEffect ==
  ASSUME TypeOK, NEW r \in Calls, Enter(r)
  PROVE  /\ Goes(r, Handler(r)) /\ current'[r] = current[r] /\ new'[r] = new[r]
         /\ todo'[r] = IF asked[r].op = "create" THEN asked[r].ids ELSE {}
         /\ inserted'[r] = inserted[r] /\ lacked'[r] = lacked[r]
BY DEF TypeOK, Enter, Goto, Goes, Stays, Bystanders, db, history

\* The user of the call gets the username of its token.
LEMMA SyncUpdateEffect ==
  ASSUME TypeOK, NEW r \in Calls, user[r] \in Users, SyncUpdate(r)
  PROVE  /\ pc[r] = "syncUpdate" /\ Enter(r)
         /\ name'[user[r]] = "token" /\ \A u \in Users \ {user[r]} : name'[u] = name[u]
         /\ UNCHANGED <<kind, members>>
BY DEF TypeOK, SyncUpdate

\* The user of the call is created, or was meanwhile and the call ends.
LEMMA SyncCreateEffect ==
  ASSUME TypeOK, NEW r \in Calls, user[r] \in Users, SyncCreate(r)
  PROVE  /\ pc[r] = "syncCreate" /\ user[r] \notin Held(r)
         /\ IF name[user[r]] = None
            THEN /\ Enter(r) /\ name'[user[r]] = "token"
                 /\ \A u \in Users \ {user[r]} : name'[u] = name[u]
            ELSE Ends(r) /\ UNCHANGED <<name, failures>>
         /\ UNCHANGED <<kind, members>>
<1>1. CASE name[user[r]] = None
  BY <1>1 DEF TypeOK, SyncCreate, MayInsert
<1>2. CASE name[user[r]] # None
  BY <1>2, AnswerEffect DEF SyncCreate, MayInsert
<1> QED BY <1>1, <1>2

\* The lookup of a private chat ends the call or finds none.
LEMMA FindPrivateEffect ==
  ASSUME TypeOK, NEW r \in Calls, FindPrivate(r)
  PROVE  /\ pc[r] = "findPrivate"
         /\ \/ Ends(r)
            \/ /\ Goes(r, "ensure")
               /\ todo'[r] = todo[r] /\ current'[r] = current[r] /\ new'[r] = new[r]
               /\ inserted'[r] = inserted[r] /\ lacked'[r] = lacked[r]
               /\ \E v \in Others(r) : \A c \in ChatIds : ~IsPrivate(c, user[r], v)
         /\ UNCHANGED <<name, kind, members, failures>>
<1>1. pc[r] = "findPrivate" /\ UNCHANGED <<name, kind, members>>
  BY DEF FindPrivate, db
<1>2. CASE Answer(r) /\ UNCHANGED failures
  BY <1>1, <1>2, AnswerEffect
<1>3. ASSUME NEW v \in Others(r), ~\E c \in ChatIds : IsPrivate(c, user[r], v), Goto(r, "ensure"),
             UNCHANGED <<todo, current, new, inserted, history>>
      PROVE  Goes(r, "ensure")
  BY <1>3 DEF TypeOK, Goto, Goes, Bystanders, history
<1> QED BY <1>1, <1>2, <1>3 DEF FindPrivate, history

\* A user that is there is passed over.
LEMMA EnsureKnownEffect ==
  ASSUME TypeOK, NEW r \in Calls, NEW u \in Users, EnsureKnown(r, u)
  PROVE  /\ pc[r] = "ensure" /\ u \in todo[r] /\ name[u] # None
         /\ Goes(r, IF todo[r] = {u} THEN "commit" ELSE "ensure")
         /\ todo'[r] = todo[r] \ {u} /\ new'[r] = new[r] /\ lacked'[r] = lacked[r]
         /\ inserted'[r] = inserted[r]
         /\ UNCHANGED <<name, kind, members>>
BY DEF TypeOK, EnsureKnown, Known, LeftAlone, NextUser, Goto, Goes, Stays, Bystanders, db, history

\* The INSERT of an unknown user follows.
LEMMA EnsureUnknownEffect ==
  ASSUME TypeOK, NEW r \in Calls, NEW u \in Users, EnsureUnknown(r, u)
  PROVE  /\ pc[r] = "ensure" /\ u \in todo[r]
         /\ Goes(r, "insertUser") /\ current'[r] = u
         /\ todo'[r] = todo[r] /\ new'[r] = new[r] /\ lacked'[r] = lacked[r]
         /\ inserted'[r] = inserted[r]
         /\ UNCHANGED <<name, kind, members>>
BY DEF TypeOK, EnsureUnknown, Goto, Goes, Stays, Bystanders, db, history

\* The transaction inserts a user that nobody else has, or fails.
LEMMA InsertUserEffect ==
  ASSUME TypeOK, NEW r \in Calls, InsertUser(r)
  PROVE  /\ pc[r] = "insertUser" /\ current[r] \notin Held(r)
         /\ IF name[current[r]] = None
            THEN /\ Goes(r, IF todo[r] = {current[r]} THEN "commit" ELSE "ensure")
                 /\ todo'[r] = todo[r] \ {current[r]} /\ new'[r] = new[r] /\ lacked'[r] = lacked[r]
                 /\ inserted'[r] = inserted[r] \cup {current[r]}
            ELSE Ends(r) /\ UNCHANGED failures
         /\ UNCHANGED <<name, kind, members>>
<1>1. pc[r] = "insertUser" /\ current[r] \notin Held(r) /\ UNCHANGED <<name, kind, members>>
  BY DEF InsertUser, MayInsert, db
<1>2. CASE name[current[r]] = None
  <2>1. NextUser(r, current[r]) /\ UNCHANGED history
        /\ inserted' = [inserted EXCEPT ![r] = @ \cup {current[r]}]
    BY <1>2 DEF InsertUser
  <2> QED BY <1>1, <1>2, <2>1 DEF TypeOK, NextUser, Goto, Goes, Bystanders, history
<1>3. CASE name[current[r]] # None
  BY <1>1, <1>3, AnswerEffect DEF InsertUser
<1> QED BY <1>2, <1>3

\* A deadlock ends the call.
LEMMA DeadlockEffect ==
  ASSUME TypeOK, NEW r \in Calls, FailDeadlocked(r)
  PROVE  /\ pc[r] = "insertUser" /\ Ends(r)
         /\ UNCHANGED <<name, kind, members, failures>>
BY AnswerEffect DEF FailDeadlocked, Deadlocked, Waits, db

\* A commit makes the chat, its members and its users at once.
LEMMA CommitEffect ==
  ASSUME TypeOK, NEW r \in Calls, Commit(r)
  PROVE  /\ pc[r] = "commit" /\ Ends(r) /\ UNCHANGED failures
         /\ \A u \in Users : name'[u] = IF u \in inserted[r] THEN "temp" ELSE name[u]
         /\ \E c \in ChatIds :
              /\ kind[c] = None /\ kind'[c] = asked[r].kind /\ members'[c] = asked[r].ids
              /\ \A d \in ChatIds \ {c} : kind'[d] = kind[d] /\ members'[d] = members[d]
<1>1. pc[r] = "commit" /\ Ends(r) /\ UNCHANGED failures
  BY AnswerEffect DEF Commit
<1>2. PICK c \in ChatIds : /\ kind[c] = None
                          /\ kind' = [kind EXCEPT ![c] = asked[r].kind]
                          /\ members' = [members EXCEPT ![c] = asked[r].ids]
  BY DEF Commit
<1>3. /\ kind'[c] = asked[r].kind /\ members'[c] = asked[r].ids
      /\ \A d \in ChatIds \ {c} : kind'[d] = kind[d] /\ members'[d] = members[d]
  BY <1>2 DEF TypeOK
<1>4. \A u \in Users : name'[u] = IF u \in inserted[r] THEN "temp" ELSE name[u]
  BY DEF Commit
<1> QED BY <1>1, <1>2, <1>3, <1>4

\* A call for a chat goes on when its user is in it.
LEMMA CheckEffect ==
  ASSUME TypeOK, NEW r \in Calls, NEW s, CheckMember(r, s)
  PROVE  /\ \/ user[r] \in members[asked[r].chat] /\ Goes(r, s) /\ Stays(r)
            \/ Ends(r)
         /\ UNCHANGED <<name, kind, members, failures>>
<1>1. UNCHANGED <<name, kind, members, failures>>
  BY DEF CheckMember, db
<1>2. CASE user[r] \in members[asked[r].chat]
  <2>1. Goto(r, s) /\ UNCHANGED <<todo, current, new, inserted, lacked, left>>
    BY <1>2 DEF CheckMember
  <2>2. Goes(r, s) /\ Stays(r)
    BY <1>1, <2>1 DEF TypeOK, Goto, Goes, Stays, Bystanders
  <2> QED BY <1>1, <1>2, <2>2
<1>3. CASE user[r] \notin members[asked[r].chat]
  BY <1>1, <1>3, AnswerEffect DEF CheckMember
<1> QED BY <1>2, <1>3

\* The new members are those asked for that are not in the chat.
LEMMA ReadEffect ==
  ASSUME TypeOK, NEW r \in Calls, ReadMembers(r)
  PROVE  /\ pc[r] = "readMembers" /\ Goes(r, "addFind")
         /\ new'[r] = asked[r].ids \ members[asked[r].chat] /\ todo'[r] = new'[r]
         /\ inserted'[r] = inserted[r] /\ lacked'[r] = lacked[r]
         /\ UNCHANGED <<name, kind, members>>
BY DEF TypeOK, ReadMembers, NewIds, Goto, Goes, Stays, Bystanders, db, history

\* With nobody to add the call ends.
LEMMA AddNoneEffect ==
  ASSUME TypeOK, NEW r \in Calls, AddNone(r)
  PROVE  /\ pc[r] = "addFind" /\ new[r] = {} /\ Ends(r)
         /\ UNCHANGED <<name, kind, members, failures>>
BY AnswerEffect DEF AddNone, db

\* A lookup decides on the statement that follows.
LEMMA AddFindEffect ==
  ASSUME TypeOK, NEW r \in Calls, NEW u \in Users, AddFind(r, u)
  PROVE  /\ pc[r] = "addFind" /\ u \in todo[r]
         /\ Goes(r, IF name[u] = None THEN "addCreate" ELSE "addUpdate") /\ current'[r] = u
         /\ todo'[r] = todo[r] /\ new'[r] = new[r]
         /\ inserted'[r] = inserted[r] /\ lacked'[r] = lacked[r]
         /\ UNCHANGED <<name, kind, members>>
BY DEF TypeOK, AddFind, Goto, Goes, Stays, Bystanders, db, history

\* The user gets the placeholder.
LEMMA PlacedEffect ==
  ASSUME TypeOK, NEW r \in Calls, current[r] \in Users, Placed(r)
  PROVE  /\ name'[current[r]] = "temp" /\ \A u \in Users \ {current[r]} : name'[u] = name[u]
         /\ Goes(r, IF todo'[r] = {} THEN "addRows" ELSE "addFind")
         /\ todo'[r] = todo[r] \ {current[r]} /\ new'[r] = new[r]
         /\ inserted'[r] = inserted[r] /\ lacked'[r] = lacked[r]
BY DEF TypeOK, Placed, NameOrTemp, Goto, Goes, Stays, Bystanders, db, history

\* The user is created under the placeholder, or was meanwhile and the call ends.
LEMMA AddCreateEffect ==
  ASSUME TypeOK, NEW r \in Calls, AddCreate(r)
  PROVE  /\ pc[r] = "addCreate" /\ current[r] \notin Held(r)
         /\ IF name[current[r]] = None THEN Placed(r) ELSE Ends(r) /\ UNCHANGED <<name, failures>>
         /\ UNCHANGED <<kind, members>>
BY AnswerEffect DEF AddCreate, MayInsert

\* The rows are inserted, all of them or none.
LEMMA AddRowsEffect ==
  ASSUME TypeOK, NEW r \in Calls, asked[r].chat \in ChatIds, AddRows(r)
  PROVE  /\ pc[r] = "addRows" /\ Ends(r) /\ UNCHANGED <<name, kind, failures>>
         /\ Refused(r) => members' = members
         /\ ~Refused(r) => members'[asked[r].chat] = members[asked[r].chat] \cup new[r]
         /\ \A c \in ChatIds : c # asked[r].chat => members'[c] = members[c]
<1>1. pc[r] = "addRows" /\ Ends(r) /\ UNCHANGED <<name, kind, failures>>
  BY AnswerEffect DEF AddRows
<1>2. /\ Refused(r) => members' = members
      /\ ~Refused(r) => members'[asked[r].chat] = members[asked[r].chat] \cup new[r]
      /\ \A c \in ChatIds : c # asked[r].chat => members'[c] = members[c]
  BY DEF TypeOK, AddRows
<1> QED BY <1>1, <1>2

\* The user is out of the chat, which the other calls for it keep.
LEMMA RemoveEffect ==
  ASSUME TypeOK, NEW r \in Calls, asked[r].chat \in ChatIds, RemoveMember(r)
  PROVE  /\ pc[r] = "remove" /\ Ends(r) /\ UNCHANGED <<name, kind, failures>>
         /\ members'[asked[r].chat] = members[asked[r].chat] \ {user[r]}
         /\ \A c \in ChatIds : c # asked[r].chat => members'[c] = members[c]
         /\ \A q \in Calls \ {r} : AsksFor(q, asked[r].chat) => user[r] \in left'[q]
         /\ \A q \in Calls \ {r} : PairsWith(q, user[r]) => asked[r].chat \in lacked'[q]
<1>1. \A q \in Calls \ {r} :
        /\ left[q] \subseteq left'[q] /\ (AsksFor(q, asked[r].chat) => user[r] \in left'[q])
        /\ lacked[q] \subseteq lacked'[q]
        /\ (PairsWith(q, user[r]) => asked[r].chat \in lacked'[q])
  BY DEF RemoveMember
<1>2. pc[r] = "remove" /\ Ends(r) /\ UNCHANGED <<name, kind, failures>>
  BY <1>1 DEF TypeOK, RemoveMember, Return, Ended, Ends, Bystanders
<1>3. /\ members'[asked[r].chat] = members[asked[r].chat] \ {user[r]}
      /\ \A c \in ChatIds : c # asked[r].chat => members'[c] = members[c]
  BY DEF TypeOK, RemoveMember
<1> QED BY <1>1, <1>2, <1>3

\* A failing statement ends the call.
LEMMA FailEffect ==
  ASSUME TypeOK, NEW r \in Calls, StatementFails(r)
  PROVE  /\ Ends(r) /\ failures' = failures + 1 /\ pc[r] # "idle"
         /\ UNCHANGED <<name, kind, members>>
BY AnswerEffect DEF StatementFails, db

-----------------------------------------------------------------------------
\* A step of one call.
StepOf(r) ==
  \/ \E u \in Users, q \in Asked : Begin(r, u, q)
  \/ SyncFind(r) \/ SyncUpdate(r) \/ SyncCreate(r) \/ FindPrivate(r)
  \/ \E u \in Users : EnsureKnown(r, u) \/ EnsureUnknown(r, u) \/ AddFind(r, u)
  \/ InsertUser(r) \/ FailDeadlocked(r) \/ Commit(r)
  \/ CheckAdd(r) \/ ReadMembers(r) \/ AddNone(r) \/ AddUpdate(r) \/ AddCreate(r)
  \/ AddRows(r) \/ CheckLeave(r) \/ RemoveMember(r) \/ StatementFails(r)

\* The next-state relation as the cases of the proofs below.
LEMMA NextCases ==
  ASSUME [Next]_vars
  PROVE  (\E r \in Calls : StepOf(r)) \/ Crash \/ UNCHANGED vars
BY ClientBegins DEF Next, Serve, StepOf

\* The handler of a request is the one of its operation.
LEMMA HandlerOK ==
  ASSUME NEW r \in Calls, asked[r] \in Asked
  PROVE  /\ asked[r].op = "create" /\ asked[r].kind = "private" => Handler(r) = "findPrivate"
         /\ asked[r].op = "create" /\ asked[r].kind # "private" => Handler(r) = "ensure"
         /\ asked[r].op = "add" => Handler(r) = "checkAdd"
         /\ asked[r].op = "leave" => Handler(r) = "checkLeave"
         /\ Handler(r) \in {"findPrivate", "ensure", "checkAdd", "checkLeave"}
BY Fields DEF Handler

\* The types of what belongs to calls.
CallTypes ==
  /\ pc \in [Calls -> Statement \cup {"idle"}]
  /\ user \in [Calls -> Users \cup {None}]
  /\ asked \in [Calls -> Asked \cup {None}]
  /\ todo \in [Calls -> SUBSET Users]
  /\ current \in [Calls -> Users \cup {None}]
  /\ new \in [Calls -> SUBSET Users]
  /\ inserted \in [Calls -> SUBSET Users]
  /\ lacked \in [Calls -> SUBSET ChatIds]
  /\ left \in [Calls -> SUBSET Users]

\* The types of calls are kept when one is answered,
LEMMA ReturnTypes ==
  ASSUME TypeOK, NEW r \in Calls, Return(r), left' \in [Calls -> SUBSET Users],
         lacked' \in [Calls -> SUBSET ChatIds]
  PROVE  CallTypes'
BY DEF TypeOK, Return, Ended, CallTypes

\* whoever leaves the chat,
LEMMA AnswerTypes ==
  ASSUME TypeOK, NEW r \in Calls, Answer(r)
  PROVE  CallTypes'
<1>1. left' \in [Calls -> SUBSET Users] /\ lacked' \in [Calls -> SUBSET ChatIds]
  BY DEF TypeOK, Answer
<1> QED BY <1>1, ReturnTypes DEF Answer

\* when one goes on,
LEMMA GotoTypes ==
  ASSUME TypeOK, NEW r \in Calls, NEW s \in Statement, Goto(r, s)
  PROVE  /\ pc' \in [Calls -> Statement \cup {"idle"}]
         /\ user' \in [Calls -> Users \cup {None}] /\ asked' \in [Calls -> Asked \cup {None}]
BY DEF TypeOK, Goto

\* when one comes to its handler,
LEMMA EnterTypes ==
  ASSUME TypeOK, NEW r \in Calls, asked[r] \in Asked, Enter(r)
  PROVE  CallTypes' /\ UNCHANGED failures
<1>1. Handler(r) \in Statement
  BY HandlerOK DEF Statement
<1>2. todo' \in [Calls -> SUBSET Users]
  BY Fields DEF TypeOK, Enter
<1>3. UNCHANGED <<current, new, inserted, lacked, left, failures>>
  BY DEF Enter, history
<1> QED BY <1>1, <1>2, <1>3, GotoTypes DEF TypeOK, Enter, CallTypes

\* when it saves a user to add,
LEMMA PlacedTypes ==
  ASSUME TypeOK, NEW r \in Calls, Placed(r)
  PROVE  CallTypes' /\ UNCHANGED failures /\ name' \in [Users -> {"token", "temp", None}]
<1>1. \E s \in Statement : Goto(r, s)
  BY DEF Placed, Statement
<1>2. todo' \in [Calls -> SUBSET Users] /\ current' \in [Calls -> Users \cup {None}]
  BY DEF TypeOK, Placed
<1>3. UNCHANGED <<new, inserted, lacked, left, failures>>
  BY DEF Placed, history
<1>4. name' \in [Users -> {"token", "temp", None}]
  BY DEF TypeOK, Placed, NameOrTemp
<1> QED BY <1>1, <1>2, <1>3, <1>4, GotoTypes DEF TypeOK, CallTypes

\* and when its loop goes on.
LEMMA NextUserTypes ==
  ASSUME TypeOK, NEW r \in Calls, NEW u, NextUser(r, u), UNCHANGED history,
         inserted' \in [Calls -> SUBSET Users]
  PROVE  CallTypes' /\ UNCHANGED failures
<1>1. \E s \in Statement : Goto(r, s)
  BY DEF NextUser, Statement
<1>2. todo' \in [Calls -> SUBSET Users] /\ current' \in [Calls -> Users \cup {None}]
  BY DEF TypeOK, NextUser
<1>3. UNCHANGED <<new, lacked, left, failures>>
  BY DEF NextUser, history
<1> QED BY <1>1, <1>2, <1>3, GotoTypes DEF TypeOK, CallTypes

\* Init establishes the invariant.
LEMMA InitInv == Init => Inv
BY ChatsAssumption
   DEF Init, Inv, TypeOK, CallInv, CallOK, InsertedOK, SeenOK, ChatOK, LackedOK, KindInv,
       MembersAreUsers,
       Held, Creating, Adding, InTransaction, AfterRead

\* A step of one call keeps the types.
LEMMA TypeOfStep ==
  ASSUME Inv, NEW r \in Calls, StepOf(r)
  PROVE  TypeOK'
<1>0. TypeOK /\ CallOK(r)
  BY DEF Inv, CallInv
<1>1. ASSUME NEW u \in Users, NEW q \in Asked, Begin(r, u, q)
      PROVE  TypeOK'
  <2>1. pc' \in [Calls -> Statement \cup {"idle"}] /\ user' \in [Calls -> Users \cup {None}]
    BY <1>0, <1>1 DEF TypeOK, Begin, Statement
  <2>2. asked' \in [Calls -> Asked \cup {None}]
    BY <1>0, <1>1 DEF TypeOK, Begin
  <2>3. UNCHANGED <<name, kind, members, todo, current, new, inserted, left, failures>>
    BY <1>1 DEF Begin, db, history
  <2>4. lacked' \in [Calls -> SUBSET ChatIds]
    BY <1>0, <1>1 DEF TypeOK, Begin, Lacking
  <2> QED BY <1>0, <2>1, <2>2, <2>3, <2>4 DEF TypeOK
<1>2. CASE SyncFind(r)
  <2>1. \E s \in Statement : Goto(r, s)
    BY <1>2 DEF SyncFind, Statement
  <2>2. UNCHANGED <<name, kind, members, todo, current, new, inserted, lacked, left, failures>>
    BY <1>2 DEF SyncFind, db, history
  <2> QED BY <1>0, <2>1, <2>2, GotoTypes DEF TypeOK
<1>3. CASE SyncUpdate(r)
  <2>1. asked[r] \in Asked /\ Enter(r) /\ UNCHANGED <<kind, members>>
    BY <1>0, <1>3 DEF CallOK, SyncUpdate
  <2>2. name' \in [Users -> {"token", "temp", None}]
    BY <1>0, <1>3 DEF TypeOK, SyncUpdate
  <2> QED BY <1>0, <2>1, <2>2, EnterTypes DEF TypeOK, CallTypes
<1>4. CASE SyncCreate(r)
  <2>1. asked[r] \in Asked /\ UNCHANGED <<kind, members>>
    BY <1>0, <1>4 DEF CallOK, SyncCreate
  <2>2. name' \in [Users -> {"token", "temp", None}]
    BY <1>0, <1>4 DEF TypeOK, SyncCreate
  <2>3. CASE Enter(r)
    BY <1>0, <2>1, <2>2, <2>3, EnterTypes DEF TypeOK, CallTypes
  <2>4. CASE Answer(r) /\ UNCHANGED failures
    BY <1>0, <2>1, <2>2, <2>4, AnswerTypes DEF TypeOK, CallTypes
  <2> QED BY <1>4, <2>3, <2>4 DEF SyncCreate
<1>5. CASE FindPrivate(r)
  <2>1. UNCHANGED <<name, kind, members>>
    BY <1>5 DEF FindPrivate, db
  <2>2. CASE Answer(r) /\ UNCHANGED failures
    BY <1>0, <2>1, <2>2, AnswerTypes DEF TypeOK, CallTypes
  <2>3. CASE Goto(r, "ensure") /\ UNCHANGED <<todo, current, new, inserted, history>>
    <3>1. "ensure" \in Statement
      BY DEF Statement
    <3> QED BY <1>0, <2>1, <2>3, <3>1, GotoTypes DEF TypeOK, history
  <2> QED BY <1>5, <2>2, <2>3 DEF FindPrivate
<1>6. ASSUME NEW u \in Users, EnsureKnown(r, u)
      PROVE  TypeOK'
  <2>1. NextUser(r, u) /\ UNCHANGED history
    BY <1>6 DEF EnsureKnown
  <2>2. UNCHANGED <<name, kind, members, inserted>>
    BY <1>6 DEF EnsureKnown, LeftAlone
  <2>3. CallTypes' /\ UNCHANGED failures
    BY <1>0, <2>1, <2>2, NextUserTypes DEF TypeOK
  <2> QED BY <1>0, <2>2, <2>3 DEF TypeOK, CallTypes
<1>7. ASSUME NEW u \in Users, EnsureUnknown(r, u)
      PROVE  TypeOK'
  <2>1. \E s \in Statement : Goto(r, s)
    BY <1>7 DEF EnsureUnknown, Statement
  <2>2. current' \in [Calls -> Users \cup {None}]
    BY <1>0, <1>7 DEF TypeOK, EnsureUnknown
  <2>3. UNCHANGED <<name, kind, members, todo, new, inserted, lacked, left, failures>>
    BY <1>7 DEF EnsureUnknown, db, history
  <2> QED BY <1>0, <2>1, <2>2, <2>3, GotoTypes DEF TypeOK
<1>8. CASE InsertUser(r)
  <2>1. UNCHANGED <<name, kind, members>>
    BY <1>8 DEF InsertUser, db
  <2>2. CASE Answer(r) /\ UNCHANGED failures
    BY <1>0, <2>1, <2>2, AnswerTypes DEF TypeOK, CallTypes
  <2>3. CASE /\ inserted' = [inserted EXCEPT ![r] = @ \cup {current[r]}]
             /\ NextUser(r, current[r]) /\ UNCHANGED history
    <3>1. current[r] \in Users
      BY <1>0, <1>8 DEF TypeOK, CallOK, InsertUser
    <3>2. inserted' \in [Calls -> SUBSET Users]
      BY <1>0, <2>3, <3>1 DEF TypeOK
    <3> QED BY <1>0, <2>1, <2>3, <3>2, NextUserTypes DEF TypeOK, CallTypes
  <2> QED BY <1>8, <2>2, <2>3 DEF InsertUser
<1>9. CASE FailDeadlocked(r)
  <2>1. Answer(r) /\ UNCHANGED <<name, kind, members, failures>>
    BY <1>9 DEF FailDeadlocked, db
  <2>2. CallTypes'
    BY <1>0, <2>1, AnswerTypes
  <2> QED BY <1>0, <2>1, <2>2 DEF TypeOK, CallTypes
<1>10. CASE Commit(r)
  <2>1. asked[r].kind \in Kinds /\ asked[r].ids \in SUBSET Users
    BY <1>0, <1>10, Fields DEF CallOK, Creating, Commit
  <2>2. kind' \in [ChatIds -> Kinds \cup {None}] /\ members' \in [ChatIds -> SUBSET Users]
    BY <1>0, <1>10, <2>1 DEF TypeOK, Commit
  <2>3. name' \in [Users -> {"token", "temp", None}]
    BY <1>0, <1>10 DEF TypeOK, Commit
  <2>4. Answer(r) /\ UNCHANGED failures
    BY <1>10 DEF Commit
  <2> QED BY <1>0, <2>2, <2>3, <2>4, AnswerTypes DEF TypeOK, CallTypes
<1>11. CASE CheckAdd(r)
  <2>1. UNCHANGED <<name, kind, members, failures>>
    BY <1>11 DEF CheckAdd, CheckMember, db
  <2>2. CASE Answer(r)
    BY <1>0, <2>1, <2>2, AnswerTypes DEF TypeOK, CallTypes
  <2>3. CASE Goto(r, "readMembers") /\ UNCHANGED <<todo, current, new, inserted, lacked, left>>
    <3>1. "readMembers" \in Statement
      BY DEF Statement
    <3> QED BY <1>0, <2>1, <2>3, <3>1, GotoTypes DEF TypeOK
  <2> QED BY <1>11, <2>2, <2>3 DEF CheckAdd, CheckMember
<1>12. CASE ReadMembers(r)
  <2>1. asked[r].chat \in ChatIds /\ asked[r].ids \in SUBSET Users
    BY <1>0, <1>12, Fields DEF CallOK, Adding, ReadMembers
  <2>2. new' \in [Calls -> SUBSET Users]
    BY <1>0, <1>12, <2>1 DEF TypeOK, ReadMembers, NewIds
  <2>3. todo' \in [Calls -> SUBSET Users]
    BY <1>0, <1>12, <2>2 DEF TypeOK, ReadMembers
  <2>4. Goto(r, "addFind") /\ UNCHANGED <<name, kind, members, current, inserted, lacked, left,
                                          failures>>
    BY <1>12 DEF ReadMembers, db, history
  <2>5. "addFind" \in Statement
    BY DEF Statement
  <2> QED BY <1>0, <2>2, <2>3, <2>4, <2>5, GotoTypes DEF TypeOK
<1>13. CASE AddNone(r)
  <2>1. Answer(r) /\ UNCHANGED <<name, kind, members, failures>>
    BY <1>13 DEF AddNone, db
  <2>2. CallTypes'
    BY <1>0, <2>1, AnswerTypes
  <2> QED BY <1>0, <2>1, <2>2 DEF TypeOK, CallTypes
<1>14. ASSUME NEW u \in Users, AddFind(r, u)
       PROVE  TypeOK'
  <2>1. \E s \in Statement : Goto(r, s)
    BY <1>14 DEF AddFind, Statement
  <2>2. current' \in [Calls -> Users \cup {None}]
    BY <1>0, <1>14 DEF TypeOK, AddFind
  <2>3. UNCHANGED <<name, kind, members, todo, new, inserted, lacked, left, failures>>
    BY <1>14 DEF AddFind, db, history
  <2> QED BY <1>0, <2>1, <2>2, <2>3, GotoTypes DEF TypeOK
<1>15. CASE AddUpdate(r)
  <2>1. Placed(r) /\ UNCHANGED <<kind, members>>
    BY <1>15 DEF AddUpdate
  <2> QED BY <1>0, <2>1, PlacedTypes DEF TypeOK, CallTypes
<1>16. CASE AddCreate(r)
  <2>1. UNCHANGED <<kind, members>>
    BY <1>16 DEF AddCreate
  <2>2. CASE Placed(r)
    BY <1>0, <2>1, <2>2, PlacedTypes DEF TypeOK, CallTypes
  <2>3. CASE Answer(r) /\ UNCHANGED <<name, failures>>
    BY <1>0, <2>1, <2>3, AnswerTypes DEF TypeOK, CallTypes
  <2> QED BY <1>16, <2>2, <2>3 DEF AddCreate
<1>17. CASE AddRows(r)
  <2>1. members' \in [ChatIds -> SUBSET Users]
    BY <1>0, <1>17 DEF TypeOK, AddRows
  <2>2. Answer(r) /\ UNCHANGED <<name, kind, failures>>
    BY <1>17 DEF AddRows
  <2> QED BY <1>0, <2>1, <2>2, AnswerTypes DEF TypeOK, CallTypes
<1>18. CASE CheckLeave(r)
  <2>1. UNCHANGED <<name, kind, members, failures>>
    BY <1>18 DEF CheckLeave, CheckMember, db
  <2>2. CASE Answer(r)
    BY <1>0, <2>1, <2>2, AnswerTypes DEF TypeOK, CallTypes
  <2>3. CASE Goto(r, "remove") /\ UNCHANGED <<todo, current, new, inserted, lacked, left>>
    <3>1. "remove" \in Statement
      BY DEF Statement
    <3> QED BY <1>0, <2>1, <2>3, <3>1, GotoTypes DEF TypeOK
  <2> QED BY <1>18, <2>2, <2>3 DEF CheckLeave, CheckMember
<1>19. CASE RemoveMember(r)
  <2>1. members' \in [ChatIds -> SUBSET Users]
    BY <1>0, <1>19 DEF TypeOK, RemoveMember
  <2>2. Return(r) /\ UNCHANGED <<name, kind, failures>>
    BY <1>19 DEF RemoveMember
  <2>3. user[r] \in Users
    BY <1>0, <1>19 DEF CallOK, RemoveMember
  <2>4. left' \in [Calls -> SUBSET Users]
    BY <1>0, <1>19, <2>3 DEF TypeOK, RemoveMember
  <2>5. lacked' \in [Calls -> SUBSET ChatIds]
    <3>1. asked[r].chat \in ChatIds
      BY <1>0, <1>19, Fields DEF CallOK, RemoveMember
    <3> QED BY <1>0, <1>19, <3>1 DEF TypeOK, RemoveMember
  <2> QED BY <1>0, <2>1, <2>2, <2>4, <2>5, ReturnTypes DEF TypeOK, CallTypes
<1>20. CASE StatementFails(r)
  <2>1. Answer(r) /\ UNCHANGED <<name, kind, members>>
    BY <1>20 DEF StatementFails, db
  <2>2. failures' \in 0..MaxFailures
    BY <1>0, <1>20, ChatsAssumption DEF TypeOK, StatementFails
  <2> QED BY <1>0, <2>1, <2>2, AnswerTypes DEF TypeOK, CallTypes
<1> QED BY <1>1, <1>2, <1>3, <1>4, <1>5, <1>6, <1>7, <1>8, <1>9, <1>10, <1>11, <1>12, <1>13,
           <1>14, <1>15, <1>16, <1>17, <1>18, <1>19, <1>20 DEF StepOf

\* What the invariant says of a call at its statement.
LEMMA CallFacts ==
  ASSUME Inv, NEW r \in Calls
  PROVE  /\ TypeOK
         /\ pc[r] # "idle" => user[r] \in Users /\ asked[r] \in Asked
         /\ pc[r] \in {"insertUser", "addUpdate", "addCreate"} =>
              current[r] \in todo[r] /\ current[r] \in Users
         /\ pc[r] \in Creating => /\ asked[r].op = "create"
                                  /\ asked[r].kind \in Kinds /\ asked[r].ids \in SUBSET Users
         /\ pc[r] \in Adding => /\ asked[r].op = "add"
                                /\ asked[r].chat \in ChatIds /\ asked[r].ids \in SUBSET Users
         /\ pc[r] \in {"checkLeave", "remove"} => asked[r].op = "leave" /\ asked[r].chat \in ChatIds
         /\ pc[r] = "checkAdd" => asked[r].op = "add" /\ asked[r].chat \in ChatIds
<1>1. TypeOK /\ CallOK(r)
  BY DEF Inv, CallInv
<1>2. pc[r] # "idle" => user[r] \in Users /\ asked[r] \in Asked
  BY <1>1 DEF CallOK
<1>3. pc[r] \in {"insertUser", "addUpdate", "addCreate"} =>
        current[r] \in todo[r] /\ current[r] \in Users
  BY <1>1 DEF TypeOK, CallOK
<1>4. pc[r] \in Creating => asked[r].op = "create" /\ asked[r] \in Asked
  BY <1>1 DEF CallOK, Creating
<1>5. pc[r] \in Adding \cup {"checkAdd"} => asked[r].op = "add" /\ asked[r] \in Asked
  BY <1>1 DEF CallOK, Adding
<1>6. pc[r] \in {"checkLeave", "remove"} => asked[r].op = "leave" /\ asked[r] \in Asked
  BY <1>1 DEF CallOK
<1> QED BY <1>1, <1>2, <1>3, <1>4, <1>5, <1>6, Fields

\* What a step of a call does to others: users and chats stay, and no user is created that
\* another transaction has inserted.
Spares(r) ==
  /\ Bystanders(r)
  /\ \A u \in Users : name[u] # None => name'[u] # None
  /\ \A u \in Users : name[u] = None /\ u \in Held(r) => name'[u] = None
  /\ \A u \in inserted'[r] : u \notin Held(r)
  /\ \A c \in ChatIds : kind[c] # None => kind'[c] = kind[c]
  /\ \A c \in ChatIds, p \in Calls \ {r} :
       kind[c] # None /\ AsksFor(p, c) => members[c] \subseteq members'[c] \cup left'[p]

\* A step of a call spares the others.
LEMMA Spared ==
  ASSUME Inv, NEW r \in Calls, StepOf(r)
  PROVE  Spares(r)
<1>0. /\ TypeOK /\ \A u \in inserted[r] : name[u] = None /\ u \notin Held(r)
      /\ pc[r] \notin InTransaction => inserted[r] = {}
      /\ pc[r] \in {"syncUpdate", "syncCreate"} => user[r] \in Users
      /\ pc[r] \in {"insertUser", "addUpdate", "addCreate"} => current[r] \in Users
      /\ pc[r] \in {"addRows", "remove"} => asked[r].chat \in ChatIds
      /\ \A k \in Kinds : k # None
      /\ pc[r] # "idle" => user[r] \in Users
      /\ None # "token" /\ None # "temp"
  <2>1. /\ TypeOK /\ \A u \in inserted[r] : name[u] = None /\ u \notin Held(r)
        /\ pc[r] \notin InTransaction => inserted[r] = {}
    BY DEF Inv, CallInv, InsertedOK
  <2>2. None # "token" /\ None # "temp" /\ \A k \in Kinds : k # None
    BY NoneAssumption
  <2> QED BY <2>1, <2>2, CallFacts DEF Creating, Adding
<1>1. ASSUME NEW u \in Users, NEW q \in Asked, Begin(r, u, q)
      PROVE  Spares(r)
  BY <1>0, <1>1, BeginEffect DEF Spares, Bystanders, Goes, Ends, Stays, InTransaction
<1>2. CASE SyncFind(r)
  BY <1>0, <1>2, SyncFindEffect DEF Spares, Bystanders, Goes, Ends, Stays, InTransaction
<1>3. CASE SyncUpdate(r)
  <2>1. user[r] \in Users /\ inserted[r] = {}
    BY <1>0, <1>3 DEF SyncUpdate, InTransaction
  <2>2. name[user[r]] # None
    BY <1>3 DEF Inv, CallInv, SeenOK, SyncUpdate
  <2> QED BY <1>0, <1>3, <2>1, <2>2, SyncUpdateEffect, EnterEffect DEF Spares, Bystanders, Goes
<1>4. CASE SyncCreate(r)
  <2>1. user[r] \in Users /\ inserted[r] = {}
    BY <1>0, <1>4 DEF SyncCreate, InTransaction
  <2> QED BY <1>0, <1>4, <2>1, SyncCreateEffect, EnterEffect DEF Spares, Bystanders, Goes, Ends
<1>5. CASE FindPrivate(r)
  BY <1>0, <1>5, FindPrivateEffect DEF Spares, Bystanders, Goes, Ends, Stays, InTransaction
<1>6. ASSUME NEW u \in Users, EnsureKnown(r, u)
      PROVE  Spares(r)
  BY <1>0, <1>6, EnsureKnownEffect DEF Spares, Bystanders, Goes, Ends, Stays, InTransaction
<1>7. ASSUME NEW u \in Users, EnsureUnknown(r, u)
      PROVE  Spares(r)
  BY <1>0, <1>7, EnsureUnknownEffect DEF Spares, Bystanders, Goes, Ends, Stays,
                                         InTransaction
<1>8. CASE InsertUser(r)
  BY <1>0, <1>8, InsertUserEffect DEF Spares, Bystanders, Goes, Ends, Stays, InTransaction
<1>9. CASE FailDeadlocked(r)
  BY <1>0, <1>9, DeadlockEffect DEF Spares, Bystanders, Goes, Ends, Stays, InTransaction
<1>10. CASE Commit(r)
  BY <1>0, <1>10, CommitEffect DEF Spares, Bystanders, Goes, Ends, Stays, InTransaction
<1>11. CASE CheckAdd(r)
  BY <1>0, <1>11, CheckEffect DEF Spares, Bystanders, Goes, Ends, Stays, InTransaction,
                                  CheckAdd
<1>12. CASE ReadMembers(r)
  BY <1>0, <1>12, ReadEffect DEF Spares, Bystanders, Goes, Ends, Stays, InTransaction
<1>13. CASE AddNone(r)
  BY <1>0, <1>13, AddNoneEffect DEF Spares, Bystanders, Goes, Ends, Stays, InTransaction
<1>14. ASSUME NEW u \in Users, AddFind(r, u)
       PROVE  Spares(r)
  BY <1>0, <1>14, AddFindEffect DEF Spares, Bystanders, Goes, Ends, Stays, InTransaction
<1>15. CASE AddUpdate(r)
  <2>1. current[r] \in Users /\ inserted[r] = {}
    BY <1>0, <1>15 DEF AddUpdate, InTransaction
  <2>2. name[current[r]] # None
    BY <1>15 DEF Inv, CallInv, SeenOK, AddUpdate
  <2>3. Placed(r) /\ UNCHANGED <<kind, members>>
    BY <1>15 DEF AddUpdate
  <2> QED BY <1>0, <2>1, <2>2, <2>3, PlacedEffect DEF Spares, Bystanders, Goes
<1>16. CASE AddCreate(r)
  <2>1. current[r] \in Users /\ inserted[r] = {}
    BY <1>0, <1>16 DEF AddCreate, InTransaction
  <2> QED BY <1>0, <1>16, <2>1, AddCreateEffect, PlacedEffect DEF Spares, Bystanders, Goes, Ends
<1>17. CASE AddRows(r)
  <2>1. asked[r].chat \in ChatIds /\ inserted[r] = {}
    BY <1>0, <1>17 DEF AddRows, InTransaction
  <2>2. Bystanders(r) /\ inserted'[r] = {} /\ UNCHANGED <<name, kind>>
    BY <1>0, <1>17, <2>1, AddRowsEffect DEF Ends
  <2>3. ASSUME NEW c \in ChatIds, NEW p \in Calls \ {r}, AsksFor(p, c)
        PROVE  members[c] \subseteq members'[c] \cup left'[p]
    BY <1>0, <1>17, <2>1, AddRowsEffect
  <2> QED BY <1>0, <2>2, <2>3 DEF Spares
<1>18. CASE CheckLeave(r)
  BY <1>0, <1>18, CheckEffect DEF Spares, Bystanders, Goes, Ends, Stays, InTransaction,
                                  CheckLeave
<1>19. CASE RemoveMember(r)
  <2>1. asked[r].chat \in ChatIds /\ inserted[r] = {}
    BY <1>0, <1>19 DEF RemoveMember, InTransaction
  <2>2. Bystanders(r) /\ inserted'[r] = {} /\ UNCHANGED <<name, kind>>
    BY <1>0, <1>19, <2>1, RemoveEffect DEF Ends
  <2>3. ASSUME NEW c \in ChatIds, NEW p \in Calls \ {r}, AsksFor(p, c)
        PROVE  members[c] \subseteq members'[c] \cup left'[p]
    BY <1>0, <1>19, <2>1, <2>3, RemoveEffect
  <2> QED BY <1>0, <2>2, <2>3 DEF Spares
<1>20. CASE StatementFails(r)
  BY <1>0, <1>20, FailEffect DEF Spares, Bystanders, Goes, Ends, Stays, InTransaction
<1> QED BY <1>1, <1>2, <1>3, <1>4, <1>5, <1>6, <1>7, <1>8, <1>9, <1>10, <1>11, <1>12, <1>13,
           <1>14, <1>15, <1>16, <1>17, <1>18, <1>19, <1>20 DEF StepOf

\* What a step of a call does to another that creates a private chat: only one of its users
\* who leaves makes a chat less than the one it asks for.
PairsSpared(r) ==
  \A c \in ChatIds, p \in Calls \ {r} :
    asked[p] # None /\ Pairs(asked[p]) /\ PrivateChatOf(c, asked[p].ids) =>
      \/ kind'[c] = "private" /\ asked[p].ids \subseteq members'[c]
      \/ c \in lacked'[p]


\* A step of a call spares the pairs of the others.
LEMMA PairsSpare ==
  ASSUME Inv, NEW r \in Calls, StepOf(r)
  PROVE  PairsSpared(r)
<1>0. TypeOK
  BY DEF Inv
<1>1. ASSUME NEW u \in Users, NEW q \in Asked, Begin(r, u, q)
      PROVE  PairsSpared(r)
  <2>1. UNCHANGED <<kind, members>>
    BY <1>0, <1>1, BeginEffect
  <2> QED BY <2>1 DEF PairsSpared, PrivateChatOf
<1>2. CASE SyncFind(r)
  <2>1. UNCHANGED <<kind, members>>
    BY <1>0, <1>2, SyncFindEffect
  <2> QED BY <2>1 DEF PairsSpared, PrivateChatOf
<1>3. CASE SyncUpdate(r)
  <2>1. UNCHANGED <<kind, members>>
    BY <1>0, <1>3 DEF SyncUpdate
  <2> QED BY <2>1 DEF PairsSpared, PrivateChatOf
<1>4. CASE SyncCreate(r)
  <2>1. UNCHANGED <<kind, members>>
    BY <1>0, <1>4 DEF SyncCreate
  <2> QED BY <2>1 DEF PairsSpared, PrivateChatOf
<1>5. CASE FindPrivate(r)
  <2>1. UNCHANGED <<kind, members>>
    BY <1>0, <1>5, FindPrivateEffect
  <2> QED BY <2>1 DEF PairsSpared, PrivateChatOf
<1>6. ASSUME NEW u \in Users, EnsureKnown(r, u)
      PROVE  PairsSpared(r)
  <2>1. UNCHANGED <<kind, members>>
    BY <1>0, <1>6, EnsureKnownEffect
  <2> QED BY <2>1 DEF PairsSpared, PrivateChatOf
<1>7. ASSUME NEW u \in Users, EnsureUnknown(r, u)
      PROVE  PairsSpared(r)
  <2>1. UNCHANGED <<kind, members>>
    BY <1>0, <1>7, EnsureUnknownEffect
  <2> QED BY <2>1 DEF PairsSpared, PrivateChatOf
<1>8. CASE InsertUser(r)
  <2>1. UNCHANGED <<kind, members>>
    BY <1>0, <1>8, InsertUserEffect
  <2> QED BY <2>1 DEF PairsSpared, PrivateChatOf
<1>9. CASE FailDeadlocked(r)
  <2>1. UNCHANGED <<kind, members>>
    BY <1>0, <1>9, DeadlockEffect
  <2> QED BY <2>1 DEF PairsSpared, PrivateChatOf
<1>10. CASE Commit(r)
  <2>1. \A c \in ChatIds : kind[c] # None => kind'[c] = kind[c] /\ members'[c] = members[c]
    BY <1>0, <1>10, CommitEffect
  <2>2. "private" # None
    BY NoneAssumption DEF Kinds
  <2> QED BY <2>1, <2>2 DEF PairsSpared, PrivateChatOf
<1>11. CASE CheckAdd(r)
  <2>1. UNCHANGED <<kind, members>>
    BY <1>0, <1>11, CheckEffect DEF CheckAdd
  <2> QED BY <2>1 DEF PairsSpared, PrivateChatOf
<1>12. CASE ReadMembers(r)
  <2>1. UNCHANGED <<kind, members>>
    BY <1>0, <1>12, ReadEffect
  <2> QED BY <2>1 DEF PairsSpared, PrivateChatOf
<1>13. CASE AddNone(r)
  <2>1. UNCHANGED <<kind, members>>
    BY <1>0, <1>13, AddNoneEffect
  <2> QED BY <2>1 DEF PairsSpared, PrivateChatOf
<1>14. ASSUME NEW u \in Users, AddFind(r, u)
       PROVE  PairsSpared(r)
  <2>1. UNCHANGED <<kind, members>>
    BY <1>0, <1>14, AddFindEffect
  <2> QED BY <2>1 DEF PairsSpared, PrivateChatOf
<1>15. CASE AddUpdate(r)
  <2>1. UNCHANGED <<kind, members>>
    BY <1>0, <1>15 DEF AddUpdate
  <2> QED BY <2>1 DEF PairsSpared, PrivateChatOf
<1>16. CASE AddCreate(r)
  <2>1. UNCHANGED <<kind, members>>
    BY <1>0, <1>16 DEF AddCreate
  <2> QED BY <2>1 DEF PairsSpared, PrivateChatOf
<1>17. CASE AddRows(r)
  <2>1. asked[r].chat \in ChatIds
    BY <1>17, CallFacts DEF AddRows, Adding
  <2>2. UNCHANGED kind /\ \A c \in ChatIds : c # asked[r].chat => members'[c] = members[c]
    BY <1>0, <1>17, <2>1, AddRowsEffect
  <2>3. members[asked[r].chat] \subseteq members'[asked[r].chat]
    BY <1>0, <1>17, <2>1, AddRowsEffect
  <2> QED BY <2>2, <2>3 DEF PairsSpared, PrivateChatOf
<1>18. CASE CheckLeave(r)
  <2>1. UNCHANGED <<kind, members>>
    BY <1>0, <1>18, CheckEffect DEF CheckLeave
  <2> QED BY <2>1 DEF PairsSpared, PrivateChatOf
<1>19. CASE RemoveMember(r)
  <2>1. asked[r].chat \in ChatIds
    BY <1>19, CallFacts DEF RemoveMember, Adding
  <2>2. UNCHANGED kind /\ \A c \in ChatIds : c # asked[r].chat => members'[c] = members[c]
    BY <1>0, <1>19, <2>1, RemoveEffect
  <2>3. members'[asked[r].chat] = members[asked[r].chat] \ {user[r]}
    BY <1>0, <1>19, <2>1, RemoveEffect
  <2>4. \A p \in Calls \ {r} : PairsWith(p, user[r]) => asked[r].chat \in lacked'[p]
    BY <1>0, <1>19, <2>1, RemoveEffect
  <2> QED BY <2>2, <2>3, <2>4 DEF PairsSpared, PrivateChatOf, PairsWith
<1>20. CASE StatementFails(r)
  <2>1. UNCHANGED <<kind, members>>
    BY <1>0, <1>20, FailEffect
  <2> QED BY <2>1 DEF PairsSpared, PrivateChatOf
<1> QED BY <1>1, <1>2, <1>3, <1>4, <1>5, <1>6, <1>7, <1>8, <1>9, <1>10, <1>11, <1>12, <1>13,
           <1>14, <1>15, <1>16, <1>17, <1>18, <1>19, <1>20 DEF StepOf

\* What is spared keeps its part of the invariant.
LEMMA OthersKept ==
  ASSUME Inv, NEW r \in Calls, Spares(r), PairsSpared(r), NEW p \in Calls \ {r}
  PROVE  (CallOK(p) /\ InsertedOK(p) /\ SeenOK(p) /\ ChatOK(p) /\ LackedOK(p))'
<1>1. /\ pc'[p] = pc[p] /\ user'[p] = user[p] /\ asked'[p] = asked[p] /\ todo'[p] = todo[p]
      /\ current'[p] = current[p] /\ new'[p] = new[p] /\ inserted'[p] = inserted[p]
      /\ lacked[p] \subseteq lacked'[p] /\ left[p] \subseteq left'[p]
  BY DEF Spares, Bystanders
<1>2. CallOK(p) /\ InsertedOK(p) /\ SeenOK(p) /\ ChatOK(p) /\ LackedOK(p)
  BY DEF Inv, CallInv
<1>3. TypeOK /\ inserted[p] \subseteq Users /\ todo[p] \subseteq Users /\ new[p] \subseteq Users
  BY DEF Inv, TypeOK
<1>4. \A u \in Users : name[u] # None => name'[u] # None
  BY DEF Spares
<1>5. CallOK(p)'
  BY <1>1, <1>2 DEF CallOK
<1>6. InsertedOK(p)'
  <2>1. \A u \in inserted[p] : name'[u] = None
    BY <1>2, <1>3 DEF InsertedOK, Spares, Held
  <2>2. ASSUME NEW u \in inserted[p], NEW q \in Calls \ {p}
        PROVE  u \notin inserted'[q]
    <3>1. CASE q = r
      BY <3>1 DEF Spares, Held
    <3>2. CASE q # r
      BY <1>2, <3>2 DEF Spares, Bystanders, InsertedOK, Held
    <3> QED BY <3>1, <3>2
  <2>3. \A u \in inserted'[p] : u \notin Held(p)'
    BY <1>1, <2>2 DEF Held
  <2> QED BY <1>1, <1>2, <2>1, <2>3 DEF InsertedOK
<1>7. SeenOK(p)'
  <2>1. pc[p] = "syncUpdate" => user[p] \in Users
    BY CallFacts
  <2>2. pc[p] = "addUpdate" => current[p] \in Users
    BY CallFacts
  <2>3. pc[p] \in Creating => asked[p].ids \in SUBSET Users
    BY CallFacts
  <2> QED BY <1>1, <1>2, <1>3, <1>4, <2>1, <2>2, <2>3 DEF SeenOK
<1>8. ChatOK(p)'
  <2>1. pc[p] \in Adding \cup {"remove"} =>
          /\ asked[p] \in Asked /\ asked[p].op # "create" /\ asked[p].chat \in ChatIds
          /\ kind[asked[p].chat] # None
    BY <1>2, CallFacts DEF ChatOK, Adding
  <2>2. None \notin Asked
    BY NoneAssumption
  <2>3. pc[p] \in Adding \cup {"remove"} =>
          /\ kind'[asked[p].chat] # None
          /\ members[asked[p].chat] \subseteq members'[asked[p].chat] \cup left'[p]
    BY <2>1, <2>2 DEF Spares, AsksFor
  <2> QED BY <1>1, <1>2, <2>3 DEF ChatOK, AfterRead, Adding
<1>9. LackedOK(p)'
  <2> SUFFICES ASSUME pc[p] # "idle", Pairs(asked[p])
               PROVE  /\ \A c \in ChatIds :
                           \/ kind'[c] = "private" /\ asked[p].ids \subseteq members'[c]
                           \/ c \in lacked'[p]
                      /\ pc[p] \in InTransaction =>
                           \A v \in Users : v # user[p] /\ asked[p].ids = {user[p], v} =>
                             ChatIds \subseteq lacked'[p]
    BY <1>1 DEF LackedOK, PrivateChatOf
  <2>1. asked[p] # None
    BY CallFacts, NoneAssumption
  <2>2. /\ \A c \in ChatIds : PrivateChatOf(c, asked[p].ids) \/ c \in lacked[p]
        /\ pc[p] \in InTransaction =>
             \A v \in Users : v # user[p] /\ asked[p].ids = {user[p], v} =>
               ChatIds \subseteq lacked[p]
    BY <1>2 DEF LackedOK
  <2>3. \A c \in ChatIds : \/ kind'[c] = "private" /\ asked[p].ids \subseteq members'[c]
                           \/ c \in lacked'[p]
    BY <1>1, <2>1, <2>2 DEF PairsSpared
  <2> QED BY <1>1, <2>2, <2>3
<1> QED BY <1>5, <1>6, <1>7, <1>8, <1>9

\* A call keeps to its handler.
LEMMA CallKept ==
  ASSUME Inv, NEW r \in Calls, StepOf(r)
  PROVE  CallOK(r)'
<1>0. TypeOK /\ CallOK(r) /\ (pc[r] # "idle" => asked[r] \in Asked /\ user[r] \in Users)
  BY DEF Inv, CallInv, CallOK
<1>1. ASSUME NEW u \in Users, NEW q \in Asked, Begin(r, u, q)
      PROVE  CallOK(r)'
  BY <1>0, <1>1, BeginEffect DEF CallOK, Creating, Adding, Goes, Ends, Stays
<1>2. CASE SyncFind(r)
  BY <1>0, <1>2, SyncFindEffect DEF CallOK, Creating, Adding, Goes, Ends, Stays
<1>3. CASE SyncUpdate(r)
  <2>1. asked[r] \in Asked /\ user[r] \in Users
    BY <1>0, <1>3 DEF CallOK, SyncUpdate
  <2> QED BY <1>0, <1>3, <2>1, SyncUpdateEffect, EnterEffect, HandlerOK, Fields
          DEF CallOK, Creating, Adding, Goes, Ends
<1>4. CASE SyncCreate(r)
  <2>1. asked[r] \in Asked /\ user[r] \in Users
    BY <1>0, <1>4 DEF CallOK, SyncCreate
  <2> QED BY <1>0, <1>4, <2>1, SyncCreateEffect, EnterEffect, HandlerOK, Fields
          DEF CallOK, Creating, Adding, Goes, Ends
<1>5. CASE FindPrivate(r)
  BY <1>0, <1>5, FindPrivateEffect DEF CallOK, Creating, Adding, Goes, Ends, Stays
<1>6. ASSUME NEW u \in Users, EnsureKnown(r, u)
      PROVE  CallOK(r)'
  BY <1>0, <1>6, EnsureKnownEffect DEF CallOK, Creating, Adding, Goes, Ends, Stays
<1>7. ASSUME NEW u \in Users, EnsureUnknown(r, u)
      PROVE  CallOK(r)'
  BY <1>0, <1>7, EnsureUnknownEffect DEF CallOK, Creating, Adding, Goes, Ends, Stays
<1>8. CASE InsertUser(r)
  BY <1>0, <1>8, InsertUserEffect DEF CallOK, Creating, Adding, Goes, Ends, Stays
<1>9. CASE FailDeadlocked(r)
  BY <1>0, <1>9, DeadlockEffect DEF CallOK, Creating, Adding, Goes, Ends, Stays
<1>10. CASE Commit(r)
  BY <1>0, <1>10, CommitEffect DEF CallOK, Creating, Adding, Goes, Ends, Stays
<1>11. CASE CheckAdd(r)
  BY <1>0, <1>11, CheckEffect, CallFacts DEF CallOK, Creating, Adding, Goes, Ends, Stays,
                                             CheckAdd
<1>12. CASE ReadMembers(r)
  BY <1>0, <1>12, ReadEffect DEF CallOK, Creating, Adding, Goes, Ends, Stays
<1>13. CASE AddNone(r)
  BY <1>0, <1>13, AddNoneEffect DEF CallOK, Creating, Adding, Goes, Ends, Stays
<1>14. ASSUME NEW u \in Users, AddFind(r, u)
       PROVE  CallOK(r)'
  BY <1>0, <1>14, AddFindEffect DEF CallOK, Creating, Adding, Goes, Ends, Stays
<1>15. CASE AddUpdate(r)
  BY <1>0, <1>15, PlacedEffect, CallFacts DEF CallOK, Creating, Adding, Goes, Ends, Stays,
                                              AddUpdate
<1>16. CASE AddCreate(r)
  BY <1>0, <1>16, AddCreateEffect, PlacedEffect, CallFacts DEF CallOK, Creating, Adding,
                                                               Goes, Ends, Stays
<1>17. CASE AddRows(r)
  <2>1. asked[r].chat \in ChatIds
    BY <1>17, CallFacts DEF AddRows, Adding
  <2>2. Ends(r)
    BY <1>0, <1>17, <2>1, AddRowsEffect
  <2> QED BY <2>2 DEF Ends, CallOK, Creating, Adding
<1>18. CASE CheckLeave(r)
  BY <1>0, <1>18, CheckEffect DEF CallOK, Creating, Adding, Goes, Ends, Stays, CheckLeave
<1>19. CASE RemoveMember(r)
  <2>1. asked[r].chat \in ChatIds
    BY <1>19, CallFacts DEF RemoveMember, Adding
  <2>2. Ends(r)
    BY <1>0, <1>19, <2>1, RemoveEffect
  <2> QED BY <2>2 DEF Ends, CallOK, Creating, Adding
<1>20. CASE StatementFails(r)
  BY <1>0, <1>20, FailEffect DEF CallOK, Creating, Adding, Goes, Ends, Stays
<1> QED BY <1>1, <1>2, <1>3, <1>4, <1>5, <1>6, <1>7, <1>8, <1>9, <1>10, <1>11, <1>12, <1>13,
           <1>14, <1>15, <1>16, <1>17, <1>18, <1>19, <1>20 DEF StepOf

\* The other calls of a call hold what they held.
LEMMA HeldSame ==
  ASSUME NEW r \in Calls, Bystanders(r)
  PROVE  Held(r)' = Held(r)
BY DEF Bystanders, Held

\* Its transaction has inserted users that are not there.
LEMMA InsertedKept ==
  ASSUME Inv, NEW r \in Calls, StepOf(r)
  PROVE  InsertedOK(r)'
<1>0. /\ TypeOK /\ (pc[r] \notin InTransaction => inserted[r] = {})
      /\ \A u \in inserted[r] : name[u] = None
      /\ Spares(r) /\ Held(r)' = Held(r)
  BY Spared, HeldSame DEF Inv, CallInv, InsertedOK, Spares
<1>1. ASSUME NEW u \in Users, NEW q \in Asked, Begin(r, u, q)
      PROVE  InsertedOK(r)'
  BY <1>0, <1>1, BeginEffect DEF InsertedOK, InTransaction, Spares, Bystanders, Goes, Ends,
                                 Stays
<1>2. CASE SyncFind(r)
  BY <1>0, <1>2, SyncFindEffect DEF InsertedOK, InTransaction, Spares, Bystanders, Goes,
                                    Ends, Stays
<1>3. CASE SyncUpdate(r)
  <2>1. inserted'[r] = {}
    BY <1>0, <1>3, CallFacts, SyncUpdateEffect, EnterEffect DEF SyncUpdate, InTransaction, Goes,
                                                                Ends
  <2> QED BY <2>1 DEF InsertedOK
<1>4. CASE SyncCreate(r)
  <2>1. inserted'[r] = {}
    BY <1>0, <1>4, CallFacts, SyncCreateEffect, EnterEffect DEF SyncCreate, InTransaction, Goes,
                                                                Ends
  <2> QED BY <2>1 DEF InsertedOK
<1>5. CASE FindPrivate(r)
  BY <1>0, <1>5, FindPrivateEffect DEF InsertedOK, InTransaction, Spares, Bystanders, Goes,
                                       Ends, Stays
<1>6. ASSUME NEW u \in Users, EnsureKnown(r, u)
      PROVE  InsertedOK(r)'
  BY <1>0, <1>6, EnsureKnownEffect DEF InsertedOK, InTransaction, Spares, Bystanders, Goes,
                                       Ends, Stays
<1>7. ASSUME NEW u \in Users, EnsureUnknown(r, u)
      PROVE  InsertedOK(r)'
  BY <1>0, <1>7, EnsureUnknownEffect DEF InsertedOK, InTransaction, Spares, Bystanders, Goes,
                                         Ends, Stays
<1>8. CASE InsertUser(r)
  <2>1. name' = name
    BY <1>0, <1>8, InsertUserEffect
  <2>2. \A u \in inserted'[r] : name[u] = None
    BY <1>0, <1>8, InsertUserEffect DEF Ends
  <2>3. pc'[r] \in InTransaction \/ inserted'[r] = {}
    BY <1>0, <1>8, InsertUserEffect DEF Ends, Goes, InTransaction
  <2>4. \A u \in inserted'[r] : u \notin Held(r)'
    BY <1>0 DEF Spares
  <2> QED BY <2>1, <2>2, <2>3, <2>4 DEF InsertedOK
<1>9. CASE FailDeadlocked(r)
  BY <1>0, <1>9, DeadlockEffect DEF InsertedOK, InTransaction, Spares, Bystanders, Goes,
                                    Ends, Stays
<1>10. CASE Commit(r)
  BY <1>0, <1>10, CommitEffect DEF InsertedOK, InTransaction, Spares, Bystanders, Goes, Ends,
                                   Stays
<1>11. CASE CheckAdd(r)
  BY <1>0, <1>11, CheckEffect DEF InsertedOK, InTransaction, Spares, Bystanders, Goes, Ends,
                                  Stays, CheckAdd
<1>12. CASE ReadMembers(r)
  BY <1>0, <1>12, ReadEffect DEF InsertedOK, InTransaction, Spares, Bystanders, Goes, Ends,
                                 Stays
<1>13. CASE AddNone(r)
  BY <1>0, <1>13, AddNoneEffect DEF InsertedOK, InTransaction, Spares, Bystanders, Goes,
                                    Ends, Stays
<1>14. ASSUME NEW u \in Users, AddFind(r, u)
       PROVE  InsertedOK(r)'
  BY <1>0, <1>14, AddFindEffect DEF InsertedOK, InTransaction, Spares, Bystanders, Goes,
                                    Ends, Stays
<1>15. CASE AddUpdate(r)
  <2>1. current[r] \in Users
    BY <1>15, CallFacts DEF AddUpdate
  <2>2. inserted'[r] = {}
    BY <1>0, <1>15, <2>1, PlacedEffect, AddCreateEffect DEF AddUpdate, InTransaction, Goes, Ends
  <2> QED BY <2>2 DEF InsertedOK
<1>16. CASE AddCreate(r)
  <2>1. current[r] \in Users
    BY <1>16, CallFacts DEF AddCreate
  <2>2. inserted'[r] = {}
    BY <1>0, <1>16, <2>1, PlacedEffect, AddCreateEffect DEF AddCreate, InTransaction, Goes, Ends
  <2> QED BY <2>2 DEF InsertedOK
<1>17. CASE AddRows(r)
  <2>1. asked[r].chat \in ChatIds
    BY <1>17, CallFacts DEF AddRows, Adding
  <2>2. Ends(r)
    BY <1>0, <1>17, <2>1, AddRowsEffect
  <2> QED BY <2>2 DEF Ends, InsertedOK
<1>18. CASE CheckLeave(r)
  BY <1>0, <1>18, CheckEffect DEF InsertedOK, InTransaction, Spares, Bystanders, Goes, Ends,
                                  Stays, CheckLeave
<1>19. CASE RemoveMember(r)
  <2>1. asked[r].chat \in ChatIds
    BY <1>19, CallFacts DEF RemoveMember, Adding
  <2>2. Ends(r)
    BY <1>0, <1>19, <2>1, RemoveEffect
  <2> QED BY <2>2 DEF Ends, InsertedOK
<1>20. CASE StatementFails(r)
  BY <1>0, <1>20, FailEffect DEF InsertedOK, InTransaction, Spares, Bystanders, Goes, Ends,
                                 Stays
<1> QED BY <1>1, <1>2, <1>3, <1>4, <1>5, <1>6, <1>7, <1>8, <1>9, <1>10, <1>11, <1>12, <1>13,
           <1>14, <1>15, <1>16, <1>17, <1>18, <1>19, <1>20 DEF StepOf

\* It has seen or inserted the users its loop has done.
LEMMA SeenKept ==
  ASSUME Inv, NEW r \in Calls, StepOf(r)
  PROVE  SeenOK(r)'
<1>0. TypeOK /\ SeenOK(r) /\ CallOK(r) /\ Spares(r)
  BY Spared DEF Inv, CallInv
<1>1. ASSUME NEW u \in Users, NEW q \in Asked, Begin(r, u, q)
      PROVE  SeenOK(r)'
  BY <1>0, <1>1, BeginEffect DEF SeenOK, CallOK, Creating, Adding, AfterRead, Goes, Ends,
                                 Stays
<1>2. CASE SyncFind(r)
  BY <1>0, <1>2, SyncFindEffect DEF SeenOK, CallOK, Creating, Adding, AfterRead, Goes, Ends,
                                    Stays
<1>3. CASE SyncUpdate(r)
  <2>1. user[r] \in Users /\ asked[r] \in Asked
    BY <1>3, CallFacts DEF SyncUpdate
  <2>2. \/ Ends(r)
        \/ /\ Goes(r, Handler(r))
           /\ todo'[r] = IF asked[r].op = "create" THEN asked[r].ids ELSE {}
    BY <1>0, <1>3, <2>1, SyncUpdateEffect, EnterEffect
  <2> QED BY <2>1, <2>2, HandlerOK, Fields DEF SeenOK, Creating, AfterRead, Goes, Ends
<1>4. CASE SyncCreate(r)
  <2>1. user[r] \in Users /\ asked[r] \in Asked
    BY <1>4, CallFacts DEF SyncCreate
  <2>2. \/ Ends(r)
        \/ /\ Goes(r, Handler(r))
           /\ todo'[r] = IF asked[r].op = "create" THEN asked[r].ids ELSE {}
    BY <1>0, <1>4, <2>1, SyncCreateEffect, EnterEffect
  <2> QED BY <2>1, <2>2, HandlerOK, Fields DEF SeenOK, Creating, AfterRead, Goes, Ends
<1>5. CASE FindPrivate(r)
  BY <1>0, <1>5, FindPrivateEffect DEF SeenOK, CallOK, Creating, Adding, AfterRead, Goes,
                                       Ends, Stays
<1>6. ASSUME NEW u \in Users, EnsureKnown(r, u)
      PROVE  SeenOK(r)'
  <2>1. /\ pc[r] = "ensure" /\ name[u] # None /\ name' = name /\ inserted'[r] = inserted[r]
        /\ pc'[r] \in {"commit", "ensure"} /\ asked'[r] = asked[r] /\ todo'[r] = todo[r] \ {u}
    BY <1>0, <1>6, EnsureKnownEffect DEF Goes
  <2> QED BY <1>0, <2>1 DEF SeenOK, Creating, AfterRead
<1>7. ASSUME NEW u \in Users, EnsureUnknown(r, u)
      PROVE  SeenOK(r)'
  BY <1>0, <1>7, EnsureUnknownEffect DEF SeenOK, CallOK, Creating, Adding, AfterRead, Goes,
                                         Ends, Stays
<1>8. CASE InsertUser(r)
  <2>1. CASE name[current[r]] = None
    <3>1. /\ pc[r] = "insertUser" /\ name' = name /\ inserted'[r] = inserted[r] \cup {current[r]}
          /\ pc'[r] \in {"commit", "ensure"} /\ asked'[r] = asked[r]
          /\ todo'[r] = todo[r] \ {current[r]}
      BY <1>0, <1>8, <2>1, InsertUserEffect DEF Goes
    <3> QED BY <1>0, <3>1 DEF SeenOK, Creating, AfterRead
  <2>2. CASE name[current[r]] # None
    BY <1>0, <1>8, <2>2, InsertUserEffect DEF SeenOK, Creating, AfterRead, Ends
  <2> QED BY <2>1, <2>2
<1>9. CASE FailDeadlocked(r)
  BY <1>0, <1>9, DeadlockEffect DEF SeenOK, CallOK, Creating, Adding, AfterRead, Goes, Ends,
                                    Stays
<1>10. CASE Commit(r)
  BY <1>0, <1>10, CommitEffect DEF SeenOK, CallOK, Creating, Adding, AfterRead, Goes, Ends,
                                   Stays
<1>11. CASE CheckAdd(r)
  BY <1>0, <1>11, CheckEffect DEF SeenOK, CallOK, Creating, Adding, AfterRead, Goes, Ends,
                                  Stays, CheckAdd
<1>12. CASE ReadMembers(r)
  BY <1>0, <1>12, ReadEffect DEF SeenOK, CallOK, Creating, Adding, AfterRead, Goes, Ends,
                                 Stays
<1>13. CASE AddNone(r)
  BY <1>0, <1>13, AddNoneEffect DEF SeenOK, CallOK, Creating, Adding, AfterRead, Goes, Ends,
                                    Stays
<1>14. ASSUME NEW u \in Users, AddFind(r, u)
       PROVE  SeenOK(r)'
  BY <1>0, <1>14, AddFindEffect DEF SeenOK, CallOK, Creating, Adding, AfterRead, Goes, Ends,
                                    Stays
<1>15. CASE AddUpdate(r)
  <2>1. current[r] \in Users /\ pc[r] \in AfterRead /\ pc[r] \notin Creating
    BY <1>15, CallFacts DEF AddUpdate, AfterRead, Creating
  <2>2. CASE Placed(r)
    <3>1. /\ name'[current[r]] = "temp" /\ pc'[r] \in {"addRows", "addFind"} /\ new'[r] = new[r]
          /\ todo'[r] = todo[r] \ {current[r]}
      BY <1>0, <2>1, <2>2, PlacedEffect DEF Goes
    <3>2. \A u \in new[r] \ todo[r] : name'[u] # None
      BY <1>0, <2>1 DEF TypeOK, SeenOK, Spares
    <3>3. "temp" # None
      BY NoneAssumption
    <3> QED BY <3>1, <3>2, <3>3 DEF SeenOK, Creating, AfterRead
  <2> QED BY <1>15, <2>2 DEF AddUpdate
<1>16. CASE AddCreate(r)
  <2>1. current[r] \in Users /\ pc[r] \in AfterRead /\ pc[r] \notin Creating
    BY <1>16, CallFacts DEF AddCreate, AfterRead, Creating
  <2>2. CASE Placed(r)
    <3>1. /\ name'[current[r]] = "temp" /\ pc'[r] \in {"addRows", "addFind"} /\ new'[r] = new[r]
          /\ todo'[r] = todo[r] \ {current[r]}
      BY <1>0, <2>1, <2>2, PlacedEffect DEF Goes
    <3>2. \A u \in new[r] \ todo[r] : name'[u] # None
      BY <1>0, <2>1 DEF TypeOK, SeenOK, Spares
    <3>3. "temp" # None
      BY NoneAssumption
    <3> QED BY <3>1, <3>2, <3>3 DEF SeenOK, Creating, AfterRead
  <2>3. CASE Ends(r)
    BY <2>3 DEF SeenOK, Creating, AfterRead, Ends
  <2> QED BY <1>0, <1>16, <2>2, <2>3, AddCreateEffect
<1>17. CASE AddRows(r)
  <2>1. asked[r].chat \in ChatIds
    BY <1>17, CallFacts DEF AddRows, Adding
  <2>2. Ends(r)
    BY <1>0, <1>17, <2>1, AddRowsEffect
  <2> QED BY <2>2 DEF Ends, SeenOK, Creating, AfterRead
<1>18. CASE CheckLeave(r)
  BY <1>0, <1>18, CheckEffect DEF SeenOK, CallOK, Creating, Adding, AfterRead, Goes, Ends,
                                  Stays, CheckLeave
<1>19. CASE RemoveMember(r)
  <2>1. asked[r].chat \in ChatIds
    BY <1>19, CallFacts DEF RemoveMember, Adding
  <2>2. Ends(r)
    BY <1>0, <1>19, <2>1, RemoveEffect
  <2> QED BY <2>2 DEF Ends, SeenOK, Creating, AfterRead
<1>20. CASE StatementFails(r)
  BY <1>0, <1>20, FailEffect DEF SeenOK, CallOK, Creating, Adding, AfterRead, Goes, Ends,
                                 Stays
<1> QED BY <1>1, <1>2, <1>3, <1>4, <1>5, <1>6, <1>7, <1>8, <1>9, <1>10, <1>11, <1>12, <1>13,
           <1>14, <1>15, <1>16, <1>17, <1>18, <1>19, <1>20 DEF StepOf

\* Its chat is there, and holds whom it was asked to add but those who are new or left.
LEMMA ChatKept ==
  ASSUME Inv, NEW r \in Calls, StepOf(r)
  PROVE  ChatOK(r)'
<1>0. TypeOK /\ ChatOK(r) /\ KindInv
  BY DEF Inv, CallInv
<1>1. ASSUME NEW u \in Users, NEW q \in Asked, Begin(r, u, q)
      PROVE  ChatOK(r)'
  BY <1>0, <1>1, BeginEffect DEF ChatOK, Adding, AfterRead, Goes, Ends, Stays
<1>2. CASE SyncFind(r)
  BY <1>0, <1>2, SyncFindEffect DEF ChatOK, Adding, AfterRead, Goes, Ends, Stays
<1>3. CASE SyncUpdate(r)
  <2>1. user[r] \in Users /\ asked[r] \in Asked
    BY <1>3, CallFacts DEF SyncUpdate
  <2>2. pc'[r] = "idle" \/ pc'[r] = Handler(r)
    BY <1>0, <1>3, <2>1, SyncUpdateEffect, EnterEffect DEF Ends, Goes
  <2> QED BY <2>1, <2>2, HandlerOK DEF ChatOK, Adding, AfterRead
<1>4. CASE SyncCreate(r)
  <2>1. user[r] \in Users /\ asked[r] \in Asked
    BY <1>4, CallFacts DEF SyncCreate
  <2>2. pc'[r] = "idle" \/ pc'[r] = Handler(r)
    BY <1>0, <1>4, <2>1, SyncCreateEffect, EnterEffect DEF Ends, Goes
  <2> QED BY <2>1, <2>2, HandlerOK DEF ChatOK, Adding, AfterRead
<1>5. CASE FindPrivate(r)
  BY <1>0, <1>5, FindPrivateEffect DEF ChatOK, Adding, AfterRead, Goes, Ends, Stays
<1>6. ASSUME NEW u \in Users, EnsureKnown(r, u)
      PROVE  ChatOK(r)'
  BY <1>0, <1>6, EnsureKnownEffect DEF ChatOK, Adding, AfterRead, Goes, Ends, Stays
<1>7. ASSUME NEW u \in Users, EnsureUnknown(r, u)
      PROVE  ChatOK(r)'
  BY <1>0, <1>7, EnsureUnknownEffect DEF ChatOK, Adding, AfterRead, Goes, Ends, Stays
<1>8. CASE InsertUser(r)
  BY <1>0, <1>8, InsertUserEffect DEF ChatOK, Adding, AfterRead, Goes, Ends, Stays
<1>9. CASE FailDeadlocked(r)
  BY <1>0, <1>9, DeadlockEffect DEF ChatOK, Adding, AfterRead, Goes, Ends, Stays
<1>10. CASE Commit(r)
  BY <1>0, <1>10, CommitEffect DEF ChatOK, Adding, AfterRead, Goes, Ends, Stays
<1>11. CASE CheckAdd(r)
  <2>1. asked[r].chat \in ChatIds
    BY <1>11, CallFacts DEF CheckAdd
  <2>2. CASE user[r] \in members[asked[r].chat] /\ Goes(r, "readMembers")
    <3>1. kind[asked[r].chat] # None
      BY <1>0, <2>1, <2>2 DEF KindInv
    <3> QED BY <1>0, <1>11, <2>2, <3>1, CheckEffect DEF CheckAdd, ChatOK, Adding, AfterRead, Goes
  <2>3. CASE Ends(r)
    BY <2>3 DEF ChatOK, Adding, AfterRead, Ends
  <2> QED BY <1>0, <1>11, <2>2, <2>3, CheckEffect DEF CheckAdd
<1>12. CASE ReadMembers(r)
  BY <1>0, <1>12, ReadEffect DEF ChatOK, Adding, AfterRead, Goes, Ends, Stays
<1>13. CASE AddNone(r)
  BY <1>0, <1>13, AddNoneEffect DEF ChatOK, Adding, AfterRead, Goes, Ends, Stays
<1>14. ASSUME NEW u \in Users, AddFind(r, u)
       PROVE  ChatOK(r)'
  BY <1>0, <1>14, AddFindEffect DEF ChatOK, Adding, AfterRead, Goes, Ends, Stays
<1>15. CASE AddUpdate(r)
  <2>1. current[r] \in Users /\ UNCHANGED <<kind, members>>
    BY <1>15, CallFacts DEF AddUpdate
  <2>2. CASE Placed(r)
    BY <1>0, <1>15, <2>1, <2>2, PlacedEffect DEF AddUpdate, ChatOK, Adding, AfterRead, Goes
  <2>3. CASE Ends(r)
    BY <2>3 DEF ChatOK, Adding, AfterRead, Ends
  <2> QED BY <1>0, <1>15, <2>2, <2>3 DEF AddUpdate
<1>16. CASE AddCreate(r)
  <2>1. current[r] \in Users /\ UNCHANGED <<kind, members>>
    BY <1>16, CallFacts DEF AddCreate
  <2>2. CASE Placed(r)
    BY <1>0, <1>16, <2>1, <2>2, PlacedEffect DEF AddCreate, ChatOK, Adding, AfterRead, Goes
  <2>3. CASE Ends(r)
    BY <2>3 DEF ChatOK, Adding, AfterRead, Ends
  <2> QED BY <1>0, <1>16, <2>2, <2>3, AddCreateEffect DEF AddCreate
<1>17. CASE AddRows(r)
  <2>1. asked[r].chat \in ChatIds
    BY <1>17, CallFacts DEF AddRows, Adding
  <2>2. Ends(r)
    BY <1>0, <1>17, <2>1, AddRowsEffect
  <2> QED BY <2>2 DEF Ends, ChatOK, Adding, AfterRead
<1>18. CASE CheckLeave(r)
  <2>1. asked[r].chat \in ChatIds
    BY <1>18, CallFacts DEF CheckLeave
  <2>2. CASE user[r] \in members[asked[r].chat] /\ Goes(r, "remove")
    <3>1. kind[asked[r].chat] # None
      BY <1>0, <2>1, <2>2 DEF KindInv
    <3> QED BY <1>0, <1>18, <2>2, <3>1, CheckEffect DEF CheckLeave, ChatOK, Adding, AfterRead, Goes
  <2>3. CASE Ends(r)
    BY <2>3 DEF ChatOK, Adding, AfterRead, Ends
  <2> QED BY <1>0, <1>18, <2>2, <2>3, CheckEffect DEF CheckLeave
<1>19. CASE RemoveMember(r)
  <2>1. asked[r].chat \in ChatIds
    BY <1>19, CallFacts DEF RemoveMember, Adding
  <2>2. Ends(r)
    BY <1>0, <1>19, <2>1, RemoveEffect
  <2> QED BY <2>2 DEF Ends, ChatOK, Adding, AfterRead
<1>20. CASE StatementFails(r)
  BY <1>0, <1>20, FailEffect DEF ChatOK, Adding, AfterRead, Goes, Ends, Stays
<1> QED BY <1>1, <1>2, <1>3, <1>4, <1>5, <1>6, <1>7, <1>8, <1>9, <1>10, <1>11, <1>12, <1>13,
           <1>14, <1>15, <1>16, <1>17, <1>18, <1>19, <1>20 DEF StepOf

\* What a call has lacked stays when the call and its chats do and its lookup is not now done,
LEMMA LackedStays ==
  ASSUME NEW r \in Calls, LackedOK(r), pc[r] # "idle", asked'[r] = asked[r], user'[r] = user[r],
         lacked'[r] = lacked[r], UNCHANGED <<kind, members>>,
         pc'[r] \in InTransaction /\ Pairs(asked[r]) => pc[r] \in InTransaction
  PROVE  LackedOK(r)'
BY DEF LackedOK, PrivateChatOf

\* and is of no matter once the call has ended.
LEMMA LackedEnds ==
  ASSUME NEW r \in Calls, pc'[r] = "idle"
  PROVE  LackedOK(r)'
BY DEF LackedOK

\* What it has lacked holds of its chats.
LEMMA LackedKept ==
  ASSUME Inv, NEW r \in Calls, StepOf(r)
  PROVE  LackedOK(r)'
<1>0. TypeOK /\ LackedOK(r)
  BY DEF Inv, CallInv
<1>1. ASSUME NEW u \in Users, NEW q \in Asked, Begin(r, u, q)
      PROVE  LackedOK(r)'
  <2>1. /\ pc'[r] = "syncFind" /\ asked'[r] = q /\ lacked'[r] = Lacking(q)
        /\ UNCHANGED <<kind, members>>
    BY <1>0, <1>1, BeginEffect
  <2> QED BY <2>1 DEF LackedOK, Lacking, PrivateChatOf, InTransaction
<1>2. CASE SyncFind(r)
  <2>1. /\ pc[r] # "idle" /\ asked'[r] = asked[r] /\ user'[r] = user[r]
        /\ lacked'[r] = lacked[r] /\ UNCHANGED <<kind, members>>
    BY <1>0, <1>2, SyncFindEffect DEF Goes, Stays
  <2>2. pc'[r] \in InTransaction => pc[r] \in InTransaction
    BY <1>0, <1>2, SyncFindEffect DEF Goes, InTransaction
  <2> QED BY <1>0, <2>1, <2>2, LackedStays
<1>3. CASE SyncUpdate(r)
  <2>0. user[r] \in Users /\ asked[r] \in Asked
    BY <1>3, CallFacts DEF SyncUpdate
  <2>1. CASE Ends(r)
    BY <2>1, LackedEnds DEF Ends
  <2>2. CASE Enter(r)
    <3>1. /\ pc[r] # "idle" /\ asked'[r] = asked[r] /\ user'[r] = user[r] /\ pc'[r] = Handler(r)
          /\ lacked'[r] = lacked[r] /\ UNCHANGED <<kind, members>>
      BY <1>0, <1>3, <2>2, EnterEffect DEF Goes, SyncUpdate
    <3>2. Pairs(asked[r]) => Handler(r) = "findPrivate"
      BY <2>0, HandlerOK DEF Pairs
    <3>3. pc'[r] \in InTransaction => ~ Pairs(asked[r])
      BY <3>1, <3>2 DEF InTransaction
    <3> QED BY <1>0, <3>1, <3>3, LackedStays
  <2> QED BY <1>0, <1>3, <2>0, <2>1, <2>2, SyncUpdateEffect DEF SyncUpdate
<1>4. CASE SyncCreate(r)
  <2>0. user[r] \in Users /\ asked[r] \in Asked
    BY <1>4, CallFacts DEF SyncCreate
  <2>1. CASE Ends(r)
    BY <2>1, LackedEnds DEF Ends
  <2>2. CASE Enter(r)
    <3>1. /\ pc[r] # "idle" /\ asked'[r] = asked[r] /\ user'[r] = user[r] /\ pc'[r] = Handler(r)
          /\ lacked'[r] = lacked[r] /\ UNCHANGED <<kind, members>>
      BY <1>0, <1>4, <2>2, EnterEffect DEF Goes, SyncCreate
    <3>2. Pairs(asked[r]) => Handler(r) = "findPrivate"
      BY <2>0, HandlerOK DEF Pairs
    <3>3. pc'[r] \in InTransaction => ~ Pairs(asked[r])
      BY <3>1, <3>2 DEF InTransaction
    <3> QED BY <1>0, <3>1, <3>3, LackedStays
  <2> QED BY <1>0, <1>4, <2>0, <2>1, <2>2, SyncCreateEffect DEF SyncCreate
<1>5. CASE FindPrivate(r)
  <2>1. CASE Ends(r)
    BY <2>1, LackedEnds DEF Ends
  <2>2. ASSUME Goes(r, "ensure"), lacked'[r] = lacked[r], NEW v \in Others(r),
               \A c \in ChatIds : ~IsPrivate(c, user[r], v)
        PROVE  LackedOK(r)'
    <3>1. /\ pc[r] = "findPrivate" /\ asked'[r] = asked[r] /\ user'[r] = user[r]
          /\ UNCHANGED <<kind, members>>
      BY <1>0, <1>5, <2>2, FindPrivateEffect DEF Goes
    <3>2. SUFFICES ASSUME Pairs(asked[r]),
                          NEW u \in Users, u # user[r], asked[r].ids = {user[r], u}
                   PROVE  ChatIds \subseteq lacked[r]
      BY <1>0, <2>2, <3>1 DEF LackedOK, PrivateChatOf
    <3>3. v = u
      BY <3>2 DEF Others
    <3>4. \A c \in ChatIds : ~PrivateChatOf(c, asked[r].ids)
      BY <2>2, <3>2, <3>3 DEF IsPrivate, PrivateChatOf
    <3> QED BY <1>0, <3>1, <3>2, <3>4 DEF LackedOK
  <2> QED BY <1>0, <1>5, <2>1, <2>2, FindPrivateEffect
<1>6. ASSUME NEW u \in Users, EnsureKnown(r, u)
      PROVE  LackedOK(r)'
  <2>1. /\ pc[r] # "idle" /\ asked'[r] = asked[r] /\ user'[r] = user[r]
        /\ lacked'[r] = lacked[r] /\ UNCHANGED <<kind, members>>
    BY <1>0, <1>6, EnsureKnownEffect DEF Goes, Stays
  <2>2. pc'[r] \in InTransaction => pc[r] \in InTransaction
    BY <1>0, <1>6, EnsureKnownEffect DEF Goes, InTransaction
  <2> QED BY <1>0, <2>1, <2>2, LackedStays
<1>7. ASSUME NEW u \in Users, EnsureUnknown(r, u)
      PROVE  LackedOK(r)'
  <2>1. /\ pc[r] # "idle" /\ asked'[r] = asked[r] /\ user'[r] = user[r]
        /\ lacked'[r] = lacked[r] /\ UNCHANGED <<kind, members>>
    BY <1>0, <1>7, EnsureUnknownEffect DEF Goes, Stays
  <2>2. pc'[r] \in InTransaction => pc[r] \in InTransaction
    BY <1>0, <1>7, EnsureUnknownEffect DEF Goes, InTransaction
  <2> QED BY <1>0, <2>1, <2>2, LackedStays
<1>8. CASE InsertUser(r)
  <2>1. CASE Ends(r)
    BY <2>1, LackedEnds DEF Ends
  <2>2. CASE ~ Ends(r)
    <3>1. /\ pc[r] # "idle" /\ asked'[r] = asked[r] /\ user'[r] = user[r]
          /\ lacked'[r] = lacked[r] /\ UNCHANGED <<kind, members>>
      BY <1>0, <1>8, <2>2, InsertUserEffect DEF Goes, Stays, InsertUser
    <3>2. pc'[r] \in InTransaction => pc[r] \in InTransaction
      BY <1>0, <1>8, <2>2, InsertUserEffect DEF Goes, InTransaction, InsertUser
    <3> QED BY <1>0, <3>1, <3>2, LackedStays
  <2> QED BY <1>0, <1>8, <2>1, <2>2, InsertUserEffect DEF InsertUser
<1>9. CASE FailDeadlocked(r)
  <2>1. Ends(r)
    BY <1>0, <1>9, DeadlockEffect
  <2> QED BY <2>1, LackedEnds DEF Ends
<1>10. CASE Commit(r)
  <2>1. Ends(r)
    BY <1>0, <1>10, CommitEffect
  <2> QED BY <2>1, LackedEnds DEF Ends
<1>11. CASE CheckAdd(r)
  <2>1. CASE Ends(r)
    BY <2>1, LackedEnds DEF Ends
  <2>2. CASE Goes(r, "readMembers") /\ Stays(r) /\ UNCHANGED <<kind, members>>
    <3>1. /\ pc[r] # "idle" /\ asked'[r] = asked[r] /\ user'[r] = user[r]
          /\ lacked'[r] = lacked[r] /\ UNCHANGED <<kind, members>>
      BY <1>0, <1>11, <2>2 DEF Goes, Stays, CheckAdd
    <3>2. pc'[r] \in InTransaction => pc[r] \in InTransaction
      BY <1>0, <1>11, <2>2 DEF Goes, InTransaction, CheckAdd
    <3> QED BY <1>0, <3>1, <3>2, LackedStays
  <2> QED BY <1>0, <1>11, <2>1, <2>2, CheckEffect DEF CheckAdd
<1>12. CASE ReadMembers(r)
  <2>1. /\ pc[r] # "idle" /\ asked'[r] = asked[r] /\ user'[r] = user[r]
        /\ lacked'[r] = lacked[r] /\ UNCHANGED <<kind, members>>
    BY <1>0, <1>12, ReadEffect DEF Goes, Stays
  <2>2. pc'[r] \in InTransaction => pc[r] \in InTransaction
    BY <1>0, <1>12, ReadEffect DEF Goes, InTransaction
  <2> QED BY <1>0, <2>1, <2>2, LackedStays
<1>13. CASE AddNone(r)
  <2>1. Ends(r)
    BY <1>0, <1>13, AddNoneEffect
  <2> QED BY <2>1, LackedEnds DEF Ends
<1>14. ASSUME NEW u \in Users, AddFind(r, u)
       PROVE  LackedOK(r)'
  <2>1. /\ pc[r] # "idle" /\ asked'[r] = asked[r] /\ user'[r] = user[r]
        /\ lacked'[r] = lacked[r] /\ UNCHANGED <<kind, members>>
    BY <1>0, <1>14, AddFindEffect DEF Goes, Stays
  <2>2. pc'[r] \in InTransaction => pc[r] \in InTransaction
    BY <1>0, <1>14, AddFindEffect DEF Goes, InTransaction
  <2> QED BY <1>0, <2>1, <2>2, LackedStays
<1>15. CASE AddUpdate(r)
  <2>1. /\ pc[r] # "idle" /\ asked'[r] = asked[r] /\ user'[r] = user[r]
        /\ lacked'[r] = lacked[r] /\ UNCHANGED <<kind, members>>
    BY <1>0, <1>15, PlacedEffect, CallFacts DEF Goes, Stays, AddUpdate
  <2>2. pc'[r] \in InTransaction => pc[r] \in InTransaction
    BY <1>0, <1>15, PlacedEffect, CallFacts DEF Goes, InTransaction, AddUpdate
  <2> QED BY <1>0, <2>1, <2>2, LackedStays
<1>16. CASE AddCreate(r)
  <2>0. current[r] \in Users
    BY <1>16, CallFacts DEF AddCreate
  <2>1. CASE Ends(r)
    BY <2>1, LackedEnds DEF Ends
  <2>2. CASE Placed(r) /\ UNCHANGED <<kind, members>>
    <3>1. /\ pc[r] # "idle" /\ asked'[r] = asked[r] /\ user'[r] = user[r]
          /\ lacked'[r] = lacked[r] /\ UNCHANGED <<kind, members>>
      BY <1>0, <1>16, <2>2, <2>0, PlacedEffect DEF Goes, Stays, AddCreate
    <3>2. pc'[r] \in InTransaction => pc[r] \in InTransaction
      BY <1>0, <1>16, <2>2, <2>0, PlacedEffect DEF Goes, InTransaction, AddCreate
    <3> QED BY <1>0, <3>1, <3>2, LackedStays
  <2> QED BY <1>0, <1>16, <2>1, <2>2, AddCreateEffect DEF AddCreate
<1>17. CASE AddRows(r)
  <2>1. asked[r].chat \in ChatIds
    BY <1>17, CallFacts DEF AddRows, Adding
  <2> QED BY <1>0, <1>17, <2>1, AddRowsEffect, LackedEnds DEF Ends
<1>18. CASE CheckLeave(r)
  <2>1. CASE Ends(r)
    BY <2>1, LackedEnds DEF Ends
  <2>2. CASE Goes(r, "remove") /\ Stays(r) /\ UNCHANGED <<kind, members>>
    <3>1. /\ pc[r] # "idle" /\ asked'[r] = asked[r] /\ user'[r] = user[r]
          /\ lacked'[r] = lacked[r] /\ UNCHANGED <<kind, members>>
      BY <1>0, <1>18, <2>2 DEF Goes, Stays, CheckLeave
    <3>2. pc'[r] \in InTransaction => pc[r] \in InTransaction
      BY <1>0, <1>18, <2>2 DEF Goes, InTransaction, CheckLeave
    <3> QED BY <1>0, <3>1, <3>2, LackedStays
  <2> QED BY <1>0, <1>18, <2>1, <2>2, CheckEffect DEF CheckLeave
<1>19. CASE RemoveMember(r)
  <2>1. asked[r].chat \in ChatIds
    BY <1>19, CallFacts DEF RemoveMember, Adding
  <2> QED BY <1>0, <1>19, <2>1, RemoveEffect, LackedEnds DEF Ends
<1>20. CASE StatementFails(r)
  <2>1. Ends(r)
    BY <1>0, <1>20, FailEffect
  <2> QED BY <2>1, LackedEnds DEF Ends
<1> QED BY <1>1, <1>2, <1>3, <1>4, <1>5, <1>6, <1>7, <1>8, <1>9, <1>10, <1>11, <1>12, <1>13,
           <1>14, <1>15, <1>16, <1>17, <1>18, <1>19, <1>20 DEF StepOf

\* A chat that is not there has no members.
LEMMA KindKept ==
  ASSUME Inv, NEW r \in Calls, StepOf(r)
  PROVE  KindInv'
<1>0. /\ TypeOK /\ KindInv /\ \A k \in Kinds : k # None
      /\ pc[r] \in {"addRows", "remove"} => asked[r].chat \in ChatIds /\ kind[asked[r].chat] # None
      /\ pc[r] = "commit" => asked[r].kind \in Kinds
      /\ pc[r] \in {"syncUpdate", "syncCreate"} => user[r] \in Users
      /\ pc[r] \in {"addUpdate", "addCreate"} => current[r] \in Users
  <2>1. pc[r] \in {"addRows", "remove"} => kind[asked[r].chat] # None
    BY DEF Inv, CallInv, ChatOK, Adding
  <2>2. TypeOK /\ KindInv /\ \A k \in Kinds : k # None
    BY NoneAssumption DEF Inv
  <2> QED BY <2>1, <2>2, CallFacts DEF Creating, Adding
<1>1. ASSUME NEW u \in Users, NEW q \in Asked, Begin(r, u, q)
      PROVE  KindInv'
  BY <1>0, <1>1, BeginEffect DEF KindInv
<1>2. CASE SyncFind(r)
  BY <1>0, <1>2, SyncFindEffect DEF KindInv
<1>3. CASE SyncUpdate(r)
  BY <1>0, <1>3, SyncUpdateEffect DEF KindInv, SyncUpdate
<1>4. CASE SyncCreate(r)
  BY <1>0, <1>4, SyncCreateEffect DEF KindInv, SyncCreate
<1>5. CASE FindPrivate(r)
  BY <1>0, <1>5, FindPrivateEffect DEF KindInv
<1>6. ASSUME NEW u \in Users, EnsureKnown(r, u)
      PROVE  KindInv'
  BY <1>0, <1>6, EnsureKnownEffect DEF KindInv
<1>7. ASSUME NEW u \in Users, EnsureUnknown(r, u)
      PROVE  KindInv'
  BY <1>0, <1>7, EnsureUnknownEffect DEF KindInv
<1>8. CASE InsertUser(r)
  BY <1>0, <1>8, InsertUserEffect DEF KindInv
<1>9. CASE FailDeadlocked(r)
  BY <1>0, <1>9, DeadlockEffect DEF KindInv
<1>10. CASE Commit(r)
  BY <1>0, <1>10, CommitEffect DEF KindInv
<1>11. CASE CheckAdd(r)
  BY <1>0, <1>11, CheckEffect DEF KindInv, CheckAdd
<1>12. CASE ReadMembers(r)
  BY <1>0, <1>12, ReadEffect DEF KindInv
<1>13. CASE AddNone(r)
  BY <1>0, <1>13, AddNoneEffect DEF KindInv
<1>14. ASSUME NEW u \in Users, AddFind(r, u)
       PROVE  KindInv'
  BY <1>0, <1>14, AddFindEffect DEF KindInv
<1>15. CASE AddUpdate(r)
  BY <1>0, <1>15, PlacedEffect DEF KindInv, AddUpdate
<1>16. CASE AddCreate(r)
  BY <1>0, <1>16, AddCreateEffect DEF KindInv, AddCreate
<1>17. CASE AddRows(r)
  <2>1. asked[r].chat \in ChatIds /\ kind[asked[r].chat] # None
    BY <1>0, <1>17 DEF AddRows
  <2>2. kind' = kind /\ \A c \in ChatIds : c # asked[r].chat => members'[c] = members[c]
    BY <1>0, <1>17, <2>1, AddRowsEffect
  <2> QED BY <1>0, <2>1, <2>2 DEF KindInv
<1>18. CASE CheckLeave(r)
  BY <1>0, <1>18, CheckEffect DEF KindInv, CheckLeave
<1>19. CASE RemoveMember(r)
  <2>1. asked[r].chat \in ChatIds /\ kind[asked[r].chat] # None
    BY <1>0, <1>19 DEF RemoveMember
  <2>2. kind' = kind /\ \A c \in ChatIds : c # asked[r].chat => members'[c] = members[c]
    BY <1>0, <1>19, <2>1, RemoveEffect
  <2> QED BY <1>0, <2>1, <2>2 DEF KindInv
<1>20. CASE StatementFails(r)
  BY <1>0, <1>20, FailEffect DEF KindInv
<1> QED BY <1>1, <1>2, <1>3, <1>4, <1>5, <1>6, <1>7, <1>8, <1>9, <1>10, <1>11, <1>12, <1>13,
           <1>14, <1>15, <1>16, <1>17, <1>18, <1>19, <1>20 DEF StepOf

\* A member of a chat is a user.
LEMMA MembersKept ==
  ASSUME Inv, NEW r \in Calls, StepOf(r)
  PROVE  MembersAreUsers'
<1>0. /\ TypeOK /\ MembersAreUsers /\ SeenOK(r) /\ CallOK(r) /\ Spares(r)
      /\ \A c \in ChatIds : members[c] \subseteq Users
  BY Spared DEF Inv, CallInv, TypeOK
<1>1. ASSUME NEW u \in Users, NEW q \in Asked, Begin(r, u, q)
      PROVE  MembersAreUsers'
  <2>1. members' = members
    BY <1>0, <1>1, BeginEffect
  <2> QED BY <1>0, <2>1 DEF MembersAreUsers, Spares
<1>2. CASE SyncFind(r)
  <2>1. members' = members
    BY <1>0, <1>2, SyncFindEffect
  <2> QED BY <1>0, <2>1 DEF MembersAreUsers, Spares
<1>3. CASE SyncUpdate(r)
  <2>1. members' = members
    BY <1>0, <1>3 DEF SyncUpdate
  <2> QED BY <1>0, <2>1 DEF MembersAreUsers, Spares
<1>4. CASE SyncCreate(r)
  <2>1. members' = members
    BY <1>0, <1>4 DEF SyncCreate
  <2> QED BY <1>0, <2>1 DEF MembersAreUsers, Spares
<1>5. CASE FindPrivate(r)
  <2>1. members' = members
    BY <1>0, <1>5, FindPrivateEffect
  <2> QED BY <1>0, <2>1 DEF MembersAreUsers, Spares
<1>6. ASSUME NEW u \in Users, EnsureKnown(r, u)
      PROVE  MembersAreUsers'
  <2>1. members' = members
    BY <1>0, <1>6, EnsureKnownEffect
  <2> QED BY <1>0, <2>1 DEF MembersAreUsers, Spares
<1>7. ASSUME NEW u \in Users, EnsureUnknown(r, u)
      PROVE  MembersAreUsers'
  <2>1. members' = members
    BY <1>0, <1>7, EnsureUnknownEffect
  <2> QED BY <1>0, <2>1 DEF MembersAreUsers, Spares
<1>8. CASE InsertUser(r)
  <2>1. members' = members
    BY <1>0, <1>8, InsertUserEffect
  <2> QED BY <1>0, <2>1 DEF MembersAreUsers, Spares
<1>9. CASE FailDeadlocked(r)
  <2>1. members' = members
    BY <1>0, <1>9, DeadlockEffect
  <2> QED BY <1>0, <2>1 DEF MembersAreUsers, Spares
<1>10. CASE Commit(r)
  <2>1. asked[r].ids \in SUBSET Users
    BY <1>10, CallFacts DEF Commit, Creating
  <2>2. \A u \in asked[r].ids : name[u] # None \/ u \in inserted[r]
    BY <1>0, <1>10 DEF SeenOK, CallOK, Creating, Commit
  <2>3. \A u \in asked[r].ids : name'[u] # None
    BY <1>0, <1>10, <2>1, <2>2, CommitEffect, NoneAssumption
  <2>4. \A c \in ChatIds : members'[c] = members[c] \/ members'[c] = asked[r].ids
    BY <1>0, <1>10, CommitEffect
  <2> QED BY <1>0, <2>3, <2>4 DEF MembersAreUsers, Spares
<1>11. CASE CheckAdd(r)
  <2>1. members' = members
    BY <1>0, <1>11, CheckEffect DEF CheckAdd
  <2> QED BY <1>0, <2>1 DEF MembersAreUsers, Spares
<1>12. CASE ReadMembers(r)
  <2>1. members' = members
    BY <1>0, <1>12, ReadEffect
  <2> QED BY <1>0, <2>1 DEF MembersAreUsers, Spares
<1>13. CASE AddNone(r)
  <2>1. members' = members
    BY <1>0, <1>13, AddNoneEffect
  <2> QED BY <1>0, <2>1 DEF MembersAreUsers, Spares
<1>14. ASSUME NEW u \in Users, AddFind(r, u)
       PROVE  MembersAreUsers'
  <2>1. members' = members
    BY <1>0, <1>14, AddFindEffect
  <2> QED BY <1>0, <2>1 DEF MembersAreUsers, Spares
<1>15. CASE AddUpdate(r)
  <2>1. members' = members
    BY <1>0, <1>15 DEF AddUpdate
  <2> QED BY <1>0, <2>1 DEF MembersAreUsers, Spares
<1>16. CASE AddCreate(r)
  <2>1. members' = members
    BY <1>0, <1>16 DEF AddCreate
  <2> QED BY <1>0, <2>1 DEF MembersAreUsers, Spares
<1>17. CASE AddRows(r)
  <2>1. asked[r].chat \in ChatIds
    BY <1>17, CallFacts DEF AddRows, Adding
  <2>2. \A u \in new[r] : u \in Users /\ name[u] # None
    BY <1>0, <1>17 DEF TypeOK, SeenOK, CallOK, AfterRead, AddRows
  <2>3. \A c \in ChatIds : members'[c] \subseteq members[c] \cup new[r]
    BY <1>0, <1>17, <2>1, AddRowsEffect
  <2> QED BY <1>0, <2>2, <2>3 DEF MembersAreUsers, Spares
<1>18. CASE CheckLeave(r)
  <2>1. members' = members
    BY <1>0, <1>18, CheckEffect DEF CheckLeave
  <2> QED BY <1>0, <2>1 DEF MembersAreUsers, Spares
<1>19. CASE RemoveMember(r)
  <2>1. asked[r].chat \in ChatIds
    BY <1>19, CallFacts DEF RemoveMember
  <2>2. \A c \in ChatIds : members'[c] \subseteq members[c]
    BY <1>0, <1>19, <2>1, RemoveEffect
  <2> QED BY <1>0, <2>2 DEF MembersAreUsers, Spares
<1>20. CASE StatementFails(r)
  <2>1. members' = members
    BY <1>0, <1>20, FailEffect
  <2> QED BY <1>0, <2>1 DEF MembersAreUsers, Spares
<1> QED BY <1>1, <1>2, <1>3, <1>4, <1>5, <1>6, <1>7, <1>8, <1>9, <1>10, <1>11, <1>12, <1>13,
           <1>14, <1>15, <1>16, <1>17, <1>18, <1>19, <1>20 DEF StepOf

-----------------------------------------------------------------------------
\* A step of a call keeps the invariant.
LEMMA StepInv ==
  ASSUME Inv, NEW r \in Calls, StepOf(r)
  PROVE  Inv'
<1>1. ASSUME NEW p \in Calls
      PROVE  (CallOK(p) /\ InsertedOK(p) /\ SeenOK(p) /\ ChatOK(p) /\ LackedOK(p))'
  <2>1. CASE p = r
    BY <2>1, CallKept, InsertedKept, SeenKept, ChatKept, LackedKept
  <2>2. CASE p # r
    BY <2>2, Spared, PairsSpare, OthersKept
  <2> QED BY <2>1, <2>2
<1>2. CallInv'
  BY <1>1 DEF CallInv
<1> QED BY <1>2, TypeOfStep, KindKept, MembersKept DEF Inv

\* A crash keeps it: no call is left, and the database stays.
LEMMA CrashInv ==
  ASSUME Inv, Crash
  PROVE  Inv'
<1>1. TypeOK /\ KindInv /\ MembersAreUsers /\ UNCHANGED <<name, kind, members>>
  BY DEF Inv, Crash, db
<1>2. failures' \in 0..MaxFailures
  BY <1>1, ChatsAssumption DEF TypeOK, Crash
<1>3. TypeOK'
  BY <1>1, <1>2 DEF TypeOK, Crash
<1>4. ASSUME NEW p \in Calls
      PROVE  /\ pc'[p] = "idle" /\ user'[p] = None /\ asked'[p] = None
             /\ todo'[p] = {} /\ inserted'[p] = {}
  BY DEF Crash
<1>5. CallInv'
  BY <1>4 DEF CallInv, CallOK, InsertedOK, SeenOK, ChatOK, LackedOK, Creating, Adding,
              InTransaction,
              AfterRead
<1> QED BY <1>1, <1>3, <1>5 DEF Inv, KindInv, MembersAreUsers

\* So does a step that changes nothing.
LEMMA StutterInv ==
  ASSUME Inv, UNCHANGED vars
  PROVE  Inv'
<1>1. TypeOK'
  BY DEF Inv, TypeOK, vars, db, callVars, history
<1>2. \A p \in Calls : CallOK(p)' /\ SeenOK(p)' /\ ChatOK(p)'
  BY DEF Inv, CallInv, CallOK, SeenOK, ChatOK, vars, db, callVars, history
<1>3. \A p \in Calls : InsertedOK(p)'
  BY DEF Inv, CallInv, InsertedOK, Held, vars, db, callVars
<1>4. KindInv' /\ MembersAreUsers'
  BY DEF Inv, KindInv, MembersAreUsers, vars, db
<1>5. \A p \in Calls : LackedOK(p)'
  BY DEF Inv, CallInv, LackedOK, PrivateChatOf, vars, db, callVars, history
<1> QED BY <1>1, <1>2, <1>3, <1>4, <1>5 DEF Inv, CallInv

\* The invariant is inductive.
LEMMA Invariance == Spec => []Inv
<1>1. Inv /\ [Next]_vars => Inv'
  BY NextCases, StepInv, CrashInv, StutterInv
<1> QED BY InitInv, <1>1, PTL DEF Spec

-----------------------------------------------------------------------------
\* Every variable has its type in every reachable state.
THEOREM TypeCorrect == Spec => []TypeOK
<1>1. Inv => TypeOK
  BY DEF Inv
<1> QED BY <1>1, Invariance, PTL

\* A member of a chat is a user, however creations of users and chats, additions, departures,
\* deadlocks, failures and crashes interleave: the foreign key of chat_members is never violated.
THEOREM MembersCorrect == Spec => []MembersAreUsers
<1>1. Inv => MembersAreUsers
  BY DEF Inv
<1> QED BY <1>1, Invariance, PTL

-----------------------------------------------------------------------------
\* What a step of a call may do to the usernames there are.
NamesOK ==
  \A u \in Users : name[u] # None /\ name'[u] # name[u] =>
    \/ name'[u] = "token"
    \/ \E r \in Calls : pc[r] = "addUpdate" /\ current[r] = u

\* A username that is there is changed by its own user's call or by one that adds the user.
LEMMA NamesStep ==
  ASSUME Inv, NEW r \in Calls, StepOf(r)
  PROVE  NamesOK
<1>0. TypeOK /\ \A u \in inserted[r] : name[u] = None
  BY DEF Inv, CallInv, InsertedOK
<1>1. ASSUME NEW u \in Users, NEW q \in Asked, Begin(r, u, q)
      PROVE  NamesOK
  BY <1>0, <1>1, BeginEffect DEF NamesOK
<1>2. CASE SyncFind(r)
  BY <1>0, <1>2, SyncFindEffect DEF NamesOK
<1>3. CASE SyncUpdate(r)
  <2>1. user[r] \in Users
    BY <1>3, CallFacts DEF SyncUpdate
  <2> QED BY <1>0, <1>3, <2>1, SyncUpdateEffect DEF NamesOK
<1>4. CASE SyncCreate(r)
  <2>1. user[r] \in Users
    BY <1>4, CallFacts DEF SyncCreate
  <2> QED BY <1>0, <1>4, <2>1, SyncCreateEffect DEF NamesOK
<1>5. CASE FindPrivate(r)
  BY <1>0, <1>5, FindPrivateEffect DEF NamesOK
<1>6. ASSUME NEW u \in Users, EnsureKnown(r, u)
      PROVE  NamesOK
  BY <1>0, <1>6, EnsureKnownEffect DEF NamesOK
<1>7. ASSUME NEW u \in Users, EnsureUnknown(r, u)
      PROVE  NamesOK
  BY <1>0, <1>7, EnsureUnknownEffect DEF NamesOK
<1>8. CASE InsertUser(r)
  BY <1>0, <1>8, InsertUserEffect DEF NamesOK
<1>9. CASE FailDeadlocked(r)
  BY <1>0, <1>9, DeadlockEffect DEF NamesOK
<1>10. CASE Commit(r)
  BY <1>0, <1>10, CommitEffect DEF NamesOK
<1>11. CASE CheckAdd(r)
  BY <1>0, <1>11, CheckEffect DEF NamesOK, CheckAdd
<1>12. CASE ReadMembers(r)
  BY <1>0, <1>12, ReadEffect DEF NamesOK
<1>13. CASE AddNone(r)
  BY <1>0, <1>13, AddNoneEffect DEF NamesOK
<1>14. ASSUME NEW u \in Users, AddFind(r, u)
       PROVE  NamesOK
  BY <1>0, <1>14, AddFindEffect DEF NamesOK
<1>15. CASE AddUpdate(r)
  <2>1. current[r] \in Users /\ pc[r] = "addUpdate" /\ Placed(r)
    BY <1>15, CallFacts DEF AddUpdate
  <2> QED BY <1>0, <2>1, PlacedEffect DEF NamesOK
<1>16. CASE AddCreate(r)
  <2>1. current[r] \in Users
    BY <1>16, CallFacts DEF AddCreate
  <2> QED BY <1>0, <1>16, <2>1, AddCreateEffect, PlacedEffect DEF NamesOK
<1>17. CASE AddRows(r)
  <2>1. asked[r].chat \in ChatIds
    BY <1>17, CallFacts DEF AddRows, Adding
  <2> QED BY <1>0, <1>17, <2>1, AddRowsEffect DEF NamesOK
<1>18. CASE CheckLeave(r)
  BY <1>0, <1>18, CheckEffect DEF NamesOK, CheckLeave
<1>19. CASE RemoveMember(r)
  <2>1. asked[r].chat \in ChatIds
    BY <1>19, CallFacts DEF RemoveMember
  <2> QED BY <1>0, <1>19, <2>1, RemoveEffect DEF NamesOK
<1>20. CASE StatementFails(r)
  BY <1>0, <1>20, FailEffect DEF NamesOK
<1> QED BY <1>1, <1>2, <1>3, <1>4, <1>5, <1>6, <1>7, <1>8, <1>9, <1>10, <1>11, <1>12, <1>13,
           <1>14, <1>15, <1>16, <1>17, <1>18, <1>19, <1>20 DEF StepOf

\* The username of a token is overwritten by AddMembersToChat only: whatever other calls do at
\* a time, FindOrCreate and EnsureUserExists leave a user that is there as it is or give it the
\* username of its token, and no user is ever removed.
THEOREM NamesCorrect == Spec => NameLostByAddOnly
<1>1. Inv /\ [Next]_vars
        => [\A u \in Users : name[u] # None /\ name'[u] # name[u] =>
              \/ name'[u] = "token"
              \/ \E r \in Calls : pc[r] = "addUpdate" /\ current[r] = u]_vars
  <2> SUFFICES ASSUME Inv, [Next]_vars
               PROVE  NamesOK \/ UNCHANGED vars
    BY DEF NamesOK
  <2>1. CASE Crash
    BY <2>1 DEF Crash, db, NamesOK
  <2> QED BY <2>1, NextCases, NamesStep
<1> QED BY <1>1, Invariance, PTL DEF Spec, NameLostByAddOnly

-----------------------------------------------------------------------------
\* What a call that adds members has reached when it is done.
AddedOK(r) ==
  Added(r) /\ pc'[r] = "idle" /\ failures' = failures =>
    asked[r].ids \subseteq members'[asked[r].chat] \cup left[r]

\* A call that inserts its rows or finds none to insert leaves whom it was asked for in the chat.
LEMMA AddedStep ==
  ASSUME Inv, NEW r \in Calls, StepOf(r)
  PROVE  AddedOK(r)
<1>0. TypeOK /\ ChatOK(r)
  BY DEF Inv, CallInv
<1>1. ASSUME NEW u \in Users, NEW q \in Asked, Begin(r, u, q)
      PROVE  AddedOK(r)
  <2>1. pc[r] \notin {"addFind", "addRows"}
    BY <1>1 DEF Begin
  <2> QED BY <2>1 DEF AddedOK, Added
<1>2. CASE SyncFind(r)
  <2>1. pc[r] \notin {"addFind", "addRows"}
    BY <1>2 DEF SyncFind
  <2> QED BY <2>1 DEF AddedOK, Added
<1>3. CASE SyncUpdate(r)
  <2>1. pc[r] \notin {"addFind", "addRows"}
    BY <1>3 DEF SyncUpdate
  <2> QED BY <2>1 DEF AddedOK, Added
<1>4. CASE SyncCreate(r)
  <2>1. pc[r] \notin {"addFind", "addRows"}
    BY <1>4 DEF SyncCreate
  <2> QED BY <2>1 DEF AddedOK, Added
<1>5. CASE FindPrivate(r)
  <2>1. pc[r] \notin {"addFind", "addRows"}
    BY <1>5 DEF FindPrivate
  <2> QED BY <2>1 DEF AddedOK, Added
<1>6. ASSUME NEW u \in Users, EnsureKnown(r, u)
      PROVE  AddedOK(r)
  <2>1. pc[r] \notin {"addFind", "addRows"}
    BY <1>6 DEF EnsureKnown
  <2> QED BY <2>1 DEF AddedOK, Added
<1>7. ASSUME NEW u \in Users, EnsureUnknown(r, u)
      PROVE  AddedOK(r)
  <2>1. pc[r] \notin {"addFind", "addRows"}
    BY <1>7 DEF EnsureUnknown
  <2> QED BY <2>1 DEF AddedOK, Added
<1>8. CASE InsertUser(r)
  <2>1. pc[r] \notin {"addFind", "addRows"}
    BY <1>8 DEF InsertUser
  <2> QED BY <2>1 DEF AddedOK, Added
<1>9. CASE FailDeadlocked(r)
  <2>1. pc[r] \notin {"addFind", "addRows"}
    BY <1>9 DEF FailDeadlocked, Deadlocked, Waits
  <2> QED BY <2>1 DEF AddedOK, Added
<1>10. CASE Commit(r)
  <2>1. pc[r] \notin {"addFind", "addRows"}
    BY <1>10 DEF Commit
  <2> QED BY <2>1 DEF AddedOK, Added
<1>11. CASE CheckAdd(r)
  <2>1. pc[r] \notin {"addFind", "addRows"}
    BY <1>11 DEF CheckAdd
  <2> QED BY <2>1 DEF AddedOK, Added
<1>12. CASE ReadMembers(r)
  <2>1. pc[r] \notin {"addFind", "addRows"}
    BY <1>12 DEF ReadMembers
  <2> QED BY <2>1 DEF AddedOK, Added
<1>13. CASE AddNone(r)
  <2>1. asked[r].chat \in ChatIds /\ new[r] = {} /\ pc[r] = "addFind"
    BY <1>0, <1>13, CallFacts, AddNoneEffect DEF Adding
  <2>2. asked[r].ids \subseteq members[asked[r].chat] \cup left[r]
    BY <1>0, <2>1 DEF ChatOK, AfterRead
  <2> QED BY <1>0, <1>13, <2>2, AddNoneEffect DEF AddedOK
<1>14. ASSUME NEW u \in Users, AddFind(r, u)
       PROVE  AddedOK(r)
  <2>1. pc'[r] # "idle"
    BY <1>0, <1>14, AddFindEffect DEF Goes
  <2> QED BY <2>1 DEF AddedOK
<1>15. CASE AddUpdate(r)
  <2>1. pc[r] \notin {"addFind", "addRows"}
    BY <1>15 DEF AddUpdate
  <2> QED BY <2>1 DEF AddedOK, Added
<1>16. CASE AddCreate(r)
  <2>1. pc[r] \notin {"addFind", "addRows"}
    BY <1>16 DEF AddCreate
  <2> QED BY <2>1 DEF AddedOK, Added
<1>17. CASE AddRows(r)
  <2>1. asked[r].chat \in ChatIds /\ pc[r] = "addRows"
    BY <1>17, CallFacts DEF AddRows, Adding
  <2>2. asked[r].ids \subseteq new[r] \cup members[asked[r].chat] \cup left[r]
    BY <1>0, <2>1 DEF ChatOK, AfterRead
  <2> QED BY <1>0, <1>17, <2>1, <2>2, AddRowsEffect DEF AddedOK, Added
<1>18. CASE CheckLeave(r)
  <2>1. pc[r] \notin {"addFind", "addRows"}
    BY <1>18 DEF CheckLeave
  <2> QED BY <2>1 DEF AddedOK, Added
<1>19. CASE RemoveMember(r)
  <2>1. pc[r] \notin {"addFind", "addRows"}
    BY <1>19 DEF RemoveMember
  <2> QED BY <2>1 DEF AddedOK, Added
<1>20. CASE StatementFails(r)
  <2>1. failures' # failures
    BY <1>0, <1>20, FailEffect DEF TypeOK
  <2> QED BY <2>1 DEF AddedOK
<1> QED BY <1>1, <1>2, <1>3, <1>4, <1>5, <1>6, <1>7, <1>8, <1>9, <1>10, <1>11, <1>12, <1>13,
           <1>14, <1>15, <1>16, <1>17, <1>18, <1>19, <1>20 DEF StepOf

\* After AddMembersToChat has inserted its rows or found none to insert, every user it was asked
\* for is a member or has left meanwhile: the members it read before the loop over the users are
\* never stale in a way that loses one.
THEOREM AddedCorrect == Spec => AddedUnlessLeft
<1> DEFINE Body ==
      \A r \in Calls :
        Added(r) /\ pc'[r] = "idle" /\ failures' = failures =>
          asked[r].ids \subseteq members'[asked[r].chat] \cup left[r]
<1>1. Inv /\ [Next]_vars => [Body]_vars
  <2> SUFFICES ASSUME Inv, [Next]_vars, NEW p \in Calls, ~ UNCHANGED vars
               PROVE  AddedOK(p)
    BY DEF AddedOK
  <2>1. CASE Crash
    <3>1. failures' # failures
      BY <2>1 DEF Crash, Inv, TypeOK
    <3> QED BY <3>1 DEF AddedOK
  <2>2. CASE StepOf(p)
    BY <2>2, AddedStep
  <2>3. ASSUME NEW q \in Calls, StepOf(q), q # p
        PROVE  AddedOK(p)
    <3>1. pc'[p] = pc[p]
      BY <2>3, Spared DEF Spares, Bystanders
    <3> QED BY <3>1 DEF AddedOK, Added
  <2> QED BY <2>1, <2>2, <2>3, NextCases
<1> QED BY <1>1, Invariance, PTL DEF Spec, AddedUnlessLeft

-----------------------------------------------------------------------------
\* A second private chat of two users is opened only by a call during which the first came to
\* be there with both of them, or one of them left it.
THEOREM DuplicatesCorrect == Spec => DuplicateNeedsOverlap
<1> DEFINE Body ==
      \A r \in Calls, c \in ChatIds, v \in Users :
        Opens(r, v) /\ kind' # kind /\ pc'[r] = "idle" /\ PrivateChatOf(c, {user[r], v}) =>
          c \in lacked[r]
<1>1. Inv => Body
  <2> SUFFICES ASSUME Inv, NEW r \in Calls, NEW c \in ChatIds, NEW v \in Users, Opens(r, v)
               PROVE  c \in lacked[r]
    OBVIOUS
  <2>1. /\ pc[r] # "idle" /\ pc[r] \in InTransaction /\ v # user[r]
        /\ Pairs(asked[r]) /\ asked[r].ids = {user[r], v}
    BY DEF Opens, InTransaction, Pairs
  <2>2. LackedOK(r)
    BY DEF Inv, CallInv
  <2> QED BY <2>1, <2>2 DEF LackedOK
<1>2. Inv /\ [Next]_vars => [Body]_vars
  BY <1>1
<1> QED BY <1>2, Invariance, PTL DEF Spec, DuplicateNeedsOverlap

=============================================================================
