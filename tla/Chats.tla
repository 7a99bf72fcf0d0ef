------------------------------- MODULE Chats -------------------------------
(***************************************************************************)
(* Chats, their members and the users behind them, in the messenger        *)
(* server: internal/service/chat_service.go over internal/repository, as   *)
(* internal/handler/chat_handler.go serves it behind internal/middleware.  *)
(*                                                                         *)
(* A call runs in a goroutine of its own.  Its SQL statements are each a   *)
(* transaction, but for the creation of a chat, which is one: its rows are *)
(* seen by others when it commits, and an INSERT of a key that another     *)
(* transaction has inserted waits for that one's end.  PostgreSQL ends a   *)
(* cycle of waiting transactions by failing one of them.                   *)
(*                                                                         *)
(* Abstractions.  A username is the one of the user's token ("token") or   *)
(* the placeholder user_N ("temp").  Chats are numbered in the order they  *)
(* commit.  Roles, chat names and times are left out, and so is MarkAsRead.*)
(***************************************************************************)
EXTENDS Naturals, FiniteSets

CONSTANTS
  Users,
  Calls,       \* goroutines serving a REST request
  Bodies,      \* requests that clients send, as in Asked
  MaxChat,     \* bounds the chats ever created
  MaxFailures, \* bounds the failed statements and crashes
  None

ASSUME ChatsAssumption ==
  /\ MaxChat \in Nat
  /\ MaxFailures \in Nat

ChatIds == 1..MaxChat
Kinds == {"private", "group"}

VARIABLES
  name,      \* table users: the username of each user, None when there is no row
  kind,      \* table chats: the type of each chat, None when there is no row
  members,   \* table chat_members: the users of each chat
  pc,        \* the statement each call executes next
  user,      \* the user it serves
  asked,     \* what the call was asked
  todo,      \* the ids its loop has not done
  current,   \* the id its loop is at
  new,       \* newMembers of AddMembersToChat
  inserted,  \* users its transaction has inserted and not committed
  lacked,    \* history: chats that at some time of the call were not a private one with
             \* everybody in it for whom it creates a private chat
  left,      \* history: users who left the call's chat since it began
  failures   \* history: statements that failed, and crashes

db == <<name, kind, members>>
callVars == <<pc, user, asked, todo, current, new>>
history == <<lacked, left, failures>>
vars == <<db, callVars, inserted, history>>

\* CreateChat: the type and the unique ids.  AddMembersToChat: the chat, the ids, and
\* whether the ids are named twice.  LeaveChat: the chat.
Asked == [op : {"create"}, kind : Kinds, ids : SUBSET Users]
         \cup [op : {"add"}, chat : ChatIds, ids : SUBSET Users, twice : BOOLEAN]
         \cup [op : {"leave"}, chat : ChatIds]

ASSUME BodiesAssumption == Bodies \subseteq Asked

ASSUME NoneAssumption == None \notin Users \cup {"token", "temp"} \cup Kinds \cup Asked

Statement == {"syncFind", "syncUpdate", "syncCreate", "findPrivate", "ensure", "insertUser",
              "commit", "checkAdd", "readMembers", "addFind", "addUpdate", "addCreate",
              "addRows", "checkLeave", "remove"}

TypeOK ==
  /\ name \in [Users -> {"token", "temp", None}]
  /\ kind \in [ChatIds -> Kinds \cup {None}]
  /\ members \in [ChatIds -> SUBSET Users]
  /\ pc \in [Calls -> Statement \cup {"idle"}]
  /\ user \in [Calls -> Users \cup {None}]
  /\ asked \in [Calls -> Asked \cup {None}]
  /\ todo \in [Calls -> SUBSET Users]
  /\ current \in [Calls -> Users \cup {None}]
  /\ new \in [Calls -> SUBSET Users]
  /\ inserted \in [Calls -> SUBSET Users]
  /\ lacked \in [Calls -> SUBSET ChatIds]
  /\ left \in [Calls -> SUBSET Users]
  /\ failures \in 0..MaxFailures

Init ==
  /\ name = [u \in Users |-> None]
  /\ kind = [c \in ChatIds |-> None]
  /\ members = [c \in ChatIds |-> {}]
  /\ pc = [r \in Calls |-> "idle"]
  /\ user = [r \in Calls |-> None]
  /\ asked = [r \in Calls |-> None]
  /\ todo = [r \in Calls |-> {}]
  /\ current = [r \in Calls |-> None]
  /\ new = [r \in Calls |-> {}]
  /\ inserted = [r \in Calls |-> {}]
  /\ lacked = [r \in Calls |-> {}]
  /\ left = [r \in Calls |-> {}]
  /\ failures = 0

-----------------------------------------------------------------------------
(* Calls begin and end.                                                    *)

\* The chat is a private one that these users are in.
PrivateChatOf(c, pair) == kind[c] = "private" /\ pair \subseteq members[c]

\* The request creates a private chat, and the chats that are not the one it asks for.
Pairs(request) == request.op = "create" /\ request.kind = "private"
Lacking(request) ==
  {c \in ChatIds : Pairs(request) /\ ~PrivateChatOf(c, request.ids)}

Begin(r, u, request) ==
  /\ pc[r] = "idle"
  /\ pc' = [pc EXCEPT ![r] = "syncFind"]
  /\ user' = [user EXCEPT ![r] = u]
  /\ asked' = [asked EXCEPT ![r] = request]
  /\ lacked' = [lacked EXCEPT ![r] = Lacking(request)]
  /\ UNCHANGED <<db, todo, current, new, inserted, left, failures>>

Goto(r, statement) ==
  /\ pc' = [pc EXCEPT ![r] = statement]
  /\ UNCHANGED <<user, asked>>

\* A transaction that ends lets go of the keys it inserted.  (Mutant: it is left open.)
LeftOpen(r) == inserted
Ended(r) == [inserted EXCEPT ![r] = {}]

\* The call is answered, with or without an error.
Return(r) ==
  /\ pc' = [pc EXCEPT ![r] = "idle"]
  /\ user' = [user EXCEPT ![r] = None]
  /\ asked' = [asked EXCEPT ![r] = None]
  /\ todo' = [todo EXCEPT ![r] = {}]
  /\ current' = [current EXCEPT ![r] = None]
  /\ new' = [new EXCEPT ![r] = {}]
  /\ inserted' = Ended(r)

Answer(r) ==
  /\ Return(r)
  /\ lacked' = [lacked EXCEPT ![r] = {}]
  /\ left' = [left EXCEPT ![r] = {}]

\* The users another transaction has inserted and not committed.
Held(r) == UNION {inserted[q] : q \in Calls \ {r}}

-----------------------------------------------------------------------------
(* EnsureUser, the middleware before every handler: FindOrCreate with the   *)
(* username of the token.                                                  *)

Handler(r) ==
  CASE asked[r].op = "create" -> IF asked[r].kind = "private" THEN "findPrivate" ELSE "ensure"
    [] asked[r].op = "add"    -> "checkAdd"
    [] asked[r].op = "leave"  -> "checkLeave"

\* CreateChat comes to its handler with the unique ids, in the order of a Go map.
Enter(r) ==
  /\ Goto(r, Handler(r))
  /\ todo' = [todo EXCEPT ![r] = IF asked[r].op = "create" THEN asked[r].ids ELSE {}]
  /\ UNCHANGED <<current, new, inserted, history>>

SyncFind(r) ==
  /\ pc[r] = "syncFind"
  /\ Goto(r, IF name[user[r]] = None THEN "syncCreate" ELSE "syncUpdate")
  /\ UNCHANGED <<db, todo, current, new, inserted, history>>

SyncUpdate(r) ==
  /\ pc[r] = "syncUpdate"
  /\ name' = [name EXCEPT ![user[r]] = "token"]
  /\ Enter(r)
  /\ UNCHANGED <<kind, members>>

\* The INSERT of a user: its key waits for a transaction that inserted it, and is
\* refused when the user came to exist meanwhile.
MayInsert(r, u) == u \notin Held(r)

SyncCreate(r) ==
  /\ pc[r] = "syncCreate"
  /\ MayInsert(r, user[r])
  /\ IF name[user[r]] = None
     THEN name' = [name EXCEPT ![user[r]] = "token"] /\ Enter(r)
     ELSE Answer(r) /\ UNCHANGED <<name, failures>>
  /\ UNCHANGED <<kind, members>>

-----------------------------------------------------------------------------
(* CreateChat.                                                             *)

\* MaxChat bounds the chats there are and those being created.
Room == Cardinality({c \in ChatIds : kind[c] # None})
        + Cardinality({r \in Calls : asked[r] # None /\ asked[r].op = "create"}) < MaxChat

Create(r, u, body) ==
  /\ body.op = "create"
  /\ Room
  /\ Begin(r, u, [body EXCEPT !.ids = @ \cup {u}])

\* FindPrivateChat.  (Mutant: the wrong type.)
IsGroup(c, u, v) == kind[c] = "group" /\ {u, v} \subseteq members[c]
IsPrivate(c, u, v) == kind[c] = "private" /\ {u, v} \subseteq members[c]

\* The user a private chat is looked up for: any of the others, or 0 when there is
\* none, and no chat has user 0.
Others(r) ==
  LET others == asked[r].ids \ {user[r]} IN IF others = {} THEN {None} ELSE others

FindPrivate(r) ==
  /\ pc[r] = "findPrivate"
  /\ \E v \in Others(r) :
       IF \E c \in ChatIds : IsPrivate(c, user[r], v)
       THEN Answer(r) /\ UNCHANGED failures
       ELSE Goto(r, "ensure") /\ UNCHANGED <<todo, current, new, inserted, history>>
  /\ UNCHANGED db

\* EnsureUserExists, one id after the other: the transaction sees committed users.
NextUser(r, u) ==
  /\ todo' = [todo EXCEPT ![r] = @ \ {u}]
  /\ current' = [current EXCEPT ![r] = None]
  /\ Goto(r, IF todo[r] = {u} THEN "commit" ELSE "ensure")
  /\ UNCHANGED new

\* (Mutants: an unknown user is passed over; a known one is saved again, under the
\* placeholder.)
AllKnown(u) == TRUE
Known(u) == name[u] # None
SavedAgain(u) == [name EXCEPT ![u] = "temp"]
LeftAlone(u) == name

EnsureKnown(r, u) ==
  /\ pc[r] = "ensure"
  /\ u \in todo[r]
  /\ Known(u)
  /\ name' = LeftAlone(u)
  /\ NextUser(r, u)
  /\ UNCHANGED <<kind, members, inserted, history>>

EnsureUnknown(r, u) ==
  /\ pc[r] = "ensure"
  /\ u \in todo[r]
  /\ ~Known(u)
  /\ Goto(r, "insertUser")
  /\ current' = [current EXCEPT ![r] = u]
  /\ UNCHANGED <<db, todo, new, inserted, history>>

InsertUser(r) ==
  /\ pc[r] = "insertUser"
  /\ MayInsert(r, current[r])
  /\ IF name[current[r]] = None
     THEN /\ inserted' = [inserted EXCEPT ![r] = @ \cup {current[r]}]
          /\ NextUser(r, current[r])
          /\ UNCHANGED history
     ELSE Answer(r) /\ UNCHANGED failures
  /\ UNCHANGED db

\* The call waits for the end of the other one's transaction.
Waits(r, q) == r # q /\ pc[r] = "insertUser" /\ current[r] \in inserted[q]

\* PostgreSQL finds the call in a cycle of waiting transactions.
Deadlocked(r) ==
  \E cycle \in SUBSET Calls :
    /\ r \in cycle
    /\ \A p \in cycle : \E q \in cycle : Waits(p, q)
    /\ \A q \in cycle : \E p \in cycle : Waits(p, q)

FailDeadlocked(r) ==
  /\ Deadlocked(r)
  /\ Answer(r)
  /\ UNCHANGED <<db, failures>>

\* AddMembers inserts the rows of the members and the transaction commits.
Commit(r) ==
  /\ pc[r] = "commit"
  /\ \E c \in ChatIds :
       /\ kind[c] = None
       /\ \A d \in ChatIds : d < c => kind[d] # None
       /\ kind' = [kind EXCEPT ![c] = asked[r].kind]
       /\ members' = [members EXCEPT ![c] = asked[r].ids]
  /\ name' = [u \in Users |-> IF u \in inserted[r] THEN "temp" ELSE name[u]]
  /\ Answer(r)
  /\ UNCHANGED failures

-----------------------------------------------------------------------------
(* AddMembersToChat.                                                       *)

Add(r, u, body) == body.op = "add" /\ Begin(r, u, body)

\* GetChatByID: the JOIN with chat_members.
CheckMember(r, statement) ==
  /\ IF user[r] \in members[asked[r].chat]
     THEN Goto(r, statement) /\ UNCHANGED <<todo, current, new, inserted, lacked, left>>
     ELSE Answer(r)
  /\ UNCHANGED <<db, failures>>

CheckAdd(r) == pc[r] = "checkAdd" /\ CheckMember(r, "readMembers")

\* Ids of members are passed over.  (Mutant: the loop ends at one.)
NewUpToKnown(ids, known) == IF ids \cap known = {} THEN ids ELSE {}
NewIds(ids, known) == ids \ known

\* The members GetChatByID preloads, a statement of its own.
ReadMembers(r) ==
  /\ pc[r] = "readMembers"
  /\ new' = [new EXCEPT ![r] = NewIds(asked[r].ids, members[asked[r].chat])]
  /\ todo' = [todo EXCEPT ![r] = new'[r]]
  /\ Goto(r, "addFind")
  /\ UNCHANGED <<db, current, inserted, history>>

\* There are none left to add, or none at all.
AddNone(r) ==
  /\ pc[r] = "addFind"
  /\ new[r] = {}
  /\ Answer(r)
  /\ UNCHANGED <<db, failures>>

\* FindOrCreate with an empty username, one id after the other; once more for an id
\* named twice, which changes nothing.
AddFind(r, u) ==
  /\ pc[r] = "addFind"
  /\ u \in todo[r]
  /\ Goto(r, IF name[u] = None THEN "addCreate" ELSE "addUpdate")
  /\ current' = [current EXCEPT ![r] = u]
  /\ UNCHANGED <<db, todo, new, inserted, history>>

\* FindOrCreate replaces an empty username by user_N.  (Mutant: it does not.)
NameGiven == ""
NameOrTemp == "temp"

\* The user of the id is there under the placeholder: Assign overwrites the name it had.
Placed(r) ==
  /\ name' = [name EXCEPT ![current[r]] = NameOrTemp]
  /\ todo' = [todo EXCEPT ![r] = @ \ {current[r]}]
  /\ current' = [current EXCEPT ![r] = None]
  /\ Goto(r, IF todo'[r] = {} THEN "addRows" ELSE "addFind")
  /\ UNCHANGED <<new, inserted, history>>

AddUpdate(r) ==
  /\ pc[r] = "addUpdate"
  /\ Placed(r)
  /\ UNCHANGED <<kind, members>>

AddCreate(r) ==
  /\ pc[r] = "addCreate"
  /\ MayInsert(r, current[r])
  /\ IF name[current[r]] = None THEN Placed(r)
     ELSE Answer(r) /\ UNCHANGED <<name, failures>>
  /\ UNCHANGED <<kind, members>>

\* One INSERT: the unique index on (user_id, chat_id) refuses all of its rows when one
\* is in the table already or twice in the statement.
Refused(r) == asked[r].twice \/ new[r] \cap members[asked[r].chat] # {}

AddRows(r) ==
  /\ pc[r] = "addRows"
  /\ members' = IF Refused(r) THEN members
              ELSE [members EXCEPT ![asked[r].chat] = @ \cup new[r]]
  /\ Answer(r)
  /\ UNCHANGED <<name, kind, failures>>

-----------------------------------------------------------------------------
(* LeaveChat.                                                              *)

Leave(r, u, body) == body.op = "leave" /\ Begin(r, u, body)

CheckLeave(r) == pc[r] = "checkLeave" /\ CheckMember(r, "remove")

AsksFor(q, c) == asked[q] # None /\ asked[q].op # "create" /\ asked[q].chat = c
PairsWith(q, u) == asked[q] # None /\ Pairs(asked[q]) /\ u \in asked[q].ids

\* A second leave finds no row and is answered with an error.
RemoveMember(r) ==
  /\ pc[r] = "remove"
  /\ members' = [members EXCEPT ![asked[r].chat] = @ \ {user[r]}]
  /\ Return(r)
  /\ left' = [q \in Calls |->
               CASE q = r -> {}
                 [] q # r /\ AsksFor(q, asked[r].chat) -> left[q] \cup {user[r]}
                 [] OTHER -> left[q]]
  /\ lacked' = [q \in Calls |->
                 CASE q = r -> {}
                   [] q # r /\ PairsWith(q, user[r]) -> lacked[q] \cup {asked[r].chat}
                   [] OTHER -> lacked[q]]
  /\ UNCHANGED <<name, kind, failures>>

-----------------------------------------------------------------------------
\* A statement fails and changes nothing.  One whose outcome is lost is the statement and
\* the failure of the next one, or of nothing when it is the last.
StatementFails(r) ==
  /\ failures < MaxFailures
  /\ failures' = failures + 1
  /\ pc[r] # "idle"
  /\ Answer(r)
  /\ UNCHANGED db

\* The process dies; PostgreSQL rolls back what it had open.
Crash ==
  /\ failures < MaxFailures
  /\ failures' = failures + 1
  /\ pc' = [r \in Calls |-> "idle"]
  /\ user' = [r \in Calls |-> None]
  /\ asked' = [r \in Calls |-> None]
  /\ todo' = [r \in Calls |-> {}]
  /\ current' = [r \in Calls |-> None]
  /\ new' = [r \in Calls |-> {}]
  /\ inserted' = [r \in Calls |-> {}]
  /\ lacked' = [r \in Calls |-> {}]
  /\ left' = [r \in Calls |-> {}]
  /\ UNCHANGED db

\* What a client sends.
Client(r) ==
  \E u \in Users, body \in Bodies : Create(r, u, body) \/ Add(r, u, body) \/ Leave(r, u, body)

\* What the server does.
Serve(r) ==
  \/ SyncFind(r) \/ SyncUpdate(r) \/ SyncCreate(r)
  \/ FindPrivate(r)
  \/ \E u \in Users : EnsureKnown(r, u) \/ EnsureUnknown(r, u) \/ AddFind(r, u)
  \/ InsertUser(r) \/ FailDeadlocked(r) \/ Commit(r)
  \/ CheckAdd(r) \/ ReadMembers(r) \/ AddNone(r) \/ AddUpdate(r) \/ AddCreate(r)
  \/ AddRows(r)
  \/ CheckLeave(r) \/ RemoveMember(r)

Next ==
  \/ \E r \in Calls : Client(r) \/ Serve(r) \/ StatementFails(r)
  \/ Crash

Spec == Init /\ [][Next]_vars

\* Every call goes on.  PostgreSQL breaks the cycles of those that wait, and wakes the
\* one that waits for a key before another call takes the key again for ever.
FairSpec ==
  /\ Spec
  /\ \A r \in Calls :
       /\ WF_vars(Serve(r))
       /\ SF_vars(InsertUser(r) \/ SyncCreate(r) \/ AddCreate(r))

-----------------------------------------------------------------------------
(* Safety.                                                                 *)

\* A member of a chat is a user, whatever calls create users and chats at a time:
\* the foreign key of chat_members never makes a call fail.
MembersAreUsers == \A c \in ChatIds : \A u \in members[c] : name[u] # None

\* The username of a user's token is overwritten by AddMembersToChat only, and a user
\* that is there stays.
NameLostByAddOnly ==
  [][\A u \in Users : name[u] # None /\ name'[u] # name[u] =>
       \/ name'[u] = "token"
       \/ \E r \in Calls : pc[r] = "addUpdate" /\ current[r] = u]_vars

\* The call is about to open a private chat of its user with v.
Opens(r, v) ==
  /\ pc[r] = "commit"
  /\ v # user[r]
  /\ asked[r] = [op |-> "create", kind |-> "private", ids |-> {user[r], v}]

\* The call has nothing more to insert, or inserts its rows.
Added(r) ==
  \/ pc[r] = "addFind"
  \/ pc[r] = "addRows" /\ ~Refused(r)

\* A second private chat of two users is opened only by a call that overlapped with what
\* made the first one theirs: at some time of the call the first was not there yet, or one
\* of the two was not in it.
DuplicateNeedsOverlap ==
  [][\A r \in Calls, c \in ChatIds, v \in Users :
       Opens(r, v) /\ kind' # kind /\ pc'[r] = "idle" /\ PrivateChatOf(c, {user[r], v}) =>
         c \in lacked[r]]_vars

\* Once AddMembersToChat has inserted its rows, or found none to insert, every user it
\* was asked for is in the chat but those who left it meanwhile.
AddedUnlessLeft ==
  [][\A r \in Calls :
       Added(r) /\ pc'[r] = "idle" /\ failures' = failures =>
         asked[r].ids \subseteq members'[asked[r].chat] \cup left[r]]_vars

-----------------------------------------------------------------------------
(* Liveness.                                                               *)

\* Every call is answered, also when transactions wait for each other's users.
CallsReturn == \A r \in Calls : pc[r] # "idle" ~> pc[r] = "idle"

-----------------------------------------------------------------------------
(* What comments and the README of the messenger server say, and the code  *)
(* does not do.                                                            *)

\* CreateChat checks whether the private chat exists already: two users have one.
PrivateChatOnce ==
  \A c, d \in ChatIds, u, v \in Users :
    u # v /\ PrivateChatOf(c, {u, v}) /\ PrivateChatOf(d, {u, v}) => c = d

\* The data of a user are those of the auth server from its first request on.
NameSynchronised ==
  [][\A u \in Users : name[u] = "token" => name'[u] = "token"]_vars

=============================================================================
