------------------------------ MODULE RoomKeys ------------------------------
(***************************************************************************)
(* The keys of the messenger server: a chat's room key, encrypted for each *)
(* of its members (internal/repository/chat_key_repo.go, as internal/      *)
(* handler/chat_handler.go serves it), and the columns of a user: its      *)
(* public key and its backup (internal/handler/user_handler.go), in the    *)
(* row that every request updates (internal/middleware).                   *)
(*                                                                         *)
(* A call executes its SQL statements one at a time, each a transaction;   *)
(* an INSERT takes the id of its row before its transaction commits.       *)
(*                                                                         *)
(* Abstractions.  There is one chat, and its users have rows.  Joins and   *)
(* departures are one step each (module Chats has their statements, and    *)
(* the usernames).  A backup is there or not.  The keys a call saves are   *)
(* its own: r, or the empty string.  The unique index of chat_keys does    *)
(* not exist: PostgreSQL has an index of its name already, that of         *)
(* chat_members, and CREATE INDEX IF NOT EXISTS is done with that.         *)
(***************************************************************************)
EXTENDS Naturals

CONSTANTS
  Users,
  Calls,     \* goroutines serving a REST request
  Blank,     \* the empty string
  MaxRow,    \* bounds the rows of chat_keys
  MaxMoves,  \* bounds the joins and leaves
  Families,  \* sets of handlers that are called in one behaviour
  None

ASSUME RoomKeysAssumption ==
  /\ MaxRow \in Nat
  /\ MaxMoves \in Nat
  /\ Blank \notin Calls
  /\ None \notin Users \cup Calls \cup {Blank}

Keys == Calls \cup {Blank}
RowIds == 1..MaxRow
Profile == [public : Keys, backup : BOOLEAN]
ChatKey == [user : Users, key : Keys]

Handlers == {"roomKey", "chatKeys", "publicKey", "backup"}

ASSUME FamiliesAssumption == Families \subseteq SUBSET Handlers

ASSUME NoneAssumption == None \notin ChatKey

VARIABLES
  family,    \* the handlers clients call: bounds what is going on at a time
  members,   \* table chat_members: the users of the chat
  profile,   \* table users: public_key, and whether there is an encrypted_backup
  rows,      \* table chat_keys: the committed rows by id
  lastRow,   \* the sequence of its ids
  pc,        \* the statement each call executes next
  user,      \* the user it serves
  seen,      \* the row of that user as EnsureUser read it
  body,      \* SaveRoomKey: the user and the key to save
  row,       \* SaveRoomKey: the id of the row it found or inserted
  todo,      \* GetChatKeys: members it has not looked up yet
  keys,      \* GetChatKeys: the public keys it has collected
  accepted,  \* calls whose last answer was 200
  moves,     \* history: joins and leaves
  ever,      \* history: users who were members at some time during the save
  unsure,    \* history: users who joined, left or changed their key during GetChatKeys,
             \* or were skipped by it on an error
  beaten     \* history: saves during which another one stored a key of the same user

db == <<members, profile, rows, lastRow>>
saveVars == <<body, row, ever>>
readVars == <<todo, keys, unsure>>
vars == <<family, db, pc, user, seen, saveVars, readVars, accepted, moves, beaten>>

Saving == {"checkCaller", "checkTarget", "find", "update", "insert", "commit"}
Reading == {"checkReader", "readMembers", "collect"}

TypeOK ==
  /\ family \in Families
  /\ members \in SUBSET Users
  /\ profile \in [Users -> Profile]
  /\ rows \in [RowIds -> ChatKey \cup {None}]
  /\ lastRow \in 0..MaxRow
  /\ pc \in [Calls -> {"idle", "sync", "handler"} \cup Saving \cup Reading]
  /\ user \in [Calls -> Users \cup {None}]
  /\ seen \in [Calls -> Profile \cup {None}]
  /\ body \in [Calls -> ChatKey \cup {None}]
  /\ row \in [Calls -> RowIds \cup {0}]
  /\ todo \in [Calls -> SUBSET Users]
  /\ keys \in [Calls -> SUBSET ChatKey]
  /\ accepted \in SUBSET Calls
  /\ moves \in 0..MaxMoves
  /\ ever \in [Calls -> SUBSET Users]
  /\ unsure \in [Calls -> SUBSET Users]
  /\ beaten \in SUBSET Calls

Init ==
  /\ family \in Families
  /\ members = Users
  /\ profile = [u \in Users |-> [public |-> Blank, backup |-> FALSE]]
  /\ rows = [i \in RowIds |-> None]
  /\ lastRow = 0
  /\ pc = [r \in Calls |-> "idle"]
  /\ user = [r \in Calls |-> None]
  /\ seen = [r \in Calls |-> None]
  /\ body = [r \in Calls |-> None]
  /\ row = [r \in Calls |-> 0]
  /\ todo = [r \in Calls |-> {}]
  /\ keys = [r \in Calls |-> {}]
  /\ accepted = {}
  /\ moves = 0
  /\ ever = [r \in Calls |-> {}]
  /\ unsure = [r \in Calls |-> {}]
  /\ beaten = {}

-----------------------------------------------------------------------------
(* A request: EnsureUser, then its handler.                                *)

Goto(r, statement) == pc' = [pc EXCEPT ![r] = statement]

\* The call is answered, 200 or not; what it held is out of scope.
End(r, ok) ==
  /\ Goto(r, "idle")
  /\ accepted' = IF ok THEN accepted \cup {r} ELSE accepted \ {r}
  /\ user' = [user EXCEPT ![r] = None]
  /\ seen' = [seen EXCEPT ![r] = None]
  /\ body' = [body EXCEPT ![r] = None]
  /\ row' = [row EXCEPT ![r] = 0]
  /\ ever' = [ever EXCEPT ![r] = {}]
  /\ todo' = [todo EXCEPT ![r] = {}]
  /\ keys' = [keys EXCEPT ![r] = {}]

Answer(r, ok) == End(r, ok) /\ unsure' = [unsure EXCEPT ![r] = {}]

\* FindOrCreate: the SELECT finds the user.
Begin(r, u) ==
  /\ pc[r] = "idle"
  /\ Goto(r, "sync")
  /\ user' = [user EXCEPT ![r] = u]
  /\ seen' = [seen EXCEPT ![r] = profile[u]]
  /\ accepted' = accepted \ {r}
  /\ UNCHANGED <<db, saveVars, readVars, moves, beaten>>

\* Its UPDATE writes what Assign names: the username.  (Mutants: the row it has
\* read; an empty row.)
SavedEmpty(r) == None
SavedAgain(r) == seen[r]
Assigned(r) == profile[user[r]]

Sync(r) ==
  /\ pc[r] = "sync"
  /\ Goto(r, "handler")
  /\ profile' = [profile EXCEPT ![user[r]] = Assigned(r)]
  /\ seen' = [seen EXCEPT ![r] = None]
  /\ UNCHANGED <<members, rows, lastRow, user, saveVars, readVars, accepted, moves, beaten>>

\* A statement fails and changes nothing.
StatementFails(r) ==
  /\ pc[r] \notin {"idle", "handler", "collect"}
  /\ Answer(r, FALSE)
  /\ beaten' = beaten \ {r}
  /\ UNCHANGED <<db, moves>>

-----------------------------------------------------------------------------
(* The columns of a user: one statement each.                              *)

\* GetChatKeys calls that are on their way get to know a change late.
NoteChange(u) ==
  unsure' = [r \in Calls |-> IF pc[r] \in Reading THEN unsure[r] \cup {u} ELSE {}]

\* An empty public key is refused.  The statement is answered, or its answer is lost.
UpdatePublicKey(r) ==
  /\ pc[r] = "handler"
  /\ profile' = [profile EXCEPT ![user[r]].public = r]
  /\ NoteChange(user[r])
  /\ \E ok \in BOOLEAN : End(r, ok)
  /\ UNCHANGED <<members, rows, lastRow, moves, beaten>>

SaveBackup(r, nonempty) ==
  /\ pc[r] = "handler"
  /\ profile' = [profile EXCEPT ![user[r]].backup = nonempty]
  /\ \E ok \in BOOLEAN : Answer(r, ok)
  /\ UNCHANGED <<members, rows, lastRow, moves, beaten>>

\* The handlers that change nothing of this, GetRoomKey among them.
OtherHandler(r) ==
  /\ pc[r] = "handler"
  /\ \E ok \in BOOLEAN : Answer(r, ok)
  /\ UNCHANGED <<db, moves, beaten>>

-----------------------------------------------------------------------------
(* SaveRoomKey.                                                            *)

SaveRoomKey(r, u, k) ==
  /\ pc[r] = "handler"
  /\ Goto(r, "checkCaller")
  /\ body' = [body EXCEPT ![r] = [user |-> u, key |-> k]]
  /\ ever' = [ever EXCEPT ![r] = members]
  /\ UNCHANGED <<db, user, seen, row, readVars, accepted, moves, beaten>>

\* The members it asks for, one GetChatByID each.  (Mutant: the caller twice.)
CallerAgain(r) == user[r]
Target(r) == body[r].user

Check(r, statement, u, next) ==
  /\ pc[r] = statement
  /\ IF u \in members
     THEN Goto(r, next) /\ UNCHANGED <<user, seen, saveVars, readVars, accepted, beaten>>
     ELSE Answer(r, FALSE) /\ beaten' = beaten \ {r}
  /\ UNCHANGED <<db, moves>>

CheckCaller(r) == Check(r, "checkCaller", user[r], "checkTarget")
CheckTarget(r) == Check(r, "checkTarget", Target(r), "find")

RowsOf(u) == {i \in RowIds : rows[i] # None /\ rows[i].user = u}

\* First orders by id.  (Mutant: Last.)
Last(u) == CHOOSE i \in RowsOf(u) : \A j \in RowsOf(u) : j <= i
First(u) == CHOOSE i \in RowsOf(u) : \A j \in RowsOf(u) : i <= j

\* FirstOrCreate: the SELECT.
Find(r) ==
  LET u == body[r].user IN
  /\ pc[r] = "find"
  /\ IF RowsOf(u) = {}
     THEN Goto(r, "insert") /\ UNCHANGED row
     ELSE Goto(r, "update") /\ row' = [row EXCEPT ![r] = First(u)]
  /\ UNCHANGED <<db, user, seen, body, ever, readVars, accepted, moves, beaten>>

\* The end of a save: its row is written, and if it is the first one, the user's key
\* has changed and the other saves of that key have been overtaken.
Saved(r, written) ==
  LET u == body[r].user
      others == {q \in Calls \ {r} : pc[q] \in Saving /\ body[q].user = u}
  IN
  /\ rows' = IF written THEN [rows EXCEPT ![row[r]] = body[r]] ELSE rows
  /\ beaten' = IF written /\ \A i \in RowsOf(u) : row[r] <= i
               THEN (beaten \cup others) \ {r} ELSE beaten \ {r}
  /\ \E ok \in BOOLEAN : Answer(r, ok)
  /\ UNCHANGED <<members, profile, lastRow, moves>>

\* Its UPDATE leaves out what is empty in Assign.
Update(r) == pc[r] = "update" /\ Saved(r, body[r].key # Blank)

\* Its INSERT, and the COMMIT that shows the row to others.
Insert(r) ==
  /\ pc[r] = "insert"
  /\ lastRow < MaxRow
  /\ lastRow' = lastRow + 1
  /\ row' = [row EXCEPT ![r] = lastRow']
  /\ Goto(r, "commit")
  /\ UNCHANGED <<members, profile, rows, user, seen, body, ever, readVars, accepted, moves, beaten>>

Commit(r) == pc[r] = "commit" /\ Saved(r, TRUE)

-----------------------------------------------------------------------------
(* GetChatKeys: the chat, its members, and a SELECT for each of them.      *)

GetChatKeys(r) ==
  /\ pc[r] = "handler"
  /\ Goto(r, "checkReader")
  /\ UNCHANGED <<db, user, seen, saveVars, readVars, accepted, moves, beaten>>

CheckReader(r) == Check(r, "checkReader", user[r], "readMembers")

ReadMembers(r) ==
  /\ pc[r] = "readMembers"
  /\ Goto(r, "collect")
  /\ todo' = [todo EXCEPT ![r] = members]
  /\ UNCHANGED <<db, user, seen, saveVars, keys, unsure, accepted, moves, beaten>>

\* A user without a public key is left out, and the loop goes on.  (Mutant: it ends.)
StopAtBlank(r, u) == IF profile[u].public = Blank THEN {} ELSE todo[r] \ {u}
Remaining(r, u) == todo[r] \ {u}

Collect(r, u) ==
  LET public == profile[u].public IN
  /\ pc[r] = "collect"
  /\ u \in todo[r]
  /\ todo' = [todo EXCEPT ![r] = Remaining(r, u)]
  /\ keys' = IF public = Blank THEN keys
             ELSE [keys EXCEPT ![r] = @ \cup {[user |-> u, key |-> public]}]
  /\ UNCHANGED <<db, pc, user, seen, saveVars, unsure, accepted, moves, beaten>>

\* FindByID fails: the user is left out, and the answer is 200 all the same.
Skip(r, u) ==
  /\ pc[r] = "collect"
  /\ u \in todo[r]
  /\ todo' = [todo EXCEPT ![r] = @ \ {u}]
  /\ unsure' = [unsure EXCEPT ![r] = @ \cup {u}]
  /\ UNCHANGED <<db, pc, user, seen, saveVars, keys, accepted, moves, beaten>>

AnswerKeys(r) ==
  /\ pc[r] = "collect"
  /\ todo[r] = {}
  /\ Answer(r, TRUE)
  /\ UNCHANGED <<db, moves, beaten>>

-----------------------------------------------------------------------------
(* Other calls.                                                            *)

Move(u, users) ==
  /\ moves < MaxMoves
  /\ moves' = moves + 1
  /\ members' = users
  /\ ever' = [r \in Calls |-> IF pc[r] \in Saving THEN ever[r] \cup users ELSE {}]
  /\ NoteChange(u)
  /\ UNCHANGED <<profile, rows, lastRow, pc, user, seen, body, row, todo, keys, accepted, beaten>>

Join(u) == u \notin members /\ Move(u, members \cup {u})
Leave(u) == u \in members /\ Move(u, members \ {u})

Client(r) ==
  \/ \E u \in Users : Begin(r, u)
  \/ OtherHandler(r)
  \/ "publicKey" \in family /\ UpdatePublicKey(r)
  \/ "backup" \in family /\ \E nonempty \in BOOLEAN : SaveBackup(r, nonempty)
  \/ "chatKeys" \in family /\ GetChatKeys(r)
  \/ "roomKey" \in family /\ \E u \in Users, k \in {r, Blank} : SaveRoomKey(r, u, k)

Serve(r) ==
  \/ Sync(r) \/ StatementFails(r)
  \/ CheckCaller(r) \/ CheckTarget(r) \/ Find(r) \/ Update(r) \/ Insert(r) \/ Commit(r)
  \/ CheckReader(r) \/ ReadMembers(r) \/ AnswerKeys(r)
  \/ \E u \in Users : Collect(r, u) \/ Skip(r, u)

Next ==
  /\ \/ \E r \in Calls : Client(r) \/ Serve(r)
     \/ \E u \in Users : Join(u) \/ Leave(u)
  /\ UNCHANGED family

Spec == Init /\ [][Next]_vars

-----------------------------------------------------------------------------
(* Safety.                                                                 *)

\* A request changes nothing but the username of its user on its way to the handler: a
\* public key and a backup last until their user sends new ones.
KeysSurviveSync ==
  [][\A u \in Users :
       profile'[u] # profile[u] => \E r \in Calls : pc[r] = "handler" /\ user[r] = u]_vars

\* A room key is written only for a user, and by a user, who was in the chat at some
\* time during the call.
SavedForMembers ==
  [][\A r \in Calls :
       rows' # rows /\ pc[r] \in {"update", "commit"} /\ pc'[r] = "idle" =>
         {user[r], body[r].user} \subseteq ever[r]]_vars

\* GetChatKeys answers the public keys of the chat, although it reads them one by one:
\* of a user whose membership and key stay the same, the key if there is one; only a
\* failed SELECT leaves one out.
ChatKeysRight ==
  \A r \in Calls : pc[r] = "collect" /\ todo[r] = {} =>
    \A u \in Users \ unsure[r] :
      {k \in keys[r] : k.user = u}
        = IF u \in members /\ profile[u].public # Blank
          THEN {[user |-> u, key |-> profile[u].public]} ELSE {}

\* What GetRoomKey finds for each user.
CurrentKey == [u \in Users |-> IF RowsOf(u) = {} THEN None ELSE rows[First(u)].key]

\* However many rows a user's key has got, they implement one key that changes at once.
R == INSTANCE KeyRegister WITH value <- CurrentKey, save <- body

KeyRegisterSpec == R!Spec

=============================================================================
