------------------------------ MODULE Messages ------------------------------
(***************************************************************************)
(* Messages of the messenger server: internal/service/message_service.go   *)
(* over internal/repository, called by internal/handler/message_handler.go *)
(* (REST) and by the callback of a WebSocket (handler/ws_handler.go).      *)
(*                                                                         *)
(* A call runs in a goroutine of its own and executes its SQL statements   *)
(* one at a time, each in its own transaction.  The steps of a call are    *)
(* its statements and the final broadcast.                                 *)
(*                                                                         *)
(* Abstractions.  A text, plain or encrypted, is the name of the call that *)
(* wrote it, or Blank.  The five encrypted columns are written together    *)
(* and are one.  HTTP codes are left out.  A broadcast is one step here:   *)
(* what the hub does with it is module Hub.  Chats are never deleted.      *)
(***************************************************************************)
EXTENDS Naturals

CONSTANTS
  Users, Chats,
  Calls,       \* goroutines serving a REST request or a WebSocket frame
  MaxId,       \* bounds the messages ever stored
  MaxFailures, \* bounds the failed statements and crashes
  MaxMoves,    \* bounds the users who join and leave
  None,        \* no row, no request, no event
  Gone,        \* the event message_deleted
  Blank        \* the empty text

ASSUME MessagesAssumption ==
  /\ MaxId \in Nat
  /\ MaxFailures \in Nat
  /\ MaxMoves \in Nat
  /\ Blank \notin Calls

Ids == 1..MaxId
Texts == Calls \cup {Blank}
Row == [chat : Chats, user : Users, text : Texts, cipher : Texts]
Request == [kind : {"post", "frame", "patch", "delete"}, user : Users, chat : Chats,
            id : 0..MaxId, text : Texts, cipher : Texts]
Origin == [chat : Chats, user : Users]

ASSUME NoneAssumption == None \notin Row /\ None \notin Request /\ None \notin Origin

VARIABLES
  members,    \* table chat_members: the users of each chat
  rows,       \* table messages
  lastId,     \* its sequence
  pc,         \* the statement each call executes next
  req,        \* what the call was asked
  target,     \* the message it created, found or deleted; 0 before
  seen,       \* the row it holds: msg in UpdateMessage, then fullMsg
  to,         \* chat.MemberIDs() it read for the broadcast
  second,     \* the frame's second run of the callback
  author,     \* history: chat and user a message was stored with
  lastEvent,  \* history: the last event about a message sent into its chat
  untold,     \* history: messages changed since, with no event into their chat
  overlapped, \* history: messages two calls held at a time
  stayed,     \* history: members of the call's chat since it began
  ever,       \* history: and the members at any time since
  failures,   \* history: statements that failed, and crashes
  moves       \* history: users who joined or left

db == <<members, rows, lastId>>
callVars == <<pc, req, target, seen, to, second>>
told == <<lastEvent, untold>>
audience == <<stayed, ever>>
vars == <<db, callVars, author, told, overlapped, audience, failures, moves>>

Statement == {"check", "insert", "find", "save", "encrypt", "delete", "load", "recheck",
              "members", "broadcast"}

TypeOK ==
  /\ members \in [Chats -> SUBSET Users]
  /\ rows \in [Ids -> Row \cup {None}]
  /\ lastId \in 0..MaxId
  /\ pc \in [Calls -> Statement \cup {"idle"}]
  /\ req \in [Calls -> Request \cup {None}]
  /\ target \in [Calls -> 0..MaxId]
  /\ seen \in [Calls -> Row \cup {None}]
  /\ to \in [Calls -> SUBSET Users]
  /\ second \in [Calls -> BOOLEAN]
  /\ author \in [Ids -> Origin \cup {None}]
  /\ lastEvent \in [Ids -> Row \cup {None, Gone}]
  /\ untold \in SUBSET Ids
  /\ overlapped \in SUBSET Ids
  /\ stayed \in [Calls -> SUBSET Users]
  /\ ever \in [Calls -> SUBSET Users]
  /\ failures \in 0..MaxFailures
  /\ moves \in 0..MaxMoves

Init ==
  /\ members \in [Chats -> SUBSET Users]
  /\ rows = [id \in Ids |-> None]
  /\ lastId = 0
  /\ pc = [r \in Calls |-> "idle"]
  /\ req = [r \in Calls |-> None]
  /\ target = [r \in Calls |-> 0]
  /\ seen = [r \in Calls |-> None]
  /\ to = [r \in Calls |-> {}]
  /\ second = [r \in Calls |-> FALSE]
  /\ author = [id \in Ids |-> None]
  /\ lastEvent = [id \in Ids |-> None]
  /\ untold = {}
  /\ overlapped = {}
  /\ stayed = [r \in Calls |-> {}]
  /\ ever = [r \in Calls |-> {}]
  /\ failures = 0
  /\ moves = 0

-----------------------------------------------------------------------------
(* Calls begin and end.                                                    *)

Begin(r, statement, request) ==
  /\ pc[r] = "idle"
  /\ pc' = [pc EXCEPT ![r] = statement]
  /\ req' = [req EXCEPT ![r] = request]
  /\ stayed' = [stayed EXCEPT ![r] = members[request.chat]]
  /\ ever' = [ever EXCEPT ![r] = members[request.chat]]
  /\ UNCHANGED <<db, target, seen, to, second, author, told, overlapped, failures>>

Goto(r, statement) ==
  /\ pc' = [pc EXCEPT ![r] = statement]
  /\ UNCHANGED <<req, second, audience>>

\* ReadPump hands a chat_message frame to the callback when it is read, and once more
\* after it has parsed the frame itself.
Again(r) == req[r].kind = "frame" /\ ~second[r]

\* The service returns; the first run of a frame is followed by the second.
Return(r) ==
  /\ pc' = [pc EXCEPT ![r] = IF Again(r) THEN "check" ELSE "idle"]
  /\ second' = [second EXCEPT ![r] = Again(r)]
  /\ req' = [req EXCEPT ![r] = IF Again(r) THEN @ ELSE None]
  /\ stayed' = [stayed EXCEPT ![r] = IF Again(r) THEN members[req[r].chat] ELSE {}]
  /\ ever' = [ever EXCEPT ![r] = IF Again(r) THEN members[req[r].chat] ELSE {}]
  /\ target' = [target EXCEPT ![r] = 0]
  /\ seen' = [seen EXCEPT ![r] = None]
  /\ to' = [to EXCEPT ![r] = {}]

\* It has changed the message id and returns without an event.
ReturnSilently(r, id) ==
  /\ Return(r)
  /\ untold' = untold \cup {id}
  /\ UNCHANGED lastEvent

\* A statement that wrote the message id is reported done and the call goes on, or
\* its answer is lost and the service takes it for failed.
Written(r, id, statement, row) ==
  \/ /\ Goto(r, statement)
     /\ target' = [target EXCEPT ![r] = id]
     /\ seen' = [seen EXCEPT ![r] = row]
     /\ UNCHANGED <<to, told, failures>>
  \/ /\ failures < MaxFailures
     /\ failures' = failures + 1
     /\ ReturnSilently(r, id)

\* A call takes hold of a message another call may hold.
Overlap(r, id) ==
  overlapped' = IF \E q \in Calls \ {r} : target[q] = id
                THEN overlapped \cup {id} ELSE overlapped

-----------------------------------------------------------------------------
(* SendMessage: POST /chats/:id/messages, and a chat_message frame.        *)

Post(r, u, c, text, cipher) ==
  /\ text # Blank \/ cipher # Blank
  /\ Begin(r, "check", [kind |-> "post", user |-> u, chat |-> c, id |-> 0,
                        text |-> text, cipher |-> cipher])

Frame(r, u, c) ==
  Begin(r, "check", [kind |-> "frame", user |-> u, chat |-> c, id |-> 0,
                     text |-> r, cipher |-> Blank])

\* GetChatByID, the JOIN with chat_members.  (Mutants: anyone is let in; a chat with
\* nobody to tell is not found.)
AnyoneIn(u, c) == TRUE
InChatWithOthers(u, c) == u \in members[c] /\ members[c] # {u}
InChat(u, c) == u \in members[c]

CheckMember(r) ==
  /\ pc[r] = "check"
  /\ IF InChat(req[r].user, req[r].chat)
     THEN Goto(r, "insert") /\ UNCHANGED <<target, seen, to>>
     ELSE Return(r)
  /\ UNCHANGED <<db, author, told, overlapped, failures>>

Insert(r) ==
  /\ pc[r] = "insert"
  /\ lastId < MaxId
  /\ lastId' = lastId + 1
  /\ rows' = [rows EXCEPT ![lastId'] = [chat |-> req[r].chat, user |-> req[r].user,
                                        text |-> req[r].text, cipher |-> req[r].cipher]]
  /\ author' = [author EXCEPT ![lastId'] = [chat |-> req[r].chat, user |-> req[r].user]]
  /\ Written(r, lastId', "load", None)
  /\ UNCHANGED <<members, overlapped>>

-----------------------------------------------------------------------------
(* UpdateMessage.                                                          *)

Patch(r, u, c, id, text, cipher) ==
  Begin(r, "find", [kind |-> "patch", user |-> u, chat |-> c, id |-> id,
                    text |-> text, cipher |-> cipher])

\* WHERE id = ? AND sender_id = ?  (Mutant: the sender is not asked for.)
Exists(id, u) == rows[id] # None
Mine(id, u) == rows[id] # None /\ rows[id].user = u

FindMessage(r) ==
  /\ pc[r] = "find"
  /\ Mine(req[r].id, req[r].user)
  /\ Goto(r, "save")
  /\ target' = [target EXCEPT ![r] = req[r].id]
  /\ seen' = [seen EXCEPT ![r] = rows[req[r].id]]
  /\ Overlap(r, req[r].id)
  /\ UNCHANGED <<db, to, author, told, failures>>

NotFound(r) ==
  /\ pc[r] \in {"find", "delete"}
  /\ ~Mine(req[r].id, req[r].user)
  /\ Return(r)
  /\ UNCHANGED <<db, author, told, overlapped, failures>>

\* Save writes every column of the row it holds, and inserts the row when the UPDATE
\* finds none.  (Mutant: the new text is forgotten.)
SavedUnchanged(r) == seen[r]
Saved(r) == [seen[r] EXCEPT !.text = req[r].text]

SaveMessage(r) ==
  /\ pc[r] = "save"
  /\ rows' = [rows EXCEPT ![target[r]] = Saved(r)]
  /\ Written(r, target[r], IF req[r].cipher = Blank THEN "load" ELSE "encrypt", seen[r])
  /\ UNCHANGED <<members, lastId, author, overlapped>>

\* UpdateEncryptedFields does not mind a row that is not there.  (Mutant: Save again.)
EncryptedSaved(r) == [rows EXCEPT ![target[r]] = [seen[r] EXCEPT !.cipher = req[r].cipher]]
Encrypted(r) ==
  IF rows[target[r]] = None THEN rows
  ELSE [rows EXCEPT ![target[r]].cipher = req[r].cipher]

UpdateEncryptedFields(r) ==
  /\ pc[r] = "encrypt"
  /\ rows' = Encrypted(r)
  /\ Written(r, target[r], "load", seen[r])
  /\ UNCHANGED <<members, lastId, author, overlapped>>

-----------------------------------------------------------------------------
(* DeleteMessage.                                                          *)

Delete(r, u, c, id) ==
  Begin(r, "delete", [kind |-> "delete", user |-> u, chat |-> c, id |-> id,
                      text |-> Blank, cipher |-> Blank])

DeleteRow(r) ==
  /\ pc[r] = "delete"
  /\ Mine(req[r].id, req[r].user)
  /\ rows' = [rows EXCEPT ![req[r].id] = None]
  /\ Overlap(r, req[r].id)
  /\ Written(r, req[r].id, "recheck", None)
  /\ UNCHANGED <<members, lastId, author>>

-----------------------------------------------------------------------------
(* The common end: load the row, read the chat again, broadcast.           *)

\* First(&fullMsg, id).  (Mutant: one without a plain text is not found.)
StoredInPlain(id) == rows[id] # None /\ rows[id].text # Blank
Stored(id) == rows[id] # None

Load(r) ==
  /\ pc[r] = "load"
  /\ IF Stored(target[r])
     THEN /\ Goto(r, "recheck")
          /\ seen' = [seen EXCEPT ![r] = rows[target[r]]]
          /\ UNCHANGED <<target, to, told>>
     ELSE ReturnSilently(r, target[r])
  /\ UNCHANGED <<db, author, overlapped, failures>>

\* GetChatByID again.  The caller of UpdateMessage and DeleteMessage is asked for
\* here only, and an error only drops the event.
Recheck(r) ==
  /\ pc[r] = "recheck"
  /\ IF InChat(req[r].user, req[r].chat)
     THEN Goto(r, "members") /\ UNCHANGED <<target, seen, to, told>>
     ELSE ReturnSilently(r, target[r])
  /\ UNCHANGED <<db, author, overlapped, failures>>

\* Preload("Members.User") is a statement of its own.  (Mutants: it is
\* bound by the JOIN; the chat_id column is collected.)
JoinedMember(c, u) == members[c] \cap {u}
ChatIDs(c, u) == {c}
MemberIDs(c, u) == members[c]

ReadMembers(r) ==
  /\ pc[r] = "members"
  /\ Goto(r, "broadcast")
  /\ to' = [to EXCEPT ![r] = MemberIDs(req[r].chat, req[r].user)]
  /\ UNCHANGED <<db, target, seen, author, told, overlapped, failures>>

\* What the event says of the message.  (Mutant: it is made of msg, whose plain text
\* UpdateMessage has cleared, and not of fullMsg.)
EventOfMsg(r) ==
  IF req[r].kind = "delete" THEN Gone
  ELSE IF req[r].kind = "patch" /\ req[r].cipher # Blank THEN [seen[r] EXCEPT !.text = Blank]
  ELSE seen[r]
Event(r) == IF req[r].kind = "delete" THEN Gone ELSE seen[r]

\* BroadcastToChat: the event goes to every member but the sender, in the chat of the
\* URL, which need not be the chat of the message.
Broadcast(r) ==
  /\ pc[r] = "broadcast"
  /\ Return(r)
  /\ IF req[r].chat = author[target[r]].chat
     THEN /\ lastEvent' = [lastEvent EXCEPT ![target[r]] = Event(r)]
          /\ untold' = untold \ {target[r]}
     ELSE /\ untold' = untold \cup {target[r]}
          /\ UNCHANGED lastEvent
  /\ UNCHANGED <<db, author, overlapped, failures>>

-----------------------------------------------------------------------------
(* Around the calls.                                                       *)

\* The statements a call executes once it has changed its message.
AfterWrite == {"encrypt", "load", "recheck", "members", "broadcast"}

\* A statement fails and changes nothing: a connection is lost, or the five seconds of
\* a frame are over.
StatementFails(r) ==
  /\ failures < MaxFailures
  /\ failures' = failures + 1
  /\ pc[r] \notin {"idle", "broadcast"}
  /\ IF pc[r] \in AfterWrite THEN ReturnSilently(r, target[r])
     ELSE Return(r) /\ UNCHANGED told
  /\ UNCHANGED <<db, author, overlapped>>

\* The process dies and docker starts a new one.
Crash ==
  /\ failures < MaxFailures
  /\ failures' = failures + 1
  /\ pc' = [r \in Calls |-> "idle"]
  /\ req' = [r \in Calls |-> None]
  /\ target' = [r \in Calls |-> 0]
  /\ seen' = [r \in Calls |-> None]
  /\ to' = [r \in Calls |-> {}]
  /\ second' = [r \in Calls |-> FALSE]
  /\ stayed' = [r \in Calls |-> {}]
  /\ ever' = [r \in Calls |-> {}]
  /\ untold' = untold \cup {target[r] : r \in {q \in Calls : pc[q] \in AfterWrite}}
  /\ UNCHANGED <<db, author, lastEvent, overlapped>>

\* Other calls add members to a chat, and members leave.
Join(u, c) ==
  /\ moves < MaxMoves
  /\ moves' = moves + 1
  /\ u \notin members[c]
  /\ members' = [members EXCEPT ![c] = @ \cup {u}]
  /\ ever' = [r \in Calls |-> IF req[r] # None /\ req[r].chat = c
                              THEN ever[r] \cup {u} ELSE ever[r]]
  /\ UNCHANGED <<rows, lastId, callVars, author, told, overlapped, stayed, failures>>

Leave(u, c) ==
  /\ moves < MaxMoves
  /\ moves' = moves + 1
  /\ u \in members[c]
  /\ members' = [members EXCEPT ![c] = @ \ {u}]
  /\ stayed' = [r \in Calls |-> IF req[r] # None /\ req[r].chat = c
                                THEN stayed[r] \ {u} ELSE stayed[r]]
  /\ UNCHANGED <<rows, lastId, callVars, author, told, overlapped, ever, failures>>

\* What a client sends: its own texts, to any chat, about any message.
Client(r) ==
  \E u \in Users, c \in Chats :
    \/ Frame(r, u, c)
    \/ \E text, cipher \in {r, Blank} :
         \/ Post(r, u, c, text, cipher)
         \/ \E id \in Ids : Patch(r, u, c, id, text, cipher)
    \/ \E id \in Ids : Delete(r, u, c, id)

\* What the server does.
Serve(r) ==
  \/ CheckMember(r) \/ Insert(r)
  \/ FindMessage(r) \/ NotFound(r) \/ SaveMessage(r) \/ UpdateEncryptedFields(r)
  \/ DeleteRow(r)
  \/ Load(r) \/ Recheck(r) \/ ReadMembers(r) \/ Broadcast(r)

Next ==
  \/ (\E r \in Calls : Client(r) \/ Serve(r) \/ StatementFails(r)) /\ UNCHANGED moves
  \/ Crash /\ UNCHANGED moves
  \/ \E u \in Users, c \in Chats : Join(u, c) \/ Leave(u, c)

Spec == Init /\ [][Next]_vars

-----------------------------------------------------------------------------
(* Safety.                                                                 *)

Idle == \A r \in Calls : pc[r] = "idle"

\* What the chat was last told of a message is what the database holds, once no call is
\* running, unless two calls held the message at a time or it was changed with no event.
ScreensCurrent ==
  Idle => \A id \in Ids :
    author[id] # None =>
      \/ lastEvent[id] = IF rows[id] = None THEN Gone ELSE rows[id]
      \/ id \in overlapped
      \/ id \in untold

\* A message changes by calls of its author only, and keeps its chat and its author,
\* also when a stale row is written back.
AuthorOnly ==
  [][\A id \in Ids : rows'[id] # rows[id] =>
       /\ \E r \in Calls : pc'[r] # pc[r] /\ req[r].user = author'[id].user
       /\ rows'[id] # None => author'[id] = [chat |-> rows'[id].chat, user |-> rows'[id].user]
       /\ author[id] # None => author'[id] = author[id]]_vars

\* A deleted message comes back only when an edit that had found it saves it, and the
\* edit and the deletion overlapped.
ReturnsByStaleSave ==
  [][\A id \in Ids : rows[id] = None /\ author[id] # None /\ rows'[id] # None =>
       /\ id \in overlapped
       /\ \E r \in Calls : pc[r] = "save" /\ target[r] = id /\ rows'[id].text = req[r].text]_vars

\* The row an edit answers with is the row as edited, unless another call held the
\* message meanwhile.
EditTakesEffect ==
  \A r \in Calls :
    pc[r] \in {"recheck", "members", "broadcast"} /\ req[r].kind = "patch" =>
      \/ target[r] \in overlapped
      \/ /\ seen[r].text = req[r].text
         /\ req[r].cipher # Blank => seen[r].cipher = req[r].cipher

\* An event reaches every member who stays in the chat during the call, and nobody who
\* was outside the chat all the time.
AudienceRight ==
  \A r \in Calls : pc[r] = "broadcast" => stayed[r] \subseteq to[r] /\ to[r] \subseteq ever[r]

\* A message is stored only for a user who was in the chat while the call ran.
StoredForMembers ==
  [][\A r \in Calls : pc[r] = "insert" /\ rows' # rows /\ pc'[r] # "insert" =>
       req[r].user \in ever[r]]_vars

\* A call changes a message and sends no event only when something failed, its user was
\* out of the chat, or another call deleted the message.
SilenceExplained ==
  [][\A r \in Calls :
       pc[r] \in AfterWrite \ {"broadcast"} /\ pc'[r] \notin AfterWrite =>
         \/ failures' # failures
         \/ pc[r] = "recheck" /\ req[r].user \notin stayed[r]
         \/ pc[r] = "load" /\ target[r] \in overlapped]_vars

-----------------------------------------------------------------------------
(* What comments and the README of the messenger server say, and the code  *)
(* does not do.                                                            *)

\* UpdateMessage clears the plain text of a message that has an encrypted one, so that
\* the server does not keep it.
PlaintextCleared ==
  [][\A r \in Calls :
       pc[r] = "encrypt" /\ pc'[r] = "load" /\ rows'[target[r]] # None =>
         rows'[target[r]].text = Blank]_vars

\* The server sends out the new message of a frame: a frame is one message.
OneFrameOneMessage ==
  [][\A r \in Calls : pc[r] = "insert" /\ second[r] => rows' = rows]_vars

=============================================================================
