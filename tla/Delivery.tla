------------------------------ MODULE Delivery ------------------------------
(***************************************************************************)
(* From a statement of the messenger server to the screen of a client:     *)
(* read receipts (MarkAsRead in internal/handler/chat_handler.go) and      *)
(* online statuses (internal/ws/hub.go), as each connection gets to see    *)
(* them.                                                                   *)
(*                                                                         *)
(* The module composes a call, statement by statement as in Messages, with *)
(* the loops of the hub over the connections, as in Hub.                   *)
(*                                                                         *)
(* Abstractions.  There is one chat.  A send channel is its number of      *)
(* buffered payloads, and what a client shows is what was put into its     *)
(* channel last, which is delivered in order, or an answer of GET /online, *)
(* which may overtake it or be overtaken.  h.mu keeps a change of the map  *)
(* apart from the loops and is not held otherwise.  Other payloads,        *)
(* messages and typing frames, take part in module Hub.  A buffer that is  *)
(* found full is closed in the same step; module Hub has the two steps,    *)
(* the mutex, and what a WritePump does that outlives its connection: here *)
(* it may end the process, and what the connection shows that has its      *)
(* websocket.Conn by then (recycled) is not claimed.                       *)
(***************************************************************************)
EXTENDS Naturals

CONSTANTS
  Users,
  Readers,   \* users who send read receipts
  Conns,     \* WebSocket connections, *Client
  Askers,    \* those whose clients ask GET /online
  Requests,  \* goroutines serving PUT /chats/:id/read
  MaxId,     \* message ids a client names
  SendCap,   \* capacity of Client.send: 256 in client.go
  MaxMoves,  \* bounds the joins and leaves
  None

ASSUME DeliveryAssumption ==
  /\ Readers \subseteq Users
  /\ Askers \subseteq Conns
  /\ MaxId \in Nat
  /\ MaxMoves \in Nat
  /\ SendCap \in Nat \ {0}
  /\ None \notin Conns

\* 0: nothing read yet, or a body that names no id.
Ids == 0..MaxId

VARIABLES
  members,   \* table chat_members: the users of the chat
  lastRead,  \* its column last_read_message_id; 0 without a row
  pc,        \* where each goroutine of Requests stands
  req,       \* the user it serves, and the message id of a read receipt
  to,        \* the recipients it has collected
  todo,      \* connections its loop has not visited yet
  evicting,  \* the connection it waits to unregister
  owner,     \* Client.userID: whoever connects, fixed for the connection
  conn,      \* whether each connection is registered, and unregistered, by its handler
  clients,   \* connections in Hub.clients
  hubPc, hubOp, hubConn, hubTodo,  \* where Hub.Run stands, and what it works on
  queued,    \* payloads buffered in Client.send
  closed,    \* connections whose send channel is closed
  reads,     \* the last read receipt each connection was sent, by user
  shows,     \* the users each connection takes for online
  asking,    \* connections with an answer of GET /online on its way
  snapshot,  \* the users it names
  known,     \* connections that show such an answer
  recycled,  \* connections whose websocket.Conn an ended one may still write to
  since,     \* history: users who came or went since the answer on its way was read
  missed,    \* history: users whose last status a connection missed, or took the answer for
  steady,    \* history: receipts during which their user stayed and sent no other
  moves      \* history: joins and leaves

db == <<members, lastRead>>
callVars == <<pc, req, to, todo, evicting>>
hubVars == <<clients, hubPc, hubOp, hubConn, hubTodo>>
connVars == <<owner, conn, recycled>>
chanVars == <<queued, closed>>
answers == <<asking, snapshot, known, since>>
screens == <<reads, shows, missed, answers>>
vars == <<db, callVars, connVars, hubVars, chanVars, screens, steady, moves>>

\* Where a goroutine stands when it holds h.mu for reading.
InLoop == {"iter", "unregister"}

Online(connections) == {owner[c] : c \in connections}

TypeOK ==
  /\ members \in SUBSET Users
  /\ lastRead \in [Users -> Ids]
  /\ pc \in [Requests -> {"idle", "check", "update", "recheck", "members", "rlock"} \cup InLoop]
  /\ req \in [Requests -> [user : Users, id : Ids] \cup {None}]
  /\ to \in [Requests -> SUBSET Users]
  /\ todo \in [Requests -> SUBSET Conns]
  /\ evicting \in [Requests -> Conns \cup {None}]
  /\ owner \in [Conns -> Users]
  /\ conn \in [Conns -> {"new", "open", "gone", "dead"}]
  /\ clients \in SUBSET Conns
  /\ hubPc \in {"select", "lock", "announce"}
  /\ hubOp \in {"none", "register", "unregister"}
  /\ hubConn \in Conns \cup {None}
  /\ hubTodo \in SUBSET Conns
  /\ queued \in [Conns -> 0..SendCap]
  /\ closed \in SUBSET Conns
  /\ reads \in [Conns -> [Users -> Ids]]
  /\ shows \in [Conns -> SUBSET Users]
  /\ asking \in SUBSET Conns
  /\ snapshot \in [Conns -> SUBSET Users]
  /\ known \in SUBSET Conns
  /\ recycled \in SUBSET Conns
  /\ since \in [Conns -> SUBSET Users]
  /\ missed \in [Conns -> SUBSET Users]
  /\ steady \in SUBSET Requests
  /\ moves \in 0..MaxMoves

Init ==
  /\ members \in SUBSET Users
  /\ lastRead = [u \in Users |-> 0]
  /\ pc = [r \in Requests |-> "idle"]
  /\ req = [r \in Requests |-> None]
  /\ to = [r \in Requests |-> {}]
  /\ todo = [r \in Requests |-> {}]
  /\ evicting = [r \in Requests |-> None]
  /\ owner \in [Conns -> Users]
  /\ conn = [c \in Conns |-> "new"]
  /\ clients = {}
  /\ hubPc = "select"
  /\ hubOp = "none"
  /\ hubConn = None
  /\ hubTodo = {}
  /\ queued = [c \in Conns |-> 0]
  /\ closed = {}
  /\ reads = [c \in Conns |-> [u \in Users |-> 0]]
  /\ shows = [c \in Conns |-> {}]
  /\ asking = {}
  /\ snapshot = [c \in Conns |-> {}]
  /\ known = {}
  /\ recycled = {}
  /\ since = [c \in Conns |-> {}]
  /\ missed = [c \in Conns |-> {}]
  /\ steady = {}
  /\ moves = 0

-----------------------------------------------------------------------------
(* Calls.                                                                  *)

Goto(r, place) == pc' = [pc EXCEPT ![r] = place]

\* The call is over: what it held is out of scope.
Return(r) ==
  /\ Goto(r, "idle")
  /\ req' = [req EXCEPT ![r] = None]
  /\ to' = [to EXCEPT ![r] = {}]
  /\ todo' = [todo EXCEPT ![r] = {}]
  /\ evicting' = [evicting EXCEPT ![r] = None]
  /\ steady' = steady \ {r}

\* PUT /chats/:id/read, by a user who may have another one on its way.
MarkAsRead(r, u, id) ==
  LET others == {q \in Requests : pc[q] # "idle" /\ req[q].user = u} IN
  /\ pc[r] = "idle"
  /\ Goto(r, "check")
  /\ req' = [req EXCEPT ![r] = [user |-> u, id |-> id]]
  /\ steady' = IF others = {} THEN steady \cup {r} ELSE steady \ others
  /\ UNCHANGED <<db, to, todo, evicting, connVars, hubVars, chanVars, screens, moves>>

\* GetChatByID, in ChatService.MarkAsRead.
CheckMember(r) ==
  /\ pc[r] = "check"
  /\ IF req[r].user \in members
     THEN Goto(r, "update") /\ UNCHANGED <<req, to, todo, evicting, steady>>
     ELSE Return(r)
  /\ UNCHANGED <<db, connVars, hubVars, chanVars, screens, moves>>

\* UPDATE chat_members: whether there was a row, and what it held, is not looked at.
\* (Mutant: the mark moves forward only.)
MarkForward(r) == IF req[r].id > lastRead[req[r].user] THEN req[r].id ELSE lastRead[req[r].user]
Mark(r) == req[r].id

UpdateLastRead(r) ==
  /\ pc[r] = "update"
  /\ lastRead' = IF req[r].user \in members
                 THEN [lastRead EXCEPT ![req[r].user] = Mark(r)] ELSE lastRead
  /\ \/ Goto(r, "recheck") /\ UNCHANGED <<req, to, todo, evicting, steady>>
     \/ Return(r)  \* its answer is lost: 500
  /\ UNCHANGED <<members, connVars, hubVars, chanVars, screens, moves>>

\* GetChatByID, for the members to tell; an error only drops the event.
Recheck(r) ==
  /\ pc[r] = "recheck"
  /\ IF req[r].user \in members
     THEN Goto(r, "members") /\ UNCHANGED <<req, to, todo, evicting, steady>>
     ELSE Return(r)
  /\ UNCHANGED <<db, connVars, hubVars, chanVars, screens, moves>>

\* Its Preload("Members.User"), and MemberIDs.
ReadMembers(r) ==
  /\ pc[r] = "members"
  /\ Goto(r, "rlock")
  /\ to' = [to EXCEPT ![r] = members]
  /\ UNCHANGED <<db, req, todo, evicting, connVars, hubVars, chanVars, screens, steady, moves>>

\* A statement fails: 500, or 200 without an event.
StatementFails(r) ==
  /\ pc[r] \in {"check", "update", "recheck", "members"}
  /\ Return(r)
  /\ UNCHANGED <<db, connVars, hubVars, chanVars, screens, moves>>

\* Other calls.
Join(u) ==
  /\ u \notin members
  /\ moves < MaxMoves
  /\ moves' = moves + 1
  /\ members' = members \cup {u}
  /\ UNCHANGED <<lastRead, callVars, connVars, hubVars, chanVars, screens, steady>>

Leave(u) ==
  /\ u \in members
  /\ moves < MaxMoves
  /\ moves' = moves + 1
  /\ members' = members \ {u}
  /\ lastRead' = [lastRead EXCEPT ![u] = 0]
  /\ steady' = {r \in steady : req[r].user # u}
  /\ UNCHANGED <<callVars, connVars, hubVars, chanVars, screens>>

-----------------------------------------------------------------------------
(* BroadcastReadReceipt, over BroadcastToChat.                             *)

\* The select finds room in the buffer.  (Mutant: off by one.)
RoomOffByOne(c) == queued[c] <= SendCap
Room(c) == queued[c] < SendCap

\* The loop skips the sender, on all its connections.
Recipients(r) == to[r] \ {req[r].user}

BeginIteration(r) ==
  /\ pc[r] = "rlock"
  /\ Goto(r, "iter")
  /\ todo' = [todo EXCEPT ![r] = {c \in clients : owner[c] \in Recipients(r)}]
  /\ UNCHANGED <<db, req, to, evicting, connVars, hubVars, chanVars, screens, steady, moves>>

\* What client c shows once it has read the payload of r.
Shown(r, c) == [reads EXCEPT ![c][req[r].user] = req[r].id]

Deliver(r, c) ==
  /\ pc[r] = "iter"
  /\ c \in todo[r] \ closed
  /\ Room(c)
  /\ queued' = [queued EXCEPT ![c] = @ + 1]
  /\ reads' = Shown(r, c)
  /\ todo' = [todo EXCEPT ![r] = @ \ {c}]
  /\ UNCHANGED <<db, pc, req, to, evicting, connVars, hubVars, closed, shows, missed, answers,
                 steady, moves>>

\* The connections left after one whose buffer was full.  (Mutant: the loop ends.)
LoopEnds(r, c) == {}
Remaining(r, c) == todo[r] \ {c}

Evict(r, c) ==
  /\ pc[r] = "iter"
  /\ c \in todo[r] \ closed
  /\ ~Room(c)
  /\ closed' = closed \cup {c}
  /\ Goto(r, "unregister")
  /\ evicting' = [evicting EXCEPT ![r] = c]
  /\ todo' = [todo EXCEPT ![r] = Remaining(r, c)]
  /\ UNCHANGED <<db, req, to, connVars, hubVars, queued, screens, steady, moves>>

\* A send on a closed channel: the call ends, recovered by fiber.
Panic(r) ==
  /\ pc[r] = "iter"
  /\ todo[r] \cap closed # {}
  /\ Return(r)
  /\ UNCHANGED <<db, connVars, hubVars, chanVars, screens, moves>>

EndIteration(r) ==
  /\ pc[r] = "iter"
  /\ todo[r] = {}
  /\ Return(r)
  /\ UNCHANGED <<db, connVars, hubVars, chanVars, screens, moves>>

-----------------------------------------------------------------------------
(* Connections and Hub.Run.                                                *)

\* WritePump takes a payload.
WriteNext(c) ==
  /\ queued[c] > 0
  /\ queued' = [queued EXCEPT ![c] = @ - 1]
  /\ UNCHANGED <<db, callVars, connVars, hubVars, closed, screens, steady, moves>>

\* Hub.Run receives a client, and calls Lock.
Receive(op, c) ==
  /\ hubPc = "select"
  /\ hubPc' = "lock"
  /\ hubOp' = op
  /\ hubConn' = c
  /\ UNCHANGED <<db, clients, hubTodo, chanVars, screens, moves>>

\* It joins with a new websocket.Conn, or with one that comes from an ended connection,
\* whose WritePump may still run.
ReceiveRegister(c) ==
  /\ conn[c] = "new"
  /\ conn' = [conn EXCEPT ![c] = "open"]
  /\ \/ UNCHANGED recycled
     \/ (\E d \in Conns : conn[d] = "gone") /\ recycled' = recycled \cup {c}
  /\ Receive("register", c)
  /\ UNCHANGED <<callVars, owner, steady>>

\* ReadMessage fails, and the deferred function of ReadPump unregisters.
ReceiveExit(c) ==
  /\ conn[c] = "open"
  /\ conn' = [conn EXCEPT ![c] = "gone"]
  /\ Receive("unregister", c)
  /\ UNCHANGED <<callVars, owner, recycled, steady>>

ReceiveEvict(r) ==
  /\ pc[r] = "unregister"
  /\ Goto(r, "iter")
  /\ evicting' = [evicting EXCEPT ![r] = None]
  /\ Receive("unregister", evicting[r])
  /\ UNCHANGED <<req, to, todo, connVars, steady>>

BackToSelect ==
  /\ hubPc' = "select"
  /\ hubOp' = "none"
  /\ hubConn' = None

\* Lock waits for the loops under the read lock.
Granted == hubPc = "lock" /\ \A r \in Requests : pc[r] \notin InLoop

\* Users come or go: an answer on its way does not know it, nor does a client that is not
\* told.  What the lost connections show is not looked at any more.
StatusChanges(lost) ==
  LET before == Online(clients)
      after == Online(clients')
      changed == (before \ after) \cup (after \ before)
  IN
  /\ since' = [c \in Conns |-> IF c \in asking \ lost THEN since[c] \cup changed ELSE {}]
  /\ missed' = [c \in Conns |->
       IF c \in lost THEN {}
       ELSE IF c \in known \ clients' THEN missed[c] \cup changed ELSE missed[c]]

\* The connection joins the map, and all are told.
HubRegister ==
  /\ Granted
  /\ hubOp = "register"
  /\ clients' = clients \cup {hubConn}
  /\ hubPc' = "announce"
  /\ hubTodo' = clients'
  /\ StatusChanges({})
  /\ UNCHANGED <<db, callVars, connVars, hubOp, hubConn, chanVars, reads, shows, asking, snapshot,
                 known, steady, moves>>

\* What was sent to a connection that is out of the map is not looked at any more.
Blank(lost) ==
  /\ StatusChanges(lost)
  /\ queued' = [c \in Conns |-> IF c \in lost THEN 0 ELSE queued[c]]
  /\ reads' = [c \in Conns |-> IF c \in lost THEN [u \in Users |-> 0] ELSE reads[c]]
  /\ shows' = [c \in Conns |-> IF c \in lost THEN {} ELSE shows[c]]
  /\ snapshot' = [c \in Conns |-> IF c \in lost THEN {} ELSE snapshot[c]]
  /\ asking' = asking \ lost
  /\ known' = known \ lost
  /\ recycled' = recycled \ lost
  /\ closed' = closed \ lost

\* The user goes offline with its last connection.  (Mutant: with any.)
LengthUnchecked(c) == c \in clients
GoesOffline(c) == owner[c] \in Online(clients) \ Online(clients \ {c})

HubUnregister ==
  /\ Granted
  /\ hubOp = "unregister"
  /\ clients' = clients \ {hubConn}
  /\ Blank({hubConn})
  /\ IF GoesOffline(hubConn)
     THEN hubPc' = "announce" /\ hubTodo' = clients' /\ UNCHANGED <<hubOp, hubConn>>
     ELSE BackToSelect /\ UNCHANGED hubTodo
  /\ UNCHANGED <<db, callVars, owner, conn, steady, moves>>

\* broadcastStatus: a status that finds the buffer full is dropped.
Announce(c) ==
  LET u == owner[hubConn] IN
  /\ hubPc = "announce"
  /\ c \in hubTodo \ closed
  /\ hubTodo' = hubTodo \ {c}
  /\ IF Room(c)
     THEN /\ queued' = [queued EXCEPT ![c] = @ + 1]
          /\ shows' = [shows EXCEPT ![c] = IF hubOp = "register" THEN @ \cup {u} ELSE @ \ {u}]
          /\ missed' = [missed EXCEPT ![c] = @ \ {u}]
     ELSE /\ missed' = [missed EXCEPT ![c] = @ \cup {u}]
          /\ UNCHANGED <<queued, shows>>
  /\ UNCHANGED <<db, callVars, connVars, clients, hubPc, hubOp, hubConn, closed, reads, answers,
                 steady, moves>>

EndAnnounce ==
  /\ hubPc = "announce"
  /\ hubTodo = {}
  /\ BackToSelect
  /\ UNCHANGED <<db, callVars, connVars, clients, hubTodo, chanVars, screens, steady, moves>>

\* A status for a closed channel, or a WritePump that outlives its connection: Hub.Run or
\* WritePump panics, and the process dies.  The next one serves none of its connections
\* and calls.
Die ==
  /\ \/ hubPc = "announce" /\ hubTodo \cap closed # {}
     \/ \E c \in Conns : conn[c] = "gone"
  /\ BackToSelect
  /\ hubTodo' = {}
  /\ clients' = {}
  /\ pc' = [r \in Requests |-> "idle"]
  /\ req' = [r \in Requests |-> None]
  /\ to' = [r \in Requests |-> {}]
  /\ todo' = [r \in Requests |-> {}]
  /\ evicting' = [r \in Requests |-> None]
  /\ steady' = {}
  /\ conn' = [c \in Conns |-> IF conn[c] = "new" THEN "new" ELSE "dead"]
  /\ Blank(Conns)
  /\ UNCHANGED <<db, owner, moves>>

-----------------------------------------------------------------------------
(* GET /online: Hub.OnlineUsers under the read lock, and the answer, which *)
(* the client gets to see when the network brings it.                      *)

\* Asked before its connection joins, or at any time later.
FetchOnline(c) ==
  /\ c \in Askers \ asking
  /\ conn[c] \in {"new", "open"}
  /\ asking' = asking \cup {c}
  /\ snapshot' = [snapshot EXCEPT ![c] = Online(clients)]
  /\ UNCHANGED <<db, callVars, connVars, hubVars, chanVars, reads, shows, known, since, missed,
                 steady, moves>>

\* The answer replaces what the statuses said, later ones included.
ShowOnline(c) ==
  /\ c \in asking
  /\ asking' = asking \ {c}
  /\ known' = known \cup {c}
  /\ shows' = [shows EXCEPT ![c] = snapshot[c]]
  /\ missed' = [missed EXCEPT ![c] = @ \cup since[c]]
  /\ snapshot' = [snapshot EXCEPT ![c] = {}]
  /\ since' = [since EXCEPT ![c] = {}]
  /\ UNCHANGED <<db, callVars, connVars, hubVars, chanVars, reads, steady, moves>>

-----------------------------------------------------------------------------
Call(r) ==
  \/ Recheck(r) \/ ReadMembers(r) \/ StatementFails(r)
  \/ BeginIteration(r) \/ Panic(r) \/ EndIteration(r) \/ ReceiveEvict(r)
  \/ \E c \in Conns : Deliver(r, c) \/ Evict(r, c)

Request(r) ==
  \/ \E u \in Readers, id \in Ids : MarkAsRead(r, u, id)
  \/ CheckMember(r) \/ UpdateLastRead(r)

Connection(c) ==
  \/ WriteNext(c) \/ ReceiveRegister(c) \/ ReceiveExit(c)
  \/ Announce(c) \/ FetchOnline(c) \/ ShowOnline(c)

Next ==
  \/ \E r \in Requests : Call(r)
  \/ \E r \in Requests : Request(r)
  \/ \E c \in Conns : Connection(c)
  \/ HubRegister \/ HubUnregister \/ EndAnnounce \/ Die
  \/ \E u \in Users : Join(u) \/ Leave(u)

Spec == Init /\ [][Next]_vars

-----------------------------------------------------------------------------
(* Safety.                                                                 *)

\* A read receipt tells what the database holds, as long as it is being told, unless its
\* user left the chat or marked messages twice at a time.
ReceiptIsStored ==
  \A r \in steady : pc[r] \in {"recheck", "members", "rlock"} \cup InLoop =>
    lastRead[req[r].user] = req[r].id

\* When the broadcast of a receipt is over, every registered connection of every other
\* member shows it, full buffers of some notwithstanding; only a receipt of the same user
\* at the same time, or a recycled websocket.Conn, could hide it.
ReceiptReachesAll ==
  [][\A r \in steady :
       EndIteration(r) =>
         \A c \in clients \ (closed \cup recycled) :
           owner[c] \in to[r] /\ owner[c] # req[r].user =>
             reads[c][req[r].user] = req[r].id]_vars

\* Between two changes, every registered client that asked GET /online takes the right users
\* for online.  It may be wrong about a user whose last status found its buffer full, or came
\* between the reading of an answer and its showing, until that user's next status.
PresenceShown ==
  hubPc = "select" =>
    \A c \in (clients \cap known) \ recycled : \A u \in Users \ missed[c] :
      u \in shows[c] <=> u \in Online(clients)

=============================================================================
