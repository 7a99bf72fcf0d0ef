-------------------------------- MODULE Hub --------------------------------
(***************************************************************************)
(* The WebSocket hub of the messenger server: internal/ws/hub.go and       *)
(* internal/ws/client.go, with the goroutines internal/handler/            *)
(* ws_handler.go starts for a connection and the REST handlers that call   *)
(* Hub.BroadcastToChat.                                                    *)
(*                                                                         *)
(* Goroutines: Hub.Run (hubPc), one ReadPump per connection and one REST   *)
(* handler per request (pc, both call BroadcastToChat), one WritePump per  *)
(* connection (writer).                                                    *)
(*                                                                         *)
(* Abstractions.  A payload is not told apart from another: a send channel *)
(* is its number of buffered payloads.  The slice h.clients[u] is a set:   *)
(* an iteration visits its connections in any order.  The members a caller *)
(* passes to BroadcastToChat come from the database, here from any subset  *)
(* of Users.                                                               *)
(*                                                                         *)
(* A *websocket.Conn comes from a pool: the library takes it back when the *)
(* handler of its connection returns, empties it, and may give it to a     *)
(* later connection, while the Client that held it still points to it.     *)
(***************************************************************************)
EXTENDS Naturals

CONSTANTS
  Users,      \* user ids
  Clients,    \* WebSocket connections, *Client
  Requests,   \* goroutines that serve REST requests
  SendCap,    \* capacity of Client.send: 256 in client.go
  None        \* no client

ASSUME HubAssumption ==
  /\ SendCap \in Nat \ {0}
  /\ Clients \cap Requests = {}
  /\ None \notin Clients

\* The goroutines that may be inside BroadcastToChat.
Procs == Clients \cup Requests

VARIABLES
  up,           \* the process runs; FALSE between a panic of Hub.Run and the restart
  pc,           \* where each goroutine of Procs stands
  calls,        \* onMessage calls ReadPump still has to make for its frame
  to,           \* users a BroadcastToChat call must reach: memberIDs but the sender
  todo,         \* connections its loop has not visited yet
  evicting,     \* the connection whose full buffer it is acting on
  rlocked,      \* goroutines of Procs that hold h.mu for reading
  clients,      \* Hub.clients
  onlineUsers,  \* Hub.onlineUsers
  hubPc,        \* where Hub.Run stands
  hubOp,        \* the channel it last received from
  hubClient,    \* the client it received
  hubOnline,    \* the status broadcastStatus announces
  hubTodo,      \* connections broadcastStatus has not visited yet
  queued,       \* payloads buffered in Client.send
  closed,       \* clients whose send channel is closed
  owner,        \* Client.userID: whoever connects, fixed for the connection
  open,         \* clients whose connection this side has not closed
  object,       \* Client.conn: the pooled object, named after the first client that had it
  writer        \* where each WritePump stands

hubVars  == <<hubPc, hubOp, hubClient, hubOnline, hubTodo>>
mapVars  == <<clients, onlineUsers>>
callVars == <<to, todo, evicting>>
chanVars == <<queued, closed>>
connVars == <<owner, open, object, writer>>
vars == <<up, pc, calls, callVars, rlocked, mapVars, hubVars, chanVars, connVars>>

-----------------------------------------------------------------------------
(* Where a goroutine may stand.                                            *)

\* Inside BroadcastToChat, from the call of RLock to the return.
InBroadcast == {"rlock", "iter", "evict", "unregister"}

ClientPc == {"new", "register", "start", "read", "handle", "exit", "close", "return", "gone"}
RequestPc == {"idle"}
HubPc == {"select", "lock", "pending", "announce"}

\* Where ReadPump goes when an onMessage call returns and n calls are left.
AfterCall(n) == IF n = 0 THEN "read" ELSE "handle"

\* Where BroadcastToChat returns to: ReadPump, or the end of a REST handler.
Home(p) == IF p \in Clients THEN AfterCall(calls[p]) ELSE "idle"

\* ReadPump's loop ends in its deferred function.  (Mutant: a return that does not
\* unregister.)
SkipsUnregister == "close"
AfterRead == "exit"

\* Where a panic inside BroadcastToChat ends: ReadPump runs its deferred
\* function; a REST handler is cut short by the recover middleware.
AfterPanic(p) == IF p \in Clients THEN "exit" ELSE "idle"

TypeOK ==
  /\ up \in BOOLEAN
  /\ pc \in [Procs -> ClientPc \cup RequestPc \cup InBroadcast]
  /\ calls \in [Clients -> 0..2]
  /\ to \in [Procs -> SUBSET Users]
  /\ todo \in [Procs -> SUBSET Clients]
  /\ evicting \in [Procs -> Clients \cup {None}]
  /\ rlocked \in SUBSET Procs
  /\ clients \in [Users -> SUBSET Clients]
  /\ onlineUsers \in SUBSET Users
  /\ hubPc \in HubPc
  /\ hubOp \in {"none", "register", "unregister"}
  /\ hubClient \in Clients \cup {None}
  /\ hubOnline \in BOOLEAN
  /\ hubTodo \in SUBSET Clients
  /\ queued \in [Clients -> 0..SendCap]
  /\ closed \in SUBSET Clients
  /\ owner \in [Clients -> Users]
  /\ open \in SUBSET Clients
  /\ object \in [Clients -> Clients]
  /\ writer \in [Clients -> {"off", "run", "done"}]

\* NewHub, in a process that serves no connection and no request yet.
Init ==
  /\ up = TRUE
  /\ pc = [p \in Procs |-> IF p \in Clients THEN "new" ELSE "idle"]
  /\ calls = [c \in Clients |-> 0]
  /\ to = [p \in Procs |-> {}]
  /\ todo = [p \in Procs |-> {}]
  /\ evicting = [p \in Procs |-> None]
  /\ rlocked = {}
  /\ clients = [u \in Users |-> {}]
  /\ onlineUsers = {}
  /\ hubPc = "select"
  /\ hubOp = "none"
  /\ hubClient = None
  /\ hubOnline = FALSE
  /\ hubTodo = {}
  /\ queued = [c \in Clients |-> 0]
  /\ closed = {}
  /\ owner \in [Clients -> Users]
  /\ open = Clients
  /\ object = [c \in Clients |-> c]
  /\ writer = [c \in Clients |-> "off"]

-----------------------------------------------------------------------------
(* h.mu, a sync.RWMutex.  Hub.Run is the only writer.  A Lock that waits   *)
(* (hubPc = "pending") holds off every later RLock; Unlock hands the mutex *)
(* to all the readers that wait.                                           *)

\* Mutant: a return path without RUnlock.
RUnlockForgotten(p) == rlocked' = rlocked

RLock(p) ==
  rlocked' = IF hubPc = "pending" THEN rlocked ELSE rlocked \cup {p}

RUnlock(p) == rlocked' = rlocked \ {p}

\* Mutant: a mutex whose writer does not wait for the readers.
LockIgnoresReaders == hubPc = "pending"

LockGranted == hubPc = "pending" /\ rlocked = {}

Unlock == rlocked' = {p \in Procs : pc[p] = "rlock"}

-----------------------------------------------------------------------------
(* BroadcastToChat, executed by goroutine p.                               *)

\* The select finds room in the buffer.  (Mutant: off by one.)
RoomOffByOne(c) == queued[c] <= SendCap
Room(c) == queued[c] < SendCap

\* What follows close(client.send): the call of Unregister.  (Mutant: no call.)
CloseOnly == "iter"
AfterClose == "unregister"

\* The call, up to RLock.  A recipient set without the sender: the loop skips it.
CallBroadcast(p, recipients) ==
  /\ pc' = [pc EXCEPT ![p] = "rlock"]
  /\ to' = [to EXCEPT ![p] = recipients]
  /\ RLock(p)

\* The read lock is held: the loop has every connection of the recipients to visit.
BeginIteration(p) ==
  /\ up
  /\ pc[p] = "rlock"
  /\ p \in rlocked
  /\ todo' = [todo EXCEPT ![p] = UNION {clients[u] : u \in to[p]}]
  /\ to' = [to EXCEPT ![p] = {}]
  /\ pc' = [pc EXCEPT ![p] = "iter"]
  /\ UNCHANGED <<up, calls, evicting, rlocked, mapVars, hubVars, chanVars, connVars>>

\* case client.send <- message: there is room in the buffer.
Deliver(p, c) ==
  /\ up
  /\ pc[p] = "iter"
  /\ c \in todo[p]
  /\ c \notin closed
  /\ Room(c)
  /\ queued' = [queued EXCEPT ![c] = @ + 1]
  /\ todo' = [todo EXCEPT ![p] = @ \ {c}]
  /\ UNCHANGED <<up, pc, calls, to, evicting, rlocked, mapVars, hubVars, closed, connVars>>

\* default: the buffer is full; the next step closes the channel.
FindFull(p, c) ==
  /\ up
  /\ pc[p] = "iter"
  /\ c \in todo[p]
  /\ c \notin closed
  /\ ~Room(c)
  /\ todo' = [todo EXCEPT ![p] = @ \ {c}]
  /\ evicting' = [evicting EXCEPT ![p] = c]
  /\ pc' = [pc EXCEPT ![p] = "evict"]
  /\ UNCHANGED <<up, calls, to, rlocked, mapVars, hubVars, chanVars, connVars>>

\* close(client.send), then Unregister blocks until Hub.Run receives.
CloseSend(p) ==
  /\ up
  /\ pc[p] = "evict"
  /\ evicting[p] \notin closed
  /\ closed' = closed \cup {evicting[p]}
  /\ pc' = [pc EXCEPT ![p] = AfterClose]
  /\ UNCHANGED <<up, calls, callVars, rlocked, mapVars, hubVars, queued, connVars>>

\* A send on a closed channel, or a second close of it, panics: the deferred
\* RUnlock runs and the call ends, whatever it had left to visit.
Panic(p) ==
  /\ up
  /\ \/ pc[p] = "iter" /\ todo[p] \cap closed # {}
     \/ pc[p] = "evict" /\ evicting[p] \in closed
  /\ RUnlock(p)
  /\ pc' = [pc EXCEPT ![p] = AfterPanic(p)]
  /\ calls' = [c \in Clients |-> IF c = p THEN 0 ELSE calls[c]]
  /\ todo' = [todo EXCEPT ![p] = {}]
  /\ evicting' = [evicting EXCEPT ![p] = None]
  /\ UNCHANGED <<up, to, mapVars, hubVars, chanVars, connVars>>

\* The loop is done: the deferred RUnlock, and back to the caller.
EndIteration(p) ==
  /\ up
  /\ pc[p] = "iter"
  /\ todo[p] = {}
  /\ RUnlock(p)
  /\ pc' = [pc EXCEPT ![p] = Home(p)]
  /\ UNCHANGED <<up, calls, to, todo, evicting, mapVars, hubVars, chanVars, connVars>>

\* A REST handler broadcasts: a message sent, changed or deleted, a read receipt.
\* (GET /api/online takes the read lock for as long as a broadcast to nobody.)
RestBroadcast(r, recipients) ==
  /\ up
  /\ pc[r] = "idle"
  /\ CallBroadcast(r, recipients)
  /\ UNCHANGED <<up, calls, todo, evicting, mapVars, hubVars, chanVars, connVars>>

-----------------------------------------------------------------------------
(* One connection: HandleWebSocket, ReadPump, WritePump.                   *)

\* The connections whose handler runs.
Served == {c \in Clients : pc[c] \notin {"new", "gone"}}

\* What the pool may give: a new object, or one that nobody is served with any more.
Pool(c) == {c} \cup {object[d] : d \in {e \in Clients : pc[e] = "gone"}}
Free(c) == Pool(c) \ {object[d] : d \in Served}

\* The upgrade succeeded: NewClient, then Register blocks on the hub.
Connect(c) ==
  /\ up
  /\ pc[c] = "new"
  /\ pc' = [pc EXCEPT ![c] = "register"]
  /\ \E o \in Free(c) : object' = [object EXCEPT ![c] = o]
  /\ UNCHANGED <<up, calls, callVars, rlocked, mapVars, hubVars, chanVars, owner, open, writer>>

\* go client.WritePump(); client.ReadPump()
StartPumps(c) ==
  /\ up
  /\ pc[c] = "start"
  /\ pc' = [pc EXCEPT ![c] = "read"]
  /\ writer' = [writer EXCEPT ![c] = "run"]
  /\ UNCHANGED <<up, calls, callVars, rlocked, mapVars, hubVars, chanVars, owner, open, object>>

\* ReadMessage returns a frame: ReadPump calls onMessage for every frame, and a
\* second time for a well-formed chat_message.
ReadFrame(c) ==
  /\ up
  /\ pc[c] = "read"
  /\ c \in open
  /\ pc' = [pc EXCEPT ![c] = "handle"]
  /\ \E n \in {1, 2} : calls' = [calls EXCEPT ![c] = n]
  /\ UNCHANGED <<up, callVars, rlocked, mapVars, hubVars, chanVars, connVars>>

\* onMessage reaches BroadcastToChat: a chat_message was stored, or a typing event.
FrameBroadcast(c, recipients) ==
  /\ up
  /\ pc[c] = "handle"
  /\ calls[c] > 0
  /\ calls' = [calls EXCEPT ![c] = @ - 1]
  /\ CallBroadcast(c, recipients)
  /\ UNCHANGED <<up, todo, evicting, mapVars, hubVars, chanVars, connVars>>

\* onMessage returns without a broadcast: another type, or the service failed.
FrameIgnored(c) ==
  /\ up
  /\ pc[c] = "handle"
  /\ calls[c] > 0
  /\ calls' = [calls EXCEPT ![c] = @ - 1]
  /\ pc' = [pc EXCEPT ![c] = AfterCall(calls[c] - 1)]
  /\ UNCHANGED <<up, callVars, rlocked, mapVars, hubVars, chanVars, connVars>>

\* ReadMessage fails: the peer left, no pong came in time, or this side closed the
\* connection.  The deferred function then blocks on hub.unregister.
ReadFails(c) ==
  /\ up
  /\ pc[c] = "read"
  /\ pc' = [pc EXCEPT ![c] = AfterRead]
  /\ UNCHANGED <<up, calls, callVars, rlocked, mapVars, hubVars, chanVars, connVars>>

\* The end of the deferred function: c.conn.Close().
CloseConn(c) ==
  /\ up
  /\ pc[c] = "close"
  /\ pc' = [pc EXCEPT ![c] = "return"]
  /\ open' = open \ {c}
  /\ UNCHANGED <<up, calls, callVars, rlocked, mapVars, hubVars, chanVars, owner, object, writer>>

\* The handler returns, and the library takes the object back, whether or not WritePump
\* still runs.
ReturnHandler(c) ==
  /\ up
  /\ pc[c] = "return"
  /\ pc' = [pc EXCEPT ![c] = "gone"]
  /\ UNCHANGED <<up, calls, callVars, rlocked, mapVars, hubVars, chanVars, connVars>>

\* Mutant: WritePump returns and leaves the connection open.
WriterLeavesOpen(c) ==
  /\ writer' = [writer EXCEPT ![c] = "done"]
  /\ UNCHANGED <<owner, open, object>>

\* WritePump returns: its deferred function closes the connection.
StopWriter(c) ==
  /\ writer' = [writer EXCEPT ![c] = "done"]
  /\ open' = open \ {c}
  /\ UNCHANGED <<owner, object>>

\* WritePump runs while the handler of its connection does: Client.conn is its own.
Writing(c) == up /\ writer[c] = "run" /\ pc[c] # "gone"

\* WritePump takes a payload from the channel and writes it.  A write fails when
\* this side closed the connection, and may fail when the peer is gone.
WriteNext(c) ==
  /\ Writing(c)
  /\ queued[c] > 0
  /\ queued' = [queued EXCEPT ![c] = @ - 1]
  /\ \/ c \in open /\ UNCHANGED connVars
     \/ StopWriter(c)
  /\ UNCHANGED <<up, pc, calls, callVars, rlocked, mapVars, hubVars, closed>>

\* The channel is closed and drained.
WriteClosed(c) ==
  /\ Writing(c)
  /\ queued[c] = 0
  /\ c \in closed
  /\ StopWriter(c)
  /\ UNCHANGED <<up, pc, calls, callVars, rlocked, mapVars, hubVars, chanVars>>

\* The ticker fires and the ping cannot be written.  (A ping that is written
\* changes nothing.)
PingFails(c) ==
  /\ Writing(c)
  /\ StopWriter(c)
  /\ UNCHANGED <<up, pc, calls, callVars, rlocked, mapVars, hubVars, chanVars>>

\* WritePump has a payload, a closed channel or a tick after its handler returned.
\* Nothing recovers a panic of WritePump.
Outlives(c) == up /\ writer[c] = "run" /\ pc[c] = "gone"

\* The object is empty, or another WritePump is writing on it: SetWriteDeadline or the
\* write panics and the process dies.
WriterPanics(c) ==
  /\ Outlives(c)
  /\ up' = FALSE
  /\ UNCHANGED <<pc, calls, callVars, rlocked, mapVars, hubVars, chanVars, connVars>>

\* The object is the one of connection d by now: the payload goes to the peer of d, or
\* WritePump returns, for a write that fails or its closed channel, and closes d.
WriteElsewhere(c, d) ==
  /\ Outlives(c)
  /\ d \in Served
  /\ object[d] = object[c]
  /\ \/ queued[c] > 0 /\ queued' = [queued EXCEPT ![c] = @ - 1]
     \/ UNCHANGED queued
  /\ \/ UNCHANGED <<open, writer>>
     \/ open' = open \ {d} /\ writer' = [writer EXCEPT ![c] = "done"]
  /\ UNCHANGED <<up, pc, calls, callVars, rlocked, mapVars, hubVars, closed, owner, object>>

-----------------------------------------------------------------------------
(* Hub.Run.                                                                *)

\* case client := <-h.register
ReceiveRegister(c) ==
  /\ up
  /\ hubPc = "select"
  /\ pc[c] = "register"
  /\ pc' = [pc EXCEPT ![c] = "start"]
  /\ hubPc' = "lock"
  /\ hubOp' = "register"
  /\ hubClient' = c
  /\ UNCHANGED <<up, calls, callVars, rlocked, mapVars, hubOnline, hubTodo, chanVars, connVars>>

\* case client := <-h.unregister, sent by ReadPump's deferred function ...
ReceiveExit(c) ==
  /\ up
  /\ hubPc = "select"
  /\ pc[c] = "exit"
  /\ pc' = [pc EXCEPT ![c] = "close"]
  /\ hubPc' = "lock"
  /\ hubOp' = "unregister"
  /\ hubClient' = c
  /\ UNCHANGED <<up, calls, callVars, rlocked, mapVars, hubOnline, hubTodo, chanVars, connVars>>

\* ... or by BroadcastToChat, which goes on with its loop.
ReceiveEvict(p) ==
  /\ up
  /\ hubPc = "select"
  /\ pc[p] = "unregister"
  /\ pc' = [pc EXCEPT ![p] = "iter"]
  /\ evicting' = [evicting EXCEPT ![p] = None]
  /\ hubPc' = "lock"
  /\ hubOp' = "unregister"
  /\ hubClient' = evicting[p]
  /\ UNCHANGED <<up, calls, to, todo, rlocked, mapVars, hubOnline, hubTodo, chanVars, connVars>>

\* h.mu.Lock() is called; it returns when the last reader is out.
HubLock ==
  /\ up
  /\ hubPc = "lock"
  /\ hubPc' = "pending"
  /\ UNCHANGED <<up, pc, calls, callVars, rlocked, mapVars, hubOp, hubClient, hubOnline,
                 hubTodo, chanVars, connVars>>

\* broadcastStatus: no other goroutine writes the map, so the read lock is free and
\* the loop visits every connection registered now.
BeginStatus(online) ==
  /\ hubPc' = "announce"
  /\ hubOnline' = online
  /\ hubTodo' = UNION {clients'[u] : u \in Users}
  /\ UNCHANGED <<hubOp, hubClient>>

\* Back to the select: the loop's variables are out of scope.
BackToSelect ==
  /\ hubPc' = "select"
  /\ hubOp' = "none"
  /\ hubClient' = None
  /\ hubOnline' = FALSE

\* The register case: the connection joins its user's list.
AddClient ==
  /\ up
  /\ LockGranted
  /\ hubOp = "register"
  /\ clients' = [clients EXCEPT ![owner[hubClient]] = @ \cup {hubClient}]
  /\ onlineUsers' = onlineUsers \cup {owner[hubClient]}
  /\ Unlock
  /\ BeginStatus(TRUE)
  /\ UNCHANGED <<up, pc, calls, callVars, chanVars, connVars>>

\* The user has a list and nothing is left of it: the check of the key, and of the
\* length.  (Mutant: the latter is dropped.)
LengthUnchecked(u) == clients[u] # {}
GoesOffline(u) == clients[u] # {} /\ clients[u] \ {hubClient} = {}

\* The unregister case: the connection leaves the list; with the last one the user
\* goes offline.  A user without a list has nothing to lose.
RemoveClient ==
  LET u == owner[hubClient] IN
  /\ up
  /\ LockGranted
  /\ hubOp = "unregister"
  /\ clients' = [clients EXCEPT ![u] = @ \ {hubClient}]
  /\ Unlock
  /\ \/ /\ GoesOffline(u)
        /\ onlineUsers' = onlineUsers \ {u}
        /\ BeginStatus(FALSE)
     \/ /\ ~GoesOffline(u)
        /\ BackToSelect
        /\ UNCHANGED <<onlineUsers, hubTodo>>
  /\ UNCHANGED <<up, pc, calls, callVars, chanVars, connVars>>

\* One round of broadcastStatus: a full buffer is skipped.
SendStatus(c) ==
  /\ up
  /\ hubPc = "announce"
  /\ c \in hubTodo
  /\ c \notin closed
  /\ queued' = [queued EXCEPT ![c] = IF Room(c) THEN @ + 1 ELSE @]
  /\ hubTodo' = hubTodo \ {c}
  /\ UNCHANGED <<up, pc, calls, callVars, rlocked, mapVars, hubPc, hubOp, hubClient,
                 hubOnline, closed, connVars>>

EndStatus ==
  /\ up
  /\ hubPc = "announce"
  /\ hubTodo = {}
  /\ BackToSelect
  /\ UNCHANGED <<up, pc, calls, callVars, rlocked, mapVars, hubTodo, chanVars, connVars>>

\* broadcastStatus sends on a closed channel: nothing recovers a panic of Hub.Run,
\* the process dies ...
HubPanics ==
  /\ up
  /\ hubPc = "announce"
  /\ hubTodo \cap closed # {}
  /\ up' = FALSE
  /\ UNCHANGED <<pc, calls, callVars, rlocked, mapVars, hubVars, chanVars, connVars>>

\* ... and docker starts a new one (restart: unless-stopped), with nothing in memory;
\* the clients connect again.
Restart ==
  /\ ~up
  /\ up' = TRUE
  /\ pc' = [p \in Procs |-> IF p \in Clients THEN "new" ELSE "idle"]
  /\ calls' = [c \in Clients |-> 0]
  /\ to' = [p \in Procs |-> {}]
  /\ todo' = [p \in Procs |-> {}]
  /\ evicting' = [p \in Procs |-> None]
  /\ rlocked' = {}
  /\ clients' = [u \in Users |-> {}]
  /\ onlineUsers' = {}
  /\ hubPc' = "select"
  /\ hubOp' = "none"
  /\ hubClient' = None
  /\ hubOnline' = FALSE
  /\ hubTodo' = {}
  /\ queued' = [c \in Clients |-> 0]
  /\ closed' = {}
  /\ open' = Clients
  /\ object' = [c \in Clients |-> c]
  /\ writer' = [c \in Clients |-> "off"]
  /\ UNCHANGED owner

-----------------------------------------------------------------------------
BroadcastStep(p) ==
  \/ BeginIteration(p)
  \/ \E c \in Clients : Deliver(p, c) \/ FindFull(p, c)
  \/ CloseSend(p)
  \/ Panic(p)
  \/ EndIteration(p)

\* What the peer, the network and the pool decide.
Peer(c) ==
  \/ Connect(c) \/ ReadFrame(c) \/ PingFails(c)
  \/ WriterPanics(c)
  \/ \E d \in Clients : WriteElsewhere(c, d)

\* What ReadPump does on its own.
ReadPump(c) ==
  \/ StartPumps(c)
  \/ \E recipients \in SUBSET (Users \ {owner[c]}) : FrameBroadcast(c, recipients)
  \/ FrameIgnored(c)
  \/ ReadFails(c)
  \/ CloseConn(c)
  \/ ReturnHandler(c)

WritePump(c) == WriteNext(c) \/ WriteClosed(c)

HubStep ==
  \/ HubLock
  \/ AddClient
  \/ RemoveClient
  \/ \E c \in Clients : SendStatus(c)
  \/ EndStatus
  \/ HubPanics

Next ==
  \/ \E p \in Procs : BroadcastStep(p) \/ ReceiveEvict(p)
  \/ \E r \in Requests, recipients \in SUBSET Users : RestBroadcast(r, recipients)
  \/ \E c \in Clients :
       \/ Peer(c) \/ ReadPump(c) \/ WritePump(c)
       \/ ReceiveRegister(c) \/ ReceiveExit(c)
  \/ HubStep
  \/ Restart

Spec == Init /\ [][Next]_vars

\* The Go scheduler runs every goroutine that can run; a read on a connection closed by
\* this side returns an error; docker restarts the process.  A channel serves its blocked senders in order and select
\* takes any channel that is ready, so no sender of the hub waits for ever while
\* the hub keeps returning to its select: strong fairness.
Fairness ==
  /\ \A p \in Procs : WF_vars(BroadcastStep(p)) /\ SF_vars(ReceiveEvict(p))
  /\ \A c \in Clients :
       /\ WF_vars(StartPumps(c) \/ FrameIgnored(c) \/ CloseConn(c) \/ ReturnHandler(c))
       /\ WF_vars(c \notin open /\ ReadFails(c))
       /\ WF_vars(WritePump(c))
       /\ SF_vars(ReceiveRegister(c))
       /\ SF_vars(ReceiveExit(c))
  /\ WF_vars(HubStep)
  /\ WF_vars(Restart)

FairSpec == Spec /\ Fairness

-----------------------------------------------------------------------------
(* Safety.                                                                 *)

\* Every connection the map holds.
Registered == UNION {clients[u] : u \in Users}

\* onlineUsers, which GET /api/online returns, is kept beside the map of connections:
\* it holds exactly the users with a connection.
OnlineMatchesClients == onlineUsers = {u \in Users : clients[u] # {}}

\* While broadcastStatus tells the connections that a user is online (offline), the
\* user has a connection (has none): no announcement is out of date.
AnnouncementTrue ==
  hubPc = "announce" => (hubOnline <=> clients[owner[hubClient]] # {})

\* BroadcastToChat visits, and evicts, only connections that are registered while it
\* does: the read lock it holds keeps the hub from dropping one under the loop.
VisitsRegistered ==
  \A p \in Procs :
    /\ todo[p] \subseteq Registered
    /\ pc[p] \in {"evict", "unregister"} => evicting[p] \in Registered

\* The hub is about to take this connection off the map.
BeingRemoved(c) == hubOp = "unregister" /\ hubClient = c /\ hubPc # "announce"

\* A registered connection whose channel was closed for overflow is on its way out:
\* the goroutine that closed it is at Unregister, or the hub has it in hand.  (The
\* hazard is a send on that channel in the meantime.)
ClosedIsLeaving ==
  \A c \in closed \cap Registered :
    \/ BeingRemoved(c)
    \/ \E p \in Procs : pc[p] = "unregister" /\ evicting[p] = c

\* A connection whose ReadPump has ended does not stay in the map.
NoGhost ==
  \A c \in Registered : pc[c] \in {"close", "return", "gone"} => BeingRemoved(c)

\* The hub changes the map only while no broadcast loop is running over it.
MapFrozenForReaders ==
  [][clients' # clients => ~up \/ \A p \in Procs : pc[p] \notin InBroadcast \ {"rlock"}]_vars

\* A user is announced offline only when it was online until then: the second
\* unregistration of an evicted connection (by its ReadPump) announces nothing.
OfflineOnce ==
  [][hubPc # "announce" /\ hubPc' = "announce" /\ ~hubOnline'
       => owner[hubClient] \in onlineUsers]_vars

\* The process dies only while a broadcast is evicting a connection, as the panic of
\* Hub.Run needs a closed channel in the map and only an eviction leaves one; or when
\* a WritePump has outlived the handler of its connection.
DeathExplained ==
  [][up /\ ~up' =>
       \/ \E p \in Procs : pc[p] = "unregister"
       \/ \E c \in Clients : pc[c] = "gone" /\ writer[c] = "run"]_vars

\* Joining, leaving and announcing implement the sequential module Presence.
P == INSTANCE Presence WITH
       conns <- clients,
       announcing <- IF hubPc = "announce"
                     THEN {[user |-> owner[hubClient], online |-> hubOnline]}
                     ELSE {}

PresenceSpec == P!Spec

-----------------------------------------------------------------------------
(* Liveness.                                                               *)

\* A broadcast returns, unless some buffer overflowed.
BroadcastReturns ==
  \A p \in Procs : (pc[p] = "rlock") ~> (pc[p] \notin InBroadcast \/ closed # {})

\* A connection whose ReadPump ended leaves the map and its goroutine ends, unless
\* some buffer overflowed.
LeavesTheMap ==
  \A c \in Clients :
    (pc[c] = "exit") ~> ((pc[c] \in {"gone", "new"} /\ c \notin Registered) \/ closed # {})

\* When WritePump gives a connection up, ReadPump notices and ends too, and the handler
\* returns, unless some buffer overflowed.  (The reverse is not so: nothing tells
\* WritePump that its connection has ended.)
ReaderFollowsWriter ==
  \A c \in Clients : (writer[c] = "done") ~> (pc[c] \in {"gone", "new"} \/ closed # {})

\* hub.go, BroadcastToChat: when the buffer is full "we close the channel and remove
\* the client".
OverflowedClientRemoved ==
  \A c \in Clients : (c \in closed) ~> (c \notin Registered)

-----------------------------------------------------------------------------
\* client.go, Client: it "represents one WebSocket connection".  A WritePump that still
\* runs has no other client's connection in its hands.
OneConnection ==
  \A c \in Clients, d \in Served : c # d /\ writer[c] = "run" => object[c] # object[d]

=============================================================================
