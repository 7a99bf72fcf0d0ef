----------------------------- MODULE HubProofs -----------------------------
(***************************************************************************)
(* The safety properties of Hub, for every number of users, connections    *)
(* and requests and every buffer size: an inductive invariant, and the     *)
(* refinement of Presence.                                                 *)
(***************************************************************************)
EXTENDS Hub, TLAPS

\* Inside BroadcastToChat with the read lock granted.
Reading == {"iter", "evict", "unregister"}

\* Only a goroutine inside BroadcastToChat holds the read lock, and its loop runs
\* under it.
LockInv ==
  /\ \A p \in rlocked : pc[p] \in InBroadcast
  /\ \A p \in Procs : pc[p] \in Reading => p \in rlocked

\* Only a loop has connections to visit, all of them registered.
LoopInv ==
  /\ \A p \in Procs : todo[p] # {} => pc[p] \in Reading
  /\ VisitsRegistered

\* What Hub.Run has in hand.
HubInv ==
  /\ hubPc = "select" <=> hubOp = "none"
  /\ hubPc # "select" => hubClient \in Clients
  /\ hubPc = "announce" => hubTodo \subseteq Registered

\* Hub.Run received this connection from Register and has not listed it yet.
BeingAdded(c) == hubOp = "register" /\ hubClient = c /\ hubPc # "announce"

\* A connection is listed under its user, and only after Register; when it is being
\* listed its ReadPump cannot have ended.
ListInv ==
  /\ \A u \in Users : \A c \in clients[u] : owner[c] = u
  /\ \A c \in Clients :
       /\ pc[c] \in {"new", "register"} \/ BeingAdded(c) => c \notin Registered \cup closed
       /\ BeingAdded(c) => pc[c] \notin {"new", "register", "close", "return", "gone"}

Inv ==
  /\ TypeOK
  /\ LockInv
  /\ LoopInv
  /\ HubInv
  /\ ListInv
  /\ OnlineMatchesClients
  /\ AnnouncementTrue
  /\ ClosedIsLeaving
  /\ NoGhost

-----------------------------------------------------------------------------
\* The next-state relation as the cases of the proofs below.
LEMMA NextCases ==
  ASSUME [Next]_vars
  PROVE  \/ \E p \in Procs :
              \/ BeginIteration(p)
              \/ \E c \in Clients : Deliver(p, c) \/ FindFull(p, c)
              \/ CloseSend(p)
              \/ Panic(p)
              \/ EndIteration(p)
              \/ ReceiveEvict(p)
         \/ \E r \in Requests, recipients \in SUBSET Users : RestBroadcast(r, recipients)
         \/ \E c \in Clients :
              \/ Connect(c)
              \/ ReadFrame(c)
              \/ PingFails(c)
              \/ StartPumps(c)
              \/ \E recipients \in SUBSET (Users \ {owner[c]}) : FrameBroadcast(c, recipients)
              \/ FrameIgnored(c)
              \/ ReadFails(c)
              \/ CloseConn(c)
              \/ ReturnHandler(c)
              \/ WriteNext(c)
              \/ WriteClosed(c)
              \/ WriterPanics(c)
              \/ \E d \in Clients : WriteElsewhere(c, d)
              \/ ReceiveRegister(c)
              \/ ReceiveExit(c)
              \/ SendStatus(c)
         \/ HubLock
         \/ AddClient
         \/ RemoveClient
         \/ EndStatus
         \/ HubPanics
         \/ Restart
         \/ UNCHANGED vars
BY DEF Next, BroadcastStep, Peer, ReadPump, WritePump, HubStep

\* The map holds what the lists hold.
LEMMA InRegistered ==
  ASSUME NEW c
  PROVE  c \in Registered <=> \E u \in Users : c \in clients[u]
BY DEF Registered

\* The union of some users' lists is a set of connections.
LEMMA UnionType ==
  ASSUME NEW f \in [Users -> SUBSET Clients], NEW S \in SUBSET Users
  PROVE  UNION {f[u] : u \in S} \in SUBSET Clients
OBVIOUS

\* Init establishes the invariant.
LEMMA InitInv == Init => Inv
<1> SUFFICES ASSUME Init PROVE Inv
  OBVIOUS
<1> USE HubAssumption DEF Init
<1>1. TypeOK
  <2>1. pc \in [Procs -> ClientPc \cup RequestPc \cup InBroadcast]
    BY DEF ClientPc, RequestPc
  <2>2. 0 \in 0..SendCap /\ 0 \in 0..2
    OBVIOUS
  <2> QED BY <2>1, <2>2 DEF TypeOK, HubPc
<1>2. Registered = {}
  BY DEF Registered
<1>3. LockInv /\ LoopInv /\ VisitsRegistered
  BY DEF LockInv, LoopInv, VisitsRegistered, Reading, Procs
<1>4. HubInv /\ ListInv
  BY <1>2 DEF HubInv, ListInv, BeingAdded
<1>5. OnlineMatchesClients /\ AnnouncementTrue /\ ClosedIsLeaving /\ NoGhost
  BY <1>2 DEF OnlineMatchesClients, AnnouncementTrue, ClosedIsLeaving, NoGhost
<1> QED BY <1>1, <1>3, <1>4, <1>5 DEF Inv

\* A restarted process is a new one.
LEMMA RestartInv == TypeOK /\ Restart => Inv'
<1>1. Init => Inv BY InitInv
<1>2. TypeOK /\ Restart => Init' BY DEF TypeOK, Restart, Init
<1> QED BY <1>1, <1>2, PTL

\* A connection stays with its user.
LEMMA OwnerStep ==
  ASSUME [Next]_vars
  PROVE  owner' = owner
<1> USE DEF connVars
<1>1. ASSUME NEW p \in Procs,
             \/ BeginIteration(p) \/ CloseSend(p) \/ Panic(p) \/ EndIteration(p)
             \/ ReceiveEvict(p)
             \/ \E c \in Clients : Deliver(p, c) \/ FindFull(p, c)
      PROVE  owner' = owner
  BY <1>1 DEF BeginIteration, CloseSend, Panic, EndIteration, ReceiveEvict, Deliver, FindFull
<1>2. ASSUME NEW r \in Requests, NEW recipients \in SUBSET Users,
             RestBroadcast(r, recipients)
      PROVE  owner' = owner
  BY <1>2 DEF RestBroadcast
<1>3. ASSUME NEW c \in Clients,
             \/ Connect(c) \/ ReadFrame(c) \/ PingFails(c) \/ StartPumps(c) \/ FrameIgnored(c)
             \/ \E recipients \in SUBSET (Users \ {owner[c]}) : FrameBroadcast(c, recipients)
             \/ ReadFails(c) \/ CloseConn(c) \/ ReturnHandler(c) \/ WriteNext(c) \/ WriteClosed(c)
             \/ WriterPanics(c) \/ \E d \in Clients : WriteElsewhere(c, d)
             \/ ReceiveRegister(c) \/ ReceiveExit(c) \/ SendStatus(c)
      PROVE  owner' = owner
  BY <1>3 DEF Connect, ReadFrame, PingFails, StopWriter, StartPumps, FrameIgnored,
       FrameBroadcast, ReadFails, CloseConn, ReturnHandler, WriteNext, WriteClosed,
       WriterPanics, WriteElsewhere, ReceiveRegister,
       ReceiveExit, SendStatus
<1>4. HubLock \/ AddClient \/ RemoveClient \/ EndStatus \/ HubPanics \/ Restart => owner' = owner
  BY DEF HubLock, AddClient, RemoveClient, EndStatus, HubPanics, Restart
<1>5. UNCHANGED vars => owner' = owner
  BY DEF vars
<1> QED BY NextCases, <1>1, <1>2, <1>3, <1>4, <1>5

\* Every step keeps the types.
LEMMA TypeStep ==
  ASSUME Inv, [Next]_vars
  PROVE  TypeOK'
<1> USE HubAssumption DEF Procs
<1>0. TypeOK /\ LoopInv /\ HubInv BY DEF Inv
<1>1. ASSUME NEW p \in Procs, BeginIteration(p)
      PROVE  TypeOK'
  <2>1. to[p] \in SUBSET Users /\ clients \in [Users -> SUBSET Clients]
    BY <1>0 DEF TypeOK
  <2>2. UNION {clients[u] : u \in to[p]} \in SUBSET Clients
    BY <2>1, UnionType
  <2>3. todo' \in [Procs -> SUBSET Clients]
    BY <1>0, <1>1, <2>2 DEF BeginIteration, TypeOK
  <2>4. /\ to' \in [Procs -> SUBSET Users]
        /\ pc' \in [Procs -> ClientPc \cup RequestPc \cup InBroadcast]
    BY <1>0, <1>1 DEF BeginIteration, TypeOK, InBroadcast
  <2>5. UNCHANGED <<up, calls, evicting, rlocked, mapVars, hubVars, chanVars, connVars>>
    BY <1>1 DEF BeginIteration
  <2> QED BY <1>0, <2>3, <2>4, <2>5 DEF TypeOK, ClientPc, RequestPc, HubPc, InBroadcast,
       hubVars, 
             mapVars, chanVars, connVars
<1>2. ASSUME NEW p \in Procs, NEW c \in Clients, Deliver(p, c)
      PROVE  TypeOK'
  BY <1>0, <1>2 DEF TypeOK, ClientPc, RequestPc, HubPc, InBroadcast, hubVars, mapVars,
       callVars, chanVars, connVars, Deliver, Room
<1>3. ASSUME NEW p \in Procs, NEW c \in Clients, FindFull(p, c)
      PROVE  TypeOK'
  BY <1>0, <1>3 DEF TypeOK, ClientPc, RequestPc, HubPc, InBroadcast, hubVars, mapVars,
       callVars, chanVars, connVars, FindFull, Room
<1>4. ASSUME NEW p \in Procs, CloseSend(p)
      PROVE  TypeOK'
  <2>1. evicting[p] \in Clients
    BY <1>0, <1>4 DEF LoopInv, VisitsRegistered, Registered, CloseSend, TypeOK
  <2> QED BY <1>0, <1>4, <2>1 DEF TypeOK, InBroadcast, hubVars, callVars, mapVars, connVars,
             CloseSend, AfterClose
<1>5. ASSUME NEW p \in Procs, Panic(p)
      PROVE  TypeOK'
  BY <1>0, <1>5 DEF TypeOK, ClientPc, RequestPc, HubPc, InBroadcast, hubVars, mapVars,
       callVars, chanVars, connVars, Panic, RUnlock, AfterPanic
<1>6. ASSUME NEW p \in Procs, EndIteration(p)
      PROVE  TypeOK'
  BY <1>0, <1>6 DEF TypeOK, ClientPc, RequestPc, HubPc, InBroadcast, hubVars, mapVars,
       callVars, chanVars, connVars, EndIteration, RUnlock, Home, AfterCall
<1>7. ASSUME NEW p \in Procs, ReceiveEvict(p)
      PROVE  TypeOK'
  BY <1>0, <1>7 DEF TypeOK, ClientPc, RequestPc, HubPc, InBroadcast, hubVars, mapVars,
       callVars, chanVars, connVars, ReceiveEvict
<1>8. ASSUME NEW r \in Requests, NEW recipients \in SUBSET Users, RestBroadcast(r, recipients)
      PROVE  TypeOK'
  BY <1>0, <1>8 DEF TypeOK, ClientPc, RequestPc, HubPc, InBroadcast, hubVars, mapVars,
       callVars, chanVars, connVars, RestBroadcast, CallBroadcast, RLock
<1>9. ASSUME NEW c \in Clients, Connect(c)
      PROVE  TypeOK'
  BY <1>0, <1>9 DEF TypeOK, ClientPc, RequestPc, HubPc, InBroadcast, hubVars, mapVars,
       callVars, chanVars, connVars, Connect, Free, Pool
<1>10. ASSUME NEW c \in Clients, ReadFrame(c)
      PROVE  TypeOK'
  BY <1>0, <1>10 DEF TypeOK, ClientPc, RequestPc, HubPc, InBroadcast, hubVars, mapVars,
       callVars, chanVars, connVars, ReadFrame
<1>11. ASSUME NEW c \in Clients, PingFails(c)
      PROVE  TypeOK'
  BY <1>0, <1>11 DEF TypeOK, ClientPc, RequestPc, HubPc, InBroadcast, hubVars, mapVars,
       callVars, chanVars, connVars, PingFails, StopWriter
<1>12. ASSUME NEW c \in Clients, StartPumps(c)
      PROVE  TypeOK'
  BY <1>0, <1>12 DEF TypeOK, ClientPc, RequestPc, HubPc, InBroadcast, hubVars, mapVars,
       callVars, chanVars, connVars, StartPumps
<1>13. ASSUME NEW c \in Clients, NEW recipients \in SUBSET (Users \ {owner[c]}),
              FrameBroadcast(c, recipients)
      PROVE  TypeOK'
  BY <1>0, <1>13 DEF TypeOK, ClientPc, RequestPc, HubPc, InBroadcast, hubVars, mapVars,
       callVars, chanVars, connVars, FrameBroadcast, CallBroadcast, RLock
<1>14. ASSUME NEW c \in Clients, FrameIgnored(c)
      PROVE  TypeOK'
  BY <1>0, <1>14 DEF TypeOK, ClientPc, RequestPc, HubPc, InBroadcast, hubVars, mapVars,
       callVars, chanVars, connVars, FrameIgnored, AfterCall
<1>15. ASSUME NEW c \in Clients, ReadFails(c)
      PROVE  TypeOK'
  BY <1>0, <1>15 DEF TypeOK, ClientPc, RequestPc, HubPc, InBroadcast, hubVars, mapVars,
       callVars, chanVars, connVars, ReadFails, AfterRead
<1>16. ASSUME NEW c \in Clients, CloseConn(c)
      PROVE  TypeOK'
  BY <1>0, <1>16 DEF TypeOK, ClientPc, RequestPc, HubPc, InBroadcast, hubVars, mapVars,
       callVars, chanVars, connVars, CloseConn
<1>17. ASSUME NEW c \in Clients, WriteNext(c)
      PROVE  TypeOK'
  BY <1>0, <1>17 DEF TypeOK, ClientPc, RequestPc, HubPc, InBroadcast, hubVars, mapVars,
       callVars, chanVars, connVars, WriteNext, StopWriter
<1>18. ASSUME NEW c \in Clients, WriteClosed(c)
      PROVE  TypeOK'
  BY <1>0, <1>18 DEF TypeOK, ClientPc, RequestPc, HubPc, InBroadcast, hubVars, mapVars,
       callVars, chanVars, connVars, WriteClosed, StopWriter
<1>19. ASSUME NEW c \in Clients, ReceiveRegister(c)
      PROVE  TypeOK'
  BY <1>0, <1>19 DEF TypeOK, ClientPc, RequestPc, HubPc, InBroadcast, hubVars, mapVars,
       callVars, chanVars, connVars, ReceiveRegister
<1>20. ASSUME NEW c \in Clients, ReceiveExit(c)
      PROVE  TypeOK'
  BY <1>0, <1>20 DEF TypeOK, ClientPc, RequestPc, HubPc, InBroadcast, hubVars, mapVars,
       callVars, chanVars, connVars, ReceiveExit
<1>21. ASSUME NEW c \in Clients, SendStatus(c)
      PROVE  TypeOK'
  BY <1>0, <1>21 DEF TypeOK, ClientPc, RequestPc, HubPc, InBroadcast, hubVars, mapVars,
       callVars, chanVars, connVars, SendStatus, Room
<1>22. CASE HubLock
  BY <1>0, <1>22 DEF TypeOK, ClientPc, RequestPc, HubPc, InBroadcast, hubVars, mapVars,
       callVars, chanVars, connVars, HubLock
<1>23. CASE AddClient
  BY <1>0, <1>23 DEF TypeOK, ClientPc, RequestPc, HubPc, InBroadcast, hubVars, mapVars,
       callVars, chanVars, connVars, AddClient, HubInv, Unlock, BeginStatus, LockGranted
<1>24. CASE RemoveClient
  <2>1. hubClient \in Clients /\ owner[hubClient] \in Users
    BY <1>0, <1>24 DEF HubInv, RemoveClient, LockGranted, TypeOK, HubPc
  <2>2. clients' \in [Users -> SUBSET Clients] /\ onlineUsers' \in SUBSET Users
    BY <1>0, <1>24, <2>1 DEF RemoveClient, TypeOK
  <2>3. rlocked' \in SUBSET Procs
    BY <1>24 DEF RemoveClient, Unlock
  <2>4. hubPc' \in HubPc /\ hubOp' \in {"none", "register", "unregister"}
        /\ hubClient' \in Clients \cup {None} /\ hubOnline' \in BOOLEAN
        /\ hubTodo' \in SUBSET Clients
    BY <1>0, <1>24, <2>2, UnionType DEF RemoveClient, BeginStatus, BackToSelect, TypeOK,
         HubPc
  <2> QED BY <1>0, <1>24, <2>2, <2>3, <2>4 DEF RemoveClient, TypeOK, callVars, chanVars,
       connVars
<1>25. CASE EndStatus
  BY <1>0, <1>25 DEF TypeOK, ClientPc, RequestPc, HubPc, InBroadcast, hubVars, mapVars,
       callVars, chanVars, connVars, EndStatus, BackToSelect
<1>26. CASE HubPanics
  BY <1>0, <1>26 DEF TypeOK, ClientPc, RequestPc, HubPc, InBroadcast, hubVars, mapVars,
       callVars, chanVars, connVars, HubPanics
<1>27. CASE Restart
  BY <1>27, RestartInv DEF Inv
<1>28. CASE UNCHANGED vars
  BY <1>0, <1>28 DEF TypeOK, ClientPc, RequestPc, HubPc, InBroadcast, hubVars, mapVars,
       callVars, chanVars, connVars, vars
<1>29. ASSUME NEW c \in Clients, ReturnHandler(c)
      PROVE  TypeOK'
  BY <1>0, <1>29 DEF TypeOK, ClientPc, RequestPc, HubPc, InBroadcast, hubVars, mapVars,
       callVars, chanVars, connVars, ReturnHandler
<1>30. ASSUME NEW c \in Clients, WriterPanics(c)
      PROVE  TypeOK'
  BY <1>0, <1>30 DEF TypeOK, ClientPc, RequestPc, HubPc, InBroadcast, hubVars, mapVars,
       callVars, chanVars, connVars, WriterPanics
<1>31. ASSUME NEW c \in Clients, NEW d \in Clients, WriteElsewhere(c, d)
      PROVE  TypeOK'
  BY <1>0, <1>31 DEF TypeOK, ClientPc, RequestPc, HubPc, InBroadcast, hubVars, mapVars,
       callVars, chanVars, connVars, WriteElsewhere
<1> QED BY NextCases, <1>1, <1>2, <1>3, <1>4, <1>5, <1>6, <1>7, <1>8, <1>9, <1>10,
       <1>11, <1>12, <1>13, <1>14, <1>15, <1>16, <1>17, <1>18, <1>19, <1>20, <1>21,
       <1>22, <1>23, <1>24, <1>25, <1>26, <1>27, <1>28,
       <1>29, <1>30, <1>31

\* Every step keeps the lock discipline.
LEMMA LockStep ==
  ASSUME Inv, [Next]_vars
  PROVE  LockInv'
<1> USE HubAssumption DEF Procs, LockInv, Reading, InBroadcast
<1>0. TypeOK /\ LockInv BY DEF Inv
<1>1. ASSUME NEW p \in Procs, BeginIteration(p)
      PROVE  LockInv'
  BY <1>0, <1>1 DEF TypeOK, BeginIteration
<1>2. ASSUME NEW p \in Procs, NEW c \in Clients, Deliver(p, c)
      PROVE  LockInv'
  BY <1>0, <1>2 DEF TypeOK, Deliver, Room
<1>3. ASSUME NEW p \in Procs, NEW c \in Clients, FindFull(p, c)
      PROVE  LockInv'
  BY <1>0, <1>3 DEF TypeOK, FindFull, Room
<1>4. ASSUME NEW p \in Procs, CloseSend(p)
      PROVE  LockInv'
  BY <1>0, <1>4 DEF TypeOK, CloseSend, AfterClose
<1>5. ASSUME NEW p \in Procs, Panic(p)
      PROVE  LockInv'
  BY <1>0, <1>5 DEF TypeOK, Panic, RUnlock, AfterPanic
<1>6. ASSUME NEW p \in Procs, EndIteration(p)
      PROVE  LockInv'
  BY <1>0, <1>6 DEF TypeOK, EndIteration, RUnlock, Home, AfterCall
<1>7. ASSUME NEW p \in Procs, ReceiveEvict(p)
      PROVE  LockInv'
  BY <1>0, <1>7 DEF TypeOK, ReceiveEvict
<1>8. ASSUME NEW r \in Requests, NEW recipients \in SUBSET Users,
             RestBroadcast(r, recipients)
      PROVE  LockInv'
  BY <1>0, <1>8 DEF TypeOK, RestBroadcast, CallBroadcast, RLock
<1>9. ASSUME NEW c \in Clients, Connect(c)
      PROVE  LockInv'
  BY <1>0, <1>9 DEF TypeOK, Connect
<1>10. ASSUME NEW c \in Clients, ReadFrame(c)
      PROVE  LockInv'
  BY <1>0, <1>10 DEF TypeOK, ReadFrame
<1>11. ASSUME NEW c \in Clients, PingFails(c)
      PROVE  LockInv'
  BY <1>0, <1>11 DEF TypeOK, PingFails, StopWriter
<1>12. ASSUME NEW c \in Clients, StartPumps(c)
      PROVE  LockInv'
  BY <1>0, <1>12 DEF TypeOK, StartPumps
<1>13. ASSUME NEW c \in Clients, NEW recipients \in SUBSET (Users \ {owner[c]}),
             FrameBroadcast(c, recipients)
      PROVE  LockInv'
  BY <1>0, <1>13 DEF TypeOK, FrameBroadcast, CallBroadcast, RLock
<1>14. ASSUME NEW c \in Clients, FrameIgnored(c)
      PROVE  LockInv'
  BY <1>0, <1>14 DEF TypeOK, FrameIgnored, AfterCall
<1>15. ASSUME NEW c \in Clients, ReadFails(c)
      PROVE  LockInv'
  BY <1>0, <1>15 DEF TypeOK, ReadFails, AfterRead
<1>16. ASSUME NEW c \in Clients, CloseConn(c)
      PROVE  LockInv'
  BY <1>0, <1>16 DEF TypeOK, CloseConn
<1>17. ASSUME NEW c \in Clients, WriteNext(c)
      PROVE  LockInv'
  BY <1>0, <1>17 DEF TypeOK, WriteNext, StopWriter
<1>18. ASSUME NEW c \in Clients, WriteClosed(c)
      PROVE  LockInv'
  BY <1>0, <1>18 DEF TypeOK, WriteClosed, StopWriter
<1>19. ASSUME NEW c \in Clients, ReceiveRegister(c)
      PROVE  LockInv'
  BY <1>0, <1>19 DEF TypeOK, ReceiveRegister
<1>20. ASSUME NEW c \in Clients, ReceiveExit(c)
      PROVE  LockInv'
  BY <1>0, <1>20 DEF TypeOK, ReceiveExit
<1>21. ASSUME NEW c \in Clients, SendStatus(c)
      PROVE  LockInv'
  BY <1>0, <1>21 DEF TypeOK, SendStatus, Room
<1>22. CASE HubLock
  BY <1>0, <1>22 DEF TypeOK, HubLock
<1>23. CASE AddClient
  BY <1>0, <1>23 DEF TypeOK, AddClient, Unlock, BeginStatus, LockGranted
<1>24. CASE RemoveClient
  BY <1>0, <1>24 DEF TypeOK, RemoveClient, Unlock, BeginStatus, BackToSelect,
       LockGranted
<1>25. CASE EndStatus
  BY <1>0, <1>25 DEF TypeOK, EndStatus, BackToSelect
<1>26. CASE HubPanics
  BY <1>0, <1>26 DEF TypeOK, HubPanics
<1>27. CASE Restart
  BY <1>27, RestartInv DEF Inv
<1>28. CASE UNCHANGED vars
  BY <1>0, <1>28 DEF TypeOK, vars, hubVars, mapVars, callVars, chanVars, connVars
<1>29. ASSUME NEW c \in Clients, ReturnHandler(c)
      PROVE  LockInv'
  BY <1>0, <1>29 DEF TypeOK, ReturnHandler
<1>30. ASSUME NEW c \in Clients, WriterPanics(c)
      PROVE  LockInv'
  BY <1>0, <1>30 DEF TypeOK, WriterPanics
<1>31. ASSUME NEW c \in Clients, NEW d \in Clients, WriteElsewhere(c, d)
      PROVE  LockInv'
  BY <1>0, <1>31 DEF TypeOK, WriteElsewhere
<1> QED BY NextCases, <1>1, <1>2, <1>3, <1>4, <1>5, <1>6, <1>7, <1>8, <1>9, <1>10,
       <1>11, <1>12, <1>13, <1>14, <1>15, <1>16, <1>17, <1>18, <1>19, <1>20, <1>21,
       <1>22, <1>23, <1>24, <1>25, <1>26, <1>27, <1>28,
       <1>29, <1>30, <1>31

\* Every step keeps the loops on registered connections: under the lock discipline
\* the map cannot change while one runs.
LEMMA LoopStep ==
  ASSUME Inv, [Next]_vars
  PROVE  LoopInv'
<1> USE HubAssumption DEF Procs, LoopInv, VisitsRegistered, Reading
<1>0. TypeOK /\ LockInv /\ LoopInv BY DEF Inv
<1>1. ASSUME NEW p \in Procs, BeginIteration(p)
      PROVE  LoopInv'
  BY <1>0, <1>1 DEF TypeOK, Registered, mapVars, callVars, BeginIteration
<1>2. ASSUME NEW p \in Procs, NEW c \in Clients, Deliver(p, c)
      PROVE  LoopInv'
  BY <1>0, <1>2 DEF TypeOK, Registered, mapVars, callVars, Deliver, Room
<1>3. ASSUME NEW p \in Procs, NEW c \in Clients, FindFull(p, c)
      PROVE  LoopInv'
  BY <1>0, <1>3 DEF TypeOK, Registered, mapVars, callVars, FindFull, Room
<1>4. ASSUME NEW p \in Procs, CloseSend(p)
      PROVE  LoopInv'
  BY <1>0, <1>4 DEF TypeOK, Registered, mapVars, callVars, CloseSend, AfterClose
<1>5. ASSUME NEW p \in Procs, Panic(p)
      PROVE  LoopInv'
  BY <1>0, <1>5 DEF TypeOK, Registered, mapVars, callVars, Panic, RUnlock, AfterPanic
<1>6. ASSUME NEW p \in Procs, EndIteration(p)
      PROVE  LoopInv'
  BY <1>0, <1>6 DEF TypeOK, Registered, mapVars, callVars, EndIteration, RUnlock, Home,
       AfterCall
<1>7. ASSUME NEW p \in Procs, ReceiveEvict(p)
      PROVE  LoopInv'
  BY <1>0, <1>7 DEF TypeOK, Registered, mapVars, callVars, ReceiveEvict
<1>8. ASSUME NEW r \in Requests, NEW recipients \in SUBSET Users,
             RestBroadcast(r, recipients)
      PROVE  LoopInv'
  BY <1>0, <1>8 DEF TypeOK, Registered, mapVars, callVars, RestBroadcast, CallBroadcast,
       RLock
<1>9. ASSUME NEW c \in Clients, Connect(c)
      PROVE  LoopInv'
  BY <1>0, <1>9 DEF TypeOK, Registered, mapVars, callVars, Connect
<1>10. ASSUME NEW c \in Clients, ReadFrame(c)
      PROVE  LoopInv'
  BY <1>0, <1>10 DEF TypeOK, Registered, mapVars, callVars, ReadFrame
<1>11. ASSUME NEW c \in Clients, PingFails(c)
      PROVE  LoopInv'
  BY <1>0, <1>11 DEF TypeOK, Registered, mapVars, callVars, PingFails, StopWriter
<1>12. ASSUME NEW c \in Clients, StartPumps(c)
      PROVE  LoopInv'
  BY <1>0, <1>12 DEF TypeOK, Registered, mapVars, callVars, StartPumps
<1>13. ASSUME NEW c \in Clients, NEW recipients \in SUBSET (Users \ {owner[c]}),
             FrameBroadcast(c, recipients)
      PROVE  LoopInv'
  BY <1>0, <1>13 DEF TypeOK, Registered, mapVars, callVars, FrameBroadcast,
       CallBroadcast, RLock
<1>14. ASSUME NEW c \in Clients, FrameIgnored(c)
      PROVE  LoopInv'
  BY <1>0, <1>14 DEF TypeOK, Registered, mapVars, callVars, FrameIgnored, AfterCall
<1>15. ASSUME NEW c \in Clients, ReadFails(c)
      PROVE  LoopInv'
  BY <1>0, <1>15 DEF TypeOK, Registered, mapVars, callVars, ReadFails, AfterRead
<1>16. ASSUME NEW c \in Clients, CloseConn(c)
      PROVE  LoopInv'
  BY <1>0, <1>16 DEF TypeOK, Registered, mapVars, callVars, CloseConn
<1>17. ASSUME NEW c \in Clients, WriteNext(c)
      PROVE  LoopInv'
  BY <1>0, <1>17 DEF TypeOK, Registered, mapVars, callVars, WriteNext, StopWriter
<1>18. ASSUME NEW c \in Clients, WriteClosed(c)
      PROVE  LoopInv'
  BY <1>0, <1>18 DEF TypeOK, Registered, mapVars, callVars, WriteClosed, StopWriter
<1>19. ASSUME NEW c \in Clients, ReceiveRegister(c)
      PROVE  LoopInv'
  BY <1>0, <1>19 DEF TypeOK, Registered, mapVars, callVars, ReceiveRegister
<1>20. ASSUME NEW c \in Clients, ReceiveExit(c)
      PROVE  LoopInv'
  BY <1>0, <1>20 DEF TypeOK, Registered, mapVars, callVars, ReceiveExit
<1>21. ASSUME NEW c \in Clients, SendStatus(c)
      PROVE  LoopInv'
  BY <1>0, <1>21 DEF TypeOK, Registered, mapVars, callVars, SendStatus, Room
<1>22. CASE HubLock
  BY <1>0, <1>22 DEF TypeOK, Registered, mapVars, callVars, HubLock
<1>23. CASE AddClient
  BY <1>0, <1>23 DEF TypeOK, Registered, mapVars, callVars, AddClient, Unlock,
       BeginStatus, LockGranted
<1>24. CASE RemoveClient
  <2>1. \A p \in Procs : pc[p] \notin Reading /\ todo[p] = {}
    BY <1>0, <1>24 DEF LockInv, RemoveClient, LockGranted
  <2>2. UNCHANGED <<pc, todo>>
    BY <1>24 DEF RemoveClient, callVars
  <2> QED BY <2>1, <2>2
<1>25. CASE EndStatus
  BY <1>0, <1>25 DEF TypeOK, Registered, mapVars, callVars, EndStatus, BackToSelect
<1>26. CASE HubPanics
  BY <1>0, <1>26 DEF TypeOK, Registered, mapVars, callVars, HubPanics
<1>27. CASE Restart
  BY <1>27, RestartInv DEF Inv
<1>28. CASE UNCHANGED vars
  BY <1>0, <1>28 DEF TypeOK, Registered, mapVars, callVars, vars, hubVars, chanVars,
       connVars
<1>29. ASSUME NEW c \in Clients, ReturnHandler(c)
      PROVE  LoopInv'
  BY <1>0, <1>29 DEF TypeOK, Registered, mapVars, callVars, ReturnHandler
<1>30. ASSUME NEW c \in Clients, WriterPanics(c)
      PROVE  LoopInv'
  BY <1>0, <1>30 DEF TypeOK, Registered, mapVars, callVars, WriterPanics
<1>31. ASSUME NEW c \in Clients, NEW d \in Clients, WriteElsewhere(c, d)
      PROVE  LoopInv'
  BY <1>0, <1>31 DEF TypeOK, Registered, mapVars, callVars, WriteElsewhere
<1> QED BY NextCases, <1>1, <1>2, <1>3, <1>4, <1>5, <1>6, <1>7, <1>8, <1>9, <1>10,
       <1>11, <1>12, <1>13, <1>14, <1>15, <1>16, <1>17, <1>18, <1>19, <1>20, <1>21,
       <1>22, <1>23, <1>24, <1>25, <1>26, <1>27, <1>28,
       <1>29, <1>30, <1>31

\* The steps that change what the hub has in hand or the map.
LEMMA HubCases ==
  ASSUME [Next]_vars
  PROVE  \/ \E p \in Procs : ReceiveEvict(p)
         \/ \E c \in Clients : ReceiveRegister(c) \/ ReceiveExit(c) \/ SendStatus(c)
         \/ HubLock
         \/ AddClient
         \/ RemoveClient
         \/ EndStatus
         \/ Restart
         \/ UNCHANGED <<hubVars, mapVars>>
<1> USE DEF hubVars, mapVars
<1>1. ASSUME NEW p \in Procs,
             \/ BeginIteration(p) \/ CloseSend(p) \/ Panic(p) \/ EndIteration(p)
             \/ \E c \in Clients : Deliver(p, c) \/ FindFull(p, c)
      PROVE  UNCHANGED <<hubVars, mapVars>>
  BY <1>1 DEF BeginIteration, CloseSend, Panic, EndIteration, Deliver, FindFull
<1>2. ASSUME NEW r \in Requests, NEW recipients \in SUBSET Users,
             RestBroadcast(r, recipients)
      PROVE  UNCHANGED <<hubVars, mapVars>>
  BY <1>2 DEF RestBroadcast
<1>3. ASSUME NEW c \in Clients,
             \/ Connect(c) \/ ReadFrame(c) \/ PingFails(c) \/ StartPumps(c) \/ FrameIgnored(c)
             \/ \E recipients \in SUBSET (Users \ {owner[c]}) : FrameBroadcast(c, recipients)
             \/ ReadFails(c) \/ CloseConn(c) \/ ReturnHandler(c) \/ WriteNext(c) \/ WriteClosed(c)
             \/ WriterPanics(c) \/ \E d \in Clients : WriteElsewhere(c, d)
      PROVE  UNCHANGED <<hubVars, mapVars>>
  BY <1>3 DEF Connect, ReadFrame, PingFails, StartPumps, FrameIgnored, FrameBroadcast,
       ReadFails, CloseConn, ReturnHandler, WriteNext, WriteClosed, WriterPanics,
       WriteElsewhere
<1>4. HubPanics \/ UNCHANGED vars => UNCHANGED <<hubVars, mapVars>>
  BY DEF HubPanics, vars
<1> QED BY NextCases, <1>1, <1>2, <1>3, <1>4

\* Every step keeps what the hub has in hand.
LEMMA HubInvStep ==
  ASSUME Inv, [Next]_vars
  PROVE  HubInv'
<1> USE DEF HubInv
<1>0. TypeOK /\ LoopInv /\ HubInv BY DEF Inv
<1>1. ASSUME NEW p \in Procs, ReceiveEvict(p)
      PROVE  HubInv'
  <2>1. evicting[p] \in Clients
    BY <1>0, <1>1 DEF LoopInv, VisitsRegistered, Registered, ReceiveEvict, TypeOK
  <2> QED BY <1>1, <2>1 DEF ReceiveEvict
<1>2. ASSUME NEW c \in Clients, ReceiveRegister(c) \/ ReceiveExit(c)
      PROVE  HubInv'
  BY <1>2 DEF ReceiveRegister, ReceiveExit
<1>3. ASSUME NEW c \in Clients, SendStatus(c)
      PROVE  HubInv'
  BY <1>0, <1>3 DEF SendStatus, Registered, mapVars
<1>4. CASE HubLock
  BY <1>0, <1>4 DEF HubLock
<1>5. CASE AddClient
  BY <1>0, <1>5 DEF AddClient, LockGranted, BeginStatus, Registered
<1>6. CASE RemoveClient
  BY <1>0, <1>6 DEF RemoveClient, LockGranted, BeginStatus, BackToSelect, Registered
<1>7. CASE EndStatus
  BY <1>7 DEF EndStatus, BackToSelect
<1>8. CASE Restart
  BY <1>8, RestartInv DEF Inv
<1>9. CASE UNCHANGED <<hubVars, mapVars>>
  BY <1>0, <1>9 DEF hubVars, mapVars, Registered
<1> QED BY HubCases, <1>1, <1>2, <1>3, <1>4, <1>5, <1>6, <1>7, <1>8, <1>9

\* Every step keeps onlineUsers in line with the map, and the announcement true.
LEMMA StatusStep ==
  ASSUME Inv, [Next]_vars
  PROVE  OnlineMatchesClients' /\ AnnouncementTrue'
<1> USE DEF OnlineMatchesClients, AnnouncementTrue
<1>0. TypeOK /\ HubInv /\ OnlineMatchesClients /\ AnnouncementTrue /\ owner' = owner
  BY OwnerStep DEF Inv
<1>1. ASSUME NEW p \in Procs, ReceiveEvict(p)
      PROVE  OnlineMatchesClients' /\ AnnouncementTrue'
  BY <1>0, <1>1 DEF ReceiveEvict, mapVars
<1>2. ASSUME NEW c \in Clients, ReceiveRegister(c) \/ ReceiveExit(c) \/ SendStatus(c)
      PROVE  OnlineMatchesClients' /\ AnnouncementTrue'
  BY <1>0, <1>2 DEF ReceiveRegister, ReceiveExit, SendStatus, mapVars
<1>3. CASE HubLock
  BY <1>0, <1>3 DEF HubLock, mapVars
<1>4. hubPc # "select" => hubClient \in Clients /\ owner[hubClient] \in Users
  BY <1>0 DEF HubInv, TypeOK
<1>5. CASE AddClient
  BY <1>0, <1>4, <1>5 DEF AddClient, LockGranted, BeginStatus, TypeOK
<1>6. CASE RemoveClient
  BY <1>0, <1>4, <1>6
     DEF RemoveClient, GoesOffline, LockGranted, BeginStatus, BackToSelect, TypeOK
<1>7. CASE EndStatus
  BY <1>0, <1>7 DEF EndStatus, BackToSelect, mapVars
<1>8. CASE Restart
  BY <1>8, RestartInv DEF Inv
<1>9. CASE UNCHANGED <<hubVars, mapVars>>
  BY <1>0, <1>9 DEF hubVars, mapVars
<1> QED BY HubCases, <1>1, <1>2, <1>3, <1>5, <1>6, <1>7, <1>8, <1>9

\* Every step keeps a connection off the map, with an open channel, until the hub
\* lists it.
LEMMA ListStep ==
  ASSUME Inv, [Next]_vars
  PROVE  ListInv'
<1> USE HubAssumption DEF Procs, ListInv, BeingAdded, Registered
<1>0. TypeOK /\ LoopInv /\ HubInv /\ ListInv /\ owner' = owner BY OwnerStep DEF Inv
<1>1. ASSUME NEW p \in Procs, BeginIteration(p)
      PROVE  ListInv'
  BY <1>0, <1>1 DEF TypeOK, HubInv, hubVars, mapVars, chanVars, BeginIteration
<1>2. ASSUME NEW p \in Procs, NEW c \in Clients, Deliver(p, c)
      PROVE  ListInv'
  BY <1>0, <1>2 DEF TypeOK, HubInv, hubVars, mapVars, chanVars, Deliver, Room
<1>3. ASSUME NEW p \in Procs, NEW c \in Clients, FindFull(p, c)
      PROVE  ListInv'
  BY <1>0, <1>3 DEF TypeOK, HubInv, hubVars, mapVars, chanVars, FindFull, Room
<1>4. ASSUME NEW p \in Procs, CloseSend(p)
      PROVE  ListInv'
  <2>1. evicting[p] \in Registered
    BY <1>0, <1>4 DEF LoopInv, VisitsRegistered, CloseSend
  <2>2. \A c \in Clients : pc'[c] \in {"new", "register"} => pc[c] \in {"new", "register"}
    BY <1>0, <1>4 DEF TypeOK, CloseSend, AfterClose
  <2>3. UNCHANGED <<clients, hubVars>> /\ closed' = closed \cup {evicting[p]}
    BY <1>4 DEF CloseSend, mapVars
  <2>4. \A c \in Clients : BeingAdded(c)' =>
          /\ BeingAdded(c)
          /\ pc'[c] \in {"new", "register", "close", "return", "gone"}
               => pc[c] \in {"new", "register", "close", "return", "gone"}
    BY <1>0, <1>4 DEF TypeOK, CloseSend, AfterClose, hubVars
  <2> QED BY <1>0, <2>1, <2>2, <2>3, <2>4 DEF hubVars
<1>5. ASSUME NEW p \in Procs, Panic(p)
      PROVE  ListInv'
  BY <1>0, <1>5 DEF TypeOK, HubInv, hubVars, mapVars, chanVars, Panic, RUnlock,
       AfterPanic
<1>6. ASSUME NEW p \in Procs, EndIteration(p)
      PROVE  ListInv'
  BY <1>0, <1>6 DEF TypeOK, HubInv, hubVars, mapVars, chanVars, EndIteration, RUnlock,
       Home, AfterCall
<1>7. ASSUME NEW p \in Procs, ReceiveEvict(p)
      PROVE  ListInv'
  BY <1>0, <1>7 DEF TypeOK, HubInv, hubVars, mapVars, chanVars, ReceiveEvict
<1>8. ASSUME NEW r \in Requests, NEW recipients \in SUBSET Users,
             RestBroadcast(r, recipients)
      PROVE  ListInv'
  BY <1>0, <1>8 DEF TypeOK, HubInv, hubVars, mapVars, chanVars, RestBroadcast,
       CallBroadcast, RLock
<1>9. ASSUME NEW c \in Clients, Connect(c)
      PROVE  ListInv'
  BY <1>0, <1>9 DEF TypeOK, HubInv, hubVars, mapVars, chanVars, Connect
<1>10. ASSUME NEW c \in Clients, ReadFrame(c)
      PROVE  ListInv'
  BY <1>0, <1>10 DEF TypeOK, HubInv, hubVars, mapVars, chanVars, ReadFrame
<1>11. ASSUME NEW c \in Clients, PingFails(c)
      PROVE  ListInv'
  BY <1>0, <1>11 DEF TypeOK, HubInv, hubVars, mapVars, chanVars, PingFails, StopWriter
<1>12. ASSUME NEW c \in Clients, StartPumps(c)
      PROVE  ListInv'
  BY <1>0, <1>12 DEF TypeOK, HubInv, hubVars, mapVars, chanVars, StartPumps
<1>13. ASSUME NEW c \in Clients, NEW recipients \in SUBSET (Users \ {owner[c]}),
             FrameBroadcast(c, recipients)
      PROVE  ListInv'
  BY <1>0, <1>13 DEF TypeOK, HubInv, hubVars, mapVars, chanVars, FrameBroadcast,
       CallBroadcast, RLock
<1>14. ASSUME NEW c \in Clients, FrameIgnored(c)
      PROVE  ListInv'
  BY <1>0, <1>14 DEF TypeOK, HubInv, hubVars, mapVars, chanVars, FrameIgnored, AfterCall
<1>15. ASSUME NEW c \in Clients, ReadFails(c)
      PROVE  ListInv'
  BY <1>0, <1>15 DEF TypeOK, HubInv, hubVars, mapVars, chanVars, ReadFails, AfterRead
<1>16. ASSUME NEW c \in Clients, CloseConn(c)
      PROVE  ListInv'
  BY <1>0, <1>16 DEF TypeOK, HubInv, hubVars, mapVars, chanVars, CloseConn
<1>17. ASSUME NEW c \in Clients, WriteNext(c)
      PROVE  ListInv'
  BY <1>0, <1>17 DEF TypeOK, HubInv, hubVars, mapVars, chanVars, WriteNext, StopWriter
<1>18. ASSUME NEW c \in Clients, WriteClosed(c)
      PROVE  ListInv'
  BY <1>0, <1>18 DEF TypeOK, HubInv, hubVars, mapVars, chanVars, WriteClosed, StopWriter
<1>19. ASSUME NEW c \in Clients, ReceiveRegister(c)
      PROVE  ListInv'
  BY <1>0, <1>19 DEF TypeOK, HubInv, hubVars, mapVars, chanVars, ReceiveRegister
<1>20. ASSUME NEW c \in Clients, ReceiveExit(c)
      PROVE  ListInv'
  BY <1>0, <1>20 DEF TypeOK, HubInv, hubVars, mapVars, chanVars, ReceiveExit
<1>21. ASSUME NEW c \in Clients, SendStatus(c)
      PROVE  ListInv'
  BY <1>0, <1>21 DEF TypeOK, HubInv, hubVars, mapVars, chanVars, SendStatus, Room
<1>22. CASE HubLock
  BY <1>0, <1>22 DEF TypeOK, HubInv, hubVars, mapVars, chanVars, HubLock
<1>23. CASE AddClient
  BY <1>0, <1>23 DEF TypeOK, HubInv, hubVars, mapVars, chanVars, AddClient, Unlock,
       BeginStatus, LockGranted
<1>24. CASE RemoveClient
  BY <1>0, <1>24 DEF TypeOK, HubInv, hubVars, mapVars, chanVars, RemoveClient, Unlock,
       BeginStatus, BackToSelect, LockGranted
<1>25. CASE EndStatus
  BY <1>0, <1>25 DEF TypeOK, HubInv, hubVars, mapVars, chanVars, EndStatus, BackToSelect
<1>26. CASE HubPanics
  BY <1>0, <1>26 DEF TypeOK, HubInv, hubVars, mapVars, chanVars, HubPanics
<1>27. CASE Restart
  BY <1>27, RestartInv DEF Inv
<1>28. CASE UNCHANGED vars
  BY <1>0, <1>28 DEF TypeOK, HubInv, hubVars, mapVars, chanVars, vars, callVars,
       connVars
<1>29. ASSUME NEW c \in Clients, ReturnHandler(c)
      PROVE  ListInv'
  BY <1>0, <1>29 DEF TypeOK, HubInv, hubVars, mapVars, chanVars, ReturnHandler
<1>30. ASSUME NEW c \in Clients, WriterPanics(c)
      PROVE  ListInv'
  BY <1>0, <1>30 DEF TypeOK, HubInv, hubVars, mapVars, chanVars, WriterPanics
<1>31. ASSUME NEW c \in Clients, NEW d \in Clients, WriteElsewhere(c, d)
      PROVE  ListInv'
  BY <1>0, <1>31 DEF TypeOK, HubInv, hubVars, mapVars, chanVars, WriteElsewhere
<1> QED BY NextCases, <1>1, <1>2, <1>3, <1>4, <1>5, <1>6, <1>7, <1>8, <1>9, <1>10,
       <1>11, <1>12, <1>13, <1>14, <1>15, <1>16, <1>17, <1>18, <1>19, <1>20, <1>21,
       <1>22, <1>23, <1>24, <1>25, <1>26, <1>27, <1>28,
       <1>29, <1>30, <1>31

\* Every step keeps a closed connection that is still listed on its way out.
LEMMA ClosedStep ==
  ASSUME Inv, [Next]_vars
  PROVE  ClosedIsLeaving'
<1> DEFINE Evicted(c) == \E p \in Procs : pc[p] = "unregister" /\ evicting[p] = c
<1> SUFFICES ASSUME NEW c \in closed', c \in Registered'
             PROVE  BeingRemoved(c)' \/ Evicted(c)'
  BY DEF ClosedIsLeaving
<1>0. /\ TypeOK /\ LoopInv /\ HubInv /\ ListInv
      /\ c \in closed /\ c \in Registered => BeingRemoved(c) \/ Evicted(c)
  BY DEF Inv, ClosedIsLeaving
<1>a. UNCHANGED clients => c \in Registered
  BY DEF Registered
<1>b. hubPc = "select" => ~BeingRemoved(c)
  BY <1>0 DEF HubInv, BeingRemoved
<1> USE DEF Procs, BeingRemoved
<1>1. ASSUME NEW p \in Procs, BeginIteration(p)
      PROVE  BeingRemoved(c)' \/ Evicted(c)'
  BY <1>0, <1>a, <1>1 DEF TypeOK, hubVars, mapVars, chanVars, callVars, BeginIteration
<1>2. ASSUME NEW p \in Procs, NEW d \in Clients, Deliver(p, d)
      PROVE  BeingRemoved(c)' \/ Evicted(c)'
  BY <1>0, <1>a, <1>2 DEF TypeOK, hubVars, mapVars, chanVars, callVars, Deliver, Room
<1>3. ASSUME NEW p \in Procs, NEW d \in Clients, FindFull(p, d)
      PROVE  BeingRemoved(c)' \/ Evicted(c)'
  BY <1>0, <1>a, <1>3 DEF TypeOK, hubVars, mapVars, chanVars, callVars, FindFull, Room
<1>4. ASSUME NEW p \in Procs, CloseSend(p)
      PROVE  BeingRemoved(c)' \/ Evicted(c)'
  BY <1>0, <1>a, <1>4 DEF TypeOK, hubVars, mapVars, chanVars, callVars, CloseSend,
       AfterClose
<1>5. ASSUME NEW p \in Procs, Panic(p)
      PROVE  BeingRemoved(c)' \/ Evicted(c)'
  BY <1>0, <1>a, <1>5 DEF TypeOK, hubVars, mapVars, chanVars, callVars, Panic, RUnlock,
       AfterPanic
<1>6. ASSUME NEW p \in Procs, EndIteration(p)
      PROVE  BeingRemoved(c)' \/ Evicted(c)'
  BY <1>0, <1>a, <1>6 DEF TypeOK, hubVars, mapVars, chanVars, callVars, EndIteration,
       RUnlock, 
       Home, AfterCall
<1>7. ASSUME NEW p \in Procs, ReceiveEvict(p)
      PROVE  BeingRemoved(c)' \/ Evicted(c)'
  <2>1. c \in Registered /\ ~BeingRemoved(c)
    BY <1>a, <1>b, <1>7 DEF ReceiveEvict, mapVars
  <2>2. PICK q \in Procs : pc[q] = "unregister" /\ evicting[q] = c
    BY <1>0, <1>7, <2>1 DEF ReceiveEvict, chanVars
  <2>3. CASE q = p
    BY <1>7, <2>2, <2>3 DEF ReceiveEvict
  <2>4. CASE q # p
    BY <1>0, <1>7, <2>2, <2>4 DEF ReceiveEvict, TypeOK
  <2> QED BY <2>3, <2>4
<1>8. ASSUME NEW r \in Requests, NEW recipients \in SUBSET Users,
             RestBroadcast(r, recipients)
      PROVE  BeingRemoved(c)' \/ Evicted(c)'
  BY <1>0, <1>a, <1>8 DEF TypeOK, hubVars, mapVars, chanVars, callVars, RestBroadcast,
       CallBroadcast, RLock
<1>9. ASSUME NEW d \in Clients, Connect(d)
      PROVE  BeingRemoved(c)' \/ Evicted(c)'
  BY <1>0, <1>a, <1>9 DEF TypeOK, hubVars, mapVars, chanVars, callVars, Connect
<1>10. ASSUME NEW d \in Clients, ReadFrame(d)
      PROVE  BeingRemoved(c)' \/ Evicted(c)'
  BY <1>0, <1>a, <1>10 DEF TypeOK, hubVars, mapVars, chanVars, callVars, ReadFrame
<1>11. ASSUME NEW d \in Clients, PingFails(d)
      PROVE  BeingRemoved(c)' \/ Evicted(c)'
  BY <1>0, <1>a, <1>11 DEF TypeOK, hubVars, mapVars, chanVars, callVars, PingFails,
       StopWriter
<1>12. ASSUME NEW d \in Clients, StartPumps(d)
      PROVE  BeingRemoved(c)' \/ Evicted(c)'
  BY <1>0, <1>a, <1>12 DEF TypeOK, hubVars, mapVars, chanVars, callVars, StartPumps
<1>13. ASSUME NEW d \in Clients, NEW recipients \in SUBSET (Users \ {owner[d]}),
             FrameBroadcast(d, recipients)
      PROVE  BeingRemoved(c)' \/ Evicted(c)'
  BY <1>0, <1>a, <1>13 DEF TypeOK, hubVars, mapVars, chanVars, callVars, FrameBroadcast,
       CallBroadcast, RLock
<1>14. ASSUME NEW d \in Clients, FrameIgnored(d)
      PROVE  BeingRemoved(c)' \/ Evicted(c)'
  BY <1>0, <1>a, <1>14 DEF TypeOK, hubVars, mapVars, chanVars, callVars, FrameIgnored,
       AfterCall
<1>15. ASSUME NEW d \in Clients, ReadFails(d)
      PROVE  BeingRemoved(c)' \/ Evicted(c)'
  BY <1>0, <1>a, <1>15 DEF TypeOK, hubVars, mapVars, chanVars, callVars, ReadFails,
       AfterRead
<1>16. ASSUME NEW d \in Clients, CloseConn(d)
      PROVE  BeingRemoved(c)' \/ Evicted(c)'
  BY <1>0, <1>a, <1>16 DEF TypeOK, hubVars, mapVars, chanVars, callVars, CloseConn
<1>17. ASSUME NEW d \in Clients, WriteNext(d)
      PROVE  BeingRemoved(c)' \/ Evicted(c)'
  BY <1>0, <1>a, <1>17 DEF TypeOK, hubVars, mapVars, chanVars, callVars, WriteNext,
       StopWriter
<1>18. ASSUME NEW d \in Clients, WriteClosed(d)
      PROVE  BeingRemoved(c)' \/ Evicted(c)'
  BY <1>0, <1>a, <1>18 DEF TypeOK, hubVars, mapVars, chanVars, callVars, WriteClosed,
       StopWriter
<1>19. ASSUME NEW d \in Clients, ReceiveRegister(d)
      PROVE  BeingRemoved(c)' \/ Evicted(c)'
  BY <1>0, <1>a, <1>b, <1>19 DEF ReceiveRegister, TypeOK, mapVars, chanVars, callVars
<1>20. ASSUME NEW d \in Clients, ReceiveExit(d)
      PROVE  BeingRemoved(c)' \/ Evicted(c)'
  BY <1>0, <1>a, <1>b, <1>20 DEF ReceiveExit, TypeOK, mapVars, chanVars, callVars
<1>21. ASSUME NEW d \in Clients, SendStatus(d)
      PROVE  BeingRemoved(c)' \/ Evicted(c)'
  BY <1>0, <1>a, <1>21 DEF TypeOK, hubVars, mapVars, chanVars, callVars, SendStatus, Room
<1>22. CASE HubLock
  BY <1>0, <1>a, <1>22 DEF HubLock, TypeOK, mapVars, chanVars, callVars, hubVars
<1>23. CASE AddClient
  <2>1. hubClient \in Clients /\ BeingAdded(hubClient)
    BY <1>0, <1>23 DEF AddClient, LockGranted, HubInv, BeingAdded
  <2>2. c \in Registered \/ c = hubClient
    BY <1>0, <1>23, <2>1 DEF AddClient, Registered, TypeOK
  <2>3. ~BeingRemoved(c)
    BY <1>23 DEF AddClient
  <2>4. c # hubClient
    BY <1>0, <1>23, <2>1 DEF AddClient, ListInv, chanVars
  <2> QED BY <1>0, <1>23, <2>2, <2>3, <2>4 DEF AddClient, callVars, chanVars
<1>24. CASE RemoveClient
  <2>1. hubClient \in Clients
    BY <1>0, <1>24 DEF RemoveClient, LockGranted, HubInv
  <2>2. c \in Registered /\ c # hubClient
    BY <1>0, <1>24, <2>1, HubAssumption DEF RemoveClient, Registered, ListInv, TypeOK
  <2> QED BY <1>0, <1>24, <2>2 DEF RemoveClient, callVars, chanVars
<1>25. CASE EndStatus
  BY <1>0, <1>a, <1>25 DEF TypeOK, hubVars, mapVars, chanVars, callVars, EndStatus,
       BackToSelect
<1>26. CASE HubPanics
  BY <1>0, <1>a, <1>26 DEF TypeOK, hubVars, mapVars, chanVars, callVars, HubPanics
<1>27. CASE Restart
  BY <1>27, RestartInv DEF Inv, ClosedIsLeaving
<1>28. CASE UNCHANGED vars
  BY <1>0, <1>a, <1>28 DEF TypeOK, hubVars, mapVars, chanVars, callVars, vars, connVars
<1>29. ASSUME NEW d \in Clients, ReturnHandler(d)
      PROVE  BeingRemoved(c)' \/ Evicted(c)'
  BY <1>0, <1>a, <1>29 DEF TypeOK, hubVars, mapVars, chanVars, callVars, ReturnHandler
<1>30. ASSUME NEW d \in Clients, WriterPanics(d)
      PROVE  BeingRemoved(c)' \/ Evicted(c)'
  BY <1>0, <1>a, <1>30 DEF TypeOK, hubVars, mapVars, chanVars, callVars, WriterPanics
<1>31. ASSUME NEW d \in Clients, NEW e \in Clients, WriteElsewhere(d, e)
      PROVE  BeingRemoved(c)' \/ Evicted(c)'
  BY <1>0, <1>a, <1>31 DEF TypeOK, hubVars, mapVars, chanVars, callVars, WriteElsewhere
<1> QED BY NextCases, <1>1, <1>2, <1>3, <1>4, <1>5, <1>6, <1>7, <1>8, <1>9, <1>10,
       <1>11, <1>12, <1>13, <1>14, <1>15, <1>16, <1>17, <1>18, <1>19, <1>20, <1>21,
       <1>22, <1>23, <1>24, <1>25, <1>26, <1>27, <1>28,
       <1>29, <1>30, <1>31

\* Every step keeps ended connections off the map.
LEMMA GhostStep ==
  ASSUME Inv, [Next]_vars
  PROVE  NoGhost'
<1> SUFFICES ASSUME NEW c \in Registered', pc'[c] \in {"close", "return", "gone"}
             PROVE  BeingRemoved(c)'
  BY DEF NoGhost
<1>0. /\ TypeOK /\ LoopInv /\ HubInv /\ ListInv
      /\ c \in Registered /\ pc[c] \in {"close", "return", "gone"} => BeingRemoved(c)
  BY DEF Inv, NoGhost
<1>a. UNCHANGED clients => c \in Registered
  BY DEF Registered
<1>b. hubPc = "select" => ~BeingRemoved(c)
  BY <1>0 DEF HubInv, BeingRemoved
<1> USE DEF Procs, BeingRemoved
<1>1. ASSUME NEW p \in Procs, BeginIteration(p)
      PROVE  BeingRemoved(c)'
  BY <1>0, <1>a, <1>1 DEF TypeOK, hubVars, mapVars, BeginIteration
<1>2. ASSUME NEW p \in Procs, NEW d \in Clients, Deliver(p, d)
      PROVE  BeingRemoved(c)'
  BY <1>0, <1>a, <1>2 DEF TypeOK, hubVars, mapVars, Deliver, Room
<1>3. ASSUME NEW p \in Procs, NEW d \in Clients, FindFull(p, d)
      PROVE  BeingRemoved(c)'
  BY <1>0, <1>a, <1>3 DEF TypeOK, hubVars, mapVars, FindFull, Room
<1>4. ASSUME NEW p \in Procs, CloseSend(p)
      PROVE  BeingRemoved(c)'
  BY <1>0, <1>a, <1>4 DEF TypeOK, hubVars, mapVars, CloseSend, AfterClose
<1>5. ASSUME NEW p \in Procs, Panic(p)
      PROVE  BeingRemoved(c)'
  BY <1>0, <1>a, <1>5 DEF TypeOK, hubVars, mapVars, Panic, RUnlock, AfterPanic
<1>6. ASSUME NEW p \in Procs, EndIteration(p)
      PROVE  BeingRemoved(c)'
  BY <1>0, <1>a, <1>6 DEF TypeOK, hubVars, mapVars, EndIteration, RUnlock, Home, AfterCall
<1>7. ASSUME NEW p \in Procs, ReceiveEvict(p)
      PROVE  BeingRemoved(c)'
  <2>1. c \in Registered /\ ~BeingRemoved(c)
    BY <1>a, <1>b, <1>7 DEF ReceiveEvict, mapVars
  <2> QED BY <1>0, <1>7, <2>1 DEF ReceiveEvict, TypeOK
<1>8. ASSUME NEW r \in Requests, NEW recipients \in SUBSET Users,
             RestBroadcast(r, recipients)
      PROVE  BeingRemoved(c)'
  BY <1>0, <1>a, <1>8 DEF TypeOK, hubVars, mapVars, RestBroadcast, CallBroadcast, RLock
<1>9. ASSUME NEW d \in Clients, Connect(d)
      PROVE  BeingRemoved(c)'
  BY <1>0, <1>a, <1>9 DEF TypeOK, hubVars, mapVars, Connect
<1>10. ASSUME NEW d \in Clients, ReadFrame(d)
      PROVE  BeingRemoved(c)'
  BY <1>0, <1>a, <1>10 DEF TypeOK, hubVars, mapVars, ReadFrame
<1>11. ASSUME NEW d \in Clients, PingFails(d)
      PROVE  BeingRemoved(c)'
  BY <1>0, <1>a, <1>11 DEF TypeOK, hubVars, mapVars, PingFails, StopWriter
<1>12. ASSUME NEW d \in Clients, StartPumps(d)
      PROVE  BeingRemoved(c)'
  BY <1>0, <1>a, <1>12 DEF TypeOK, hubVars, mapVars, StartPumps
<1>13. ASSUME NEW d \in Clients, NEW recipients \in SUBSET (Users \ {owner[d]}),
             FrameBroadcast(d, recipients)
      PROVE  BeingRemoved(c)'
  BY <1>0, <1>a, <1>13 DEF TypeOK, hubVars, mapVars, FrameBroadcast, CallBroadcast, RLock
<1>14. ASSUME NEW d \in Clients, FrameIgnored(d)
      PROVE  BeingRemoved(c)'
  BY <1>0, <1>a, <1>14 DEF TypeOK, hubVars, mapVars, FrameIgnored, AfterCall
<1>15. ASSUME NEW d \in Clients, ReadFails(d)
      PROVE  BeingRemoved(c)'
  BY <1>0, <1>a, <1>15 DEF TypeOK, hubVars, mapVars, ReadFails, AfterRead
<1>16. ASSUME NEW d \in Clients, CloseConn(d)
      PROVE  BeingRemoved(c)'
  BY <1>0, <1>a, <1>16 DEF TypeOK, hubVars, mapVars, CloseConn
<1>17. ASSUME NEW d \in Clients, WriteNext(d)
      PROVE  BeingRemoved(c)'
  BY <1>0, <1>a, <1>17 DEF TypeOK, hubVars, mapVars, WriteNext, StopWriter
<1>18. ASSUME NEW d \in Clients, WriteClosed(d)
      PROVE  BeingRemoved(c)'
  BY <1>0, <1>a, <1>18 DEF TypeOK, hubVars, mapVars, WriteClosed, StopWriter
<1>19. ASSUME NEW d \in Clients, ReceiveRegister(d)
      PROVE  BeingRemoved(c)'
  BY <1>0, <1>a, <1>b, <1>19 DEF ReceiveRegister, TypeOK, mapVars, chanVars, callVars
<1>20. ASSUME NEW d \in Clients, ReceiveExit(d)
      PROVE  BeingRemoved(c)'
  BY <1>0, <1>a, <1>b, <1>20 DEF ReceiveExit, TypeOK, mapVars, chanVars, callVars
<1>21. ASSUME NEW d \in Clients, SendStatus(d)
      PROVE  BeingRemoved(c)'
  BY <1>0, <1>a, <1>21 DEF TypeOK, hubVars, mapVars, SendStatus, Room
<1>22. CASE HubLock
  BY <1>0, <1>a, <1>22 DEF HubLock, TypeOK, mapVars, chanVars, callVars, hubVars
<1>23. CASE AddClient
  <2>1. hubClient \in Clients /\ BeingAdded(hubClient)
    BY <1>0, <1>23 DEF AddClient, LockGranted, HubInv, BeingAdded
  <2>2. c \in Registered \/ c = hubClient
    BY <1>0, <1>23, <2>1 DEF AddClient, Registered, TypeOK
  <2>3. ~BeingRemoved(c)
    BY <1>23 DEF AddClient
  <2>4. c # hubClient
    BY <1>0, <1>23, <2>1 DEF AddClient, ListInv
  <2> QED BY <1>0, <1>23, <2>2, <2>3, <2>4 DEF AddClient
<1>24. CASE RemoveClient
  <2>1. hubClient \in Clients
    BY <1>0, <1>24 DEF RemoveClient, LockGranted, HubInv
  <2>2. c \in Registered /\ c # hubClient
    BY <1>0, <1>24, <2>1, HubAssumption DEF RemoveClient, Registered, ListInv, TypeOK
  <2> QED BY <1>0, <1>24, <2>2 DEF RemoveClient, callVars, chanVars
<1>25. CASE EndStatus
  BY <1>0, <1>a, <1>25 DEF TypeOK, hubVars, mapVars, EndStatus, BackToSelect
<1>26. CASE HubPanics
  BY <1>0, <1>a, <1>26 DEF TypeOK, hubVars, mapVars, HubPanics
<1>27. CASE Restart
  BY <1>27, RestartInv DEF Inv, NoGhost
<1>28. CASE UNCHANGED vars
  BY <1>0, <1>a, <1>28 DEF TypeOK, hubVars, mapVars, vars, callVars, chanVars, connVars
<1>29. ASSUME NEW d \in Clients, ReturnHandler(d)
      PROVE  BeingRemoved(c)'
  BY <1>0, <1>a, <1>29 DEF TypeOK, hubVars, mapVars, ReturnHandler
<1>30. ASSUME NEW d \in Clients, WriterPanics(d)
      PROVE  BeingRemoved(c)'
  BY <1>0, <1>a, <1>30 DEF TypeOK, hubVars, mapVars, WriterPanics
<1>31. ASSUME NEW d \in Clients, NEW e \in Clients, WriteElsewhere(d, e)
      PROVE  BeingRemoved(c)'
  BY <1>0, <1>a, <1>31 DEF TypeOK, hubVars, mapVars, WriteElsewhere
<1> QED BY NextCases, <1>1, <1>2, <1>3, <1>4, <1>5, <1>6, <1>7, <1>8, <1>9, <1>10,
       <1>11, <1>12, <1>13, <1>14, <1>15, <1>16, <1>17, <1>18, <1>19, <1>20, <1>21,
       <1>22, <1>23, <1>24, <1>25, <1>26, <1>27, <1>28,
       <1>29, <1>30, <1>31

-----------------------------------------------------------------------------
\* The invariant is inductive.
LEMMA Invariance == Spec => []Inv
<1>1. Init => Inv BY InitInv
<1>2. Inv /\ [Next]_vars => Inv'
  BY TypeStep, LockStep, LoopStep, HubInvStep, StatusStep, ListStep, ClosedStep, GhostStep
     DEF Inv
<1> QED BY <1>1, <1>2, PTL DEF Spec

\* Every variable keeps its type, in particular no buffer holds more than its capacity.
THEOREM TypeCorrect == Spec => []TypeOK
<1>1. Inv => TypeOK BY DEF Inv
<1> QED BY <1>1, Invariance, PTL

\* What GET /api/online returns is what the map of connections says.
THEOREM OnlineUsersCorrect == Spec => []OnlineMatchesClients
<1>1. Inv => OnlineMatchesClients BY DEF Inv
<1> QED BY <1>1, Invariance, PTL

\* broadcastStatus announces the status the map gives the user at that time.
THEOREM AnnouncementCorrect == Spec => []AnnouncementTrue
<1>1. Inv => AnnouncementTrue BY DEF Inv
<1> QED BY <1>1, Invariance, PTL

\* BroadcastToChat sends to and closes registered connections only.
THEOREM LoopCorrect == Spec => []VisitsRegistered
<1>1. Inv => VisitsRegistered BY DEF Inv, LoopInv
<1> QED BY <1>1, Invariance, PTL

\* A closed channel is in the map only on its connection's way out of it.
THEOREM EvictionCorrect == Spec => []ClosedIsLeaving
<1>1. Inv => ClosedIsLeaving BY DEF Inv
<1> QED BY <1>1, Invariance, PTL

\* The map holds no connection whose ReadPump has ended.
THEOREM NoGhostConnection == Spec => []NoGhost
<1>1. Inv => NoGhost BY DEF Inv
<1> QED BY <1>1, Invariance, PTL

-----------------------------------------------------------------------------
\* The hub leaves the map alone while a loop runs over it.
THEOREM MapFrozen == Spec => MapFrozenForReaders
<1> DEFINE A == clients' # clients
                  => ~up \/ \A p \in Procs : pc[p] \notin InBroadcast \ {"rlock"}
<1>1. Inv /\ [Next]_vars => [A]_vars
  <2> SUFFICES ASSUME Inv, [Next]_vars, clients' # clients
               PROVE  ~up \/ \A p \in Procs : pc[p] \notin InBroadcast \ {"rlock"}
    OBVIOUS
  <2>1. AddClient \/ RemoveClient \/ Restart
    BY HubCases DEF ReceiveEvict, ReceiveRegister, ReceiveExit, SendStatus, HubLock,
         EndStatus, 
         mapVars
  <2>2. AddClient \/ RemoveClient => rlocked = {}
    BY DEF AddClient, RemoveClient, LockGranted
  <2>3. Restart => ~up
    BY DEF Restart
  <2> QED BY <2>1, <2>2, <2>3 DEF Inv, LockInv, Reading, InBroadcast
<1> QED BY <1>1, Invariance, PTL DEF Spec, MapFrozenForReaders

\* A user that is announced offline was online until that step.
THEOREM OfflineAnnouncedOnce == Spec => OfflineOnce
<1>1. Inv /\ [Next]_vars
        => [hubPc # "announce" /\ hubPc' = "announce" /\ ~hubOnline'
              => owner[hubClient] \in onlineUsers]_vars
  <2> SUFFICES ASSUME Inv, [Next]_vars, hubPc # "announce", hubPc' = "announce", ~hubOnline'
               PROVE  owner[hubClient] \in onlineUsers
    OBVIOUS
  <2>1. RemoveClient
    BY HubCases DEF ReceiveEvict, ReceiveRegister, ReceiveExit, SendStatus, HubLock,
         EndStatus, 
         AddClient, BeginStatus, BackToSelect, Restart, hubVars
  <2>2. hubClient \in Clients /\ GoesOffline(owner[hubClient])
    BY <2>1 DEF Inv, HubInv, RemoveClient, LockGranted, BackToSelect
  <2> QED BY <2>2 DEF Inv, TypeOK, OnlineMatchesClients, GoesOffline
<1> QED BY <1>1, Invariance, PTL DEF Spec, OfflineOnce

\* The process dies only while a broadcast waits at Unregister, or when a WritePump has
\* outlived the handler of its connection.
THEOREM DeathCorrect == Spec => DeathExplained
<1>1. Inv /\ [Next]_vars
        => [up /\ ~up' =>
              \/ \E p \in Procs : pc[p] = "unregister"
              \/ \E c \in Clients : pc[c] = "gone" /\ writer[c] = "run"]_vars
  <2> SUFFICES ASSUME Inv, [Next]_vars, up, ~up'
               PROVE  \/ \E p \in Procs : pc[p] = "unregister"
                      \/ \E c \in Clients : pc[c] = "gone" /\ writer[c] = "run"
    OBVIOUS
  <2>1. HubPanics \/ \E c \in Clients : WriterPanics(c)
    BY NextCases DEF BeginIteration, Deliver, FindFull, CloseSend, Panic, EndIteration,
         ReceiveEvict, RestBroadcast, Connect, ReadFrame, PingFails, StartPumps,
         FrameBroadcast, FrameIgnored, ReadFails, CloseConn, ReturnHandler, WriteNext,
         WriteClosed, WriteElsewhere, ReceiveRegister, ReceiveExit, SendStatus, HubLock,
         AddClient, RemoveClient, EndStatus, Restart, vars
  <2>2. CASE HubPanics
    <3>1. PICK c \in hubTodo : c \in closed
      BY <2>2 DEF HubPanics
    <3>2. c \in closed \cap Registered /\ ~BeingRemoved(c)
      BY <2>2, <3>1 DEF HubPanics, Inv, HubInv, BeingRemoved
    <3> QED BY <3>2 DEF Inv, ClosedIsLeaving
  <2>3. CASE \E c \in Clients : WriterPanics(c)
    BY <2>3 DEF WriterPanics, Outlives
  <2> QED BY <2>1, <2>2, <2>3
<1> QED BY <1>1, Invariance, PTL DEF Spec, DeathExplained

-----------------------------------------------------------------------------
\* What Presence calls announcing, in terms of the hub.
Announcing ==
  IF hubPc = "announce" THEN {[user |-> owner[hubClient], online |-> hubOnline]} ELSE {}

\* The hub implements Presence: listing, unlisting and announcing, whatever the
\* broadcasts do meanwhile.
THEOREM ImplementsPresence == Spec => PresenceSpec
<1>1. Init => P!Init
  BY DEF Init, P!Init
<1>2. Inv /\ [Next]_vars => [P!Next]_(P!vars)
  <2> SUFFICES ASSUME Inv, [Next]_vars
               PROVE  P!Next \/ UNCHANGED <<clients, Announcing>>
    BY OwnerStep DEF P!vars, Announcing
  <2> USE HubAssumption DEF Announcing
  <2>0. TypeOK /\ HubInv /\ ListInv /\ owner' = owner BY OwnerStep DEF Inv
  <2>1. ASSUME NEW p \in Procs, ReceiveEvict(p)
        PROVE  UNCHANGED <<clients, Announcing>>
    BY <2>0, <2>1 DEF ReceiveEvict, mapVars
  <2>2. ASSUME NEW c \in Clients, ReceiveRegister(c) \/ ReceiveExit(c) \/ SendStatus(c)
        PROVE  UNCHANGED <<clients, Announcing>>
    BY <2>0, <2>2 DEF ReceiveRegister, ReceiveExit, SendStatus, mapVars
  <2>3. HubLock \/ UNCHANGED <<hubVars, mapVars>> => UNCHANGED <<clients, Announcing>>
    BY <2>0 DEF HubLock, hubVars, mapVars
  <2>4. CASE AddClient
    <3>1. hubClient \in Clients /\ BeingAdded(hubClient) /\ hubPc = "pending"
      BY <2>0, <2>4 DEF AddClient, LockGranted, HubInv, BeingAdded
    <3>2. hubClient \notin clients[owner[hubClient]]
      BY <2>0, <3>1 DEF ListInv, Registered, TypeOK
    <3>3. P!Join(hubClient)
      BY <2>0, <2>4, <3>1, <3>2 DEF P!Join, AddClient, BeginStatus
    <3> QED BY <2>0, <3>1, <3>3 DEF P!Next
  <2>5. CASE RemoveClient
    <3>1. hubClient \in Clients /\ hubPc = "pending"
      BY <2>0, <2>5 DEF RemoveClient, LockGranted, HubInv
    <3>2. CASE hubClient \in clients[owner[hubClient]]
      <4>1. GoesOffline(owner[hubClient]) <=> clients[owner[hubClient]] = {hubClient}
        BY <3>2 DEF GoesOffline
      <4>2. P!Leave(hubClient)
        BY <2>0, <2>5, <3>1, <3>2, <4>1 DEF P!Leave, RemoveClient, BeginStatus, BackToSelect
      <4> QED BY <2>0, <3>1, <4>2 DEF P!Next
    <3>3. CASE hubClient \notin clients[owner[hubClient]]
      <4>1. ~GoesOffline(owner[hubClient])
        BY <3>3 DEF GoesOffline
      <4>2. clients[owner[hubClient]] \ {hubClient} = clients[owner[hubClient]]
        BY <3>3
      <4>3. UNCHANGED clients
        BY <2>0, <2>5, <4>2 DEF RemoveClient, TypeOK
      <4>4. hubPc' = "select"
        BY <2>5, <4>1 DEF RemoveClient, BackToSelect
      <4> QED BY <3>1, <4>3, <4>4
    <3> QED BY <3>2, <3>3
  <2>6. CASE EndStatus
    BY <2>0, <2>6 DEF EndStatus, BackToSelect, mapVars, P!Next, P!Announced
  <2>7. CASE Restart
    BY <2>0, <2>7 DEF Restart, P!Next, P!Reset
  <2> QED BY HubCases, <2>1, <2>2, <2>3, <2>4, <2>5, <2>6, <2>7
<1> QED BY <1>1, <1>2, Invariance, PTL DEF Spec, PresenceSpec, P!Spec
=============================================================================
