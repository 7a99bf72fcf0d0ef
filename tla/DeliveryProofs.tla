--------------------------- MODULE DeliveryProofs ---------------------------
(***************************************************************************)
(* The safety properties of Delivery for any number of users, connections, *)
(* calls and message ids, and any capacity of the send buffers.            *)
(***************************************************************************)
EXTENDS Delivery, TLAPS

\* What a call carries: its request, and the connection it has to unregister.
CallOK(r) ==
  /\ pc[r] # "idle" => req[r] \in [user : Users, id : Ids]
  /\ pc[r] = "unregister" => evicting[r] \in Conns

\* A steady receipt is the only one of its user, who stays a member once that was checked.
SteadyOK(r) ==
  /\ pc[r] # "idle"
  /\ \A q \in Requests \ {r} : pc[q] # "idle" => req[q].user # req[r].user
  /\ pc[r] # "check" => req[r].user \in members

\* Its broadcast has reached the connections it has not to visit any more: the map does not
\* change under the read lock.
ReachOK(r) ==
  pc[r] \in InLoop =>
    \A c \in clients \ closed :
      owner[c] \in Recipients(r) => c \in todo[r] \/ reads[c][req[r].user] = req[r].id

CallInv == \A r \in Requests : CallOK(r)
SteadyInv == \A r \in steady : SteadyOK(r)
ReachInv == \A r \in steady : ReachOK(r)

\* What Hub.Run works on, and the status it announces.
HubInv ==
  /\ hubPc # "select" => hubOp \in {"register", "unregister"} /\ hubConn \in Conns
  /\ hubPc = "announce" =>
       /\ hubTodo \subseteq clients
       /\ hubOp = "register" => owner[hubConn] \in Online(clients)
       /\ hubOp = "unregister" => owner[hubConn] \notin Online(clients)

\* The user whose status is on its way to connection c.
Pending(c) == IF hubPc = "announce" /\ c \in hubTodo THEN {owner[hubConn]} ELSE {}

\* Every client that asked shows who is online, but for statuses it missed or that are on
\* their way.
ShownInv ==
  \A c \in known : \A u \in Users \ (missed[c] \cup Pending(c)) :
    u \in shows[c] <=> u \in Online(clients)

\* An answer on its way names who is online, but for the users who came or went since.
AnswerInv ==
  \A c \in asking : \A u \in Users \ since[c] : u \in snapshot[c] <=> u \in Online(clients)

Inv ==
  /\ TypeOK
  /\ CallInv
  /\ SteadyInv
  /\ ReceiptIsStored
  /\ ReachInv
  /\ HubInv
  /\ ShownInv
  /\ AnswerInv
-----------------------------------------------------------------------------
\* Init establishes the invariant.
LEMMA InitInv == Init => Inv
BY DeliveryAssumption
   DEF Init, Inv, TypeOK, CallInv, CallOK, SteadyInv, ReceiptIsStored, ReachInv, HubInv, ShownInv,
       AnswerInv, Ids

\* Every step keeps the types.
LEMMA TypeStep ==
  ASSUME Inv, [Next]_vars
  PROVE  TypeOK'
<1>0. TypeOK /\ CallInv /\ HubInv
  BY DEF Inv
<1>1. ASSUME NEW r \in Requests, NEW u \in Readers, NEW id \in Ids, MarkAsRead(r, u, id)
      PROVE  TypeOK'
  BY <1>0, <1>1, DeliveryAssumption DEF TypeOK, MarkAsRead, Goto, db, connVars, hubVars,
                                        chanVars, screens, answers, InLoop
<1>2. ASSUME NEW r \in Requests, CheckMember(r)
      PROVE  TypeOK'
  BY <1>0, <1>2 DEF TypeOK, CheckMember, Return, Goto, db, connVars, hubVars, chanVars,
                    screens, answers
<1>3. ASSUME NEW r \in Requests, UpdateLastRead(r)
      PROVE  TypeOK'
  <2>1. req[r] \in [user : Users, id : Ids]
    BY <1>0, <1>3 DEF CallInv, CallOK, UpdateLastRead
  <2>2. lastRead' \in [Users -> Ids]
    BY <1>0, <1>3, <2>1 DEF TypeOK, UpdateLastRead, Return, Goto, Mark
  <2>3. pc' \in [Requests -> {"idle", "check", "update", "recheck", "members", "rlock"} \cup InLoop]
    BY <1>0, <1>3 DEF TypeOK, UpdateLastRead, Return, Goto
  <2>4. req' \in [Requests -> [user : Users, id : Ids] \cup {None}]
    BY <1>0, <1>3 DEF TypeOK, UpdateLastRead, Return, Goto
  <2>5. to' \in [Requests -> SUBSET Users]
    BY <1>0, <1>3 DEF TypeOK, UpdateLastRead, Return, Goto
  <2>6. todo' \in [Requests -> SUBSET Conns]
    BY <1>0, <1>3 DEF TypeOK, UpdateLastRead, Return, Goto
  <2>7. evicting' \in [Requests -> Conns \cup {None}]
    BY <1>0, <1>3 DEF TypeOK, UpdateLastRead, Return, Goto
  <2>8. steady' \in SUBSET Requests
    BY <1>0, <1>3 DEF TypeOK, UpdateLastRead, Return, Goto
  <2>9. UNCHANGED <<members, owner, conn, clients, hubPc, hubOp, hubConn, hubTodo, queued,
                    closed, reads, shows, asking, snapshot, known, recycled, since, missed,
                    moves>>
    BY <1>3 DEF UpdateLastRead, Return, Goto, connVars, hubVars, chanVars, screens, answers
  <2> QED BY <1>0, <2>1, <2>2, <2>3, <2>4, <2>5, <2>6, <2>7, <2>8, <2>9 DEF TypeOK
<1>4. ASSUME NEW r \in Requests, Recheck(r)
      PROVE  TypeOK'
  BY <1>0, <1>4 DEF TypeOK, Recheck, Return, Goto, db, connVars, hubVars, chanVars, screens,
                    answers
<1>5. ASSUME NEW r \in Requests, ReadMembers(r)
      PROVE  TypeOK'
  BY <1>0, <1>5 DEF TypeOK, ReadMembers, Goto, db, connVars, hubVars, chanVars, screens,
                    answers
<1>6. ASSUME NEW r \in Requests, StatementFails(r)
      PROVE  TypeOK'
  BY <1>0, <1>6 DEF TypeOK, StatementFails, Return, Goto, db, connVars, hubVars, chanVars,
                    screens, answers
<1>7. ASSUME NEW r \in Requests, BeginIteration(r)
      PROVE  TypeOK'
  <2>1. pc' \in [Requests -> {"idle", "check", "update", "recheck", "members", "rlock"} \cup InLoop]
    BY <1>0, <1>7 DEF TypeOK, BeginIteration, Goto, InLoop
  <2>2. todo' \in [Requests -> SUBSET Conns]
    BY <1>0, <1>7 DEF TypeOK, BeginIteration, Goto
  <2>3. UNCHANGED <<members, lastRead, req, to, evicting, owner, conn, clients, hubPc,
                    hubOp, hubConn, hubTodo, queued, closed, reads, shows, asking,
                    snapshot, known, recycled, since, missed, steady, moves>>
    BY <1>7 DEF BeginIteration, Goto, db, connVars, hubVars, chanVars, screens, answers
  <2> QED BY <1>0, <2>1, <2>2, <2>3 DEF TypeOK
<1>8. ASSUME NEW r \in Requests, Panic(r)
      PROVE  TypeOK'
  BY <1>0, <1>8 DEF TypeOK, Panic, Return, Goto, db, connVars, hubVars, chanVars, screens,
                    answers
<1>9. ASSUME NEW r \in Requests, EndIteration(r)
      PROVE  TypeOK'
  BY <1>0, <1>9 DEF TypeOK, EndIteration, Return, Goto, db, connVars, hubVars, chanVars,
                    screens, answers
<1>10. ASSUME NEW r \in Requests, ReceiveEvict(r)
       PROVE  TypeOK'
  <2>1. pc' \in [Requests -> {"idle", "check", "update", "recheck", "members", "rlock"} \cup InLoop]
    BY <1>0, <1>10 DEF TypeOK, ReceiveEvict, Goto, Receive, InLoop
  <2>2. evicting' \in [Requests -> Conns \cup {None}]
    BY <1>0, <1>10 DEF TypeOK, ReceiveEvict, Goto, Receive
  <2>3. hubPc' \in {"select", "lock", "announce"}
    BY <1>0, <1>10 DEF TypeOK, ReceiveEvict, Goto, Receive
  <2>4. hubOp' \in {"none", "register", "unregister"}
    BY <1>0, <1>10 DEF TypeOK, ReceiveEvict, Goto, Receive
  <2>5. hubConn' \in Conns \cup {None}
    BY <1>0, <1>10 DEF TypeOK, ReceiveEvict, Goto, Receive, CallInv, CallOK
  <2>6. UNCHANGED <<members, lastRead, req, to, todo, owner, conn, clients, hubTodo,
                    queued, closed, reads, shows, asking, snapshot, known, recycled, since,
                    missed, steady, moves>>
    BY <1>10 DEF ReceiveEvict, Goto, Receive, db, connVars, chanVars, screens, answers
  <2> QED BY <1>0, <2>1, <2>2, <2>3, <2>4, <2>5, <2>6 DEF TypeOK
<1>11. ASSUME NEW r \in Requests, NEW c \in Conns, Deliver(r, c)
       PROVE  TypeOK'
  <2>1. req[r] \in [user : Users, id : Ids]
    BY <1>0, <1>11 DEF CallInv, CallOK, Deliver
  <2>2. queued' \in [Conns -> 0..SendCap]
    BY <1>0, <1>11, DeliveryAssumption DEF TypeOK, Deliver, Room
  <2>3. reads' \in [Conns -> [Users -> Ids]]
    BY <1>0, <1>11, <2>1 DEF TypeOK, Deliver, Shown
  <2>4. todo' \in [Requests -> SUBSET Conns]
    BY <1>0, <1>11 DEF TypeOK, Deliver
  <2>5. UNCHANGED <<members, lastRead, pc, req, to, evicting, owner, conn, clients, hubPc,
                    hubOp, hubConn, hubTodo, closed, shows, asking, snapshot, known,
                    recycled, since, missed, steady, moves>>
    BY <1>11 DEF Deliver, db, connVars, hubVars, answers
  <2> QED BY <1>0, <2>1, <2>2, <2>3, <2>4, <2>5 DEF TypeOK
<1>12. ASSUME NEW r \in Requests, NEW c \in Conns, Evict(r, c)
       PROVE  TypeOK'
  <2>1. pc' \in [Requests -> {"idle", "check", "update", "recheck", "members", "rlock"} \cup InLoop]
    BY <1>0, <1>12 DEF TypeOK, Evict, Goto, InLoop
  <2>2. todo' \in [Requests -> SUBSET Conns]
    BY <1>0, <1>12 DEF TypeOK, Evict, Goto, Remaining
  <2>3. evicting' \in [Requests -> Conns \cup {None}]
    BY <1>0, <1>12 DEF TypeOK, Evict, Goto
  <2>4. closed' \in SUBSET Conns
    BY <1>0, <1>12 DEF TypeOK, Evict, Goto
  <2>5. UNCHANGED <<members, lastRead, req, to, owner, conn, clients, hubPc, hubOp,
                    hubConn, hubTodo, queued, reads, shows, asking, snapshot, known,
                    recycled, since, missed, steady, moves>>
    BY <1>12 DEF Evict, Goto, db, connVars, hubVars, screens, answers
  <2> QED BY <1>0, <2>1, <2>2, <2>3, <2>4, <2>5 DEF TypeOK
<1>13. ASSUME NEW c \in Conns, WriteNext(c)
       PROVE  TypeOK'
  <2>1. queued' \in [Conns -> 0..SendCap]
    BY <1>0, <1>13, DeliveryAssumption DEF TypeOK, WriteNext
  <2>2. UNCHANGED <<members, lastRead, pc, req, to, todo, evicting, owner, conn, clients,
                    hubPc, hubOp, hubConn, hubTodo, closed, reads, shows, asking, snapshot,
                    known, recycled, since, missed, steady, moves>>
    BY <1>13 DEF WriteNext, db, callVars, connVars, hubVars, screens, answers
  <2> QED BY <1>0, <2>1, <2>2 DEF TypeOK
<1>14. ASSUME NEW c \in Conns, ReceiveRegister(c)
       PROVE  TypeOK'
  BY <1>0, <1>14 DEF TypeOK, ReceiveRegister, Receive, db, callVars, chanVars, screens,
                     answers
<1>15. ASSUME NEW c \in Conns, ReceiveExit(c)
       PROVE  TypeOK'
  BY <1>0, <1>15 DEF TypeOK, ReceiveExit, Receive, db, callVars, chanVars, screens, answers
<1>16. ASSUME NEW c \in Conns, Announce(c)
       PROVE  TypeOK'
  <2>1. owner[hubConn] \in Users
    BY <1>0, <1>16 DEF TypeOK, HubInv, Announce
  <2>2. /\ queued \in [Conns -> 0..SendCap]
        /\ shows \in [Conns -> SUBSET Users] /\ missed \in [Conns -> SUBSET Users]
    BY <1>0 DEF TypeOK
  <2>3. hubTodo' \in SUBSET Conns
    BY <1>0, <1>16 DEF TypeOK, Announce
  <2>4. queued' \in [Conns -> 0..SendCap]
    BY <2>2, <1>16, DeliveryAssumption DEF Announce, Room
  <2>5. shows' \in [Conns -> SUBSET Users]
    BY <2>1, <2>2, <1>16 DEF Announce
  <2>6. missed' \in [Conns -> SUBSET Users]
    BY <2>1, <2>2, <1>16 DEF Announce
  <2>7. UNCHANGED <<members, lastRead, pc, req, to, todo, evicting, owner, conn, clients,
                    hubPc, hubOp, hubConn, closed, reads, asking, snapshot, known,
                    recycled, since, steady, moves>>
    BY <1>16 DEF Announce, db, callVars, connVars, answers
  <2> QED BY <1>0, <2>3, <2>4, <2>5, <2>6, <2>7 DEF TypeOK
<1>17. ASSUME NEW c \in Conns, FetchOnline(c)
       PROVE  TypeOK'
  <2>1. asking' \in SUBSET Conns
    BY <1>0, <1>17 DEF TypeOK, FetchOnline
  <2>2. snapshot' \in [Conns -> SUBSET Users]
    BY <1>0, <1>17 DEF TypeOK, FetchOnline, Online
  <2>3. UNCHANGED <<members, lastRead, pc, req, to, todo, evicting, owner, conn, clients,
                    hubPc, hubOp, hubConn, hubTodo, queued, closed, reads, shows, known,
                    recycled, since, missed, steady, moves>>
    BY <1>17 DEF FetchOnline, db, callVars, connVars, hubVars, chanVars
  <2> QED BY <1>0, <2>1, <2>2, <2>3 DEF TypeOK
<1>18. ASSUME NEW c \in Conns, ShowOnline(c)
       PROVE  TypeOK'
  <2>1. asking' \in SUBSET Conns
    BY <1>0, <1>18 DEF TypeOK, ShowOnline
  <2>2. known' \in SUBSET Conns
    BY <1>0, <1>18 DEF TypeOK, ShowOnline
  <2>3. shows' \in [Conns -> SUBSET Users]
    BY <1>0, <1>18 DEF TypeOK, ShowOnline
  <2>4. missed' \in [Conns -> SUBSET Users]
    BY <1>0, <1>18 DEF TypeOK, ShowOnline
  <2>5. snapshot' \in [Conns -> SUBSET Users]
    BY <1>0, <1>18 DEF TypeOK, ShowOnline
  <2>6. since' \in [Conns -> SUBSET Users]
    BY <1>0, <1>18 DEF TypeOK, ShowOnline
  <2>7. UNCHANGED <<members, lastRead, pc, req, to, todo, evicting, owner, conn, clients,
                    hubPc, hubOp, hubConn, hubTodo, queued, closed, reads, recycled,
                    steady, moves>>
    BY <1>18 DEF ShowOnline, db, callVars, connVars, hubVars, chanVars
  <2> QED BY <1>0, <2>1, <2>2, <2>3, <2>4, <2>5, <2>6, <2>7 DEF TypeOK
<1>19. CASE HubRegister
  <2>1. hubConn \in Conns
    BY <1>0, <1>19 DEF HubInv, HubRegister, Granted
  <2>2. clients' \in SUBSET Conns
    BY <1>0, <1>19, <2>1 DEF TypeOK, HubRegister, Granted, StatusChanges
  <2>3. hubTodo' \in SUBSET Conns
    BY <1>0, <1>19, <2>2 DEF TypeOK, HubRegister, Granted, StatusChanges
  <2>4. hubPc' \in {"select", "lock", "announce"}
    BY <1>0, <1>19 DEF TypeOK, HubRegister, Granted, StatusChanges
  <2>5. since' \in [Conns -> SUBSET Users]
    BY <1>0, <1>19, <2>2 DEF TypeOK, HubRegister, Granted, StatusChanges, Online
  <2>6. missed' \in [Conns -> SUBSET Users]
    BY <1>0, <1>19, <2>2 DEF TypeOK, HubRegister, Granted, StatusChanges, Online
  <2>7. UNCHANGED <<members, lastRead, pc, req, to, todo, evicting, owner, conn, hubOp,
                    hubConn, queued, closed, reads, shows, asking, snapshot, known,
                    recycled, steady, moves>>
    BY <1>19 DEF HubRegister, Granted, StatusChanges, db, callVars, connVars, chanVars
  <2> QED BY <1>0, <2>1, <2>2, <2>3, <2>4, <2>5, <2>6, <2>7 DEF TypeOK
<1>20. CASE HubUnregister
  <2>1. clients' \in SUBSET Conns
    BY <1>0, <1>20 DEF TypeOK, HubUnregister, Granted, BackToSelect, Blank, StatusChanges
  <2>2. hubTodo' \in SUBSET Conns
    BY <1>0, <1>20 DEF TypeOK, HubUnregister, Granted, BackToSelect, Blank, StatusChanges
  <2>3. hubPc' \in {"select", "lock", "announce"}
    BY <1>0, <1>20 DEF TypeOK, HubUnregister, Granted, BackToSelect, Blank, StatusChanges
  <2>4. hubOp' \in {"none", "register", "unregister"}
    BY <1>0, <1>20 DEF TypeOK, HubUnregister, Granted, BackToSelect, Blank, StatusChanges
  <2>5. hubConn' \in Conns \cup {None}
    BY <1>0, <1>20 DEF TypeOK, HubUnregister, Granted, BackToSelect, Blank, StatusChanges
  <2>6. queued' \in [Conns -> 0..SendCap]
    BY <1>0, <1>20, DeliveryAssumption DEF TypeOK, HubUnregister, Granted, BackToSelect, Blank,
                                        StatusChanges
  <2>7. closed' \in SUBSET Conns
    BY <1>0, <1>20 DEF TypeOK, HubUnregister, Granted, BackToSelect, Blank, StatusChanges
  <2>8. reads' \in [Conns -> [Users -> Ids]]
    BY <1>0, <1>20, DeliveryAssumption DEF TypeOK, HubUnregister, Granted, BackToSelect, Blank,
                                        StatusChanges, Ids
  <2>9. shows' \in [Conns -> SUBSET Users]
    BY <1>0, <1>20 DEF TypeOK, HubUnregister, Granted, BackToSelect, Blank, StatusChanges
  <2>10. asking' \in SUBSET Conns
    BY <1>0, <1>20 DEF TypeOK, HubUnregister, Granted, BackToSelect, Blank, StatusChanges
  <2>11. snapshot' \in [Conns -> SUBSET Users]
    BY <1>0, <1>20 DEF TypeOK, HubUnregister, Granted, BackToSelect, Blank, StatusChanges
  <2>12. known' \in SUBSET Conns
    BY <1>0, <1>20 DEF TypeOK, HubUnregister, Granted, BackToSelect, Blank, StatusChanges
  <2>13. recycled' \in SUBSET Conns
    BY <1>0, <1>20 DEF TypeOK, HubUnregister, Granted, BackToSelect, Blank, StatusChanges
  <2>14. since' \in [Conns -> SUBSET Users]
    BY <1>0, <1>20 DEF TypeOK, HubUnregister, Granted, BackToSelect, Blank, StatusChanges,
                    Online
  <2>15. missed' \in [Conns -> SUBSET Users]
    BY <1>0, <1>20 DEF TypeOK, HubUnregister, Granted, BackToSelect, Blank, StatusChanges,
                    Online
  <2>16. UNCHANGED <<members, lastRead, pc, req, to, todo, evicting, owner, conn, steady,
                     moves>>
    BY <1>20 DEF HubUnregister, Granted, BackToSelect, Blank, StatusChanges, db, callVars
  <2> QED BY <1>0, <2>1, <2>2, <2>3, <2>4, <2>5, <2>6, <2>7, <2>8, <2>9, <2>10, <2>11, <2>12,
             <2>13, <2>14, <2>15, <2>16 DEF TypeOK
<1>21. CASE EndAnnounce
  BY <1>0, <1>21 DEF TypeOK, EndAnnounce, BackToSelect, db, callVars, connVars, chanVars,
                     screens, answers
<1>22. CASE Die
  <2>1. clients' \in SUBSET Conns
    BY <1>0, <1>22 DEF TypeOK, Die, BackToSelect, Blank, StatusChanges
  <2>2. hubTodo' \in SUBSET Conns
    BY <1>0, <1>22 DEF TypeOK, Die, BackToSelect, Blank, StatusChanges
  <2>3. hubPc' \in {"select", "lock", "announce"}
    BY <1>0, <1>22 DEF TypeOK, Die, BackToSelect, Blank, StatusChanges
  <2>4. hubOp' \in {"none", "register", "unregister"}
    BY <1>0, <1>22 DEF TypeOK, Die, BackToSelect, Blank, StatusChanges
  <2>5. hubConn' \in Conns \cup {None}
    BY <1>0, <1>22 DEF TypeOK, Die, BackToSelect, Blank, StatusChanges
  <2>6. pc' \in [Requests -> {"idle", "check", "update", "recheck", "members", "rlock"} \cup InLoop]
    BY <1>0, <1>22 DEF TypeOK, Die, BackToSelect, Blank, StatusChanges
  <2>7. req' \in [Requests -> [user : Users, id : Ids] \cup {None}]
    BY <1>0, <1>22 DEF TypeOK, Die, BackToSelect, Blank, StatusChanges
  <2>8. to' \in [Requests -> SUBSET Users]
    BY <1>0, <1>22 DEF TypeOK, Die, BackToSelect, Blank, StatusChanges
  <2>9. todo' \in [Requests -> SUBSET Conns]
    BY <1>0, <1>22 DEF TypeOK, Die, BackToSelect, Blank, StatusChanges
  <2>10. evicting' \in [Requests -> Conns \cup {None}]
    BY <1>0, <1>22 DEF TypeOK, Die, BackToSelect, Blank, StatusChanges
  <2>11. steady' \in SUBSET Requests
    BY <1>0, <1>22 DEF TypeOK, Die, BackToSelect, Blank, StatusChanges
  <2>12. conn' \in [Conns -> {"new", "open", "gone", "dead"}]
    BY <1>0, <1>22 DEF TypeOK, Die, BackToSelect, Blank, StatusChanges
  <2>13. queued' \in [Conns -> 0..SendCap]
    BY <1>0, <1>22, DeliveryAssumption DEF TypeOK, Die, BackToSelect, Blank, StatusChanges
  <2>14. closed' \in SUBSET Conns
    BY <1>0, <1>22 DEF TypeOK, Die, BackToSelect, Blank, StatusChanges
  <2>15. reads' \in [Conns -> [Users -> Ids]]
    BY <1>0, <1>22, DeliveryAssumption DEF TypeOK, Die, BackToSelect, Blank, StatusChanges, Ids
  <2>16. shows' \in [Conns -> SUBSET Users]
    BY <1>0, <1>22 DEF TypeOK, Die, BackToSelect, Blank, StatusChanges
  <2>17. asking' \in SUBSET Conns
    BY <1>0, <1>22 DEF TypeOK, Die, BackToSelect, Blank, StatusChanges
  <2>18. snapshot' \in [Conns -> SUBSET Users]
    BY <1>0, <1>22 DEF TypeOK, Die, BackToSelect, Blank, StatusChanges
  <2>19. known' \in SUBSET Conns
    BY <1>0, <1>22 DEF TypeOK, Die, BackToSelect, Blank, StatusChanges
  <2>20. recycled' \in SUBSET Conns
    BY <1>0, <1>22 DEF TypeOK, Die, BackToSelect, Blank, StatusChanges
  <2>21. since' \in [Conns -> SUBSET Users]
    BY <1>0, <1>22 DEF TypeOK, Die, BackToSelect, Blank, StatusChanges, Online
  <2>22. missed' \in [Conns -> SUBSET Users]
    BY <1>0, <1>22 DEF TypeOK, Die, BackToSelect, Blank, StatusChanges, Online
  <2>23. UNCHANGED <<members, lastRead, owner, moves>>
    BY <1>22 DEF Die, BackToSelect, Blank, StatusChanges, db
  <2> QED BY <1>0, <2>1, <2>2, <2>3, <2>4, <2>5, <2>6, <2>7, <2>8, <2>9, <2>10, <2>11, <2>12,
             <2>13, <2>14, <2>15, <2>16, <2>17, <2>18, <2>19, <2>20, <2>21, <2>22, <2>23
             DEF TypeOK
<1>23. ASSUME NEW u \in Users, Join(u)
       PROVE  TypeOK'
  <2>1. members' \in SUBSET Users
    BY <1>0, <1>23 DEF TypeOK, Join
  <2>2. moves' \in 0..MaxMoves
    BY <1>0, <1>23, DeliveryAssumption DEF TypeOK, Join
  <2>3. UNCHANGED <<lastRead, pc, req, to, todo, evicting, owner, conn, clients, hubPc,
                    hubOp, hubConn, hubTodo, queued, closed, reads, shows, asking,
                    snapshot, known, recycled, since, missed, steady>>
    BY <1>23 DEF Join, callVars, connVars, hubVars, chanVars, screens, answers
  <2> QED BY <1>0, <2>1, <2>2, <2>3 DEF TypeOK
<1>24. ASSUME NEW u \in Users, Leave(u)
       PROVE  TypeOK'
  <2>1. members' \in SUBSET Users
    BY <1>0, <1>24 DEF TypeOK, Leave
  <2>2. lastRead' \in [Users -> Ids]
    BY <1>0, <1>24, DeliveryAssumption DEF TypeOK, Leave, Ids
  <2>3. steady' \in SUBSET Requests
    BY <1>0, <1>24 DEF TypeOK, Leave
  <2>4. moves' \in 0..MaxMoves
    BY <1>0, <1>24, DeliveryAssumption DEF TypeOK, Leave
  <2>5. UNCHANGED <<pc, req, to, todo, evicting, owner, conn, clients, hubPc, hubOp,
                    hubConn, hubTodo, queued, closed, reads, shows, asking, snapshot,
                    known, recycled, since, missed>>
    BY <1>24 DEF Leave, callVars, connVars, hubVars, chanVars, screens, answers
  <2> QED BY <1>0, <2>1, <2>2, <2>3, <2>4, <2>5 DEF TypeOK
<1>25. CASE UNCHANGED vars
  BY <1>0, <1>25 DEF TypeOK, vars, db, callVars, connVars, hubVars, chanVars, screens,
                     answers
<1> QED BY <1>1, <1>2, <1>3, <1>4, <1>5, <1>6, <1>7, <1>8, <1>9, <1>10, <1>11, <1>12, <1>13,
           <1>14, <1>15, <1>16, <1>17, <1>18, <1>19, <1>20, <1>21, <1>22, <1>23, <1>24,
           <1>25 DEF Next, Call, Request, Connection

\* A call keeps its request, and has a connection to unregister when it is to.
LEMMA CallStep ==
  ASSUME Inv, [Next]_vars
  PROVE  CallInv'
<1>0. TypeOK /\ CallInv
  BY DEF Inv
<1>1. ASSUME NEW r \in Requests, NEW u \in Readers, NEW id \in Ids, MarkAsRead(r, u, id)
      PROVE  CallInv'
  BY <1>0, <1>1, DeliveryAssumption DEF CallInv, CallOK, TypeOK, MarkAsRead, Goto, db,
                                        connVars, hubVars, chanVars, screens, answers
<1>2. ASSUME NEW r \in Requests, CheckMember(r)
      PROVE  CallInv'
  BY <1>0, <1>2 DEF CallInv, CallOK, TypeOK, CheckMember, Return, Goto, db, connVars,
                    hubVars, chanVars, screens, answers
<1>3. ASSUME NEW r \in Requests, UpdateLastRead(r)
      PROVE  CallInv'
  BY <1>0, <1>3 DEF CallInv, CallOK, TypeOK, UpdateLastRead, Return, Goto, connVars, hubVars,
                    chanVars, screens, answers
<1>4. ASSUME NEW r \in Requests, Recheck(r)
      PROVE  CallInv'
  BY <1>0, <1>4 DEF CallInv, CallOK, TypeOK, Recheck, Return, Goto, db, connVars, hubVars,
                    chanVars, screens, answers
<1>5. ASSUME NEW r \in Requests, ReadMembers(r)
      PROVE  CallInv'
  BY <1>0, <1>5 DEF CallInv, CallOK, TypeOK, ReadMembers, Goto, db, connVars, hubVars,
                    chanVars, screens, answers
<1>6. ASSUME NEW r \in Requests, StatementFails(r)
      PROVE  CallInv'
  BY <1>0, <1>6 DEF CallInv, CallOK, TypeOK, StatementFails, Return, Goto, db, connVars,
                    hubVars, chanVars, screens, answers
<1>7. ASSUME NEW r \in Requests, BeginIteration(r)
      PROVE  CallInv'
  BY <1>0, <1>7 DEF CallInv, CallOK, TypeOK, BeginIteration, Goto, db, connVars, hubVars,
                    chanVars, screens, answers
<1>8. ASSUME NEW r \in Requests, Panic(r)
      PROVE  CallInv'
  BY <1>0, <1>8 DEF CallInv, CallOK, TypeOK, Panic, Return, Goto, db, connVars, hubVars,
                    chanVars, screens, answers
<1>9. ASSUME NEW r \in Requests, EndIteration(r)
      PROVE  CallInv'
  BY <1>0, <1>9 DEF CallInv, CallOK, TypeOK, EndIteration, Return, Goto, db, connVars,
                    hubVars, chanVars, screens, answers
<1>10. ASSUME NEW r \in Requests, ReceiveEvict(r)
       PROVE  CallInv'
  BY <1>0, <1>10 DEF CallInv, CallOK, TypeOK, ReceiveEvict, Goto, Receive, db, connVars,
                     chanVars, screens, answers
<1>11. ASSUME NEW r \in Requests, NEW c \in Conns, Deliver(r, c)
       PROVE  CallInv'
  BY <1>0, <1>11 DEF CallInv, CallOK, TypeOK, Deliver, db, connVars, hubVars, answers
<1>12. ASSUME NEW r \in Requests, NEW c \in Conns, Evict(r, c)
       PROVE  CallInv'
  BY <1>0, <1>12 DEF CallInv, CallOK, TypeOK, Evict, Goto, db, connVars, hubVars, screens,
                     answers
<1>13. ASSUME NEW c \in Conns, WriteNext(c)
       PROVE  CallInv'
  BY <1>0, <1>13 DEF CallInv, CallOK, TypeOK, WriteNext, db, callVars, connVars, hubVars,
                     screens, answers
<1>14. ASSUME NEW c \in Conns, ReceiveRegister(c)
       PROVE  CallInv'
  BY <1>0, <1>14 DEF CallInv, CallOK, TypeOK, ReceiveRegister, Receive, db, callVars,
                     chanVars, screens, answers
<1>15. ASSUME NEW c \in Conns, ReceiveExit(c)
       PROVE  CallInv'
  BY <1>0, <1>15 DEF CallInv, CallOK, TypeOK, ReceiveExit, Receive, db, callVars, chanVars,
                     screens, answers
<1>16. ASSUME NEW c \in Conns, Announce(c)
       PROVE  CallInv'
  BY <1>0, <1>16 DEF CallInv, CallOK, TypeOK, Announce, db, callVars, connVars, answers
<1>17. ASSUME NEW c \in Conns, FetchOnline(c)
       PROVE  CallInv'
  BY <1>0, <1>17 DEF CallInv, CallOK, TypeOK, FetchOnline, db, callVars, connVars, hubVars,
                     chanVars
<1>18. ASSUME NEW c \in Conns, ShowOnline(c)
       PROVE  CallInv'
  BY <1>0, <1>18 DEF CallInv, CallOK, TypeOK, ShowOnline, db, callVars, connVars, hubVars,
                     chanVars
<1>19. CASE HubRegister
  BY <1>0, <1>19 DEF CallInv, CallOK, TypeOK, HubRegister, Granted, StatusChanges, db,
                     callVars, connVars, chanVars
<1>20. CASE HubUnregister
  BY <1>0, <1>20 DEF CallInv, CallOK, TypeOK, HubUnregister, Granted, BackToSelect, Blank,
                     StatusChanges, db, callVars
<1>21. CASE EndAnnounce
  BY <1>0, <1>21 DEF CallInv, CallOK, TypeOK, EndAnnounce, BackToSelect, db, callVars,
                     connVars, chanVars, screens, answers
<1>22. CASE Die
  BY <1>0, <1>22 DEF CallInv, CallOK, TypeOK, Die, BackToSelect, Blank, StatusChanges, db
<1>23. ASSUME NEW u \in Users, Join(u)
       PROVE  CallInv'
  BY <1>0, <1>23 DEF CallInv, CallOK, TypeOK, Join, callVars, connVars, hubVars, chanVars,
                     screens, answers
<1>24. ASSUME NEW u \in Users, Leave(u)
       PROVE  CallInv'
  BY <1>0, <1>24 DEF CallInv, CallOK, TypeOK, Leave, callVars, connVars, hubVars, chanVars,
                     screens, answers
<1>25. CASE UNCHANGED vars
  BY <1>0, <1>25 DEF CallInv, CallOK, TypeOK, vars, db, callVars, connVars, hubVars,
                     chanVars, screens, answers
<1> QED BY <1>1, <1>2, <1>3, <1>4, <1>5, <1>6, <1>7, <1>8, <1>9, <1>10, <1>11, <1>12, <1>13,
           <1>14, <1>15, <1>16, <1>17, <1>18, <1>19, <1>20, <1>21, <1>22, <1>23, <1>24,
           <1>25 DEF Next, Call, Request, Connection

\* What Hub.Run announces stays true while it does.
LEMMA HubStep ==
  ASSUME Inv, [Next]_vars
  PROVE  HubInv'
<1>0. TypeOK /\ CallInv /\ HubInv
  BY DEF Inv
<1>1. ASSUME NEW r \in Requests, NEW u \in Readers, NEW id \in Ids, MarkAsRead(r, u, id)
      PROVE  HubInv'
  BY <1>0, <1>1 DEF HubInv, Online, TypeOK, MarkAsRead, Goto, db, connVars, hubVars,
                    chanVars, screens, answers
<1>2. ASSUME NEW r \in Requests, CheckMember(r)
      PROVE  HubInv'
  BY <1>0, <1>2 DEF HubInv, Online, TypeOK, CheckMember, Return, Goto, db, connVars, hubVars,
                    chanVars, screens, answers
<1>3. ASSUME NEW r \in Requests, UpdateLastRead(r)
      PROVE  HubInv'
  BY <1>0, <1>3 DEF HubInv, Online, TypeOK, UpdateLastRead, Return, Goto, connVars, hubVars,
                    chanVars, screens, answers
<1>4. ASSUME NEW r \in Requests, Recheck(r)
      PROVE  HubInv'
  BY <1>0, <1>4 DEF HubInv, Online, TypeOK, Recheck, Return, Goto, db, connVars, hubVars,
                    chanVars, screens, answers
<1>5. ASSUME NEW r \in Requests, ReadMembers(r)
      PROVE  HubInv'
  BY <1>0, <1>5 DEF HubInv, Online, TypeOK, ReadMembers, Goto, db, connVars, hubVars,
                    chanVars, screens, answers
<1>6. ASSUME NEW r \in Requests, StatementFails(r)
      PROVE  HubInv'
  BY <1>0, <1>6 DEF HubInv, Online, TypeOK, StatementFails, Return, Goto, db, connVars,
                    hubVars, chanVars, screens, answers
<1>7. ASSUME NEW r \in Requests, BeginIteration(r)
      PROVE  HubInv'
  BY <1>0, <1>7 DEF HubInv, Online, TypeOK, BeginIteration, Goto, db, connVars, hubVars,
                    chanVars, screens, answers
<1>8. ASSUME NEW r \in Requests, Panic(r)
      PROVE  HubInv'
  BY <1>0, <1>8 DEF HubInv, Online, TypeOK, Panic, Return, Goto, db, connVars, hubVars,
                    chanVars, screens, answers
<1>9. ASSUME NEW r \in Requests, EndIteration(r)
      PROVE  HubInv'
  BY <1>0, <1>9 DEF HubInv, Online, TypeOK, EndIteration, Return, Goto, db, connVars,
                    hubVars, chanVars, screens, answers
<1>10. ASSUME NEW r \in Requests, ReceiveEvict(r)
       PROVE  HubInv'
  BY <1>0, <1>10 DEF HubInv, Online, TypeOK, ReceiveEvict, Goto, Receive, db, connVars,
                     chanVars, screens, answers, CallInv, CallOK
<1>11. ASSUME NEW r \in Requests, NEW c \in Conns, Deliver(r, c)
       PROVE  HubInv'
  BY <1>0, <1>11 DEF HubInv, Online, TypeOK, Deliver, db, connVars, hubVars, answers
<1>12. ASSUME NEW r \in Requests, NEW c \in Conns, Evict(r, c)
       PROVE  HubInv'
  BY <1>0, <1>12 DEF HubInv, Online, TypeOK, Evict, Goto, db, connVars, hubVars, screens,
                     answers
<1>13. ASSUME NEW c \in Conns, WriteNext(c)
       PROVE  HubInv'
  BY <1>0, <1>13 DEF HubInv, Online, TypeOK, WriteNext, db, callVars, connVars, hubVars,
                     screens, answers
<1>14. ASSUME NEW c \in Conns, ReceiveRegister(c)
       PROVE  HubInv'
  BY <1>0, <1>14 DEF HubInv, Online, TypeOK, ReceiveRegister, Receive, db, callVars,
                     chanVars, screens, answers
<1>15. ASSUME NEW c \in Conns, ReceiveExit(c)
       PROVE  HubInv'
  BY <1>0, <1>15 DEF HubInv, Online, TypeOK, ReceiveExit, Receive, db, callVars, chanVars,
                     screens, answers
<1>16. ASSUME NEW c \in Conns, Announce(c)
       PROVE  HubInv'
  BY <1>0, <1>16 DEF HubInv, Online, TypeOK, Announce, db, callVars, connVars, answers
<1>17. ASSUME NEW c \in Conns, FetchOnline(c)
       PROVE  HubInv'
  BY <1>0, <1>17 DEF HubInv, Online, TypeOK, FetchOnline, db, callVars, connVars, hubVars,
                     chanVars
<1>18. ASSUME NEW c \in Conns, ShowOnline(c)
       PROVE  HubInv'
  BY <1>0, <1>18 DEF HubInv, Online, TypeOK, ShowOnline, db, callVars, connVars, hubVars,
                     chanVars
<1>19. CASE HubRegister
  BY <1>0, <1>19 DEF HubInv, Online, TypeOK, HubRegister, Granted, StatusChanges, db,
                     callVars, connVars, chanVars
<1>20. CASE HubUnregister
  BY <1>0, <1>20 DEF HubInv, Online, TypeOK, HubUnregister, Granted, BackToSelect, Blank,
                     StatusChanges, db, callVars, GoesOffline
<1>21. CASE EndAnnounce
  BY <1>0, <1>21 DEF HubInv, Online, TypeOK, EndAnnounce, BackToSelect, db, callVars,
                     connVars, chanVars, screens, answers
<1>22. CASE Die
  BY <1>0, <1>22 DEF HubInv, Online, TypeOK, Die, BackToSelect, Blank, StatusChanges, db
<1>23. ASSUME NEW u \in Users, Join(u)
       PROVE  HubInv'
  BY <1>0, <1>23 DEF HubInv, Online, TypeOK, Join, callVars, connVars, hubVars, chanVars,
                     screens, answers
<1>24. ASSUME NEW u \in Users, Leave(u)
       PROVE  HubInv'
  BY <1>0, <1>24 DEF HubInv, Online, TypeOK, Leave, callVars, connVars, hubVars, chanVars,
                     screens, answers
<1>25. CASE UNCHANGED vars
  BY <1>0, <1>25 DEF HubInv, Online, TypeOK, vars, db, callVars, connVars, hubVars, chanVars,
                     screens, answers
<1> QED BY <1>1, <1>2, <1>3, <1>4, <1>5, <1>6, <1>7, <1>8, <1>9, <1>10, <1>11, <1>12, <1>13,
           <1>14, <1>15, <1>16, <1>17, <1>18, <1>19, <1>20, <1>21, <1>22, <1>23, <1>24,
           <1>25 DEF Next, Call, Request, Connection

\* A steady receipt stays the only one of its user.
LEMMA SteadyStep ==
  ASSUME Inv, [Next]_vars
  PROVE  SteadyInv'
<1>0. TypeOK /\ CallInv /\ SteadyInv
  BY DEF Inv
<1>1. ASSUME NEW r \in Requests, NEW u \in Readers, NEW id \in Ids, MarkAsRead(r, u, id)
      PROVE  SteadyInv'
  BY <1>0, <1>1, DeliveryAssumption DEF SteadyInv, SteadyOK, TypeOK, MarkAsRead, Goto, db,
                                        connVars, hubVars, chanVars, screens, answers,
                                        CallInv, CallOK
<1>2. ASSUME NEW r \in Requests, CheckMember(r)
      PROVE  SteadyInv'
  <2>1. CASE Goto(r, "update") /\ UNCHANGED <<req, steady>>
    <3>1. req[r].user \in members /\ members' = members
      BY <1>0, <1>2, <2>1 DEF CheckMember, Goto, Return, TypeOK, db
    <3> QED BY <1>0, <1>2, <2>1, <3>1 DEF TypeOK, SteadyInv, SteadyOK, CheckMember, Goto
  <2>2. CASE Return(r)
    <3>1. members' = members
      BY <1>2 DEF CheckMember, db
    <3> QED BY <1>0, <2>2, <3>1 DEF TypeOK, SteadyInv, SteadyOK, Return, Goto
  <2> QED BY <1>2, <2>1, <2>2 DEF CheckMember
<1>3. ASSUME NEW r \in Requests, UpdateLastRead(r)
      PROVE  SteadyInv'
  <2>1. CASE Goto(r, "recheck") /\ UNCHANGED <<req, steady>>
    BY <1>0, <1>3, <2>1 DEF TypeOK, SteadyInv, SteadyOK, UpdateLastRead, Goto
  <2>2. CASE Return(r)
    BY <1>0, <1>3, <2>2 DEF TypeOK, SteadyInv, SteadyOK, UpdateLastRead, Return, Goto
  <2> QED BY <1>3, <2>1, <2>2 DEF UpdateLastRead
<1>4. ASSUME NEW r \in Requests, Recheck(r)
      PROVE  SteadyInv'
  <2>1. CASE Goto(r, "members") /\ UNCHANGED <<req, steady>>
    <3>1. req[r].user \in members /\ members' = members
      BY <1>0, <1>4, <2>1 DEF Recheck, Goto, Return, TypeOK, db
    <3> QED BY <1>0, <1>4, <2>1, <3>1 DEF TypeOK, SteadyInv, SteadyOK, Recheck, Goto
  <2>2. CASE Return(r)
    <3>1. members' = members
      BY <1>4 DEF Recheck, db
    <3> QED BY <1>0, <2>2, <3>1 DEF TypeOK, SteadyInv, SteadyOK, Return, Goto
  <2> QED BY <1>4, <2>1, <2>2 DEF Recheck
<1>5. ASSUME NEW r \in Requests, ReadMembers(r)
      PROVE  SteadyInv'
  BY <1>0, <1>5 DEF SteadyInv, SteadyOK, TypeOK, ReadMembers, Goto, db, connVars, hubVars,
                    chanVars, screens, answers
<1>6. ASSUME NEW r \in Requests, StatementFails(r)
      PROVE  SteadyInv'
  BY <1>0, <1>6 DEF SteadyInv, SteadyOK, TypeOK, StatementFails, Return, Goto, db, connVars,
                    hubVars, chanVars, screens, answers
<1>7. ASSUME NEW r \in Requests, BeginIteration(r)
      PROVE  SteadyInv'
  BY <1>0, <1>7 DEF SteadyInv, SteadyOK, TypeOK, BeginIteration, Goto, db, connVars, hubVars,
                    chanVars, screens, answers
<1>8. ASSUME NEW r \in Requests, Panic(r)
      PROVE  SteadyInv'
  BY <1>0, <1>8 DEF SteadyInv, SteadyOK, TypeOK, Panic, Return, Goto, db, connVars, hubVars,
                    chanVars, screens, answers
<1>9. ASSUME NEW r \in Requests, EndIteration(r)
      PROVE  SteadyInv'
  BY <1>0, <1>9 DEF SteadyInv, SteadyOK, TypeOK, EndIteration, Return, Goto, db, connVars,
                    hubVars, chanVars, screens, answers
<1>10. ASSUME NEW r \in Requests, ReceiveEvict(r)
       PROVE  SteadyInv'
  BY <1>0, <1>10 DEF SteadyInv, SteadyOK, TypeOK, ReceiveEvict, Goto, Receive, db, connVars,
                     chanVars, screens, answers
<1>11. ASSUME NEW r \in Requests, NEW c \in Conns, Deliver(r, c)
       PROVE  SteadyInv'
  BY <1>0, <1>11 DEF SteadyInv, SteadyOK, TypeOK, Deliver, db, connVars, hubVars, answers
<1>12. ASSUME NEW r \in Requests, NEW c \in Conns, Evict(r, c)
       PROVE  SteadyInv'
  BY <1>0, <1>12 DEF SteadyInv, SteadyOK, TypeOK, Evict, Goto, db, connVars, hubVars,
                     screens, answers
<1>13. ASSUME NEW c \in Conns, WriteNext(c)
       PROVE  SteadyInv'
  BY <1>0, <1>13 DEF SteadyInv, SteadyOK, TypeOK, WriteNext, db, callVars, connVars, hubVars,
                     screens, answers
<1>14. ASSUME NEW c \in Conns, ReceiveRegister(c)
       PROVE  SteadyInv'
  BY <1>0, <1>14 DEF SteadyInv, SteadyOK, TypeOK, ReceiveRegister, Receive, db, callVars,
                     chanVars, screens, answers
<1>15. ASSUME NEW c \in Conns, ReceiveExit(c)
       PROVE  SteadyInv'
  BY <1>0, <1>15 DEF SteadyInv, SteadyOK, TypeOK, ReceiveExit, Receive, db, callVars,
                     chanVars, screens, answers
<1>16. ASSUME NEW c \in Conns, Announce(c)
       PROVE  SteadyInv'
  BY <1>0, <1>16 DEF SteadyInv, SteadyOK, TypeOK, Announce, db, callVars, connVars, answers
<1>17. ASSUME NEW c \in Conns, FetchOnline(c)
       PROVE  SteadyInv'
  BY <1>0, <1>17 DEF SteadyInv, SteadyOK, TypeOK, FetchOnline, db, callVars, connVars,
                     hubVars, chanVars
<1>18. ASSUME NEW c \in Conns, ShowOnline(c)
       PROVE  SteadyInv'
  BY <1>0, <1>18 DEF SteadyInv, SteadyOK, TypeOK, ShowOnline, db, callVars, connVars,
                     hubVars, chanVars
<1>19. CASE HubRegister
  BY <1>0, <1>19 DEF SteadyInv, SteadyOK, TypeOK, HubRegister, Granted, StatusChanges, db,
                     callVars, connVars, chanVars
<1>20. CASE HubUnregister
  BY <1>0, <1>20 DEF SteadyInv, SteadyOK, TypeOK, HubUnregister, Granted, BackToSelect,
                     Blank, StatusChanges, db, callVars
<1>21. CASE EndAnnounce
  BY <1>0, <1>21 DEF SteadyInv, SteadyOK, TypeOK, EndAnnounce, BackToSelect, db, callVars,
                     connVars, chanVars, screens, answers
<1>22. CASE Die
  BY <1>0, <1>22 DEF SteadyInv, SteadyOK, TypeOK, Die, BackToSelect, Blank, StatusChanges,
                     db
<1>23. ASSUME NEW u \in Users, Join(u)
       PROVE  SteadyInv'
  BY <1>0, <1>23 DEF SteadyInv, SteadyOK, TypeOK, Join, callVars, connVars, hubVars,
                     chanVars, screens, answers
<1>24. ASSUME NEW u \in Users, Leave(u)
       PROVE  SteadyInv'
  BY <1>0, <1>24 DEF SteadyInv, SteadyOK, TypeOK, Leave, callVars, connVars, hubVars,
                     chanVars, screens, answers
<1>25. CASE UNCHANGED vars
  BY <1>0, <1>25 DEF SteadyInv, SteadyOK, TypeOK, vars, db, callVars, connVars, hubVars,
                     chanVars, screens, answers
<1> QED BY <1>1, <1>2, <1>3, <1>4, <1>5, <1>6, <1>7, <1>8, <1>9, <1>10, <1>11, <1>12, <1>13,
           <1>14, <1>15, <1>16, <1>17, <1>18, <1>19, <1>20, <1>21, <1>22, <1>23, <1>24,
           <1>25 DEF Next, Call, Request, Connection

\* A receipt that is being told is what the database holds.
LEMMA StoredStep ==
  ASSUME Inv, [Next]_vars
  PROVE  ReceiptIsStored'
<1>0. TypeOK /\ CallInv /\ SteadyInv /\ ReceiptIsStored
  BY DEF Inv
<1>1. ASSUME NEW r \in Requests, NEW u \in Readers, NEW id \in Ids, MarkAsRead(r, u, id)
      PROVE  ReceiptIsStored'
  BY <1>0, <1>1 DEF ReceiptIsStored, SteadyInv, SteadyOK, InLoop, TypeOK, MarkAsRead, Goto,
                    db, connVars, hubVars, chanVars, screens, answers
<1>2. ASSUME NEW r \in Requests, CheckMember(r)
      PROVE  ReceiptIsStored'
  BY <1>0, <1>2 DEF ReceiptIsStored, SteadyInv, SteadyOK, InLoop, TypeOK, CheckMember,
                    Return, Goto, db, connVars, hubVars, chanVars, screens, answers
<1>3. ASSUME NEW r \in Requests, UpdateLastRead(r)
      PROVE  ReceiptIsStored'
  <2>1. /\ pc[r] = "update" /\ steady' \subseteq steady
        /\ \A q \in Requests \ {r} : pc'[q] = pc[q] /\ req'[q] = req[q]
        /\ \/ r \notin steady'
           \/ req' = req
    BY <1>0, <1>3 DEF TypeOK, UpdateLastRead, Return, Goto
  <2>2. req[r] \in [user : Users, id : Ids]
    BY <1>0, <2>1 DEF CallInv, CallOK
  <2>3. /\ lastRead \in [Users -> Ids]
        /\ lastRead' = IF req[r].user \in members
                       THEN [lastRead EXCEPT ![req[r].user] = req[r].id] ELSE lastRead
    BY <1>0, <1>3 DEF TypeOK, UpdateLastRead, Mark
  <2> SUFFICES ASSUME NEW p \in steady',
                      pc'[p] \in {"recheck", "members", "rlock"} \cup InLoop
               PROVE  lastRead'[req'[p].user] = req'[p].id
    BY DEF ReceiptIsStored
  <2>4. p \in steady /\ p \in Requests
    BY <1>0, <2>1 DEF TypeOK
  <2>5. CASE p = r
    <3>1. req[r].user \in members
      BY <1>0, <2>1, <2>4, <2>5 DEF SteadyInv, SteadyOK
    <3> QED BY <2>1, <2>2, <2>3, <2>5, <3>1
  <2>6. CASE p # r
    <3>1. lastRead[req[p].user] = req[p].id
      BY <1>0, <2>1, <2>4, <2>6 DEF ReceiptIsStored
    <3>2. req[r].user # req[p].user
      BY <1>0, <2>1, <2>4, <2>6 DEF SteadyInv, SteadyOK
    <3>3. req[p].user \in Users
      BY <1>0, <2>1, <2>4, <2>6 DEF CallInv, CallOK, InLoop
    <3> QED BY <2>1, <2>3, <2>4, <2>6, <3>1, <3>2, <3>3
  <2> QED BY <2>5, <2>6
<1>4. ASSUME NEW r \in Requests, Recheck(r)
      PROVE  ReceiptIsStored'
  BY <1>0, <1>4 DEF ReceiptIsStored, SteadyInv, SteadyOK, InLoop, TypeOK, Recheck, Return,
                    Goto, db, connVars, hubVars, chanVars, screens, answers
<1>5. ASSUME NEW r \in Requests, ReadMembers(r)
      PROVE  ReceiptIsStored'
  BY <1>0, <1>5 DEF ReceiptIsStored, SteadyInv, SteadyOK, InLoop, TypeOK, ReadMembers, Goto,
                    db, connVars, hubVars, chanVars, screens, answers
<1>6. ASSUME NEW r \in Requests, StatementFails(r)
      PROVE  ReceiptIsStored'
  BY <1>0, <1>6 DEF ReceiptIsStored, SteadyInv, SteadyOK, InLoop, TypeOK, StatementFails,
                    Return, Goto, db, connVars, hubVars, chanVars, screens, answers
<1>7. ASSUME NEW r \in Requests, BeginIteration(r)
      PROVE  ReceiptIsStored'
  BY <1>0, <1>7 DEF ReceiptIsStored, SteadyInv, SteadyOK, InLoop, TypeOK, BeginIteration,
                    Goto, db, connVars, hubVars, chanVars, screens, answers
<1>8. ASSUME NEW r \in Requests, Panic(r)
      PROVE  ReceiptIsStored'
  BY <1>0, <1>8 DEF ReceiptIsStored, SteadyInv, SteadyOK, InLoop, TypeOK, Panic, Return,
                    Goto, db, connVars, hubVars, chanVars, screens, answers
<1>9. ASSUME NEW r \in Requests, EndIteration(r)
      PROVE  ReceiptIsStored'
  BY <1>0, <1>9 DEF ReceiptIsStored, SteadyInv, SteadyOK, InLoop, TypeOK, EndIteration,
                    Return, Goto, db, connVars, hubVars, chanVars, screens, answers
<1>10. ASSUME NEW r \in Requests, ReceiveEvict(r)
       PROVE  ReceiptIsStored'
  BY <1>0, <1>10 DEF ReceiptIsStored, SteadyInv, SteadyOK, InLoop, TypeOK, ReceiveEvict,
                     Goto, Receive, db, connVars, chanVars, screens, answers
<1>11. ASSUME NEW r \in Requests, NEW c \in Conns, Deliver(r, c)
       PROVE  ReceiptIsStored'
  BY <1>0, <1>11 DEF ReceiptIsStored, SteadyInv, SteadyOK, InLoop, TypeOK, Deliver, db,
                     connVars, hubVars, answers
<1>12. ASSUME NEW r \in Requests, NEW c \in Conns, Evict(r, c)
       PROVE  ReceiptIsStored'
  BY <1>0, <1>12 DEF ReceiptIsStored, SteadyInv, SteadyOK, InLoop, TypeOK, Evict, Goto, db,
                     connVars, hubVars, screens, answers
<1>13. ASSUME NEW c \in Conns, WriteNext(c)
       PROVE  ReceiptIsStored'
  BY <1>0, <1>13 DEF ReceiptIsStored, SteadyInv, SteadyOK, InLoop, TypeOK, WriteNext, db,
                     callVars, connVars, hubVars, screens, answers
<1>14. ASSUME NEW c \in Conns, ReceiveRegister(c)
       PROVE  ReceiptIsStored'
  BY <1>0, <1>14 DEF ReceiptIsStored, SteadyInv, SteadyOK, InLoop, TypeOK, ReceiveRegister,
                     Receive, db, callVars, chanVars, screens, answers
<1>15. ASSUME NEW c \in Conns, ReceiveExit(c)
       PROVE  ReceiptIsStored'
  BY <1>0, <1>15 DEF ReceiptIsStored, SteadyInv, SteadyOK, InLoop, TypeOK, ReceiveExit,
                     Receive, db, callVars, chanVars, screens, answers
<1>16. ASSUME NEW c \in Conns, Announce(c)
       PROVE  ReceiptIsStored'
  BY <1>0, <1>16 DEF ReceiptIsStored, SteadyInv, SteadyOK, InLoop, TypeOK, Announce, db,
                     callVars, connVars, answers
<1>17. ASSUME NEW c \in Conns, FetchOnline(c)
       PROVE  ReceiptIsStored'
  BY <1>0, <1>17 DEF ReceiptIsStored, SteadyInv, SteadyOK, InLoop, TypeOK, FetchOnline, db,
                     callVars, connVars, hubVars, chanVars
<1>18. ASSUME NEW c \in Conns, ShowOnline(c)
       PROVE  ReceiptIsStored'
  BY <1>0, <1>18 DEF ReceiptIsStored, SteadyInv, SteadyOK, InLoop, TypeOK, ShowOnline, db,
                     callVars, connVars, hubVars, chanVars
<1>19. CASE HubRegister
  BY <1>0, <1>19 DEF ReceiptIsStored, SteadyInv, SteadyOK, InLoop, TypeOK, HubRegister,
                     Granted, StatusChanges, db, callVars, connVars, chanVars
<1>20. CASE HubUnregister
  BY <1>0, <1>20 DEF ReceiptIsStored, SteadyInv, SteadyOK, InLoop, TypeOK, HubUnregister,
                     Granted, BackToSelect, Blank, StatusChanges, db, callVars
<1>21. CASE EndAnnounce
  BY <1>0, <1>21 DEF ReceiptIsStored, SteadyInv, SteadyOK, InLoop, TypeOK, EndAnnounce,
                     BackToSelect, db, callVars, connVars, chanVars, screens, answers
<1>22. CASE Die
  BY <1>0, <1>22 DEF ReceiptIsStored, SteadyInv, SteadyOK, InLoop, TypeOK, Die, BackToSelect,
                     Blank, StatusChanges, db
<1>23. ASSUME NEW u \in Users, Join(u)
       PROVE  ReceiptIsStored'
  BY <1>0, <1>23 DEF ReceiptIsStored, SteadyInv, SteadyOK, InLoop, TypeOK, Join, callVars,
                     connVars, hubVars, chanVars, screens, answers
<1>24. ASSUME NEW u \in Users, Leave(u)
       PROVE  ReceiptIsStored'
  BY <1>0, <1>24 DEF ReceiptIsStored, SteadyInv, SteadyOK, InLoop, TypeOK, Leave, callVars,
                     connVars, hubVars, chanVars, screens, answers, CallInv, CallOK
<1>25. CASE UNCHANGED vars
  BY <1>0, <1>25 DEF ReceiptIsStored, SteadyInv, SteadyOK, InLoop, TypeOK, vars, db,
                     callVars, connVars, hubVars, chanVars, screens, answers
<1> QED BY <1>1, <1>2, <1>3, <1>4, <1>5, <1>6, <1>7, <1>8, <1>9, <1>10, <1>11, <1>12, <1>13,
           <1>14, <1>15, <1>16, <1>17, <1>18, <1>19, <1>20, <1>21, <1>22, <1>23, <1>24,
           <1>25 DEF Next, Call, Request, Connection

\* The loop of a steady receipt has reached the connections it has passed.
LEMMA ReachStep ==
  ASSUME Inv, [Next]_vars
  PROVE  ReachInv'
<1>0. TypeOK /\ CallInv /\ SteadyInv /\ ReachInv
  BY DEF Inv
<1>1. ASSUME NEW r \in Requests, NEW u \in Readers, NEW id \in Ids, MarkAsRead(r, u, id)
      PROVE  ReachInv'
  BY <1>0, <1>1 DEF ReachInv, ReachOK, Recipients, InLoop, TypeOK, MarkAsRead, Goto, db,
                    connVars, hubVars, chanVars, screens, answers
<1>2. ASSUME NEW r \in Requests, CheckMember(r)
      PROVE  ReachInv'
  BY <1>0, <1>2 DEF ReachInv, ReachOK, Recipients, InLoop, TypeOK, CheckMember, Return, Goto,
                    db, connVars, hubVars, chanVars, screens, answers
<1>3. ASSUME NEW r \in Requests, UpdateLastRead(r)
      PROVE  ReachInv'
  <2>1. pc'[r] \notin InLoop
    BY <1>0, <1>3 DEF TypeOK, UpdateLastRead, Return, Goto, InLoop
  <2>2. /\ steady' \subseteq steady /\ UNCHANGED <<owner, clients, closed, reads>>
        /\ \A p \in Requests \ {r} :
             pc'[p] = pc[p] /\ req'[p] = req[p] /\ to'[p] = to[p] /\ todo'[p] = todo[p]
    BY <1>0, <1>3 DEF TypeOK, UpdateLastRead, Return, Goto, connVars, hubVars, chanVars, screens
  <2> QED BY <1>0, <2>1, <2>2 DEF TypeOK, ReachInv, ReachOK, Recipients
<1>4. ASSUME NEW r \in Requests, Recheck(r)
      PROVE  ReachInv'
  BY <1>0, <1>4 DEF ReachInv, ReachOK, Recipients, InLoop, TypeOK, Recheck, Return, Goto, db,
                    connVars, hubVars, chanVars, screens, answers
<1>5. ASSUME NEW r \in Requests, ReadMembers(r)
      PROVE  ReachInv'
  BY <1>0, <1>5 DEF ReachInv, ReachOK, Recipients, InLoop, TypeOK, ReadMembers, Goto, db,
                    connVars, hubVars, chanVars, screens, answers
<1>6. ASSUME NEW r \in Requests, StatementFails(r)
      PROVE  ReachInv'
  BY <1>0, <1>6 DEF ReachInv, ReachOK, Recipients, InLoop, TypeOK, StatementFails, Return,
                    Goto, db, connVars, hubVars, chanVars, screens, answers
<1>7. ASSUME NEW r \in Requests, BeginIteration(r)
      PROVE  ReachInv'
  BY <1>0, <1>7 DEF ReachInv, ReachOK, Recipients, InLoop, TypeOK, BeginIteration, Goto, db,
                    connVars, hubVars, chanVars, screens, answers
<1>8. ASSUME NEW r \in Requests, Panic(r)
      PROVE  ReachInv'
  BY <1>0, <1>8 DEF ReachInv, ReachOK, Recipients, InLoop, TypeOK, Panic, Return, Goto, db,
                    connVars, hubVars, chanVars, screens, answers
<1>9. ASSUME NEW r \in Requests, EndIteration(r)
      PROVE  ReachInv'
  BY <1>0, <1>9 DEF ReachInv, ReachOK, Recipients, InLoop, TypeOK, EndIteration, Return,
                    Goto, db, connVars, hubVars, chanVars, screens, answers
<1>10. ASSUME NEW r \in Requests, ReceiveEvict(r)
       PROVE  ReachInv'
  BY <1>0, <1>10 DEF ReachInv, ReachOK, Recipients, InLoop, TypeOK, ReceiveEvict, Goto,
                     Receive, db, connVars, chanVars, screens, answers
<1>11. ASSUME NEW r \in Requests, NEW c \in Conns, Deliver(r, c)
       PROVE  ReachInv'
  <2>1. /\ pc[r] = "iter" /\ todo'[r] = todo[r] \ {c}
        /\ \A p \in Requests \ {r} : todo'[p] = todo[p]
        /\ UNCHANGED <<pc, req, to, owner, clients, closed, steady>>
    BY <1>0, <1>11 DEF TypeOK, Deliver, connVars, hubVars
  <2>2. req[r] \in [user : Users, id : Ids]
    BY <1>0, <2>1 DEF CallInv, CallOK
  <2>3. \A d \in Conns, v \in Users :
          reads'[d][v] = IF d = c /\ v = req[r].user THEN req[r].id ELSE reads[d][v]
    BY <1>0, <1>11, <2>2 DEF TypeOK, Deliver, Shown
  <2> SUFFICES ASSUME NEW p \in steady, pc[p] \in InLoop, NEW d \in clients \ closed,
                      owner[d] \in Recipients(p)
               PROVE  d \in todo'[p] \/ reads'[d][req[p].user] = req[p].id
    BY <2>1 DEF ReachInv, ReachOK, Recipients
  <2>4. d \in todo[p] \/ reads[d][req[p].user] = req[p].id
    BY <1>0 DEF ReachInv, ReachOK
  <2>5. p \in Requests /\ d \in Conns /\ req[p].user \in Users
    BY <1>0 DEF TypeOK, CallInv, CallOK, InLoop
  <2>6. CASE p = r
    BY <2>1, <2>3, <2>4, <2>5, <2>6
  <2>7. CASE p # r
    <3>1. req[r].user # req[p].user
      BY <1>0, <2>1, <2>7 DEF SteadyInv, SteadyOK
    <3> QED BY <2>1, <2>3, <2>4, <2>5, <2>7, <3>1
  <2> QED BY <2>6, <2>7
<1>12. ASSUME NEW r \in Requests, NEW c \in Conns, Evict(r, c)
       PROVE  ReachInv'
  BY <1>0, <1>12 DEF ReachInv, ReachOK, Recipients, InLoop, TypeOK, Evict, Goto, db,
                     connVars, hubVars, screens, answers, Remaining
<1>13. ASSUME NEW c \in Conns, WriteNext(c)
       PROVE  ReachInv'
  BY <1>0, <1>13 DEF ReachInv, ReachOK, Recipients, InLoop, TypeOK, WriteNext, db, callVars,
                     connVars, hubVars, screens, answers
<1>14. ASSUME NEW c \in Conns, ReceiveRegister(c)
       PROVE  ReachInv'
  BY <1>0, <1>14 DEF ReachInv, ReachOK, Recipients, InLoop, TypeOK, ReceiveRegister, Receive,
                     db, callVars, chanVars, screens, answers
<1>15. ASSUME NEW c \in Conns, ReceiveExit(c)
       PROVE  ReachInv'
  BY <1>0, <1>15 DEF ReachInv, ReachOK, Recipients, InLoop, TypeOK, ReceiveExit, Receive, db,
                     callVars, chanVars, screens, answers
<1>16. ASSUME NEW c \in Conns, Announce(c)
       PROVE  ReachInv'
  BY <1>0, <1>16 DEF ReachInv, ReachOK, Recipients, InLoop, TypeOK, Announce, db, callVars,
                     connVars, answers
<1>17. ASSUME NEW c \in Conns, FetchOnline(c)
       PROVE  ReachInv'
  BY <1>0, <1>17 DEF ReachInv, ReachOK, Recipients, InLoop, TypeOK, FetchOnline, db,
                     callVars, connVars, hubVars, chanVars
<1>18. ASSUME NEW c \in Conns, ShowOnline(c)
       PROVE  ReachInv'
  BY <1>0, <1>18 DEF ReachInv, ReachOK, Recipients, InLoop, TypeOK, ShowOnline, db, callVars,
                     connVars, hubVars, chanVars
<1>19. CASE HubRegister
  BY <1>0, <1>19 DEF ReachInv, ReachOK, Recipients, InLoop, TypeOK, HubRegister, Granted,
                     StatusChanges, db, callVars, connVars, chanVars
<1>20. CASE HubUnregister
  BY <1>0, <1>20 DEF ReachInv, ReachOK, Recipients, InLoop, TypeOK, HubUnregister, Granted,
                     BackToSelect, Blank, StatusChanges, db, callVars
<1>21. CASE EndAnnounce
  BY <1>0, <1>21 DEF ReachInv, ReachOK, Recipients, InLoop, TypeOK, EndAnnounce,
                     BackToSelect, db, callVars, connVars, chanVars, screens, answers
<1>22. CASE Die
  BY <1>0, <1>22 DEF ReachInv, ReachOK, Recipients, InLoop, TypeOK, Die, BackToSelect, Blank,
                     StatusChanges, db
<1>23. ASSUME NEW u \in Users, Join(u)
       PROVE  ReachInv'
  BY <1>0, <1>23 DEF ReachInv, ReachOK, Recipients, InLoop, TypeOK, Join, callVars, connVars,
                     hubVars, chanVars, screens, answers
<1>24. ASSUME NEW u \in Users, Leave(u)
       PROVE  ReachInv'
  BY <1>0, <1>24 DEF ReachInv, ReachOK, Recipients, InLoop, TypeOK, Leave, callVars,
                     connVars, hubVars, chanVars, screens, answers
<1>25. CASE UNCHANGED vars
  BY <1>0, <1>25 DEF ReachInv, ReachOK, Recipients, InLoop, TypeOK, vars, db, callVars,
                     connVars, hubVars, chanVars, screens, answers
<1> QED BY <1>1, <1>2, <1>3, <1>4, <1>5, <1>6, <1>7, <1>8, <1>9, <1>10, <1>11, <1>12, <1>13,
           <1>14, <1>15, <1>16, <1>17, <1>18, <1>19, <1>20, <1>21, <1>22, <1>23, <1>24,
           <1>25 DEF Next, Call, Request, Connection

\* Clients that asked keep showing who is online.
LEMMA ShownStep ==
  ASSUME Inv, [Next]_vars
  PROVE  ShownInv'
<1>0. TypeOK /\ HubInv /\ ShownInv /\ AnswerInv
  BY DEF Inv
<1>1. ASSUME NEW r \in Requests, NEW u \in Readers, NEW id \in Ids, MarkAsRead(r, u, id)
      PROVE  ShownInv'
  BY <1>0, <1>1 DEF ShownInv, Pending, Online, TypeOK, MarkAsRead, Goto, db, connVars,
                    hubVars, chanVars, screens, answers
<1>2. ASSUME NEW r \in Requests, CheckMember(r)
      PROVE  ShownInv'
  BY <1>0, <1>2 DEF ShownInv, Pending, Online, TypeOK, CheckMember, Return, Goto, db,
                    connVars, hubVars, chanVars, screens, answers
<1>3. ASSUME NEW r \in Requests, UpdateLastRead(r)
      PROVE  ShownInv'
  BY <1>0, <1>3 DEF ShownInv, Pending, Online, TypeOK, UpdateLastRead, Return, Goto,
                    connVars, hubVars, chanVars, screens, answers
<1>4. ASSUME NEW r \in Requests, Recheck(r)
      PROVE  ShownInv'
  BY <1>0, <1>4 DEF ShownInv, Pending, Online, TypeOK, Recheck, Return, Goto, db, connVars,
                    hubVars, chanVars, screens, answers
<1>5. ASSUME NEW r \in Requests, ReadMembers(r)
      PROVE  ShownInv'
  BY <1>0, <1>5 DEF ShownInv, Pending, Online, TypeOK, ReadMembers, Goto, db, connVars,
                    hubVars, chanVars, screens, answers
<1>6. ASSUME NEW r \in Requests, StatementFails(r)
      PROVE  ShownInv'
  BY <1>0, <1>6 DEF ShownInv, Pending, Online, TypeOK, StatementFails, Return, Goto, db,
                    connVars, hubVars, chanVars, screens, answers
<1>7. ASSUME NEW r \in Requests, BeginIteration(r)
      PROVE  ShownInv'
  BY <1>0, <1>7 DEF ShownInv, Pending, Online, TypeOK, BeginIteration, Goto, db, connVars,
                    hubVars, chanVars, screens, answers
<1>8. ASSUME NEW r \in Requests, Panic(r)
      PROVE  ShownInv'
  BY <1>0, <1>8 DEF ShownInv, Pending, Online, TypeOK, Panic, Return, Goto, db, connVars,
                    hubVars, chanVars, screens, answers
<1>9. ASSUME NEW r \in Requests, EndIteration(r)
      PROVE  ShownInv'
  BY <1>0, <1>9 DEF ShownInv, Pending, Online, TypeOK, EndIteration, Return, Goto, db,
                    connVars, hubVars, chanVars, screens, answers
<1>10. ASSUME NEW r \in Requests, ReceiveEvict(r)
       PROVE  ShownInv'
  BY <1>0, <1>10 DEF ShownInv, Pending, Online, TypeOK, ReceiveEvict, Goto, Receive, db,
                     connVars, chanVars, screens, answers
<1>11. ASSUME NEW r \in Requests, NEW c \in Conns, Deliver(r, c)
       PROVE  ShownInv'
  BY <1>0, <1>11 DEF ShownInv, Pending, Online, TypeOK, Deliver, db, connVars, hubVars,
                     answers
<1>12. ASSUME NEW r \in Requests, NEW c \in Conns, Evict(r, c)
       PROVE  ShownInv'
  BY <1>0, <1>12 DEF ShownInv, Pending, Online, TypeOK, Evict, Goto, db, connVars, hubVars,
                     screens, answers
<1>13. ASSUME NEW c \in Conns, WriteNext(c)
       PROVE  ShownInv'
  BY <1>0, <1>13 DEF ShownInv, Pending, Online, TypeOK, WriteNext, db, callVars, connVars,
                     hubVars, screens, answers
<1>14. ASSUME NEW c \in Conns, ReceiveRegister(c)
       PROVE  ShownInv'
  BY <1>0, <1>14 DEF ShownInv, Pending, Online, TypeOK, ReceiveRegister, Receive, db,
                     callVars, chanVars, screens, answers
<1>15. ASSUME NEW c \in Conns, ReceiveExit(c)
       PROVE  ShownInv'
  BY <1>0, <1>15 DEF ShownInv, Pending, Online, TypeOK, ReceiveExit, Receive, db, callVars,
                     chanVars, screens, answers
<1>16. ASSUME NEW c \in Conns, Announce(c)
       PROVE  ShownInv'
  <2> DEFINE u == owner[hubConn]
  <2>1. /\ u \in Users /\ clients \subseteq Conns
        /\ \/ hubOp = "register" /\ u \in Online(clients)
           \/ hubOp = "unregister" /\ u \notin Online(clients)
    BY <1>0, <1>16 DEF TypeOK, HubInv, Announce
  <2>2. /\ hubPc = "announce" /\ c \in hubTodo /\ hubTodo' = hubTodo \ {c}
        /\ UNCHANGED <<owner, clients, known, hubPc, hubOp,
                       hubConn>> /\ Online(clients)' = Online(clients)
    BY <1>16 DEF Announce, connVars, answers, Online
  <2>3. \A d \in Conns \ {c} : shows'[d] = shows[d] /\ missed'[d] = missed[d]
    BY <1>0, <1>16 DEF TypeOK, Announce
  <2>4. ASSUME NEW d \in known, NEW v \in Users \ (missed'[d] \cup Pending(d)')
        PROVE  v \in shows'[d] <=> v \in Online(clients)
    <3>1. CASE d # c
      <4>1. v \notin missed[d] \cup Pending(d) /\ shows'[d] = shows[d]
        <5>1. d \in Conns
          BY <1>0, <2>4 DEF TypeOK
        <5> QED BY <2>1, <2>2, <2>3, <2>4, <3>1, <5>1 DEF Pending
      <4> QED BY <1>0, <4>1 DEF ShownInv
    <3>2. CASE d = c /\ Room(c)
      <4>1. /\ missed'[c] = missed[c] \ {u}
            /\ shows'[c] = IF hubOp = "register" THEN shows[c] \cup {u} ELSE shows[c] \ {u}
        BY <1>0, <1>16, <3>2 DEF TypeOK, Announce
      <4>2. CASE v = u
        BY <2>1, <3>2, <4>1, <4>2
      <4>3. CASE v # u
        <5>1. v \notin missed[c] \cup Pending(c)
          BY <2>4, <3>2, <4>1, <4>3 DEF Pending
        <5> QED BY <1>0, <3>2, <4>1, <4>3, <5>1 DEF ShownInv
      <4> QED BY <4>2, <4>3
    <3>3. CASE d = c /\ ~Room(c)
      <4>1. missed'[c] = missed[c] \cup {u} /\ shows'[c] = shows[c]
        BY <1>0, <1>16, <3>3 DEF TypeOK, Announce
      <4>2. v \notin missed[c] \cup Pending(c)
        BY <2>4, <3>3, <4>1 DEF Pending
      <4> QED BY <1>0, <3>3, <4>1, <4>2 DEF ShownInv
    <3> QED BY <3>1, <3>2, <3>3
  <2> QED BY <2>2, <2>4 DEF ShownInv
<1>17. ASSUME NEW c \in Conns, FetchOnline(c)
       PROVE  ShownInv'
  BY <1>0, <1>17 DEF ShownInv, Pending, Online, TypeOK, FetchOnline, db, callVars, connVars,
                     hubVars, chanVars
<1>18. ASSUME NEW c \in Conns, ShowOnline(c)
       PROVE  ShownInv'
  <2>1. /\ c \in asking /\ known' = known \cup {c}
        /\ UNCHANGED <<owner, clients, hubPc, hubConn, hubTodo>>
    BY <1>18 DEF ShowOnline, connVars, hubVars
  <2>2. Online(clients)' = Online(clients) /\ \A d : Pending(d)' = Pending(d)
    BY <2>1 DEF Online, Pending
  <2>3. shows'[c] = snapshot[c] /\ missed'[c] = missed[c] \cup since[c]
    BY <1>0, <1>18 DEF TypeOK, ShowOnline
  <2>4. \A d \in Conns \ {c} : shows'[d] = shows[d] /\ missed'[d] = missed[d]
    BY <1>0, <1>18 DEF TypeOK, ShowOnline
  <2>5. ASSUME NEW d \in known', NEW v \in Users \ (missed'[d] \cup Pending(d)')
        PROVE  v \in shows'[d] <=> v \in Online(clients)'
    <3>1. CASE d = c
      BY <1>0, <2>1, <2>2, <2>3, <2>5, <3>1 DEF AnswerInv
    <3>2. CASE d # c
      <4>1. d \in known /\ d \in Conns
        BY <1>0, <2>1, <3>2 DEF TypeOK
      <4> QED BY <1>0, <2>2, <2>4, <2>5, <3>2, <4>1 DEF ShownInv
    <3> QED BY <3>1, <3>2
  <2> QED BY <2>5 DEF ShownInv
<1>19. CASE HubRegister
  <2>1. /\ hubPc = "lock" /\ clients' = clients \cup {hubConn}
        /\ hubPc' = "announce" /\ hubTodo' = clients'
        /\ UNCHANGED <<owner, hubConn, known, shows>>
    BY <1>0, <1>19 DEF HubRegister, Granted, connVars
  <2>2. Online(clients)' = Online(clients')
    BY <2>1 DEF Online
  <2>3. \A d : Pending(d) = {}
    BY <2>1 DEF Pending
  <2>4. ASSUME NEW d \in known', NEW v \in Users \ (missed'[d] \cup Pending(d)')
        PROVE  v \in shows'[d] <=> v \in Online(clients)'
    <3>1. d \in known /\ d \in Conns
      BY <1>0, <2>1, <2>4 DEF TypeOK
    <3>2. CASE d \in clients'
      <4>1. v # owner[hubConn]
        BY <2>1, <2>4, <3>2 DEF Pending
      <4>2. v \in Online(clients') <=> v \in Online(clients)
        BY <2>1, <4>1 DEF Online
      <4>3. missed'[d] = missed[d]
        BY <1>19, <3>1, <3>2 DEF HubRegister, StatusChanges
      <4> QED BY <1>0, <2>1, <2>2, <2>3, <2>4, <3>1, <4>2, <4>3 DEF ShownInv
    <3>3. CASE d \notin clients'
      <4>1. v \notin missed[d] /\ (v \in Online(clients') <=> v \in Online(clients))
        BY <1>19, <2>4, <3>1, <3>3 DEF HubRegister, StatusChanges
      <4> QED BY <1>0, <2>1, <2>2, <2>3, <3>1, <4>1 DEF ShownInv
    <3> QED BY <3>2, <3>3
  <2> QED BY <2>4 DEF ShownInv
<1>20. CASE HubUnregister
  <2>1. /\ hubPc = "lock" /\ clients' = clients \ {hubConn} /\ owner' = owner
        /\ known' = known \ {hubConn}
    BY <1>20 DEF HubUnregister, Granted, Blank
  <2>2. Online(clients)' = Online(clients')
    BY <2>1 DEF Online
  <2>3. \A d : Pending(d) = {}
    BY <2>1 DEF Pending
  <2>4. ASSUME NEW d \in known', NEW v \in Users \ (missed'[d] \cup Pending(d)')
        PROVE  v \in shows'[d] <=> v \in Online(clients)'
    <3>1. d \in known /\ d \in Conns /\ d # hubConn
      BY <1>0, <2>1, <2>4 DEF TypeOK
    <3>2. shows'[d] = shows[d]
      BY <1>20, <3>1 DEF HubUnregister, Blank
    <3>3. CASE d \in clients'
      <4>1. missed'[d] = missed[d]
        BY <1>20, <3>1, <3>3 DEF HubUnregister, Blank, StatusChanges
      <4>2. CASE GoesOffline(hubConn)
        <5>1. v # owner[hubConn]
          BY <1>20, <2>4, <3>3, <4>2 DEF HubUnregister, Pending
        <5>2. v \in Online(clients') <=> v \in Online(clients)
          BY <2>1, <5>1 DEF Online
        <5> QED BY <1>0, <2>2, <2>3, <2>4, <3>1, <3>2, <4>1, <5>2 DEF ShownInv
      <4>3. CASE ~GoesOffline(hubConn)
        <5>1. v \in Online(clients') <=> v \in Online(clients)
          BY <2>1, <4>3 DEF Online, GoesOffline
        <5> QED BY <1>0, <2>2, <2>3, <2>4, <3>1, <3>2, <4>1, <5>1 DEF ShownInv
      <4> QED BY <4>2, <4>3
    <3>4. CASE d \notin clients'
      <4>1. v \notin missed[d] /\ (v \in Online(clients') <=> v \in Online(clients))
        BY <1>20, <2>4, <3>1, <3>4 DEF HubUnregister, Blank, StatusChanges
      <4> QED BY <1>0, <2>2, <2>3, <3>1, <3>2, <4>1 DEF ShownInv
    <3> QED BY <3>3, <3>4
  <2> QED BY <2>4 DEF ShownInv
<1>21. CASE EndAnnounce
  BY <1>0, <1>21 DEF ShownInv, Pending, Online, TypeOK, EndAnnounce, BackToSelect, db,
                     callVars, connVars, chanVars, screens, answers
<1>22. CASE Die
  <2>1. known' = {}
    BY <1>0, <1>22 DEF TypeOK, Die, Blank
  <2> QED BY <2>1 DEF ShownInv
<1>23. ASSUME NEW u \in Users, Join(u)
       PROVE  ShownInv'
  BY <1>0, <1>23 DEF ShownInv, Pending, Online, TypeOK, Join, callVars, connVars, hubVars,
                     chanVars, screens, answers
<1>24. ASSUME NEW u \in Users, Leave(u)
       PROVE  ShownInv'
  BY <1>0, <1>24 DEF ShownInv, Pending, Online, TypeOK, Leave, callVars, connVars, hubVars,
                     chanVars, screens, answers
<1>25. CASE UNCHANGED vars
  BY <1>0, <1>25 DEF ShownInv, Pending, Online, TypeOK, vars, db, callVars, connVars,
                     hubVars, chanVars, screens, answers
<1> QED BY <1>1, <1>2, <1>3, <1>4, <1>5, <1>6, <1>7, <1>8, <1>9, <1>10, <1>11, <1>12, <1>13,
           <1>14, <1>15, <1>16, <1>17, <1>18, <1>19, <1>20, <1>21, <1>22, <1>23, <1>24,
           <1>25 DEF Next, Call, Request, Connection

\* Answers on their way keep naming who is online.
LEMMA AnswerStep ==
  ASSUME Inv, [Next]_vars
  PROVE  AnswerInv'
<1>0. TypeOK /\ AnswerInv
  BY DEF Inv
<1>1. ASSUME NEW r \in Requests, NEW u \in Readers, NEW id \in Ids, MarkAsRead(r, u, id)
      PROVE  AnswerInv'
  BY <1>0, <1>1 DEF AnswerInv, Online, TypeOK, MarkAsRead, Goto, db, connVars, hubVars,
                    chanVars, screens, answers
<1>2. ASSUME NEW r \in Requests, CheckMember(r)
      PROVE  AnswerInv'
  BY <1>0, <1>2 DEF AnswerInv, Online, TypeOK, CheckMember, Return, Goto, db, connVars,
                    hubVars, chanVars, screens, answers
<1>3. ASSUME NEW r \in Requests, UpdateLastRead(r)
      PROVE  AnswerInv'
  BY <1>0, <1>3 DEF AnswerInv, Online, TypeOK, UpdateLastRead, Return, Goto, connVars,
                    hubVars, chanVars, screens, answers
<1>4. ASSUME NEW r \in Requests, Recheck(r)
      PROVE  AnswerInv'
  BY <1>0, <1>4 DEF AnswerInv, Online, TypeOK, Recheck, Return, Goto, db, connVars, hubVars,
                    chanVars, screens, answers
<1>5. ASSUME NEW r \in Requests, ReadMembers(r)
      PROVE  AnswerInv'
  BY <1>0, <1>5 DEF AnswerInv, Online, TypeOK, ReadMembers, Goto, db, connVars, hubVars,
                    chanVars, screens, answers
<1>6. ASSUME NEW r \in Requests, StatementFails(r)
      PROVE  AnswerInv'
  BY <1>0, <1>6 DEF AnswerInv, Online, TypeOK, StatementFails, Return, Goto, db, connVars,
                    hubVars, chanVars, screens, answers
<1>7. ASSUME NEW r \in Requests, BeginIteration(r)
      PROVE  AnswerInv'
  BY <1>0, <1>7 DEF AnswerInv, Online, TypeOK, BeginIteration, Goto, db, connVars, hubVars,
                    chanVars, screens, answers
<1>8. ASSUME NEW r \in Requests, Panic(r)
      PROVE  AnswerInv'
  BY <1>0, <1>8 DEF AnswerInv, Online, TypeOK, Panic, Return, Goto, db, connVars, hubVars,
                    chanVars, screens, answers
<1>9. ASSUME NEW r \in Requests, EndIteration(r)
      PROVE  AnswerInv'
  BY <1>0, <1>9 DEF AnswerInv, Online, TypeOK, EndIteration, Return, Goto, db, connVars,
                    hubVars, chanVars, screens, answers
<1>10. ASSUME NEW r \in Requests, ReceiveEvict(r)
       PROVE  AnswerInv'
  BY <1>0, <1>10 DEF AnswerInv, Online, TypeOK, ReceiveEvict, Goto, Receive, db, connVars,
                     chanVars, screens, answers
<1>11. ASSUME NEW r \in Requests, NEW c \in Conns, Deliver(r, c)
       PROVE  AnswerInv'
  BY <1>0, <1>11 DEF AnswerInv, Online, TypeOK, Deliver, db, connVars, hubVars, answers
<1>12. ASSUME NEW r \in Requests, NEW c \in Conns, Evict(r, c)
       PROVE  AnswerInv'
  BY <1>0, <1>12 DEF AnswerInv, Online, TypeOK, Evict, Goto, db, connVars, hubVars, screens,
                     answers
<1>13. ASSUME NEW c \in Conns, WriteNext(c)
       PROVE  AnswerInv'
  BY <1>0, <1>13 DEF AnswerInv, Online, TypeOK, WriteNext, db, callVars, connVars, hubVars,
                     screens, answers
<1>14. ASSUME NEW c \in Conns, ReceiveRegister(c)
       PROVE  AnswerInv'
  BY <1>0, <1>14 DEF AnswerInv, Online, TypeOK, ReceiveRegister, Receive, db, callVars,
                     chanVars, screens, answers
<1>15. ASSUME NEW c \in Conns, ReceiveExit(c)
       PROVE  AnswerInv'
  BY <1>0, <1>15 DEF AnswerInv, Online, TypeOK, ReceiveExit, Receive, db, callVars, chanVars,
                     screens, answers
<1>16. ASSUME NEW c \in Conns, Announce(c)
       PROVE  AnswerInv'
  BY <1>0, <1>16 DEF AnswerInv, Online, TypeOK, Announce, db, callVars, connVars, answers
<1>17. ASSUME NEW c \in Conns, FetchOnline(c)
       PROVE  AnswerInv'
  <2>1. /\ asking' = asking \cup {c} /\ snapshot' = [snapshot EXCEPT ![c] = Online(clients)]
        /\ c \in Conns \ asking /\ UNCHANGED <<owner, clients, since>>
    BY <1>17 DEF FetchOnline, connVars, hubVars
  <2>2. Online(clients)' = Online(clients)
    BY <2>1 DEF Online
  <2>3. ASSUME NEW d \in asking', NEW v \in Users \ since'[d]
        PROVE  v \in snapshot'[d] <=> v \in Online(clients)
    BY <1>0, <2>1, <2>3 DEF TypeOK, AnswerInv
  <2> QED BY <2>2, <2>3 DEF AnswerInv
<1>18. ASSUME NEW c \in Conns, ShowOnline(c)
       PROVE  AnswerInv'
  BY <1>0, <1>18 DEF AnswerInv, Online, TypeOK, ShowOnline, db, callVars, connVars, hubVars,
                     chanVars
<1>19. CASE HubRegister
  <2>1. owner' = owner /\ asking' \subseteq asking
    BY <1>19 DEF HubRegister, connVars
  <2>2. Online(clients)' = Online(clients')
    BY <2>1 DEF Online
  <2>3. ASSUME NEW d \in asking', NEW v \in Users \ since'[d]
        PROVE  v \in snapshot'[d] <=> v \in Online(clients)'
    <3>1. d \in asking /\ d \in Conns
      BY <1>0, <2>1, <2>3 DEF TypeOK
    <3>2. /\ snapshot'[d] = snapshot[d] /\ v \notin since[d]
          /\ v \in Online(clients') <=> v \in Online(clients)
      BY <1>19, <2>3, <3>1 DEF HubRegister, StatusChanges
    <3> QED BY <1>0, <2>2, <3>1, <3>2 DEF AnswerInv
  <2> QED BY <2>3 DEF AnswerInv
<1>20. CASE HubUnregister
  <2>1. owner' = owner /\ asking' \subseteq asking
    BY <1>20 DEF HubUnregister, Blank, connVars
  <2>2. Online(clients)' = Online(clients')
    BY <2>1 DEF Online
  <2>3. ASSUME NEW d \in asking', NEW v \in Users \ since'[d]
        PROVE  v \in snapshot'[d] <=> v \in Online(clients)'
    <3>1. d \in asking /\ d \in Conns
      BY <1>0, <2>1, <2>3 DEF TypeOK
    <3>2. /\ snapshot'[d] = snapshot[d] /\ v \notin since[d]
          /\ v \in Online(clients') <=> v \in Online(clients)
      BY <1>20, <2>3, <3>1 DEF HubUnregister, Blank, StatusChanges
    <3> QED BY <1>0, <2>2, <3>1, <3>2 DEF AnswerInv
  <2> QED BY <2>3 DEF AnswerInv
<1>21. CASE EndAnnounce
  BY <1>0, <1>21 DEF AnswerInv, Online, TypeOK, EndAnnounce, BackToSelect, db, callVars,
                     connVars, chanVars, screens, answers
<1>22. CASE Die
  <2>1. asking' = {}
    BY <1>0, <1>22 DEF TypeOK, Die, Blank
  <2> QED BY <2>1 DEF AnswerInv
<1>23. ASSUME NEW u \in Users, Join(u)
       PROVE  AnswerInv'
  BY <1>0, <1>23 DEF AnswerInv, Online, TypeOK, Join, callVars, connVars, hubVars, chanVars,
                     screens, answers
<1>24. ASSUME NEW u \in Users, Leave(u)
       PROVE  AnswerInv'
  BY <1>0, <1>24 DEF AnswerInv, Online, TypeOK, Leave, callVars, connVars, hubVars, chanVars,
                     screens, answers
<1>25. CASE UNCHANGED vars
  BY <1>0, <1>25 DEF AnswerInv, Online, TypeOK, vars, db, callVars, connVars, hubVars,
                     chanVars, screens, answers
<1> QED BY <1>1, <1>2, <1>3, <1>4, <1>5, <1>6, <1>7, <1>8, <1>9, <1>10, <1>11, <1>12, <1>13,
           <1>14, <1>15, <1>16, <1>17, <1>18, <1>19, <1>20, <1>21, <1>22, <1>23, <1>24,
           <1>25 DEF Next, Call, Request, Connection

-----------------------------------------------------------------------------
\* The invariant is inductive.
LEMMA Invariance == Spec => []Inv
<1>1. Inv /\ [Next]_vars => Inv'
  BY TypeStep, CallStep, HubStep, SteadyStep, StoredStep, ReachStep, ShownStep,
     AnswerStep
  DEF Inv
<1> QED BY InitInv, <1>1, PTL DEF Spec

-----------------------------------------------------------------------------
\* Every variable has its type in every reachable state; in particular a send channel never holds
\* more than its capacity.
THEOREM TypeCorrect == Spec => []TypeOK
<1>1. Inv => TypeOK
  BY DEF Inv
<1> QED BY <1>1, Invariance, PTL

\* While MarkAsRead tells a read receipt the database holds it, unless its user left the chat or
\* marked messages twice at a time.
THEOREM StoredCorrect == Spec => []ReceiptIsStored
<1>1. Inv => ReceiptIsStored
  BY DEF Inv
<1> QED BY <1>1, Invariance, PTL

\* Whenever Hub.Run is back at its select, every registered client that asked GET /online takes
\* the right users for online, however the reading of its answers, their showing, the changes of
\* the map and the statuses interleave; but for a user whose last status was dropped at its full
\* buffer, or came while an answer was on its way.
THEOREM PresenceCorrect == Spec => []PresenceShown
<1>1. Inv => PresenceShown
  BY DEF Inv, ShownInv, PresenceShown, Pending
<1> QED BY <1>1, Invariance, PTL

\* A broadcast that comes to its end has reached every registered connection of every other member
\* it read, whatever full buffers it met, and nothing since has hidden it.
THEOREM ReachedCorrect == Spec => ReceiptReachesAll
<1>1. Inv /\ [Next]_vars
        => [\A r \in steady :
              EndIteration(r) =>
                \A c \in clients \ (closed \cup recycled) :
                  owner[c] \in to[r] /\ owner[c] # req[r].user =>
                    reads[c][req[r].user] = req[r].id]_vars
  <2> SUFFICES ASSUME Inv, NEW r \in steady, EndIteration(r),
                      NEW c \in clients \ (closed \cup recycled),
                      owner[c] \in to[r], owner[c] # req[r].user
               PROVE  reads[c][req[r].user] = req[r].id
    OBVIOUS
  <2>1. pc[r] \in InLoop /\ todo[r] = {} /\ owner[c] \in Recipients(r)
    BY DEF EndIteration, InLoop, Recipients
  <2> QED BY <2>1 DEF Inv, ReachInv, ReachOK
<1> QED BY <1>1, Invariance, PTL DEF Spec, ReceiptReachesAll

=============================================================================
