--------------------------- MODULE RoomKeysProofs ---------------------------
(***************************************************************************)
(* The safety properties of RoomKeys for any number of users, calls and    *)
(* rows, with failing statements, and the refinement of KeyRegister.       *)
(***************************************************************************)
EXTENDS RoomKeys, FiniteSetTheorems, WellFoundedInduction, TLAPS

\* What a call carries from one statement to the next.
CallInv ==
  \A r \in Calls :
    /\ pc[r] # "idle" => user[r] \in Users
    /\ IF pc[r] \in Saving THEN body[r] \in ChatKey ELSE body[r] = None
    /\ pc[r] \in {"update", "commit"} => row[r] \in RowIds

\* Past a check, the user it asked for was a member during the call.
SaveInv ==
  \A r \in Calls :
    /\ pc[r] \in Saving => members \subseteq ever[r]
    /\ pc[r] \in Saving \ {"checkCaller"} => user[r] \in ever[r]
    /\ pc[r] \in Saving \ {"checkCaller", "checkTarget"} => body[r].user \in ever[r]

\* What GetChatKeys has to answer of a user.
KeyOf(u) ==
  IF u \in members /\ profile[u].public # Blank
  THEN {[user |-> u, key |-> profile[u].public]} ELSE {}

\* What it has collected is that, of every user it has looked up, and the others are members.
ListInv ==
  \A r \in Calls :
    /\ pc[r] # "collect" => keys[r] = {} /\ todo[r] = {}
    /\ pc[r] = "collect" =>
         \A u \in Users \ unsure[r] :
           /\ u \in todo[r] => u \in members
           /\ {k \in keys[r] : k.user = u} = IF u \in todo[r] THEN {} ELSE KeyOf(u)

\* A save updates the first row of its key, or inserts the first one, unless another save
\* has committed one since it looked.
RowInv ==
  /\ \A i \in RowIds : rows[i] # None => i <= lastRow
  /\ \A r \in Calls :
       /\ pc[r] = "update" =>
            /\ row[r] \in RowsOf(body[r].user)
            /\ \A i \in RowsOf(body[r].user) : row[r] <= i \/ r \in beaten
       /\ pc[r] \in {"insert", "commit"} => RowsOf(body[r].user) = {} \/ r \in beaten
       /\ pc[r] = "commit" => row[r] <= lastRow /\ rows[row[r]] = None
  /\ \A r, q \in Calls :
       pc[r] = "commit" /\ pc[q] = "commit" /\ row[r] = row[q] => r = q

Inv ==
  /\ TypeOK
  /\ CallInv
  /\ SaveInv
  /\ ListInv
  /\ RowInv

-----------------------------------------------------------------------------
\* The initial segments of the natural numbers are ordered by inclusion as their ends are.
LEMMA SmallestRow ==
  ASSUME NEW T \in SUBSET RowIds, T # {}
  PROVE  \E i \in T : \A j \in T : i <= j
<1> DEFINE Segments == {1..i : i \in T}
           Less == StrictSubsetOrdering(Nat)
<1>1. T \subseteq Nat
  BY RoomKeysAssumption DEF RowIds
<1>2. Segments \subseteq FiniteSubsetsOf(Nat)
  <2>1. ASSUME NEW i \in T
        PROVE  1..i \in SUBSET Nat /\ IsFiniteSet(1..i)
    BY <1>1, FS_Interval
  <2> QED BY <2>1 DEF FiniteSubsetsOf
<1>3. \E s \in Segments : \A t \in Segments : <<t, s>> \notin Less
  <2>1. Segments # {}
    OBVIOUS
  <2> HIDE DEF Segments, Less
  <2>2. IsWellFoundedOn(Less, FiniteSubsetsOf(Nat))
    BY FS_StrictSubsetOrderingWellFounded DEF Less
  <2> QED BY <1>2, <2>1, <2>2, WFMin
<1>4. PICK i \in T : \A j \in T : <<1..j, 1..i>> \notin Less
  BY <1>3
<1>5. ASSUME NEW j \in T, ~(i <= j)
      PROVE  FALSE
  <2>1. i \in Nat /\ j \in Nat /\ j < i
    BY <1>1, <1>5
  <2>2. 1..j \subseteq 1..i /\ i \in 1..i /\ i \notin 1..j
    BY <2>1
  <2>3. <<1..j, 1..i>> \in Less
    BY <2>1, <2>2 DEF StrictSubsetOrdering
  <2> QED BY <1>4, <2>3
<1> QED BY <1>5

\* First finds the row with the lowest id.
LEMMA FirstRow ==
  ASSUME NEW u, RowsOf(u) # {}
  PROVE  First(u) \in RowsOf(u) /\ \A i \in RowsOf(u) : First(u) <= i
<1>1. RowsOf(u) \in SUBSET RowIds
  BY DEF RowsOf
<1> QED BY <1>1, SmallestRow DEF First

-----------------------------------------------------------------------------
\* Init establishes the invariant.
LEMMA InitInv == Init => Inv
BY RoomKeysAssumption
   DEF Init, Inv, TypeOK, CallInv, SaveInv, ListInv, RowInv, RowsOf, RowIds, Profile, Keys, Saving,
       Reading

\* Every step keeps the types.
LEMMA TypeStep ==
  ASSUME Inv, [Next]_vars
  PROVE  TypeOK'
<1> USE RoomKeysAssumption
<1>0. TypeOK /\ CallInv /\ family' = family
  BY DEF Inv, Next, vars
<1>1. ASSUME NEW r \in Calls, NEW u \in Users, Begin(r, u)
      PROVE  TypeOK'
  BY <1>0, <1>1 DEF TypeOK, Profile, Keys, ChatKey, CallInv, Saving, Reading, db,
                    saveVars, readVars, Begin, Goto
<1>2. ASSUME NEW r \in Calls, OtherHandler(r)
      PROVE  TypeOK'
  BY <1>0, <1>2 DEF TypeOK, Profile, Keys, ChatKey, CallInv, Saving, Reading, db,
                    saveVars, readVars, OtherHandler, Answer, End, Goto
<1>3. ASSUME NEW r \in Calls, UpdatePublicKey(r)
      PROVE  TypeOK'
  BY <1>0, <1>3 DEF TypeOK, Profile, Keys, ChatKey, CallInv, Saving, Reading, db,
                    saveVars, readVars, UpdatePublicKey, NoteChange, End, Goto
<1>4. ASSUME NEW r \in Calls, NEW b \in BOOLEAN, SaveBackup(r, b)
      PROVE  TypeOK'
  <2>1. user[r] \in Users /\ profile[user[r]] \in Profile
    BY <1>0, <1>4 DEF TypeOK, CallInv, SaveBackup
  <2>2. profile' \in [Users -> Profile]
    BY <1>0, <1>4, <2>1 DEF TypeOK, Profile, SaveBackup
  <2> QED BY <1>0, <1>4, <2>2 DEF TypeOK, saveVars, readVars, SaveBackup, Answer, End, Goto
<1>5. ASSUME NEW r \in Calls, GetChatKeys(r)
      PROVE  TypeOK'
  BY <1>0, <1>5 DEF TypeOK, Profile, Keys, ChatKey, CallInv, Saving, Reading, db,
                    saveVars, readVars, GetChatKeys, Goto
<1>6. ASSUME NEW r \in Calls, NEW u \in Users, NEW k \in {r, Blank}, SaveRoomKey(r, u, k)
      PROVE  TypeOK'
  BY <1>0, <1>6 DEF TypeOK, Profile, Keys, ChatKey, CallInv, Saving, Reading, db,
                    saveVars, readVars, SaveRoomKey, Goto
<1>7. ASSUME NEW r \in Calls, Sync(r)
      PROVE  TypeOK'
  BY <1>0, <1>7 DEF TypeOK, Profile, Keys, ChatKey, CallInv, Saving, Reading, db,
                    saveVars, readVars, Sync, Assigned, Goto
<1>8. ASSUME NEW r \in Calls, StatementFails(r)
      PROVE  TypeOK'
  BY <1>0, <1>8 DEF TypeOK, Profile, Keys, ChatKey, CallInv, Saving, Reading, db,
                    saveVars, readVars, StatementFails, Answer, End, Goto
<1>9. ASSUME NEW r \in Calls, CheckCaller(r)
      PROVE  TypeOK'
  <2>1. CASE Goto(r, "checkTarget") /\ UNCHANGED <<user, seen, saveVars, readVars, accepted, beaten>>
    BY <1>0, <1>9, <2>1 DEF TypeOK, Saving, Reading, db, saveVars, readVars, CheckCaller, Check,
                            Goto
  <2>2. CASE Answer(r, FALSE) /\ beaten' = beaten \ {r}
    BY <1>0, <1>9, <2>2 DEF TypeOK, Saving, Reading, db, saveVars, readVars, CheckCaller, Check,
                            Answer, End, Goto
  <2> QED BY <1>9, <2>1, <2>2 DEF CheckCaller, Check
<1>10. ASSUME NEW r \in Calls, CheckTarget(r)
       PROVE  TypeOK'
  <2>1. CASE Goto(r, "find") /\ UNCHANGED <<user, seen, saveVars, readVars, accepted, beaten>>
    BY <1>0, <1>10, <2>1 DEF TypeOK, Saving, Reading, db, saveVars, readVars, CheckTarget, Check,
                             Goto
  <2>2. CASE Answer(r, FALSE) /\ beaten' = beaten \ {r}
    BY <1>0, <1>10, <2>2 DEF TypeOK, Saving, Reading, db, saveVars, readVars, CheckTarget, Check,
                             Answer, End, Goto
  <2> QED BY <1>10, <2>1, <2>2 DEF CheckTarget, Check
<1>11. ASSUME NEW r \in Calls, Find(r)
       PROVE  TypeOK'
  <2>1. row' \in [Calls -> RowIds \cup {0}]
    BY <1>0, <1>11, FirstRow DEF TypeOK, Find, RowsOf
  <2> QED BY <1>0, <1>11, <2>1 DEF TypeOK, Saving, db, readVars, Find, Goto
<1>12. ASSUME NEW r \in Calls, Update(r)
       PROVE  TypeOK'
  BY <1>0, <1>12 DEF TypeOK, Profile, Keys, ChatKey, CallInv, Saving, Reading, db,
                     saveVars, readVars, Update, Saved, Answer, End, Goto
<1>13. ASSUME NEW r \in Calls, Insert(r)
       PROVE  TypeOK'
  BY <1>0, <1>13 DEF TypeOK, Profile, Keys, ChatKey, CallInv, Saving, Reading, db,
                     saveVars, readVars, Insert, Goto, RowIds
<1>14. ASSUME NEW r \in Calls, Commit(r)
       PROVE  TypeOK'
  BY <1>0, <1>14 DEF TypeOK, Profile, Keys, ChatKey, CallInv, Saving, Reading, db,
                     saveVars, readVars, Commit, Saved, Answer, End, Goto
<1>15. ASSUME NEW r \in Calls, CheckReader(r)
       PROVE  TypeOK'
  <2>1. CASE Goto(r, "readMembers") /\ UNCHANGED <<user, seen, saveVars, readVars, accepted, beaten>>
    BY <1>0, <1>15, <2>1 DEF TypeOK, Saving, Reading, db, saveVars, readVars, CheckReader, Check,
                             Goto
  <2>2. CASE Answer(r, FALSE) /\ beaten' = beaten \ {r}
    BY <1>0, <1>15, <2>2 DEF TypeOK, Saving, Reading, db, saveVars, readVars, CheckReader, Check,
                             Answer, End, Goto
  <2> QED BY <1>15, <2>1, <2>2 DEF CheckReader, Check
<1>16. ASSUME NEW r \in Calls, ReadMembers(r)
       PROVE  TypeOK'
  BY <1>0, <1>16 DEF TypeOK, Profile, Keys, ChatKey, CallInv, Saving, Reading, db,
                     saveVars, readVars, ReadMembers, Goto
<1>17. ASSUME NEW r \in Calls, AnswerKeys(r)
       PROVE  TypeOK'
  BY <1>0, <1>17 DEF TypeOK, Profile, Keys, ChatKey, CallInv, Saving, Reading, db,
                     saveVars, readVars, AnswerKeys, Answer, End, Goto
<1>18. ASSUME NEW r \in Calls, NEW u \in Users, Collect(r, u)
       PROVE  TypeOK'
  BY <1>0, <1>18 DEF TypeOK, Profile, Keys, ChatKey, CallInv, Saving, Reading, db,
                     saveVars, readVars, Collect, Remaining
<1>19. ASSUME NEW r \in Calls, NEW u \in Users, Skip(r, u)
       PROVE  TypeOK'
  BY <1>0, <1>19 DEF TypeOK, Profile, Keys, ChatKey, CallInv, Saving, Reading, db,
                     saveVars, readVars, Skip
<1>20. ASSUME NEW u \in Users, Join(u) \/ Leave(u)
       PROVE  TypeOK'
  <2>1. ever' \in [Calls -> SUBSET Users] /\ unsure' \in [Calls -> SUBSET Users]
    BY <1>0, <1>20 DEF TypeOK, Join, Leave, Move, NoteChange
  <2>2. members' \in SUBSET Users /\ moves' \in 0..MaxMoves
    BY <1>0, <1>20 DEF TypeOK, Join, Leave, Move
  <2> QED BY <1>0, <1>20, <2>1, <2>2 DEF TypeOK, Join, Leave, Move
<1>21. CASE UNCHANGED vars
  BY <1>0, <1>21 DEF TypeOK, Profile, Keys, ChatKey, CallInv, Saving, Reading, db,
                     saveVars, readVars, vars
<1> QED BY <1>0, <1>1, <1>2, <1>3, <1>4, <1>5, <1>6, <1>7, <1>8, <1>9, <1>10, <1>11,
           <1>12, <1>13, <1>14, <1>15, <1>16, <1>17, <1>18, <1>19, <1>20, <1>21 DEF Next, Client, Serve

\* Every step keeps what calls carry.
LEMMA CallStep ==
  ASSUME Inv, [Next]_vars
  PROVE  CallInv'
<1> USE RoomKeysAssumption
<1>0. TypeOK /\ CallInv
  BY DEF Inv
<1>1. ASSUME NEW r \in Calls, NEW u \in Users, Begin(r, u)
      PROVE  CallInv'
  BY <1>0, <1>1 DEF TypeOK, Keys, ChatKey, CallInv, Saving, Reading, db, saveVars,
                    readVars, Begin, Goto
<1>2. ASSUME NEW r \in Calls, OtherHandler(r)
      PROVE  CallInv'
  BY <1>0, <1>2 DEF TypeOK, Keys, ChatKey, CallInv, Saving, Reading, db, saveVars,
                    readVars, OtherHandler, Answer, End, Goto
<1>3. ASSUME NEW r \in Calls, UpdatePublicKey(r)
      PROVE  CallInv'
  BY <1>0, <1>3 DEF TypeOK, Keys, ChatKey, CallInv, Saving, Reading, db, saveVars,
                    readVars, UpdatePublicKey, NoteChange, End, Goto
<1>4. ASSUME NEW r \in Calls, NEW b \in BOOLEAN, SaveBackup(r, b)
      PROVE  CallInv'
  BY <1>0, <1>4 DEF TypeOK, Keys, ChatKey, CallInv, Saving, Reading, db, saveVars,
                    readVars, SaveBackup, Answer, End, Goto
<1>5. ASSUME NEW r \in Calls, GetChatKeys(r)
      PROVE  CallInv'
  BY <1>0, <1>5 DEF TypeOK, Keys, ChatKey, CallInv, Saving, Reading, db, saveVars,
                    readVars, GetChatKeys, Goto
<1>6. ASSUME NEW r \in Calls, NEW u \in Users, NEW k \in {r, Blank}, SaveRoomKey(r, u, k)
      PROVE  CallInv'
  BY <1>0, <1>6 DEF TypeOK, Keys, ChatKey, CallInv, Saving, Reading, db, saveVars,
                    readVars, SaveRoomKey, Goto
<1>7. ASSUME NEW r \in Calls, Sync(r)
      PROVE  CallInv'
  BY <1>0, <1>7 DEF TypeOK, Keys, ChatKey, CallInv, Saving, Reading, db, saveVars,
                    readVars, Sync, Assigned, Goto
<1>8. ASSUME NEW r \in Calls, StatementFails(r)
      PROVE  CallInv'
  BY <1>0, <1>8 DEF TypeOK, Keys, ChatKey, CallInv, Saving, Reading, db, saveVars,
                    readVars, StatementFails, Answer, End, Goto
<1>9. ASSUME NEW r \in Calls, CheckCaller(r)
      PROVE  CallInv'
  BY <1>0, <1>9 DEF TypeOK, Keys, ChatKey, CallInv, Saving, Reading, db, saveVars,
                    readVars, CheckCaller, Check, Answer, End, Goto
<1>10. ASSUME NEW r \in Calls, CheckTarget(r)
       PROVE  CallInv'
  BY <1>0, <1>10 DEF TypeOK, Keys, ChatKey, CallInv, Saving, Reading, db, saveVars,
                     readVars, CheckTarget, Target, Check, Answer, End, Goto
<1>11. ASSUME NEW r \in Calls, Find(r)
       PROVE  CallInv'
  BY <1>0, <1>11, FirstRow DEF TypeOK, CallInv, RowsOf, Saving, db, readVars, Find, Goto
<1>12. ASSUME NEW r \in Calls, Update(r)
       PROVE  CallInv'
  BY <1>0, <1>12 DEF TypeOK, Keys, ChatKey, CallInv, Saving, Reading, db, saveVars,
                     readVars, Update, Saved, Answer, End, Goto
<1>13. ASSUME NEW r \in Calls, Insert(r)
       PROVE  CallInv'
  BY <1>0, <1>13 DEF TypeOK, Keys, ChatKey, CallInv, Saving, Reading, db, saveVars,
                     readVars, Insert, Goto, RowIds
<1>14. ASSUME NEW r \in Calls, Commit(r)
       PROVE  CallInv'
  BY <1>0, <1>14 DEF TypeOK, Keys, ChatKey, CallInv, Saving, Reading, db, saveVars,
                     readVars, Commit, Saved, Answer, End, Goto
<1>15. ASSUME NEW r \in Calls, CheckReader(r)
       PROVE  CallInv'
  BY <1>0, <1>15 DEF TypeOK, Keys, ChatKey, CallInv, Saving, Reading, db, saveVars,
                     readVars, CheckReader, Check, Answer, End, Goto
<1>16. ASSUME NEW r \in Calls, ReadMembers(r)
       PROVE  CallInv'
  BY <1>0, <1>16 DEF TypeOK, Keys, ChatKey, CallInv, Saving, Reading, db, saveVars,
                     readVars, ReadMembers, Goto
<1>17. ASSUME NEW r \in Calls, AnswerKeys(r)
       PROVE  CallInv'
  BY <1>0, <1>17 DEF TypeOK, Keys, ChatKey, CallInv, Saving, Reading, db, saveVars,
                     readVars, AnswerKeys, Answer, End, Goto
<1>18. ASSUME NEW r \in Calls, NEW u \in Users, Collect(r, u)
       PROVE  CallInv'
  BY <1>0, <1>18 DEF TypeOK, Keys, ChatKey, CallInv, Saving, Reading, db, saveVars,
                     readVars, Collect, Remaining
<1>19. ASSUME NEW r \in Calls, NEW u \in Users, Skip(r, u)
       PROVE  CallInv'
  BY <1>0, <1>19 DEF TypeOK, Keys, ChatKey, CallInv, Saving, Reading, db, saveVars,
                     readVars, Skip
<1>20. ASSUME NEW u \in Users, Join(u) \/ Leave(u)
       PROVE  CallInv'
  BY <1>0, <1>20 DEF TypeOK, Keys, ChatKey, CallInv, Saving, Reading, db, saveVars,
                     readVars, Join, Leave, Move, NoteChange
<1>21. CASE UNCHANGED vars
  BY <1>0, <1>21 DEF TypeOK, Keys, ChatKey, CallInv, Saving, Reading, db, saveVars,
                     readVars, vars
<1> QED BY <1>0, <1>1, <1>2, <1>3, <1>4, <1>5, <1>6, <1>7, <1>8, <1>9, <1>10, <1>11,
           <1>12, <1>13, <1>14, <1>15, <1>16, <1>17, <1>18, <1>19, <1>20, <1>21 DEF Next, Client, Serve

\* Every step keeps the users of a save among those who were members during it.
LEMMA SaveStep ==
  ASSUME Inv, [Next]_vars
  PROVE  SaveInv'
<1>0. TypeOK /\ CallInv /\ SaveInv
  BY DEF Inv
<1>1. ASSUME NEW r \in Calls, NEW u \in Users, Begin(r, u)
      PROVE  SaveInv'
  BY <1>0, <1>1 DEF TypeOK, CallInv, SaveInv, Saving, db, saveVars, readVars, Begin,
                    Goto
<1>2. ASSUME NEW r \in Calls, OtherHandler(r)
      PROVE  SaveInv'
  BY <1>0, <1>2 DEF TypeOK, CallInv, SaveInv, Saving, db, saveVars, readVars,
                    OtherHandler, Answer, End, Goto
<1>3. ASSUME NEW r \in Calls, UpdatePublicKey(r)
      PROVE  SaveInv'
  BY <1>0, <1>3 DEF TypeOK, CallInv, SaveInv, Saving, db, saveVars, readVars,
                    UpdatePublicKey, NoteChange, End, Goto
<1>4. ASSUME NEW r \in Calls, NEW b \in BOOLEAN, SaveBackup(r, b)
      PROVE  SaveInv'
  BY <1>0, <1>4 DEF TypeOK, CallInv, SaveInv, Saving, db, saveVars, readVars, SaveBackup,
                    Answer, End, Goto
<1>5. ASSUME NEW r \in Calls, GetChatKeys(r)
      PROVE  SaveInv'
  BY <1>0, <1>5 DEF TypeOK, CallInv, SaveInv, Saving, db, saveVars, readVars,
                    GetChatKeys, Goto
<1>6. ASSUME NEW r \in Calls, NEW u \in Users, NEW k \in {r, Blank}, SaveRoomKey(r, u, k)
      PROVE  SaveInv'
  BY <1>0, <1>6 DEF TypeOK, CallInv, SaveInv, Saving, db, saveVars, readVars,
                    SaveRoomKey, Goto
<1>7. ASSUME NEW r \in Calls, Sync(r)
      PROVE  SaveInv'
  BY <1>0, <1>7 DEF TypeOK, CallInv, SaveInv, Saving, db, saveVars, readVars, Sync,
                    Assigned, Goto
<1>8. ASSUME NEW r \in Calls, StatementFails(r)
      PROVE  SaveInv'
  BY <1>0, <1>8 DEF TypeOK, CallInv, SaveInv, Saving, db, saveVars, readVars,
                    StatementFails, Answer, End, Goto
<1>9. ASSUME NEW r \in Calls, CheckCaller(r)
      PROVE  SaveInv'
  BY <1>0, <1>9 DEF TypeOK, CallInv, SaveInv, Saving, db, saveVars, readVars,
                    CheckCaller, Check, Answer, End, Goto
<1>10. ASSUME NEW r \in Calls, CheckTarget(r)
       PROVE  SaveInv'
  BY <1>0, <1>10 DEF TypeOK, CallInv, SaveInv, Saving, db, saveVars, readVars,
                     CheckTarget, Target, Check, Answer, End, Goto
<1>11. ASSUME NEW r \in Calls, Find(r)
       PROVE  SaveInv'
  BY <1>0, <1>11 DEF TypeOK, CallInv, SaveInv, Saving, db, saveVars, readVars, Find,
                     Goto
<1>12. ASSUME NEW r \in Calls, Update(r)
       PROVE  SaveInv'
  BY <1>0, <1>12 DEF TypeOK, CallInv, SaveInv, Saving, db, saveVars, readVars, Update,
                     Saved, Answer, End, Goto
<1>13. ASSUME NEW r \in Calls, Insert(r)
       PROVE  SaveInv'
  BY <1>0, <1>13 DEF TypeOK, CallInv, SaveInv, Saving, db, saveVars, readVars, Insert,
                     Goto
<1>14. ASSUME NEW r \in Calls, Commit(r)
       PROVE  SaveInv'
  BY <1>0, <1>14 DEF TypeOK, CallInv, SaveInv, Saving, db, saveVars, readVars, Commit,
                     Saved, Answer, End, Goto
<1>15. ASSUME NEW r \in Calls, CheckReader(r)
       PROVE  SaveInv'
  BY <1>0, <1>15 DEF TypeOK, CallInv, SaveInv, Saving, db, saveVars, readVars,
                     CheckReader, Check, Answer, End, Goto
<1>16. ASSUME NEW r \in Calls, ReadMembers(r)
       PROVE  SaveInv'
  BY <1>0, <1>16 DEF TypeOK, CallInv, SaveInv, Saving, db, saveVars, readVars,
                     ReadMembers, Goto
<1>17. ASSUME NEW r \in Calls, AnswerKeys(r)
       PROVE  SaveInv'
  BY <1>0, <1>17 DEF TypeOK, CallInv, SaveInv, Saving, db, saveVars, readVars,
                     AnswerKeys, Answer, End, Goto
<1>18. ASSUME NEW r \in Calls, NEW u \in Users, Collect(r, u)
       PROVE  SaveInv'
  BY <1>0, <1>18 DEF TypeOK, CallInv, SaveInv, Saving, db, saveVars, readVars, Collect,
                     Remaining
<1>19. ASSUME NEW r \in Calls, NEW u \in Users, Skip(r, u)
       PROVE  SaveInv'
  BY <1>0, <1>19 DEF TypeOK, CallInv, SaveInv, Saving, db, saveVars, readVars, Skip
<1>20. ASSUME NEW u \in Users, Join(u) \/ Leave(u)
       PROVE  SaveInv'
  BY <1>0, <1>20 DEF TypeOK, CallInv, SaveInv, Saving, db, saveVars, readVars, Join,
                     Leave, Move, NoteChange
<1>21. CASE UNCHANGED vars
  BY <1>0, <1>21 DEF TypeOK, CallInv, SaveInv, Saving, db, saveVars, readVars, vars
<1> QED BY <1>0, <1>1, <1>2, <1>3, <1>4, <1>5, <1>6, <1>7, <1>8, <1>9, <1>10, <1>11,
           <1>12, <1>13, <1>14, <1>15, <1>16, <1>17, <1>18, <1>19, <1>20, <1>21 DEF Next, Client, Serve

\* Every step keeps the keys that GetChatKeys has collected.
LEMMA ListStep ==
  ASSUME Inv, [Next]_vars
  PROVE  ListInv'
<1>0. TypeOK /\ CallInv /\ ListInv
  BY DEF Inv
<1>1. ASSUME NEW r \in Calls, NEW u \in Users, Begin(r, u)
      PROVE  ListInv'
  BY <1>0, <1>1 DEF TypeOK, CallInv, ListInv, KeyOf, Reading, db, saveVars, readVars,
                    Begin, Goto
<1>2. ASSUME NEW r \in Calls, OtherHandler(r)
      PROVE  ListInv'
  BY <1>0, <1>2 DEF TypeOK, CallInv, ListInv, KeyOf, Reading, db, saveVars, readVars,
                    OtherHandler, Answer, End, Goto
<1>3. ASSUME NEW r \in Calls, UpdatePublicKey(r)
      PROVE  ListInv'
  BY <1>0, <1>3 DEF TypeOK, CallInv, ListInv, KeyOf, Reading, db, saveVars, readVars,
                    UpdatePublicKey, NoteChange, End, Goto
<1>4. ASSUME NEW r \in Calls, NEW b \in BOOLEAN, SaveBackup(r, b)
      PROVE  ListInv'
  BY <1>0, <1>4 DEF TypeOK, CallInv, ListInv, KeyOf, Reading, db, saveVars, readVars,
                    SaveBackup, Answer, End, Goto
<1>5. ASSUME NEW r \in Calls, GetChatKeys(r)
      PROVE  ListInv'
  BY <1>0, <1>5 DEF TypeOK, CallInv, ListInv, KeyOf, Reading, db, saveVars, readVars,
                    GetChatKeys, Goto
<1>6. ASSUME NEW r \in Calls, NEW u \in Users, NEW k \in {r, Blank}, SaveRoomKey(r, u, k)
      PROVE  ListInv'
  BY <1>0, <1>6 DEF TypeOK, CallInv, ListInv, KeyOf, Reading, db, saveVars, readVars,
                    SaveRoomKey, Goto
<1>7. ASSUME NEW r \in Calls, Sync(r)
      PROVE  ListInv'
  BY <1>0, <1>7 DEF TypeOK, CallInv, ListInv, KeyOf, Reading, db, saveVars, readVars,
                    Sync, Assigned, Goto
<1>8. ASSUME NEW r \in Calls, StatementFails(r)
      PROVE  ListInv'
  BY <1>0, <1>8 DEF TypeOK, CallInv, ListInv, KeyOf, Reading, db, saveVars, readVars,
                    StatementFails, Answer, End, Goto
<1>9. ASSUME NEW r \in Calls, CheckCaller(r)
      PROVE  ListInv'
  BY <1>0, <1>9 DEF TypeOK, CallInv, ListInv, KeyOf, Reading, db, saveVars, readVars,
                    CheckCaller, Check, Answer, End, Goto
<1>10. ASSUME NEW r \in Calls, CheckTarget(r)
       PROVE  ListInv'
  BY <1>0, <1>10 DEF TypeOK, CallInv, ListInv, KeyOf, Reading, db, saveVars, readVars,
                     CheckTarget, Target, Check, Answer, End, Goto
<1>11. ASSUME NEW r \in Calls, Find(r)
       PROVE  ListInv'
  BY <1>0, <1>11 DEF TypeOK, CallInv, ListInv, KeyOf, Reading, db, saveVars, readVars,
                     Find, Goto
<1>12. ASSUME NEW r \in Calls, Update(r)
       PROVE  ListInv'
  BY <1>0, <1>12 DEF TypeOK, CallInv, ListInv, KeyOf, Reading, db, saveVars, readVars,
                     Update, Saved, Answer, End, Goto
<1>13. ASSUME NEW r \in Calls, Insert(r)
       PROVE  ListInv'
  BY <1>0, <1>13 DEF TypeOK, CallInv, ListInv, KeyOf, Reading, db, saveVars, readVars,
                     Insert, Goto
<1>14. ASSUME NEW r \in Calls, Commit(r)
       PROVE  ListInv'
  BY <1>0, <1>14 DEF TypeOK, CallInv, ListInv, KeyOf, Reading, db, saveVars, readVars,
                     Commit, Saved, Answer, End, Goto
<1>15. ASSUME NEW r \in Calls, CheckReader(r)
       PROVE  ListInv'
  BY <1>0, <1>15 DEF TypeOK, CallInv, ListInv, KeyOf, Reading, db, saveVars, readVars,
                     CheckReader, Check, Answer, End, Goto
<1>16. ASSUME NEW r \in Calls, ReadMembers(r)
       PROVE  ListInv'
  BY <1>0, <1>16 DEF TypeOK, CallInv, ListInv, KeyOf, Reading, db, saveVars, readVars,
                     ReadMembers, Goto
<1>17. ASSUME NEW r \in Calls, AnswerKeys(r)
       PROVE  ListInv'
  BY <1>0, <1>17 DEF TypeOK, CallInv, ListInv, KeyOf, Reading, db, saveVars, readVars,
                     AnswerKeys, Answer, End, Goto
<1>18. ASSUME NEW r \in Calls, NEW u \in Users, Collect(r, u)
       PROVE  ListInv'
  BY <1>0, <1>18 DEF TypeOK, CallInv, ListInv, KeyOf, Reading, db, saveVars, readVars,
                     Collect, Remaining
<1>19. ASSUME NEW r \in Calls, NEW u \in Users, Skip(r, u)
       PROVE  ListInv'
  BY <1>0, <1>19 DEF TypeOK, CallInv, ListInv, KeyOf, Reading, db, saveVars, readVars,
                     Skip
<1>20. ASSUME NEW u \in Users, Join(u) \/ Leave(u)
       PROVE  ListInv'
  BY <1>0, <1>20 DEF TypeOK, CallInv, ListInv, KeyOf, Reading, db, saveVars, readVars,
                     Join, Leave, Move, NoteChange
<1>21. CASE UNCHANGED vars
  BY <1>0, <1>21 DEF TypeOK, CallInv, ListInv, KeyOf, Reading, db, saveVars, readVars,
                     vars
<1> QED BY <1>0, <1>1, <1>2, <1>3, <1>4, <1>5, <1>6, <1>7, <1>8, <1>9, <1>10, <1>11,
           <1>12, <1>13, <1>14, <1>15, <1>16, <1>17, <1>18, <1>19, <1>20, <1>21 DEF Next, Client, Serve

\* Every step keeps what is known of the rows of a key.
LEMMA RowStep ==
  ASSUME Inv, [Next]_vars
  PROVE  RowInv'
<1> USE RoomKeysAssumption, NoneAssumption
<1>0. TypeOK /\ CallInv /\ RowInv
  BY DEF Inv
<1>1. ASSUME NEW r \in Calls, NEW u \in Users, Begin(r, u)
      PROVE  RowInv'
  BY <1>0, <1>1 DEF TypeOK, CallInv, RowInv, RowsOf, RowIds, Saving, db, saveVars,
                    readVars, Begin, Goto
<1>2. ASSUME NEW r \in Calls, OtherHandler(r)
      PROVE  RowInv'
  BY <1>0, <1>2 DEF TypeOK, CallInv, RowInv, RowsOf, RowIds, Saving, db, saveVars,
                    readVars, OtherHandler, Answer, End, Goto
<1>3. ASSUME NEW r \in Calls, UpdatePublicKey(r)
      PROVE  RowInv'
  BY <1>0, <1>3 DEF TypeOK, CallInv, RowInv, RowsOf, RowIds, Saving, db, saveVars,
                    readVars, UpdatePublicKey, NoteChange, End, Goto
<1>4. ASSUME NEW r \in Calls, NEW b \in BOOLEAN, SaveBackup(r, b)
      PROVE  RowInv'
  BY <1>0, <1>4 DEF TypeOK, CallInv, RowInv, RowsOf, RowIds, Saving, db, saveVars,
                    readVars, SaveBackup, Answer, End, Goto
<1>5. ASSUME NEW r \in Calls, GetChatKeys(r)
      PROVE  RowInv'
  BY <1>0, <1>5 DEF TypeOK, CallInv, RowInv, RowsOf, RowIds, Saving, db, saveVars,
                    readVars, GetChatKeys, Goto
<1>6. ASSUME NEW r \in Calls, NEW u \in Users, NEW k \in {r, Blank}, SaveRoomKey(r, u, k)
      PROVE  RowInv'
  BY <1>0, <1>6 DEF TypeOK, CallInv, RowInv, RowsOf, RowIds, Saving, db, saveVars,
                    readVars, SaveRoomKey, Goto
<1>7. ASSUME NEW r \in Calls, Sync(r)
      PROVE  RowInv'
  BY <1>0, <1>7 DEF TypeOK, CallInv, RowInv, RowsOf, RowIds, Saving, db, saveVars,
                    readVars, Sync, Assigned, Goto
<1>8. ASSUME NEW r \in Calls, StatementFails(r)
      PROVE  RowInv'
  BY <1>0, <1>8 DEF TypeOK, CallInv, RowInv, RowsOf, RowIds, Saving, db, saveVars,
                    readVars, StatementFails, Answer, End, Goto
<1>9. ASSUME NEW r \in Calls, CheckCaller(r)
      PROVE  RowInv'
  <2>1. CASE Goto(r, "checkTarget") /\ UNCHANGED <<user, seen, saveVars, readVars, accepted, beaten>>
    BY <1>0, <1>9, <2>1 DEF TypeOK, CallInv, RowInv, RowsOf, RowIds, Saving, db, saveVars, readVars,
                            CheckCaller, Check, Goto
  <2>2. CASE Answer(r, FALSE) /\ beaten' = beaten \ {r}
    BY <1>0, <1>9, <2>2 DEF TypeOK, CallInv, RowInv, RowsOf, RowIds, Saving, db, saveVars, readVars,
                            CheckCaller, Check, Answer, End, Goto
  <2> QED BY <1>9, <2>1, <2>2 DEF CheckCaller, Check
<1>10. ASSUME NEW r \in Calls, CheckTarget(r)
       PROVE  RowInv'
  <2>1. CASE Goto(r, "find") /\ UNCHANGED <<user, seen, saveVars, readVars, accepted, beaten>>
    BY <1>0, <1>10, <2>1 DEF TypeOK, CallInv, RowInv, RowsOf, RowIds, Saving, db, saveVars,
                             readVars, CheckTarget, Check, Goto
  <2>2. CASE Answer(r, FALSE) /\ beaten' = beaten \ {r}
    BY <1>0, <1>10, <2>2 DEF TypeOK, CallInv, RowInv, RowsOf, RowIds, Saving, db, saveVars,
                             readVars, CheckTarget, Check, Answer, End, Goto
  <2> QED BY <1>10, <2>1, <2>2 DEF CheckTarget, Check
<1>11. ASSUME NEW r \in Calls, Find(r)
       PROVE  RowInv'
  <2>1. CASE RowsOf(body[r].user) = {}
    BY <1>0, <1>11, <2>1 DEF TypeOK, CallInv, RowInv, RowsOf, db, Find, Goto
  <2>2. CASE RowsOf(body[r].user) # {}
    <3>1. /\ pc' = [pc EXCEPT ![r] = "update"] /\ row' = [row EXCEPT ![r] = First(body[r].user)]
          /\ body' = body /\ beaten' = beaten /\ rows' = rows /\ lastRow' = lastRow
      BY <1>11, <2>2 DEF Find, Goto, db
    <3>2. /\ First(body[r].user) \in RowsOf(body[r].user)
          /\ \A i \in RowsOf(body[r].user) : First(body[r].user) <= i
      BY <2>2, FirstRow
    <3> QED BY <1>0, <3>1, <3>2 DEF TypeOK, RowInv, RowsOf
  <2> QED BY <2>1, <2>2
<1>12. ASSUME NEW r \in Calls, Update(r)
       PROVE  RowInv'
  BY <1>0, <1>12 DEF TypeOK, CallInv, RowInv, RowsOf, RowIds, Saving, db, saveVars,
                     readVars, Update, Saved, Answer, End, Goto
<1>13. ASSUME NEW r \in Calls, Insert(r)
       PROVE  RowInv'
  BY <1>0, <1>13 DEF TypeOK, CallInv, RowInv, RowsOf, RowIds, Saving, db, saveVars,
                     readVars, Insert, Goto
<1>14. ASSUME NEW r \in Calls, Commit(r)
       PROVE  RowInv'
  <2>0. PICK u \in Users : u = body[r].user
    BY <1>0, <1>14 DEF Commit, CallInv, ChatKey, Saving
  <2> DEFINE others == {q \in Calls \ {r} : pc[q] \in Saving /\ body[q].user = u}
             lowest == \A i \in RowsOf(u) : row[r] <= i
  <2>1. /\ pc[r] = "commit" /\ body[r] \in ChatKey /\ row[r] \in RowIds
        /\ row[r] <= lastRow /\ rows[row[r]] = None
    BY <1>0, <1>14 DEF Commit, CallInv, RowInv, Saving
  <2>2. /\ rows' = [rows EXCEPT ![row[r]] = body[r]] /\ lastRow' = lastRow
        /\ beaten' = IF lowest THEN (beaten \cup others) \ {r} ELSE beaten \ {r}
        /\ pc' = [pc EXCEPT ![r] = "idle"]
        /\ body' = [body EXCEPT ![r] = None] /\ row' = [row EXCEPT ![r] = 0]
    BY <1>14, <2>0 DEF Commit, Saved, Answer, End, Goto
  <2>3. /\ rows'[row[r]] = body[r] /\ body[r] # None
        /\ \A i \in RowIds \ {row[r]} : rows'[i] = rows[i]
    BY <1>0, <2>1, <2>2 DEF TypeOK
  <2>4. /\ RowsOf(u)' = RowsOf(u) \cup {row[r]}
        /\ \A v \in Users \ {u} : RowsOf(v)' = RowsOf(v)
    BY <2>0, <2>1, <2>3 DEF RowsOf
  <2>5. \A i \in RowIds : rows'[i] # None => i <= lastRow'
    BY <1>0, <2>1, <2>2, <2>3 DEF RowInv
  <2>6. ASSUME NEW q \in Calls \ {r}
        PROVE  /\ pc'[q] = pc[q] /\ body'[q] = body[q] /\ row'[q] = row[q]
               /\ q \in beaten => q \in beaten'
               /\ pc[q] \in Saving /\ body[q].user = u /\ lowest => q \in beaten'
    BY <1>0, <2>2 DEF TypeOK
  <2>7. ASSUME NEW q \in Calls \ {r}, pc[q] = "update"
        PROVE  /\ row[q] \in RowsOf(body[q].user)'
               /\ \A i \in RowsOf(body[q].user)' : row[q] <= i \/ q \in beaten'
    <3>1. body[q].user \in Users /\ row[q] \in RowIds
      BY <1>0, <2>7 DEF CallInv, ChatKey, Saving
    <3>2. CASE body[q].user # u
      BY <1>0, <2>4, <2>6, <2>7, <3>1, <3>2 DEF RowInv
    <3>3. CASE body[q].user = u /\ lowest
      BY <1>0, <2>4, <2>6, <2>7, <3>3 DEF RowInv, Saving
    <3>4. CASE body[q].user = u /\ ~lowest
      <4>1. PICK i \in RowsOf(u) : ~(row[r] <= i)
        BY <3>4
      <4>2. row[q] <= i \/ q \in beaten'
        BY <1>0, <2>6, <2>7, <3>4 DEF RowInv
      <4>3. row[q] <= row[r] \/ q \in beaten'
        BY <2>1, <3>1, <4>1, <4>2, RoomKeysAssumption DEF RowsOf, RowIds
      <4> QED BY <1>0, <2>4, <2>6, <2>7, <3>4, <4>3 DEF RowInv
    <3> QED BY <3>2, <3>3, <3>4
  <2>8. ASSUME NEW q \in Calls \ {r}, pc[q] \in {"insert", "commit"}
        PROVE  RowsOf(body[q].user)' = {} \/ q \in beaten'
    <3>1. body[q].user \in Users
      BY <1>0, <2>8 DEF CallInv, ChatKey, Saving
    <3>2. CASE body[q].user # u
      BY <1>0, <2>4, <2>6, <2>8, <3>1, <3>2 DEF RowInv
    <3>3. CASE body[q].user = u
      BY <1>0, <2>6, <2>8, <3>3 DEF RowInv, Saving
    <3> QED BY <3>2, <3>3
  <2>9. ASSUME NEW q \in Calls \ {r}, pc[q] = "commit"
        PROVE  row[q] <= lastRow' /\ rows'[row[q]] = None
    <3>1. row[q] \in RowIds /\ row[q] # row[r]
      BY <1>0, <2>1, <2>9 DEF CallInv, RowInv
    <3> QED BY <1>0, <2>2, <2>3, <2>9, <3>1 DEF RowInv
  <2>10. ASSUME NEW q \in Calls, NEW p \in Calls, pc'[q] = "commit", pc'[p] = "commit", row'[q] = row'[p]
         PROVE  q = p
    BY <1>0, <2>2, <2>6, <2>10 DEF TypeOK, RowInv
  <2>11. pc'[r] = "idle"
    BY <1>0, <2>2 DEF TypeOK
  <2> HIDE DEF others, lowest
  <2>12. ASSUME NEW q \in Calls
         PROVE  /\ pc'[q] = "update" =>
                     /\ row'[q] \in RowsOf(body[q].user)'
                     /\ \A i \in RowsOf(body[q].user)' : row'[q] <= i \/ q \in beaten'
                /\ pc'[q] \in {"insert", "commit"} => RowsOf(body[q].user)' = {} \/ q \in beaten'
                /\ pc'[q] = "commit" => row'[q] <= lastRow' /\ rows'[row'[q]] = None
    BY <2>6, <2>7, <2>8, <2>9, <2>11
  <2> QED BY <2>5, <2>10, <2>12 DEF RowInv
<1>15. ASSUME NEW r \in Calls, CheckReader(r)
       PROVE  RowInv'
  <2>1. CASE Goto(r, "readMembers") /\ UNCHANGED <<user, seen, saveVars, readVars, accepted, beaten>>
    BY <1>0, <1>15, <2>1 DEF TypeOK, CallInv, RowInv, RowsOf, RowIds, Saving, db, saveVars,
                             readVars, CheckReader, Check, Goto
  <2>2. CASE Answer(r, FALSE) /\ beaten' = beaten \ {r}
    BY <1>0, <1>15, <2>2 DEF TypeOK, CallInv, RowInv, RowsOf, RowIds, Saving, db, saveVars,
                             readVars, CheckReader, Check, Answer, End, Goto
  <2> QED BY <1>15, <2>1, <2>2 DEF CheckReader, Check
<1>16. ASSUME NEW r \in Calls, ReadMembers(r)
       PROVE  RowInv'
  BY <1>0, <1>16 DEF TypeOK, CallInv, RowInv, RowsOf, RowIds, Saving, db, saveVars,
                     readVars, ReadMembers, Goto
<1>17. ASSUME NEW r \in Calls, AnswerKeys(r)
       PROVE  RowInv'
  BY <1>0, <1>17 DEF TypeOK, CallInv, RowInv, RowsOf, RowIds, Saving, db, saveVars,
                     readVars, AnswerKeys, Answer, End, Goto
<1>18. ASSUME NEW r \in Calls, NEW u \in Users, Collect(r, u)
       PROVE  RowInv'
  BY <1>0, <1>18 DEF TypeOK, CallInv, RowInv, RowsOf, RowIds, Saving, db, saveVars,
                     readVars, Collect, Remaining
<1>19. ASSUME NEW r \in Calls, NEW u \in Users, Skip(r, u)
       PROVE  RowInv'
  BY <1>0, <1>19 DEF TypeOK, CallInv, RowInv, RowsOf, RowIds, Saving, db, saveVars,
                     readVars, Skip
<1>20. ASSUME NEW u \in Users, Join(u) \/ Leave(u)
       PROVE  RowInv'
  BY <1>0, <1>20 DEF TypeOK, CallInv, RowInv, RowsOf, RowIds, Saving, db, saveVars,
                     readVars, Join, Leave, Move, NoteChange
<1>21. CASE UNCHANGED vars
  BY <1>0, <1>21 DEF TypeOK, CallInv, RowInv, RowsOf, RowIds, Saving, db, saveVars,
                     readVars, vars
<1> QED BY <1>0, <1>1, <1>2, <1>3, <1>4, <1>5, <1>6, <1>7, <1>8, <1>9, <1>10, <1>11,
           <1>12, <1>13, <1>14, <1>15, <1>16, <1>17, <1>18, <1>19, <1>20, <1>21 DEF Next, Client, Serve

LEMMA Invariance == Spec => []Inv
<1>1. Inv /\ [Next]_vars => Inv'
  BY TypeStep, CallStep, SaveStep, ListStep, RowStep DEF Inv
<1> QED BY <1>1, InitInv, PTL DEF Spec

-----------------------------------------------------------------------------
(* The theorems.                                                           *)

\* Every variable keeps its type.
THEOREM TypeCorrect == Spec => []TypeOK
<1>1. Inv => TypeOK
  BY DEF Inv
<1> QED BY <1>1, Invariance, PTL

\* GetChatKeys answers the keys of the chat, although it reads them one by one.
THEOREM ListCorrect == Spec => []ChatKeysRight
<1>1. Inv => ChatKeysRight
  BY DEF Inv, ListInv, KeyOf, ChatKeysRight
<1> QED BY <1>1, Invariance, PTL

\* No request undoes a public key or a backup on its way to the handler.
THEOREM SyncHarmless == Spec => KeysSurviveSync
<1>1. Inv /\ [Next]_vars =>
        [\A u \in Users :
           profile'[u] # profile[u] => \E r \in Calls : pc[r] = "handler" /\ user[r] = u]_vars
  <2> SUFFICES ASSUME Inv, [Next]_vars, NEW u \in Users, profile'[u] # profile[u]
               PROVE  \E r \in Calls : pc[r] = "handler" /\ user[r] = u
    OBVIOUS
  <2>1. ASSUME NEW r \in Calls, Sync(r)
        PROVE  FALSE
    BY <2>1 DEF Inv, TypeOK, Sync, Assigned
  <2>2. PICK r \in Calls : UpdatePublicKey(r) \/ \E b \in BOOLEAN : SaveBackup(r, b)
    <3>1. profile' # profile
      OBVIOUS
    <3> QED
      BY <2>1, <3>1
         DEF Next, Client, Serve, vars, db, Begin, OtherHandler, GetChatKeys, SaveRoomKey,
             StatementFails, CheckCaller, CheckTarget, CheckReader, Check, Find, Update, Insert,
             Commit, Saved, ReadMembers, AnswerKeys, Collect, Skip, Join, Leave, Move
  <2>3. pc[r] = "handler" /\ \A v \in Users \ {user[r]} : profile'[v] = profile[v]
    BY <2>2 DEF Inv, TypeOK, UpdatePublicKey, SaveBackup
  <2> QED BY <2>3
<1> QED BY <1>1, Invariance, PTL DEF Spec, KeysSurviveSync

\* A room key is written for and by users who were in the chat during the call.
THEOREM SaveCorrect == Spec => SavedForMembers
<1>1. Inv => (\A r \in Calls : pc[r] \in {"update", "commit"} =>
                {user[r], body[r].user} \subseteq ever[r])
  BY DEF Inv, SaveInv, Saving
<1>2. Inv /\ [Next]_vars =>
        [\A r \in Calls :
           rows' # rows /\ pc[r] \in {"update", "commit"} /\ pc'[r] = "idle" =>
             {user[r], body[r].user} \subseteq ever[r]]_vars
  BY <1>1
<1> QED BY <1>2, Invariance, PTL DEF Spec, SavedForMembers

-----------------------------------------------------------------------------
(* The refinement of KeyRegister.                                          *)

LEMMA LowestIs ==
  ASSUME NEW T \in SUBSET RowIds, NEW i \in T, \A j \in T : i <= j
  PROVE  (CHOOSE k \in T : \A j \in T : k <= j) = i
<1>1. T \subseteq Nat
  BY RoomKeysAssumption DEF RowIds
<1>2. \A k \in T : (\A j \in T : k <= j) => k = i
  BY <1>1
<1> QED BY <1>2

\* A write of one row changes the key of its user if no row is before it, and no other key.
LEMMA KeyWritten ==
  ASSUME Inv, NEW i \in RowIds, NEW b \in ChatKey,
         rows' = [rows EXCEPT ![i] = b],
         rows[i] = None \/ i \in RowsOf(b.user)
  PROVE  CurrentKey' = IF \A j \in RowsOf(b.user) : i <= j
                       THEN [CurrentKey EXCEPT ![b.user] = b.key] ELSE CurrentKey
<1> USE RoomKeysAssumption, NoneAssumption
<1> DEFINE lowest == \A j \in RowsOf(b.user) : i <= j
<1>1. PICK u \in Users : u = b.user
  BY DEF ChatKey
<1>2. rows'[i] = b /\ b # None /\ \A j \in RowIds \ {i} : rows'[j] = rows[j]
  BY DEF Inv, TypeOK
<1>3. RowsOf(u)' = RowsOf(u) \cup {i} /\ RowsOf(u)' \in SUBSET RowIds
  BY <1>1, <1>2 DEF RowsOf
<1>4. ASSUME NEW v \in Users \ {u}
      PROVE  CurrentKey'[v] = CurrentKey[v]
  <2>1. RowsOf(v)' = RowsOf(v) /\ i \notin RowsOf(v)
    BY <1>1, <1>2, <1>4 DEF RowsOf
  <2>2. CASE RowsOf(v) = {}
    BY <2>1, <2>2 DEF CurrentKey
  <2>3. CASE RowsOf(v) # {}
    <3>1. First(v) \in RowsOf(v)
      BY <2>3, FirstRow
    <3>2. First(v)' = First(v)
      BY <2>1 DEF First
    <3>3. rows'[First(v)] = rows[First(v)]
      BY <1>2, <2>1, <3>1 DEF RowsOf
    <3> QED BY <2>1, <2>3, <3>2, <3>3 DEF CurrentKey
  <2> QED BY <2>2, <2>3
<1>5. CASE lowest
  <2>1. First(u)' = i
    <3>1. \A j \in RowsOf(u)' : i <= j
      BY <1>1, <1>3, <1>5 DEF RowIds
    <3> QED BY <1>3, <3>1, LowestIs DEF First
  <2>2. CurrentKey'[u] = b.key
    BY <1>2, <1>3, <2>1 DEF CurrentKey
  <2> QED BY <1>1, <1>4, <1>5, <2>2 DEF CurrentKey
<1>6. CASE ~lowest
  <2>1. PICK j \in RowsOf(u) : ~(i <= j)
    BY <1>1, <1>6
  <2>2. First(u) \in RowsOf(u) /\ \A k \in RowsOf(u) : First(u) <= k
    BY <2>1, FirstRow
  <2>3. First(u) <= i /\ First(u) # i
    BY <2>1, <2>2 DEF RowsOf, RowIds
  <2>4. First(u)' = First(u)
    <3>1. First(u) \in RowsOf(u)' /\ \A k \in RowsOf(u)' : First(u) <= k
      BY <1>3, <2>2, <2>3
    <3> DEFINE m == First(u)
               T == RowsOf(u)'
    <3>2. m \in T /\ T \in SUBSET RowIds /\ \A k \in T : m <= k
      BY <1>3, <3>1
    <3>3. First(u)' = CHOOSE k \in T : \A l \in T : k <= l
      BY DEF First
    <3> HIDE DEF m, T
    <3>4. (CHOOSE k \in T : \A l \in T : k <= l) = m
      BY <3>2, LowestIs
    <3> QED BY <3>3, <3>4 DEF m
  <2>5. rows'[First(u)] = rows[First(u)]
    BY <1>2, <2>2, <2>3 DEF RowsOf
  <2>6. CurrentKey'[u] = CurrentKey[u]
    BY <1>3, <2>1, <2>4, <2>5 DEF CurrentKey
  <2> QED BY <1>1, <1>4, <1>6, <2>6 DEF CurrentKey
<1> QED BY <1>5, <1>6

\* Init maps to the initial states of KeyRegister.
LEMMA ImplInit == Init => R!Init
BY DEF Init, R!Init, CurrentKey, RowsOf

\* Without a write to the rows no key changes.
LEMMA KeysSame == rows' = rows => CurrentKey' = CurrentKey
BY DEF CurrentKey, RowsOf, First

\* The end of a save that writes its row, or leaves it because its key is blank.
LEMMA ImplSaved ==
  ASSUME Inv, NEW r \in Calls, Update(r) \/ Commit(r)
  PROVE  R!Next
<1> USE RoomKeysAssumption, NoneAssumption
<1> DEFINE u == body[r].user
           lowest == \A i \in RowsOf(u) : row[r] <= i
           written == pc[r] = "commit" \/ body[r].key # Blank
<1>1. /\ body[r] \in ChatKey /\ body[r] # None /\ u \in Users /\ row[r] \in RowIds
      /\ pc[r] \in {"update", "commit"}
  BY DEF Update, Commit, Inv, CallInv, ChatKey, Saving
<1>2. PICK ok \in BOOLEAN : Answer(r, ok)
  BY DEF Update, Commit, Saved
<1>3. R!End(r, ok)
  BY <1>2 DEF Answer, End, R!End
<1>4. /\ rows[row[r]] = None \/ row[r] \in RowsOf(u)
      /\ RowsOf(u) = {} => pc[r] = "commit"
      /\ ~lowest => r \in beaten
      /\ pc[r] = "commit" => RowsOf(u) = {} \/ r \in beaten
  BY <1>1 DEF Inv, RowInv
<1>5. ASSUME RowsOf(u) # {}
      PROVE  CurrentKey[u] # None
  <2>1. First(u) \in RowIds /\ rows[First(u)] \in ChatKey
    BY <1>5, FirstRow DEF RowsOf, Inv, TypeOK
  <2> QED BY <1>1, <1>5, <2>1 DEF CurrentKey, ChatKey, Keys
<1>6. CASE written
  <2>1. /\ rows' = [rows EXCEPT ![row[r]] = body[r]]
        /\ beaten' = IF lowest
                     THEN (beaten \cup {q \in Calls \ {r} : pc[q] \in Saving /\ body[q].user = u}) \ {r}
                     ELSE beaten \ {r}
    BY <1>6 DEF Update, Commit, Saved
  <2>2. CurrentKey' = IF lowest THEN [CurrentKey EXCEPT ![u] = body[r].key] ELSE CurrentKey
    BY <1>1, <1>4, <2>1, KeyWritten
  <2>3. CASE lowest
    <3>1. (beaten \cup {q \in Calls \ {r} : pc[q] \in Saving /\ body[q].user = u}) \ {r}
            = (beaten \cup {q \in Calls : body[q] # None /\ body[q].user = u}) \ {r}
      BY DEF Inv, CallInv
    <3>2. beaten' = (beaten \cup {q \in Calls : body[q] # None /\ body[q].user = u}) \ {r}
      BY <2>1, <2>3, <3>1
    <3>3. body[r].key = Blank => CurrentKey[u] = None \/ r \in beaten
      BY <1>1, <1>4, <1>6 DEF CurrentKey
    <3>4. R!Store(r, ok)
      BY <1>1, <1>3, <2>2, <2>3, <3>2, <3>3 DEF R!Store
    <3> QED BY <3>4 DEF R!Next
  <2>4. CASE ~lowest
    <3>1. R!Overtaken(r) \/ R!Fail(r)
      BY <1>1, <1>3, <1>4, <2>1, <2>2, <2>4 DEF R!Overtaken, R!Fail
    <3> QED BY <3>1 DEF R!Next
  <2> QED BY <2>3, <2>4
<1>7. CASE ~written
  <2>1. rows' = rows /\ beaten' = beaten \ {r}
    BY <1>7 DEF Update, Commit, Saved
  <2>2. R!Ignore(r, ok)
    BY <1>1, <1>3, <1>4, <1>5, <1>7, <2>1, KeysSame DEF R!Ignore
  <2> QED BY <2>2 DEF R!Next
<1> QED BY <1>6, <1>7

\* Every step maps to a step of KeyRegister, or to a stutter.
LEMMA ImplStep ==
  ASSUME Inv, [Next]_vars
  PROVE  [R!Next]_(R!vars)
<1>0. /\ TypeOK
      /\ \A r \in Calls : pc[r] \notin Saving => body[r] = None
  BY DEF Inv, CallInv
<1>1. ASSUME NEW r \in Calls, NEW u \in Users, NEW k \in {r, Blank}, SaveRoomKey(r, u, k)
      PROVE  R!Next
  <2>1. body[r] = None
    BY <1>0, <1>1 DEF SaveRoomKey, Saving
  <2>2. R!Begin(r, u, k)
    BY <1>1, <2>1, KeysSame DEF SaveRoomKey, R!Begin, db
  <2> QED BY <2>2 DEF R!Next, R!Keys
<1>2. ASSUME NEW r \in Calls,
             (\E u \in Users : Begin(r, u)) \/ OtherHandler(r) \/ UpdatePublicKey(r)
               \/ (\E b \in BOOLEAN : SaveBackup(r, b)) \/ AnswerKeys(r)
      PROVE  R!Next
  <2>1. rows' = rows /\ beaten' = beaten /\ pc[r] \notin Saving
    BY <1>2 DEF Begin, OtherHandler, UpdatePublicKey, SaveBackup, AnswerKeys, db, Saving
  <2>2. PICK ok \in BOOLEAN :
          /\ accepted' = IF ok THEN accepted \cup {r} ELSE accepted \ {r}
          /\ body' = body \/ body' = [body EXCEPT ![r] = None]
    BY <1>2 DEF Begin, OtherHandler, UpdatePublicKey, SaveBackup, AnswerKeys, Answer, End, saveVars
  <2>3. body[r] = None /\ body' = [body EXCEPT ![r] = None]
    BY <1>0, <2>1, <2>2 DEF TypeOK
  <2>4. R!Other(r, ok)
    BY <2>1, <2>2, <2>3, KeysSame DEF R!Other, R!End
  <2> QED BY <2>4 DEF R!Next
<1>3. ASSUME NEW r \in Calls, Answer(r, FALSE), beaten' = beaten \ {r}, rows' = rows
      PROVE  R!Next
  <2>1. R!Fail(r)
    BY <1>3, KeysSame DEF R!Fail, R!End, Answer, End
  <2> QED BY <2>1 DEF R!Next
<1>4. ASSUME NEW r \in Calls, StatementFails(r)
      PROVE  R!Next
  BY <1>3, <1>4 DEF StatementFails, db
<1>5. ASSUME NEW r \in Calls, CheckCaller(r) \/ CheckTarget(r) \/ CheckReader(r)
      PROVE  R!Next \/ UNCHANGED <<rows, body, beaten, accepted>>
  BY <1>3, <1>5 DEF CheckCaller, CheckTarget, CheckReader, Check, db, saveVars
<1>6. ASSUME NEW r \in Calls,
             Sync(r) \/ Find(r) \/ Insert(r) \/ GetChatKeys(r) \/ ReadMembers(r)
               \/ \E u \in Users : Collect(r, u) \/ Skip(r, u)
      PROVE  UNCHANGED <<rows, body, beaten, accepted>>
  BY <1>6 DEF Sync, Find, Insert, GetChatKeys, ReadMembers, Collect, Skip, db, saveVars
<1>7. ASSUME NEW u \in Users, Join(u) \/ Leave(u)
      PROVE  UNCHANGED <<rows, body, beaten, accepted>>
  BY <1>7 DEF Join, Leave, Move
<1>8. ASSUME UNCHANGED vars
      PROVE  UNCHANGED <<rows, body, beaten, accepted>>
  BY <1>8 DEF vars, db, saveVars
<1>9. R!Next \/ UNCHANGED <<rows, body, beaten, accepted>>
  BY <1>1, <1>2, <1>4, <1>5, <1>6, <1>7, <1>8, ImplSaved DEF Next, Client, Serve, vars, db, saveVars
<1> QED BY <1>9, KeysSame DEF R!vars

\* The rows of chat_keys implement one key for each user that changes at once.
THEOREM ImplementsKeyRegister == Spec => KeyRegisterSpec
<1>1. Inv /\ [Next]_vars => [R!Next]_(R!vars)
  BY ImplStep
<1> QED BY <1>1, ImplInit, Invariance, PTL DEF Spec, KeyRegisterSpec, R!Spec
=============================================================================
