----------------------------- MODULE AuthProofs -----------------------------
(***************************************************************************)
(* The safety properties of Auth for any number of requests, accounts and  *)
(* tokens, with failures and crashes, and the refinement of Sessions.      *)
(***************************************************************************)
EXTENDS Auth, TLAPS

\* What a request carries from one statement to the next.
CarryInv ==
  \A r \in Requests :
    /\ pc[r] \in {"createUser", "checkPassword"} => account[r] \in Account /\ token[r] = None
    /\ pc[r] \in {"findRefresh", "deleteRefresh", "findUser", "deleteLogout"} => token[r] # None
    /\ pc[r] # "idle" /\ token[r] # None => token[r] \in minted \cap presented

\* Every token in a history was stored once.
HistoryInv ==
  /\ tokens \subseteq minted
  /\ issued \subseteq minted
  /\ loggedOut \subseteq minted
  /\ \A t \in minted : parent[t] # None => parent[t] \in minted

\* A refresh that stores its new token has deleted the old one.
DeletedInv ==
  \A r \in Requests : pc[r] \in {"findUser", "insert"} /\ token[r] # None => token[r] \notin tokens

\* A token logged out with 200 is not stored any more.
LoggedOutGone == loggedOut \cap tokens = {}

Inv ==
  /\ TypeOK
  /\ CarryInv
  /\ HistoryInv
  /\ DeletedInv
  /\ RotationOrder
  /\ LoggedOutGone
  /\ NoSilentLoss

\* Two requests carry the same token, a refresh finds its token deleted, exchanges it for
\* the second time or after its logout, only when the token was presented twice at a time.
ContendInv ==
  /\ contended \subseteq minted
  /\ \A r, q \in Requests :
       pc[r] # "idle" /\ pc[q] # "idle" /\ token[r] = token[q] /\ token[r] # None
         => r = q \/ token[r] \in contended
  /\ \A r \in Requests :
       /\ pc[r] = "deleteRefresh" => token[r] \in tokens \cup contended
       /\ pc[r] \in {"findUser", "insert"} =>
            /\ \A t \in minted : parent[t] = token[r] => token[r] \in contended \cup {None}
            /\ token[r] \in loggedOut => token[r] \in contended

Forks == ContendInv /\ ForkNeedsContention

-----------------------------------------------------------------------------
\* Init establishes the invariant.
LEMMA InitInv == Init => Inv
BY DEF Init, Inv, TypeOK, CarryInv, HistoryInv, DeletedInv, RotationOrder, LoggedOutGone,
       NoSilentLoss

\* Every step keeps the types.
LEMMA TypeStep ==
  ASSUME Inv, [Next]_vars
  PROVE  TypeOK'
<1> USE AuthAssumption
<1>0. TypeOK /\ CarryInv BY DEF Inv
<1>1. ASSUME NEW r \in Requests, NEW a \in Account, Register(r, a)
      PROVE  TypeOK'
  BY <1>0, <1>1 DEF TypeOK, Statement, CarryInv, reqVars, history, Register, Begin
<1>2. ASSUME NEW r \in Requests, NEW input \in BadInput, RegisterRefused(r, input)
      PROVE  TypeOK'
  BY <1>0, <1>2 DEF TypeOK, Statement, CarryInv, reqVars, history, RegisterRefused,
       Refuse, Verdict
<1>3. ASSUME NEW r \in Requests, RefreshRefused(r) \/ BodyRefused(r)
      PROVE  TypeOK'
  BY <1>0, <1>3 DEF TypeOK, Statement, CarryInv, reqVars, history, RefreshRefused,
       BodyRefused, Refuse
<1>4. ASSUME NEW r \in Requests, NEW a \in Account, Login(r, a)
      PROVE  TypeOK'
  BY <1>0, <1>4 DEF TypeOK, Statement, CarryInv, reqVars, history, Login, Begin
<1>5. ASSUME NEW r \in Requests, NEW t \in Tokens, Refresh(r, t)
      PROVE  TypeOK'
  BY <1>0, <1>5 DEF TypeOK, Statement, CarryInv, reqVars, history, Refresh, Begin,
       Present
<1>6. ASSUME NEW r \in Requests, NEW t \in Tokens \cup {None}, Logout(r, t)
      PROVE  TypeOK'
  BY <1>0, <1>6 DEF TypeOK, Statement, CarryInv, reqVars, history, Logout, Begin,
       Present
<1>7. ASSUME NEW r \in Requests, CreateUserDuplicate(r)
      PROVE  TypeOK'
  BY <1>0, <1>7 DEF TypeOK, Statement, CarryInv, reqVars, history, CreateUserDuplicate,
       Answer
<1>8. ASSUME NEW r \in Requests, CreateUser(r)
      PROVE  TypeOK'
  BY <1>0, <1>8 DEF TypeOK, Statement, CarryInv, reqVars, history, CreateUser, Answer,
       Taken
<1>9. ASSUME NEW r \in Requests, PasswordAccepted(r)
      PROVE  TypeOK'
  BY <1>0, <1>9 DEF TypeOK, Statement, CarryInv, reqVars, history, PasswordAccepted,
       Goto
<1>10. ASSUME NEW r \in Requests, PasswordRefused(r)
      PROVE  TypeOK'
  BY <1>0, <1>10 DEF TypeOK, Statement, CarryInv, reqVars, history, PasswordRefused,
       Answer
<1>11. ASSUME NEW r \in Requests, NEW t \in Tokens, InsertToken(r, t)
      PROVE  TypeOK'
  BY <1>0, <1>11 DEF TypeOK, Statement, CarryInv, reqVars, history, InsertToken, Answer
<1>12. ASSUME NEW r \in Requests, FindRefresh(r)
      PROVE  TypeOK'
  BY <1>0, <1>12 DEF TypeOK, Statement, CarryInv, reqVars, history, FindRefresh, Goto,
       Answer, Found
<1>13. ASSUME NEW r \in Requests, DeleteRefresh(r)
      PROVE  TypeOK'
  BY <1>0, <1>13 DEF TypeOK, Statement, CarryInv, reqVars, history, DeleteRefresh,
       DeleteByToken, Goto, Answer
<1>14. ASSUME NEW r \in Requests, FindUser(r)
      PROVE  TypeOK'
  BY <1>0, <1>14 DEF TypeOK, Statement, CarryInv, reqVars, history, FindUser, Goto
<1>15. ASSUME NEW r \in Requests, FindLogout(r)
      PROVE  TypeOK'
  BY <1>0, <1>15 DEF TypeOK, Statement, CarryInv, reqVars, history, FindLogout, Found,
       Goto, LoggedOut, Answer
<1>16. ASSUME NEW r \in Requests, DeleteLogout(r)
      PROVE  TypeOK'
  BY <1>0, <1>16 DEF TypeOK, Statement, CarryInv, reqVars, history, DeleteLogout,
       DeleteByToken, LoggedOut, Answer
<1>17. ASSUME NEW r \in Requests, StatementFails(r)
      PROVE  TypeOK'
  BY <1>0, <1>17 DEF TypeOK, Statement, CarryInv, reqVars, history, StatementFails,
       Answer
<1>18. CASE Crash
  BY <1>0, <1>18 DEF TypeOK, Statement, CarryInv, reqVars, history, Crash
<1>19. ASSUME NEW t \in Tokens, Expire(t)
      PROVE  TypeOK'
  BY <1>0, <1>19 DEF TypeOK, Statement, CarryInv, reqVars, history, Expire
<1>20. CASE UNCHANGED vars
  BY <1>0, <1>20 DEF TypeOK, Statement, CarryInv, reqVars, history, vars
<1> QED BY <1>1, <1>2, <1>3, <1>4, <1>5, <1>6, <1>7, <1>8, <1>9, <1>10, <1>11, <1>12,
       <1>13, <1>14, <1>15, <1>16, <1>17, <1>18, <1>19, <1>20
          DEF Next, Client, Serve

\* Every step keeps what requests carry.
LEMMA CarryStep ==
  ASSUME Inv, [Next]_vars
  PROVE  CarryInv'
<1> USE AuthAssumption
<1>0. TypeOK /\ CarryInv /\ HistoryInv BY DEF Inv
<1>1. ASSUME NEW r \in Requests, NEW a \in Account, Register(r, a)
      PROVE  CarryInv'
  BY <1>0, <1>1 DEF TypeOK, CarryInv, HistoryInv, reqVars, history, Register, Begin
<1>2. ASSUME NEW r \in Requests, NEW input \in BadInput, RegisterRefused(r, input)
      PROVE  CarryInv'
  BY <1>0, <1>2 DEF TypeOK, CarryInv, HistoryInv, reqVars, history, RegisterRefused,
       Refuse, Verdict
<1>3. ASSUME NEW r \in Requests, RefreshRefused(r) \/ BodyRefused(r)
      PROVE  CarryInv'
  BY <1>0, <1>3 DEF TypeOK, CarryInv, HistoryInv, reqVars, history, RefreshRefused,
       BodyRefused, Refuse
<1>4. ASSUME NEW r \in Requests, NEW a \in Account, Login(r, a)
      PROVE  CarryInv'
  BY <1>0, <1>4 DEF TypeOK, CarryInv, HistoryInv, reqVars, history, Login, Begin
<1>5. ASSUME NEW r \in Requests, NEW t \in Tokens, Refresh(r, t)
      PROVE  CarryInv'
  BY <1>0, <1>5 DEF TypeOK, CarryInv, HistoryInv, reqVars, history, Refresh, Begin,
       Present
<1>6. ASSUME NEW r \in Requests, NEW t \in Tokens \cup {None}, Logout(r, t)
      PROVE  CarryInv'
  BY <1>0, <1>6 DEF TypeOK, CarryInv, HistoryInv, reqVars, history, Logout, Begin,
       Present
<1>7. ASSUME NEW r \in Requests, CreateUserDuplicate(r)
      PROVE  CarryInv'
  BY <1>0, <1>7 DEF TypeOK, CarryInv, HistoryInv, reqVars, history, CreateUserDuplicate,
       Answer
<1>8. ASSUME NEW r \in Requests, CreateUser(r)
      PROVE  CarryInv'
  BY <1>0, <1>8 DEF TypeOK, CarryInv, HistoryInv, reqVars, history, CreateUser, Answer,
       Taken
<1>9. ASSUME NEW r \in Requests, PasswordAccepted(r)
      PROVE  CarryInv'
  BY <1>0, <1>9 DEF TypeOK, CarryInv, HistoryInv, reqVars, history, PasswordAccepted,
       Goto
<1>10. ASSUME NEW r \in Requests, PasswordRefused(r)
      PROVE  CarryInv'
  BY <1>0, <1>10 DEF TypeOK, CarryInv, HistoryInv, reqVars, history, PasswordRefused,
       Answer
<1>11. ASSUME NEW r \in Requests, NEW t \in Tokens, InsertToken(r, t)
      PROVE  CarryInv'
  BY <1>0, <1>11 DEF TypeOK, CarryInv, HistoryInv, reqVars, history, InsertToken, Answer
<1>12. ASSUME NEW r \in Requests, FindRefresh(r)
      PROVE  CarryInv'
  BY <1>0, <1>12 DEF TypeOK, CarryInv, HistoryInv, reqVars, history, FindRefresh, Goto,
       Answer, Found
<1>13. ASSUME NEW r \in Requests, DeleteRefresh(r)
      PROVE  CarryInv'
  BY <1>0, <1>13 DEF TypeOK, CarryInv, HistoryInv, reqVars, history, DeleteRefresh,
       DeleteByToken, Goto, Answer
<1>14. ASSUME NEW r \in Requests, FindUser(r)
      PROVE  CarryInv'
  BY <1>0, <1>14 DEF TypeOK, CarryInv, HistoryInv, reqVars, history, FindUser, Goto
<1>15. ASSUME NEW r \in Requests, FindLogout(r)
      PROVE  CarryInv'
  BY <1>0, <1>15 DEF TypeOK, CarryInv, HistoryInv, reqVars, history, FindLogout, Found,
       Goto, LoggedOut, Answer
<1>16. ASSUME NEW r \in Requests, DeleteLogout(r)
      PROVE  CarryInv'
  BY <1>0, <1>16 DEF TypeOK, CarryInv, HistoryInv, reqVars, history, DeleteLogout,
       DeleteByToken, LoggedOut, Answer
<1>17. ASSUME NEW r \in Requests, StatementFails(r)
      PROVE  CarryInv'
  BY <1>0, <1>17 DEF TypeOK, CarryInv, HistoryInv, reqVars, history, StatementFails,
       Answer
<1>18. CASE Crash
  BY <1>0, <1>18 DEF TypeOK, CarryInv, HistoryInv, reqVars, history, Crash
<1>19. ASSUME NEW t \in Tokens, Expire(t)
      PROVE  CarryInv'
  BY <1>0, <1>19 DEF TypeOK, CarryInv, HistoryInv, reqVars, history, Expire
<1>20. CASE UNCHANGED vars
  BY <1>0, <1>20 DEF TypeOK, CarryInv, HistoryInv, reqVars, history, vars
<1> QED BY <1>1, <1>2, <1>3, <1>4, <1>5, <1>6, <1>7, <1>8, <1>9, <1>10, <1>11, <1>12,
       <1>13, <1>14, <1>15, <1>16, <1>17, <1>18, <1>19, <1>20
          DEF Next, Client, Serve

\* Every step keeps the histories consistent.
LEMMA HistoryStep ==
  ASSUME Inv, [Next]_vars
  PROVE  HistoryInv'
<1> USE AuthAssumption
<1>0. TypeOK /\ CarryInv /\ HistoryInv BY DEF Inv
<1>1. ASSUME NEW r \in Requests, NEW a \in Account, Register(r, a)
      PROVE  HistoryInv'
  BY <1>0, <1>1 DEF TypeOK, CarryInv, HistoryInv, reqVars, history, Register, Begin
<1>2. ASSUME NEW r \in Requests, NEW input \in BadInput, RegisterRefused(r, input)
      PROVE  HistoryInv'
  BY <1>0, <1>2 DEF TypeOK, CarryInv, HistoryInv, reqVars, history, RegisterRefused,
       Refuse, Verdict
<1>3. ASSUME NEW r \in Requests, RefreshRefused(r) \/ BodyRefused(r)
      PROVE  HistoryInv'
  BY <1>0, <1>3 DEF TypeOK, CarryInv, HistoryInv, reqVars, history, RefreshRefused,
       BodyRefused, Refuse
<1>4. ASSUME NEW r \in Requests, NEW a \in Account, Login(r, a)
      PROVE  HistoryInv'
  BY <1>0, <1>4 DEF TypeOK, CarryInv, HistoryInv, reqVars, history, Login, Begin
<1>5. ASSUME NEW r \in Requests, NEW t \in Tokens, Refresh(r, t)
      PROVE  HistoryInv'
  BY <1>0, <1>5 DEF TypeOK, CarryInv, HistoryInv, reqVars, history, Refresh, Begin,
       Present
<1>6. ASSUME NEW r \in Requests, NEW t \in Tokens \cup {None}, Logout(r, t)
      PROVE  HistoryInv'
  BY <1>0, <1>6 DEF TypeOK, CarryInv, HistoryInv, reqVars, history, Logout, Begin,
       Present
<1>7. ASSUME NEW r \in Requests, CreateUserDuplicate(r)
      PROVE  HistoryInv'
  BY <1>0, <1>7 DEF TypeOK, CarryInv, HistoryInv, reqVars, history, CreateUserDuplicate,
       Answer
<1>8. ASSUME NEW r \in Requests, CreateUser(r)
      PROVE  HistoryInv'
  BY <1>0, <1>8 DEF TypeOK, CarryInv, HistoryInv, reqVars, history, CreateUser, Answer,
       Taken
<1>9. ASSUME NEW r \in Requests, PasswordAccepted(r)
      PROVE  HistoryInv'
  BY <1>0, <1>9 DEF TypeOK, CarryInv, HistoryInv, reqVars, history, PasswordAccepted,
       Goto
<1>10. ASSUME NEW r \in Requests, PasswordRefused(r)
      PROVE  HistoryInv'
  BY <1>0, <1>10 DEF TypeOK, CarryInv, HistoryInv, reqVars, history, PasswordRefused,
       Answer
<1>11. ASSUME NEW r \in Requests, NEW t \in Tokens, InsertToken(r, t)
      PROVE  HistoryInv'
  BY <1>0, <1>11 DEF TypeOK, CarryInv, HistoryInv, reqVars, history, InsertToken, Answer
<1>12. ASSUME NEW r \in Requests, FindRefresh(r)
      PROVE  HistoryInv'
  BY <1>0, <1>12 DEF TypeOK, CarryInv, HistoryInv, reqVars, history, FindRefresh, Goto,
       Answer, Found
<1>13. ASSUME NEW r \in Requests, DeleteRefresh(r)
      PROVE  HistoryInv'
  BY <1>0, <1>13 DEF TypeOK, CarryInv, HistoryInv, reqVars, history, DeleteRefresh,
       DeleteByToken, Goto, Answer
<1>14. ASSUME NEW r \in Requests, FindUser(r)
      PROVE  HistoryInv'
  BY <1>0, <1>14 DEF TypeOK, CarryInv, HistoryInv, reqVars, history, FindUser, Goto
<1>15. ASSUME NEW r \in Requests, FindLogout(r)
      PROVE  HistoryInv'
  BY <1>0, <1>15 DEF TypeOK, CarryInv, HistoryInv, reqVars, history, FindLogout, Found,
       Goto, LoggedOut, Answer
<1>16. ASSUME NEW r \in Requests, DeleteLogout(r)
      PROVE  HistoryInv'
  BY <1>0, <1>16 DEF TypeOK, CarryInv, HistoryInv, reqVars, history, DeleteLogout,
       DeleteByToken, LoggedOut, Answer
<1>17. ASSUME NEW r \in Requests, StatementFails(r)
      PROVE  HistoryInv'
  BY <1>0, <1>17 DEF TypeOK, CarryInv, HistoryInv, reqVars, history, StatementFails,
       Answer
<1>18. CASE Crash
  BY <1>0, <1>18 DEF TypeOK, CarryInv, HistoryInv, reqVars, history, Crash
<1>19. ASSUME NEW t \in Tokens, Expire(t)
      PROVE  HistoryInv'
  BY <1>0, <1>19 DEF TypeOK, CarryInv, HistoryInv, reqVars, history, Expire
<1>20. CASE UNCHANGED vars
  BY <1>0, <1>20 DEF TypeOK, CarryInv, HistoryInv, reqVars, history, vars
<1> QED BY <1>1, <1>2, <1>3, <1>4, <1>5, <1>6, <1>7, <1>8, <1>9, <1>10, <1>11, <1>12,
       <1>13, <1>14, <1>15, <1>16, <1>17, <1>18, <1>19, <1>20
          DEF Next, Client, Serve

\* Every step keeps the old token out of the table.
LEMMA DeletedStep ==
  ASSUME Inv, [Next]_vars
  PROVE  DeletedInv'
<1> USE AuthAssumption
<1>0. TypeOK /\ CarryInv /\ DeletedInv BY DEF Inv
<1>1. ASSUME NEW r \in Requests, NEW a \in Account, Register(r, a)
      PROVE  DeletedInv'
  BY <1>0, <1>1 DEF TypeOK, CarryInv, DeletedInv, reqVars, history, Register, Begin
<1>2. ASSUME NEW r \in Requests, NEW input \in BadInput, RegisterRefused(r, input)
      PROVE  DeletedInv'
  BY <1>0, <1>2 DEF TypeOK, CarryInv, DeletedInv, reqVars, history, RegisterRefused,
       Refuse, Verdict
<1>3. ASSUME NEW r \in Requests, RefreshRefused(r) \/ BodyRefused(r)
      PROVE  DeletedInv'
  BY <1>0, <1>3 DEF TypeOK, CarryInv, DeletedInv, reqVars, history, RefreshRefused,
       BodyRefused, Refuse
<1>4. ASSUME NEW r \in Requests, NEW a \in Account, Login(r, a)
      PROVE  DeletedInv'
  BY <1>0, <1>4 DEF TypeOK, CarryInv, DeletedInv, reqVars, history, Login, Begin
<1>5. ASSUME NEW r \in Requests, NEW t \in Tokens, Refresh(r, t)
      PROVE  DeletedInv'
  BY <1>0, <1>5 DEF TypeOK, CarryInv, DeletedInv, reqVars, history, Refresh, Begin,
       Present
<1>6. ASSUME NEW r \in Requests, NEW t \in Tokens \cup {None}, Logout(r, t)
      PROVE  DeletedInv'
  BY <1>0, <1>6 DEF TypeOK, CarryInv, DeletedInv, reqVars, history, Logout, Begin,
       Present
<1>7. ASSUME NEW r \in Requests, CreateUserDuplicate(r)
      PROVE  DeletedInv'
  BY <1>0, <1>7 DEF TypeOK, CarryInv, DeletedInv, reqVars, history, CreateUserDuplicate,
       Answer
<1>8. ASSUME NEW r \in Requests, CreateUser(r)
      PROVE  DeletedInv'
  BY <1>0, <1>8 DEF TypeOK, CarryInv, DeletedInv, reqVars, history, CreateUser, Answer,
       Taken
<1>9. ASSUME NEW r \in Requests, PasswordAccepted(r)
      PROVE  DeletedInv'
  BY <1>0, <1>9 DEF TypeOK, CarryInv, DeletedInv, reqVars, history, PasswordAccepted,
       Goto
<1>10. ASSUME NEW r \in Requests, PasswordRefused(r)
      PROVE  DeletedInv'
  BY <1>0, <1>10 DEF TypeOK, CarryInv, DeletedInv, reqVars, history, PasswordRefused,
       Answer
<1>11. ASSUME NEW r \in Requests, NEW t \in Tokens, InsertToken(r, t)
      PROVE  DeletedInv'
  BY <1>0, <1>11 DEF TypeOK, CarryInv, DeletedInv, reqVars, history, InsertToken, Answer
<1>12. ASSUME NEW r \in Requests, FindRefresh(r)
      PROVE  DeletedInv'
  BY <1>0, <1>12 DEF TypeOK, CarryInv, DeletedInv, reqVars, history, FindRefresh, Goto,
       Answer, Found
<1>13. ASSUME NEW r \in Requests, DeleteRefresh(r)
      PROVE  DeletedInv'
  BY <1>0, <1>13 DEF TypeOK, CarryInv, DeletedInv, reqVars, history, DeleteRefresh,
       DeleteByToken, Goto, Answer
<1>14. ASSUME NEW r \in Requests, FindUser(r)
      PROVE  DeletedInv'
  BY <1>0, <1>14 DEF TypeOK, CarryInv, DeletedInv, reqVars, history, FindUser, Goto
<1>15. ASSUME NEW r \in Requests, FindLogout(r)
      PROVE  DeletedInv'
  BY <1>0, <1>15 DEF TypeOK, CarryInv, DeletedInv, reqVars, history, FindLogout, Found,
       Goto, LoggedOut, Answer
<1>16. ASSUME NEW r \in Requests, DeleteLogout(r)
      PROVE  DeletedInv'
  BY <1>0, <1>16 DEF TypeOK, CarryInv, DeletedInv, reqVars, history, DeleteLogout,
       DeleteByToken, LoggedOut, Answer
<1>17. ASSUME NEW r \in Requests, StatementFails(r)
      PROVE  DeletedInv'
  BY <1>0, <1>17 DEF TypeOK, CarryInv, DeletedInv, reqVars, history, StatementFails,
       Answer
<1>18. CASE Crash
  BY <1>0, <1>18 DEF TypeOK, CarryInv, DeletedInv, reqVars, history, Crash
<1>19. ASSUME NEW t \in Tokens, Expire(t)
      PROVE  DeletedInv'
  BY <1>0, <1>19 DEF TypeOK, CarryInv, DeletedInv, reqVars, history, Expire
<1>20. CASE UNCHANGED vars
  BY <1>0, <1>20 DEF TypeOK, CarryInv, DeletedInv, reqVars, history, vars
<1> QED BY <1>1, <1>2, <1>3, <1>4, <1>5, <1>6, <1>7, <1>8, <1>9, <1>10, <1>11, <1>12,
       <1>13, <1>14, <1>15, <1>16, <1>17, <1>18, <1>19, <1>20
          DEF Next, Client, Serve

\* Every step keeps the rotation order.
LEMMA RotationStep ==
  ASSUME Inv, [Next]_vars
  PROVE  RotationOrder'
<1> USE AuthAssumption
<1>0. TypeOK /\ CarryInv /\ HistoryInv /\ DeletedInv /\ RotationOrder BY DEF Inv
<1>1. ASSUME NEW r \in Requests, NEW a \in Account, Register(r, a)
      PROVE  RotationOrder'
  BY <1>0, <1>1 DEF TypeOK, CarryInv, HistoryInv, DeletedInv, RotationOrder, reqVars,
       history, Register, Begin
<1>2. ASSUME NEW r \in Requests, NEW input \in BadInput, RegisterRefused(r, input)
      PROVE  RotationOrder'
  BY <1>0, <1>2 DEF TypeOK, CarryInv, HistoryInv, DeletedInv, RotationOrder, reqVars,
       history, RegisterRefused, Refuse, Verdict
<1>3. ASSUME NEW r \in Requests, RefreshRefused(r) \/ BodyRefused(r)
      PROVE  RotationOrder'
  BY <1>0, <1>3 DEF TypeOK, CarryInv, HistoryInv, DeletedInv, RotationOrder, reqVars,
       history, RefreshRefused, BodyRefused, Refuse
<1>4. ASSUME NEW r \in Requests, NEW a \in Account, Login(r, a)
      PROVE  RotationOrder'
  BY <1>0, <1>4 DEF TypeOK, CarryInv, HistoryInv, DeletedInv, RotationOrder, reqVars,
       history, Login, Begin
<1>5. ASSUME NEW r \in Requests, NEW t \in Tokens, Refresh(r, t)
      PROVE  RotationOrder'
  BY <1>0, <1>5 DEF TypeOK, CarryInv, HistoryInv, DeletedInv, RotationOrder, reqVars,
       history, Refresh, Begin, Present
<1>6. ASSUME NEW r \in Requests, NEW t \in Tokens \cup {None}, Logout(r, t)
      PROVE  RotationOrder'
  BY <1>0, <1>6 DEF TypeOK, CarryInv, HistoryInv, DeletedInv, RotationOrder, reqVars,
       history, Logout, Begin, Present
<1>7. ASSUME NEW r \in Requests, CreateUserDuplicate(r)
      PROVE  RotationOrder'
  BY <1>0, <1>7 DEF TypeOK, CarryInv, HistoryInv, DeletedInv, RotationOrder, reqVars,
       history, CreateUserDuplicate, Answer
<1>8. ASSUME NEW r \in Requests, CreateUser(r)
      PROVE  RotationOrder'
  BY <1>0, <1>8 DEF TypeOK, CarryInv, HistoryInv, DeletedInv, RotationOrder, reqVars,
       history, CreateUser, Answer, Taken
<1>9. ASSUME NEW r \in Requests, PasswordAccepted(r)
      PROVE  RotationOrder'
  BY <1>0, <1>9 DEF TypeOK, CarryInv, HistoryInv, DeletedInv, RotationOrder, reqVars,
       history, PasswordAccepted, Goto
<1>10. ASSUME NEW r \in Requests, PasswordRefused(r)
      PROVE  RotationOrder'
  BY <1>0, <1>10 DEF TypeOK, CarryInv, HistoryInv, DeletedInv, RotationOrder, reqVars,
       history, PasswordRefused, Answer
<1>11. ASSUME NEW r \in Requests, NEW t \in Tokens, InsertToken(r, t)
      PROVE  RotationOrder'
  BY <1>0, <1>11 DEF TypeOK, CarryInv, HistoryInv, DeletedInv, RotationOrder, reqVars,
       history, InsertToken, Answer
<1>12. ASSUME NEW r \in Requests, FindRefresh(r)
      PROVE  RotationOrder'
  BY <1>0, <1>12 DEF TypeOK, CarryInv, HistoryInv, DeletedInv, RotationOrder, reqVars,
       history, FindRefresh, Goto, Answer, Found
<1>13. ASSUME NEW r \in Requests, DeleteRefresh(r)
      PROVE  RotationOrder'
  BY <1>0, <1>13 DEF TypeOK, CarryInv, HistoryInv, DeletedInv, RotationOrder, reqVars,
       history, DeleteRefresh, DeleteByToken, Goto, Answer
<1>14. ASSUME NEW r \in Requests, FindUser(r)
      PROVE  RotationOrder'
  BY <1>0, <1>14 DEF TypeOK, CarryInv, HistoryInv, DeletedInv, RotationOrder, reqVars,
       history, FindUser, Goto
<1>15. ASSUME NEW r \in Requests, FindLogout(r)
      PROVE  RotationOrder'
  BY <1>0, <1>15 DEF TypeOK, CarryInv, HistoryInv, DeletedInv, RotationOrder, reqVars,
       history, FindLogout, Found, Goto, LoggedOut, Answer
<1>16. ASSUME NEW r \in Requests, DeleteLogout(r)
      PROVE  RotationOrder'
  BY <1>0, <1>16 DEF TypeOK, CarryInv, HistoryInv, DeletedInv, RotationOrder, reqVars,
       history, DeleteLogout, DeleteByToken, LoggedOut, Answer
<1>17. ASSUME NEW r \in Requests, StatementFails(r)
      PROVE  RotationOrder'
  BY <1>0, <1>17 DEF TypeOK, CarryInv, HistoryInv, DeletedInv, RotationOrder, reqVars,
       history, StatementFails, Answer
<1>18. CASE Crash
  BY <1>0, <1>18 DEF TypeOK, CarryInv, HistoryInv, DeletedInv, RotationOrder, reqVars,
       history, Crash
<1>19. ASSUME NEW t \in Tokens, Expire(t)
      PROVE  RotationOrder'
  BY <1>0, <1>19 DEF TypeOK, CarryInv, HistoryInv, DeletedInv, RotationOrder, reqVars,
       history, Expire
<1>20. CASE UNCHANGED vars
  BY <1>0, <1>20 DEF TypeOK, CarryInv, HistoryInv, DeletedInv, RotationOrder, reqVars,
       history, vars
<1> QED BY <1>1, <1>2, <1>3, <1>4, <1>5, <1>6, <1>7, <1>8, <1>9, <1>10, <1>11, <1>12,
       <1>13, <1>14, <1>15, <1>16, <1>17, <1>18, <1>19, <1>20
          DEF Next, Client, Serve

\* Every step keeps logged out tokens out of the table and live sessions in it.
LEMMA LogoutStep ==
  ASSUME Inv, [Next]_vars
  PROVE  LoggedOutGone' /\ NoSilentLoss'
<1> USE AuthAssumption
<1>0. TypeOK /\ CarryInv /\ HistoryInv /\ LoggedOutGone /\ NoSilentLoss BY DEF Inv
<1>1. ASSUME NEW r \in Requests, NEW a \in Account, Register(r, a)
      PROVE  LoggedOutGone' /\ NoSilentLoss'
  BY <1>0, <1>1 DEF TypeOK, CarryInv, HistoryInv, LoggedOutGone, NoSilentLoss, reqVars,
       history, Register, Begin
<1>2. ASSUME NEW r \in Requests, NEW input \in BadInput, RegisterRefused(r, input)
      PROVE  LoggedOutGone' /\ NoSilentLoss'
  BY <1>0, <1>2 DEF TypeOK, CarryInv, HistoryInv, LoggedOutGone, NoSilentLoss, reqVars,
       history, RegisterRefused, Refuse, Verdict
<1>3. ASSUME NEW r \in Requests, RefreshRefused(r) \/ BodyRefused(r)
      PROVE  LoggedOutGone' /\ NoSilentLoss'
  BY <1>0, <1>3 DEF TypeOK, CarryInv, HistoryInv, LoggedOutGone, NoSilentLoss, reqVars,
       history, RefreshRefused, BodyRefused, Refuse
<1>4. ASSUME NEW r \in Requests, NEW a \in Account, Login(r, a)
      PROVE  LoggedOutGone' /\ NoSilentLoss'
  BY <1>0, <1>4 DEF TypeOK, CarryInv, HistoryInv, LoggedOutGone, NoSilentLoss, reqVars,
       history, Login, Begin
<1>5. ASSUME NEW r \in Requests, NEW t \in Tokens, Refresh(r, t)
      PROVE  LoggedOutGone' /\ NoSilentLoss'
  BY <1>0, <1>5 DEF TypeOK, CarryInv, HistoryInv, LoggedOutGone, NoSilentLoss, reqVars,
       history, Refresh, Begin, Present
<1>6. ASSUME NEW r \in Requests, NEW t \in Tokens \cup {None}, Logout(r, t)
      PROVE  LoggedOutGone' /\ NoSilentLoss'
  BY <1>0, <1>6 DEF TypeOK, CarryInv, HistoryInv, LoggedOutGone, NoSilentLoss, reqVars,
       history, Logout, Begin, Present
<1>7. ASSUME NEW r \in Requests, CreateUserDuplicate(r)
      PROVE  LoggedOutGone' /\ NoSilentLoss'
  BY <1>0, <1>7 DEF TypeOK, CarryInv, HistoryInv, LoggedOutGone, NoSilentLoss, reqVars,
       history, CreateUserDuplicate, Answer
<1>8. ASSUME NEW r \in Requests, CreateUser(r)
      PROVE  LoggedOutGone' /\ NoSilentLoss'
  BY <1>0, <1>8 DEF TypeOK, CarryInv, HistoryInv, LoggedOutGone, NoSilentLoss, reqVars,
       history, CreateUser, Answer, Taken
<1>9. ASSUME NEW r \in Requests, PasswordAccepted(r)
      PROVE  LoggedOutGone' /\ NoSilentLoss'
  BY <1>0, <1>9 DEF TypeOK, CarryInv, HistoryInv, LoggedOutGone, NoSilentLoss, reqVars,
       history, PasswordAccepted, Goto
<1>10. ASSUME NEW r \in Requests, PasswordRefused(r)
      PROVE  LoggedOutGone' /\ NoSilentLoss'
  BY <1>0, <1>10 DEF TypeOK, CarryInv, HistoryInv, LoggedOutGone, NoSilentLoss, reqVars,
       history, PasswordRefused, Answer
<1>11. ASSUME NEW r \in Requests, NEW t \in Tokens, InsertToken(r, t)
      PROVE  LoggedOutGone' /\ NoSilentLoss'
  BY <1>0, <1>11 DEF TypeOK, CarryInv, HistoryInv, LoggedOutGone, NoSilentLoss, reqVars,
       history, InsertToken, Answer
<1>12. ASSUME NEW r \in Requests, FindRefresh(r)
      PROVE  LoggedOutGone' /\ NoSilentLoss'
  BY <1>0, <1>12 DEF TypeOK, CarryInv, HistoryInv, LoggedOutGone, NoSilentLoss, reqVars,
       history, FindRefresh, Goto, Answer, Found
<1>13. ASSUME NEW r \in Requests, DeleteRefresh(r)
      PROVE  LoggedOutGone' /\ NoSilentLoss'
  BY <1>0, <1>13 DEF TypeOK, CarryInv, HistoryInv, LoggedOutGone, NoSilentLoss, reqVars,
       history, DeleteRefresh, DeleteByToken, Goto, Answer
<1>14. ASSUME NEW r \in Requests, FindUser(r)
      PROVE  LoggedOutGone' /\ NoSilentLoss'
  BY <1>0, <1>14 DEF TypeOK, CarryInv, HistoryInv, LoggedOutGone, NoSilentLoss, reqVars,
       history, FindUser, Goto
<1>15. ASSUME NEW r \in Requests, FindLogout(r)
      PROVE  LoggedOutGone' /\ NoSilentLoss'
  BY <1>0, <1>15 DEF TypeOK, CarryInv, HistoryInv, LoggedOutGone, NoSilentLoss, reqVars,
       history, FindLogout, Found, Goto, LoggedOut, Answer
<1>16. ASSUME NEW r \in Requests, DeleteLogout(r)
      PROVE  LoggedOutGone' /\ NoSilentLoss'
  BY <1>0, <1>16 DEF TypeOK, CarryInv, HistoryInv, LoggedOutGone, NoSilentLoss, reqVars,
       history, DeleteLogout, DeleteByToken, LoggedOut, Answer
<1>17. ASSUME NEW r \in Requests, StatementFails(r)
      PROVE  LoggedOutGone' /\ NoSilentLoss'
  BY <1>0, <1>17 DEF TypeOK, CarryInv, HistoryInv, LoggedOutGone, NoSilentLoss, reqVars,
       history, StatementFails, Answer
<1>18. CASE Crash
  BY <1>0, <1>18 DEF TypeOK, CarryInv, HistoryInv, LoggedOutGone, NoSilentLoss, reqVars,
       history, Crash
<1>19. ASSUME NEW t \in Tokens, Expire(t)
      PROVE  LoggedOutGone' /\ NoSilentLoss'
  BY <1>0, <1>19 DEF TypeOK, CarryInv, HistoryInv, LoggedOutGone, NoSilentLoss, reqVars,
       history, Expire
<1>20. CASE UNCHANGED vars
  BY <1>0, <1>20 DEF TypeOK, CarryInv, HistoryInv, LoggedOutGone, NoSilentLoss, reqVars,
       history, vars
<1> QED BY <1>1, <1>2, <1>3, <1>4, <1>5, <1>6, <1>7, <1>8, <1>9, <1>10, <1>11, <1>12,
       <1>13, <1>14, <1>15, <1>16, <1>17, <1>18, <1>19, <1>20
          DEF Next, Client, Serve

\* The invariant is inductive.
LEMMA Invariance == Spec => []Inv
<1>1. Init => Inv BY InitInv
<1>2. Inv /\ [Next]_vars => Inv'
  BY TypeStep, CarryStep, HistoryStep, DeletedStep, RotationStep, LogoutStep DEF Inv
<1> QED BY <1>1, <1>2, PTL DEF Spec

-----------------------------------------------------------------------------
\* Every variable keeps its type.
THEOREM TypeCorrect == Spec => []TypeOK
<1>1. Inv => TypeOK BY DEF Inv
<1> QED BY <1>1, Invariance, PTL

\* A token that was exchanged is never stored while one it was exchanged for exists.
THEOREM RotationCorrect == Spec => []RotationOrder
<1>1. Inv => RotationOrder BY DEF Inv
<1> QED BY <1>1, Invariance, PTL

\* A client's token is stored until the client presents it.
THEOREM SessionsSurvive == Spec => []NoSilentLoss
<1>1. Inv => NoSilentLoss BY DEF Inv
<1> QED BY <1>1, Invariance, PTL

\* A refresh passes its lookup only with a token that is stored.
LEMMA LookupFinds ==
  ASSUME Inv, [Next]_vars, NEW r \in Requests,
         pc[r] = "findRefresh", pc'[r] = "deleteRefresh"
  PROVE  token[r] \in tokens
<1>1. PICK q \in Requests : FindRefresh(q)
  BY DEF Inv, TypeOK, Statement, Next, Client, Serve, Register, RegisterRefused, RefreshRefused,
     BodyRefused, Refuse, Login, Refresh, Logout, Begin, CreateUserDuplicate, CreateUser,
     PasswordAccepted, PasswordRefused, InsertToken, DeleteRefresh, FindUser, FindLogout,
     DeleteLogout, LoggedOut, StatementFails, Crash, Expire, Goto, Answer, vars, reqVars
<1> QED BY <1>1 DEF Inv, TypeOK, FindRefresh, Found, Goto, Answer

\* Only overlapping refreshes exchange a token twice.
THEOREM ReuseOverlaps == Spec => ReuseNeedsOverlap
<1>1. Inv /\ [Next]_vars
        => [\A r \in Requests : pc[r] = "findRefresh" /\ pc'[r] = "deleteRefresh"
                                 => Children(token[r]) = {}]_vars
  <2> SUFFICES ASSUME Inv, [Next]_vars, NEW r \in Requests,
                      pc[r] = "findRefresh", pc'[r] = "deleteRefresh"
               PROVE  Children(token[r]) = {}
    OBVIOUS
  <2>1. token[r] \in tokens BY LookupFinds
  <2> QED BY <2>1 DEF Inv, RotationOrder, CarryInv, Children
<1> QED BY <1>1, Invariance, PTL DEF Spec, ReuseNeedsOverlap

-----------------------------------------------------------------------------
(* Tokens presented twice at a time.                                       *)

\* Every step keeps the marks left by overlapping requests.
LEMMA ContendStep ==
  ASSUME Inv, Forks, [Next]_vars
  PROVE  ContendInv'
<1> USE AuthAssumption
<1>0. TypeOK /\ CarryInv /\ HistoryInv /\ DeletedInv /\ RotationOrder /\ LoggedOutGone
        /\ ContendInv
  BY DEF Inv, Forks
<1>1. ASSUME NEW r \in Requests, NEW a \in Account, Register(r, a)
      PROVE  ContendInv'
  BY <1>0, <1>1 DEF TypeOK, CarryInv, HistoryInv, DeletedInv, RotationOrder,
       LoggedOutGone, ContendInv, reqVars, history, Register, Begin
<1>2. ASSUME NEW r \in Requests, NEW input \in BadInput, RegisterRefused(r, input)
      PROVE  ContendInv'
  BY <1>0, <1>2 DEF TypeOK, CarryInv, HistoryInv, DeletedInv, RotationOrder,
       LoggedOutGone, ContendInv, reqVars, history, RegisterRefused, Refuse, Verdict
<1>3. ASSUME NEW r \in Requests, RefreshRefused(r) \/ BodyRefused(r)
      PROVE  ContendInv'
  BY <1>0, <1>3 DEF TypeOK, CarryInv, HistoryInv, DeletedInv, RotationOrder,
       LoggedOutGone, ContendInv, reqVars, history, RefreshRefused, BodyRefused, Refuse
<1>4. ASSUME NEW r \in Requests, NEW a \in Account, Login(r, a)
      PROVE  ContendInv'
  BY <1>0, <1>4 DEF TypeOK, CarryInv, HistoryInv, DeletedInv, RotationOrder,
       LoggedOutGone, ContendInv, reqVars, history, Login, Begin
<1>5. ASSUME NEW r \in Requests, NEW t \in Tokens, Refresh(r, t)
      PROVE  ContendInv'
  BY <1>0, <1>5 DEF TypeOK, CarryInv, HistoryInv, DeletedInv, RotationOrder,
       LoggedOutGone, ContendInv, reqVars, history, Refresh, Begin, Present
<1>6. ASSUME NEW r \in Requests, NEW t \in Tokens \cup {None}, Logout(r, t)
      PROVE  ContendInv'
  BY <1>0, <1>6 DEF TypeOK, CarryInv, HistoryInv, DeletedInv, RotationOrder,
       LoggedOutGone, ContendInv, reqVars, history, Logout, Begin, Present
<1>7. ASSUME NEW r \in Requests, CreateUserDuplicate(r)
      PROVE  ContendInv'
  BY <1>0, <1>7 DEF TypeOK, CarryInv, HistoryInv, DeletedInv, RotationOrder,
       LoggedOutGone, ContendInv, reqVars, history, CreateUserDuplicate, Answer
<1>8. ASSUME NEW r \in Requests, CreateUser(r)
      PROVE  ContendInv'
  BY <1>0, <1>8 DEF TypeOK, CarryInv, HistoryInv, DeletedInv, RotationOrder,
       LoggedOutGone, ContendInv, reqVars, history, CreateUser, Answer, Taken
<1>9. ASSUME NEW r \in Requests, PasswordAccepted(r)
      PROVE  ContendInv'
  BY <1>0, <1>9 DEF TypeOK, CarryInv, HistoryInv, DeletedInv, RotationOrder,
       LoggedOutGone, ContendInv, reqVars, history, PasswordAccepted, Goto
<1>10. ASSUME NEW r \in Requests, PasswordRefused(r)
      PROVE  ContendInv'
  BY <1>0, <1>10 DEF TypeOK, CarryInv, HistoryInv, DeletedInv, RotationOrder,
       LoggedOutGone, ContendInv, reqVars, history, PasswordRefused, Answer
<1>11. ASSUME NEW r \in Requests, NEW t \in Tokens, InsertToken(r, t)
      PROVE  ContendInv'
  BY <1>0, <1>11 DEF TypeOK, CarryInv, HistoryInv, DeletedInv, RotationOrder,
       LoggedOutGone, ContendInv, reqVars, history, InsertToken, Answer
<1>12. ASSUME NEW r \in Requests, FindRefresh(r)
      PROVE  ContendInv'
  BY <1>0, <1>12 DEF TypeOK, CarryInv, HistoryInv, DeletedInv, RotationOrder,
       LoggedOutGone, ContendInv, reqVars, history, FindRefresh, Goto, Answer, Found
<1>13. ASSUME NEW r \in Requests, DeleteRefresh(r)
      PROVE  ContendInv'
  BY <1>0, <1>13 DEF TypeOK, CarryInv, HistoryInv, DeletedInv, RotationOrder,
       LoggedOutGone, ContendInv, reqVars, history, DeleteRefresh, DeleteByToken, Goto, Answer
<1>14. ASSUME NEW r \in Requests, FindUser(r)
      PROVE  ContendInv'
  BY <1>0, <1>14 DEF TypeOK, CarryInv, HistoryInv, DeletedInv, RotationOrder,
       LoggedOutGone, ContendInv, reqVars, history, FindUser, Goto
<1>15. ASSUME NEW r \in Requests, FindLogout(r)
      PROVE  ContendInv'
  BY <1>0, <1>15 DEF TypeOK, CarryInv, HistoryInv, DeletedInv, RotationOrder,
       LoggedOutGone, ContendInv, reqVars, history, FindLogout, Found, Goto, LoggedOut, Answer
<1>16. ASSUME NEW r \in Requests, DeleteLogout(r)
      PROVE  ContendInv'
  BY <1>0, <1>16 DEF TypeOK, CarryInv, HistoryInv, DeletedInv, RotationOrder,
       LoggedOutGone, ContendInv, reqVars, history, DeleteLogout, DeleteByToken, LoggedOut, Answer
<1>17. ASSUME NEW r \in Requests, StatementFails(r)
      PROVE  ContendInv'
  BY <1>0, <1>17 DEF TypeOK, CarryInv, HistoryInv, DeletedInv, RotationOrder,
       LoggedOutGone, ContendInv, reqVars, history, StatementFails, Answer
<1>18. CASE Crash
  BY <1>0, <1>18 DEF TypeOK, CarryInv, HistoryInv, DeletedInv, RotationOrder,
       LoggedOutGone, ContendInv, reqVars, history, Crash
<1>19. ASSUME NEW t \in Tokens, Expire(t)
      PROVE  ContendInv'
  BY <1>0, <1>19 DEF TypeOK, CarryInv, HistoryInv, DeletedInv, RotationOrder,
       LoggedOutGone, ContendInv, reqVars, history, Expire
<1>20. CASE UNCHANGED vars
  BY <1>0, <1>20 DEF TypeOK, CarryInv, HistoryInv, DeletedInv, RotationOrder,
       LoggedOutGone, ContendInv, reqVars, history, vars
<1> QED BY <1>1, <1>2, <1>3, <1>4, <1>5, <1>6, <1>7, <1>8, <1>9, <1>10, <1>11, <1>12,
       <1>13, <1>14, <1>15, <1>16, <1>17, <1>18, <1>19, <1>20
          DEF Next, Client, Serve

\* Only InsertToken stores a token, and so may fork a session.
LEMMA ForkStep ==
  ASSUME Inv, Forks, [Next]_vars
  PROVE  ForkNeedsContention'
<1>1. ASSUME NEW r \in Requests, NEW t \in Tokens, InsertToken(r, t)
      PROVE  ForkNeedsContention'
  BY <1>1 DEF Inv, TypeOK, HistoryInv, Forks, ContendInv, ForkNeedsContention, InsertToken
<1>2. ASSUME UNCHANGED <<minted, parent>>, contended \subseteq contended'
      PROVE  ForkNeedsContention'
  BY <1>2 DEF Forks, ForkNeedsContention
<1>3. ASSUME NEW r \in Requests, NEW t \in Tokens \cup {None}, Refresh(r, t) \/ Logout(r, t)
      PROVE  ForkNeedsContention'
  <2>1. UNCHANGED <<minted, parent>> /\ contended \subseteq contended'
    BY <1>3 DEF Refresh, Logout, Present
  <2> QED BY <1>2, <2>1
<1>4. CASE UNCHANGED <<minted, parent, contended>>
  BY <1>2, <1>4
<1> QED
  BY <1>1, <1>3, <1>4
     DEF Next, Client, Serve, Register, RegisterRefused, RefreshRefused, BodyRefused, Login,
         CreateUserDuplicate, CreateUser, PasswordAccepted, PasswordRefused,
         FindRefresh, DeleteRefresh, FindUser, FindLogout, DeleteLogout, StatementFails, Crash,
         Expire, history, vars

\* The strengthening is inductive.
LEMMA ForkInvariance == Spec => [](Inv /\ Forks)
<1>1. Init => Inv /\ Forks
  BY InitInv DEF Init, Forks, ContendInv, ForkNeedsContention
<1>2. Inv /\ Forks /\ [Next]_vars => Forks'
  BY ContendStep, ForkStep DEF Forks
<1> QED BY <1>1, <1>2, Invariance, PTL DEF Spec

\* A token is exchanged twice only when it was presented while a request with it was
\* running, whatever fails.
THEOREM ForksOverlap == Spec => []ForkNeedsContention
<1>1. Inv /\ Forks => ForkNeedsContention BY DEF Forks
<1> QED BY <1>1, ForkInvariance, PTL

\* A logged-out token passes no lookup of Refresh, and is exchanged only after it was
\* presented twice at a time.
THEOREM LogoutCorrect == Spec => LogoutFinal
<1>1. Inv /\ Forks /\ [Next]_vars
        => [\A r \in Requests : token[r] \in loggedOut =>
              /\ pc[r] = "findRefresh" => pc'[r] # "deleteRefresh"
              /\ pc[r] = "insert" /\ minted' # minted => token[r] \in contended]_vars
  <2> SUFFICES ASSUME Inv, Forks, [Next]_vars, NEW r \in Requests, token[r] \in loggedOut
               PROVE  /\ pc[r] = "findRefresh" => pc'[r] # "deleteRefresh"
                      /\ pc[r] = "insert" => token[r] \in contended
    OBVIOUS
  <2>1. ASSUME pc[r] = "findRefresh", pc'[r] = "deleteRefresh"
        PROVE  FALSE
    <3>1. token[r] \in tokens
      BY <2>1, LookupFinds
    <3> QED BY <3>1 DEF Inv, LoggedOutGone
  <2>2. pc[r] = "insert" => token[r] \in contended
    BY DEF Forks, ContendInv
  <2> QED BY <2>1, <2>2
<1> QED BY <1>1, ForkInvariance, PTL DEF Spec, LogoutFinal

-----------------------------------------------------------------------------
\* What Sessions calls live, in terms of the server.
InExchange == {r \in Requests : pc[r] \in {"findUser", "insert"} /\ token[r] # None}
Live == tokens \cup {token[r] : r \in InExchange}

\* A step that adds no token to the table and no exchange only ends sessions.
LEMMA OnlyEnds ==
  ASSUME UNCHANGED <<minted, contended>>, Live' \subseteq Live
  PROVE  \E ended \in SUBSET Live : Live' = Live \ ended
<1>1. Live' = Live \ (Live \ Live')
  OBVIOUS
<1> QED BY <1>1

\* The server implements Sessions, whatever requests overlap.
THEOREM ImplementsSessions == Spec => SessionsSpec
<1>1. Init => S!Init
  BY DEF Init, S!Init
<1>2. Inv /\ Forks /\ [Next]_vars => [S!Next]_(S!vars)
  <2> SUFFICES ASSUME Inv, Forks, [Next]_vars
               PROVE  \/ S!Next
                      \/ UNCHANGED <<Live, minted, contended>>
    BY DEF S!vars, Live, InExchange
  <2>0. TypeOK /\ CarryInv /\ HistoryInv /\ DeletedInv /\ ContendInv
    BY DEF Inv, Forks
  <2>1. ASSUME UNCHANGED <<minted, contended>>, Live' \subseteq Live
        PROVE  S!Next
    <3>1. PICK ended \in SUBSET Live : Live' = Live \ ended
      BY <2>1, OnlyEnds
    <3>2. S!End(ended)
      BY <2>1, <3>1 DEF S!End, Live, InExchange
    <3> QED BY <3>2 DEF S!Next, Live, InExchange
  <2>2. ASSUME NEW r \in Requests, NEW t \in Tokens, InsertToken(r, t)
        PROVE  S!Next
    <3>1. t \notin minted /\ minted' = minted \cup {t} /\ tokens' = tokens \cup {t}
          /\ pc[r] = "insert" /\ pc' = [pc EXCEPT ![r] = "idle"]
          /\ token' = [token EXCEPT ![r] = None] /\ contended' = contended
      BY <2>2 DEF InsertToken, Answer
    <3>2. InExchange' = InExchange \ {r} /\ \A q \in InExchange' : token'[q] = token[q]
      BY <2>0, <3>1 DEF InExchange, TypeOK
    <3>3. {token'[q] : q \in InExchange'} = {token[q] : q \in InExchange \ {r}}
      BY <3>2
    <3>4. CASE token[r] = None
      <4>1. r \notin InExchange
        BY <3>4 DEF InExchange
      <4>2. Live' = Live \cup {t}
        BY <3>1, <3>2, <3>3, <4>1 DEF Live
      <4>3. S!Open(t)
        BY <3>1, <4>2 DEF S!Open, S!Fresh, Live, InExchange
      <4> QED BY <4>3 DEF S!Next
    <3>5. CASE token[r] # None
      <4>1. r \in InExchange /\ token[r] \in Tokens /\ token[r] \notin tokens
        BY <2>0, <3>1, <3>5 DEF InExchange, DeletedInv, TypeOK
      <4>2. CASE \A q \in InExchange \ {r} : token[q] # token[r]
        <5>1. Live' = (Live \ {token[r]}) \cup {t}
          BY <3>1, <3>3, <4>1, <4>2 DEF Live
        <5>2. S!Rotate(token[r], t)
          BY <3>1, <4>1, <5>1 DEF S!Rotate, S!Fresh, Live, InExchange
        <5> QED BY <4>1, <5>2 DEF S!Next
      <4>3. CASE \E q \in InExchange \ {r} : token[q] = token[r]
        <5>1. token[r] \in contended
          BY <2>0, <3>1, <3>5, <4>3 DEF InExchange, ContendInv
        <5>2. Live' = Live \cup {t}
          BY <3>1, <3>3, <4>1, <4>3 DEF Live
        <5>3. S!Fork(token[r], t)
          BY <3>1, <4>1, <5>1, <5>2 DEF S!Fork, S!Fresh, Live, InExchange
        <5> QED BY <4>1, <5>3 DEF S!Next
      <4> QED BY <4>2, <4>3
    <3> QED BY <3>4, <3>5
  <2>3. ASSUME NEW r \in Requests, DeleteRefresh(r)
        PROVE  S!Next
    <3>1. /\ tokens' = tokens \ {token[r]} /\ token[r] \in tokens \cup contended
          /\ token[r] \in Tokens /\ UNCHANGED <<minted, contended>>
      BY <2>0, <2>3 DEF DeleteRefresh, DeleteByToken, ContendInv, TypeOK, CarryInv, history
    <3>2. \A q \in InExchange' : token'[q] = token[q] /\ (q \in InExchange \/ q = r)
      BY <2>0, <2>3 DEF DeleteRefresh, Goto, Answer, InExchange, TypeOK
    <3>3. CASE Live' \subseteq Live
      BY <2>1, <3>1, <3>3
    <3>4. CASE ~(Live' \subseteq Live)
      <4>1. token[r] \in Live' /\ token[r] \notin Live
        BY <3>1, <3>2, <3>4 DEF Live
      <4>2. token[r] \in contended
        BY <3>1, <4>1 DEF Live
      <4>3. \A q \in InExchange : q \in InExchange' /\ token'[q] = token[q]
        BY <2>0, <2>3 DEF DeleteRefresh, Goto, Answer, InExchange, TypeOK
      <4>4. Live' = Live \cup {token[r]}
        BY <3>1, <3>2, <4>1, <4>3 DEF Live
      <4>5. S!Revive(token[r])
        BY <3>1, <4>2, <4>4 DEF S!Revive, Live, InExchange
      <4>6. token[r] \in Tokens
        BY <3>1
      <4>7. \E u \in Tokens : S!Open(u) \/ S!Contend(u) \/ S!Revive(u)
        BY <4>5, <4>6 DEF S!Revive
      <4> QED BY <4>7 DEF S!Next
    <3> QED BY <3>3, <3>4
  <2>4. ASSUME UNCHANGED <<minted, contended>>, tokens' \subseteq tokens,
               \A q \in InExchange' : q \in InExchange /\ token'[q] = token[q]
        PROVE  S!Next
    <3>1. Live' \subseteq Live
      BY <2>4 DEF Live
    <3> QED BY <2>1, <2>4, <3>1
  <2>5. ASSUME NEW r \in Requests, NEW t \in Tokens \cup {None}, Refresh(r, t) \/ Logout(r, t)
        PROVE  S!Next \/ UNCHANGED <<Live, minted, contended>>
    <3>1. UNCHANGED <<minted, tokens>>
      BY <2>5 DEF Refresh, Logout
    <3>2. InExchange' = InExchange /\ \A q \in InExchange : token'[q] = token[q]
      BY <2>0, <2>5 DEF Refresh, Logout, Begin, InExchange, TypeOK
    <3>3. Live' = Live
      BY <3>1, <3>2 DEF Live
    <3>4. contended' = contended \/ (t \in minted /\ contended' = contended \cup {t})
      BY <2>0, <2>5 DEF Refresh, Logout, Present, HistoryInv
    <3>5. t \in minted /\ contended' = contended \cup {t} => S!Contend(t) /\ t \in Tokens
      BY <2>0, <3>1, <3>3 DEF S!Contend, Live, InExchange, TypeOK
    <3> QED BY <3>1, <3>3, <3>4, <3>5 DEF S!Next
  <2>6. ASSUME NEW r \in Requests,
               \/ \E a \in Account : Register(r, a) \/ Login(r, a)
               \/ \E input \in BadInput : RegisterRefused(r, input)
               \/ RefreshRefused(r) \/ BodyRefused(r)
        PROVE  S!Next
    BY <2>0, <2>4, <2>6
       DEF Register, Login, RegisterRefused, RefreshRefused, BodyRefused, Begin, Refuse, TypeOK,
           InExchange, history
  <2>7. ASSUME NEW r \in Requests,
               \/ CreateUserDuplicate(r) \/ CreateUser(r) \/ PasswordAccepted(r)
               \/ PasswordRefused(r) \/ FindRefresh(r) \/ FindLogout(r) \/ DeleteLogout(r)
               \/ FindUser(r) \/ StatementFails(r)
        PROVE  S!Next
    BY <2>0, <2>4, <2>7
       DEF CreateUserDuplicate, CreateUser, PasswordAccepted, PasswordRefused, FindRefresh,
           FindLogout, DeleteLogout, LoggedOut, DeleteByToken, FindUser, StatementFails, Goto,
           Answer, TypeOK, CarryInv, InExchange, history
  <2>8. CASE Crash
    BY <2>4, <2>8 DEF Crash, InExchange, history
  <2>9. ASSUME NEW t \in Tokens, Expire(t)
        PROVE  UNCHANGED <<Live, minted, contended>>
    BY <2>9 DEF Expire, reqVars, history, Live, InExchange
  <2>10. CASE UNCHANGED vars
    BY <2>10 DEF vars, reqVars, history, Live, InExchange
  <2> QED BY <2>2, <2>3, <2>5, <2>6, <2>7, <2>8, <2>9, <2>10 DEF Next, Client, Serve
<1> QED BY <1>1, <1>2, ForkInvariance, PTL DEF Spec, SessionsSpec, S!Spec
=============================================================================
