----------------------------- MODULE KeyRegister -----------------------------
(***************************************************************************)
(* What the room keys promise: one key for each user, that changes at once *)
(* and only by a save on its way.  A save that is answered 200 has stored  *)
(* its key, or another save of the same user's key has meanwhile.  A blank *)
(* key is stored only where there was none when its save began.            *)
(***************************************************************************)
CONSTANTS Users, Calls, Blank, None

VARIABLES
  value,    \* the key of each user; None before the first
  save,     \* the user and the key of each save on its way
  beaten,   \* saves during which another one has stored a key of the same user
  accepted  \* calls whose last answer was 200

vars == <<value, save, beaten, accepted>>

Keys == Calls \cup {Blank}

Init ==
  /\ value = [u \in Users |-> None]
  /\ save = [r \in Calls |-> None]
  /\ beaten = {}
  /\ accepted = {}

Begin(r, u, k) ==
  /\ save[r] = None
  /\ save' = [save EXCEPT ![r] = [user |-> u, key |-> k]]
  /\ UNCHANGED <<value, beaten, accepted>>

\* The call is answered, 200 or not.
End(r, ok) ==
  /\ save' = [save EXCEPT ![r] = None]
  /\ accepted' = IF ok THEN accepted \cup {r} ELSE accepted \ {r}

\* The key is stored; the answer may be lost.
Store(r, ok) ==
  LET u == save[r].user IN
  /\ save[r] # None
  /\ save[r].key = Blank => value[u] = None \/ r \in beaten
  /\ value' = [value EXCEPT ![u] = save[r].key]
  /\ beaten' = (beaten \cup {q \in Calls : save[q] # None /\ save[q].user = u}) \ {r}
  /\ End(r, ok)

\* A blank key is not.
Ignore(r, ok) ==
  /\ save[r] # None
  /\ save[r].key = Blank
  /\ value[save[r].user] # None
  /\ End(r, ok)
  /\ beaten' = beaten \ {r}
  /\ UNCHANGED value

Overtaken(r) ==
  /\ r \in beaten
  /\ save[r] # None
  /\ End(r, TRUE)
  /\ beaten' = beaten \ {r}
  /\ UNCHANGED value

Fail(r) ==
  /\ End(r, FALSE)
  /\ beaten' = beaten \ {r}
  /\ UNCHANGED value

\* Calls that save no room key.
Other(r, ok) ==
  /\ save[r] = None
  /\ End(r, ok)
  /\ UNCHANGED <<value, beaten>>

Next ==
  \E r \in Calls :
    \/ \E u \in Users, k \in Keys : Begin(r, u, k)
    \/ \E ok \in BOOLEAN : Store(r, ok) \/ Ignore(r, ok) \/ Other(r, ok)
    \/ Overtaken(r) \/ Fail(r)

Spec == Init /\ [][Next]_vars
=============================================================================
