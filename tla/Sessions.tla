----------------------------- MODULE Sessions -----------------------------
(***************************************************************************)
(* What the refresh tokens of the auth server promise a client: a token is *)
(* exchanged once, in one step, for a token never seen before, and a       *)
(* session that ended does not come back.  A token that is presented twice *)
(* at a time forfeits this, for itself and for no other token.             *)
(***************************************************************************)
CONSTANT Tokens

VARIABLES
  live,      \* tokens that can still be exchanged
  ever,      \* tokens that were live at some time
  contended  \* tokens that were presented twice at a time

vars == <<live, ever, contended>>

Init ==
  /\ live = {}
  /\ ever = {}
  /\ contended = {}

Fresh(t) == t \notin ever /\ ever' = ever \cup {t}

\* A login opens a session.
Open(t) ==
  /\ Fresh(t)
  /\ live' = live \cup {t}
  /\ UNCHANGED contended

\* A refresh exchanges the session's token.
Rotate(t, u) ==
  /\ t \in live
  /\ Fresh(u)
  /\ live' = (live \ {t}) \cup {u}
  /\ UNCHANGED contended

\* Sessions end: a logout, or a refresh that failed halfway, or several of them
\* cut short by a crash.
End(ended) ==
  /\ live' = live \ ended
  /\ UNCHANGED <<ever, contended>>

\* A token is presented twice at a time: it may come back to life ...
Contend(t) ==
  /\ t \in ever
  /\ contended' = contended \cup {t}
  /\ UNCHANGED <<live, ever>>

Revive(t) ==
  /\ t \in contended
  /\ live' = live \cup {t}
  /\ UNCHANGED <<ever, contended>>

\* ... and be exchanged while it stays alive.
Fork(t, u) ==
  /\ t \in live \cap contended
  /\ Fresh(u)
  /\ live' = live \cup {u}
  /\ UNCHANGED contended

Next ==
  \/ \E t \in Tokens : Open(t) \/ Contend(t) \/ Revive(t)
  \/ \E t, u \in Tokens : Rotate(t, u) \/ Fork(t, u)
  \/ \E ended \in SUBSET live : End(ended)

Spec == Init /\ [][Next]_vars
=============================================================================
