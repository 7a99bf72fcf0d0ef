------------------------------ MODULE Presence ------------------------------
(***************************************************************************)
(* What the hub promises about who is online, whatever its goroutines do:  *)
(* connections join and leave one at a time, every change of a user's      *)
(* status is announced before the next change of any list, and a user goes *)
(* offline with the last connection only.                                  *)
(***************************************************************************)
CONSTANTS Users, Clients

VARIABLES
  owner,      \* the user of each connection
  conns,      \* the connections of each user
  announcing  \* the statuses being announced: none, or one

vars == <<owner, conns, announcing>>

Init ==
  /\ owner \in [Clients -> Users]
  /\ conns = [u \in Users |-> {}]
  /\ announcing = {}

\* A connection that is not listed joins its user, who is announced online.
Join(c) ==
  /\ announcing = {}
  /\ c \notin conns[owner[c]]
  /\ conns' = [conns EXCEPT ![owner[c]] = @ \cup {c}]
  /\ announcing' = {[user |-> owner[c], online |-> TRUE]}

\* A listed connection leaves; the last one takes its user offline.
Leave(c) ==
  /\ announcing = {}
  /\ c \in conns[owner[c]]
  /\ conns' = [conns EXCEPT ![owner[c]] = @ \ {c}]
  /\ announcing' = IF conns[owner[c]] = {c}
                   THEN {[user |-> owner[c], online |-> FALSE]}
                   ELSE {}

Announced ==
  /\ announcing # {}
  /\ announcing' = {}
  /\ UNCHANGED conns

\* The process was restarted: every connection is gone, nobody is told.
Reset ==
  /\ conns' = [u \in Users |-> {}]
  /\ announcing' = {}

Next ==
  /\ \/ \E c \in Clients : Join(c) \/ Leave(c)
     \/ Announced
     \/ Reset
  /\ UNCHANGED owner

Spec == Init /\ [][Next]_vars
=============================================================================
