------------------------------ MODULE MCChats ------------------------------
(* Instances of Chats for TLC. *)
EXTENDS Chats, TLC

\* Calls and users are interchangeable: only their identity is compared.
Symmetry == Permutations(Calls) \cup Permutations(Users)

Creates(kinds, invited) == [op : {"create"}, kind : kinds, ids : invited]
Adds(invited, twice) == [op : {"add"}, chat : ChatIds, ids : invited, twice : twice]
Leaves == [op : {"leave"}, chat : ChatIds]

\* Private chats of one user or two, a group of everyone, and all that can happen to
\* their members.
One == {{u} : u \in Users}
Everyone == {Users}
PairBodies ==
  Creates({"private"}, One) \cup Creates({"group"}, Everyone)
    \cup Adds(Everyone, BOOLEAN) \cup Leaves

\* Chats of everyone, whoever creates them, and everyone added to them.
EveryoneBodies == Creates({"group"}, Everyone) \cup Adds(Everyone, {FALSE})

=============================================================================
