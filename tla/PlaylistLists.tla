---------------------------- MODULE PlaylistLists ----------------------------
(***************************************************************************)
(* What the playlist endpoints promise: each playlist is a list of         *)
(* different tracks in the order they were added, and a rendered playlist  *)
(* shows exactly that list.                                                *)
(***************************************************************************)
EXTENDS Naturals, Sequences, SequencesExt

CONSTANTS
    Id,       \* playlist ids
    Track,    \* track ids
    NoList    \* there is no playlist with this id

VARIABLES
    lists,    \* Id -> sequence of tracks, or NoList
    shown     \* the playlist rendered in the last answer: [id, list]

Nothing == [id |-> 0, list |-> <<>>]

Init == /\ lists = [i \in Id |-> NoList]
        /\ shown = Nothing

\* A new playlist is empty, whatever its id was used for before.
Create(i) == /\ lists[i] = NoList
             /\ lists' = [lists EXCEPT ![i] = <<>>]
             /\ shown' = [id |-> i, list |-> <<>>]

Delete(i) == /\ lists[i] # NoList
             /\ lists' = [lists EXCEPT ![i] = NoList]
             /\ shown' = Nothing

\* A track that is not in the list yet goes to its end.
AddLast(i, t) == /\ lists[i] # NoList /\ t \notin Range(lists[i])
                 /\ lists' = [lists EXCEPT ![i] = Append(@, t)]
                 /\ shown' = Nothing

\* The others keep their order.
TakeOut(i, t) == /\ lists[i] # NoList
                 /\ \E k \in DOMAIN lists[i] : /\ lists[i][k] = t
                                              /\ lists' = [lists EXCEPT ![i] = RemoveAt(@, k)]
                 /\ shown' = Nothing

Show(i) == /\ lists[i] # NoList
           /\ shown' = [id |-> i, list |-> lists[i]]
           /\ UNCHANGED lists

\* Any other answer, and the arrival of the next request.
Clear == shown' = Nothing /\ UNCHANGED lists

Next == \/ Clear
        \/ \E i \in Id : \/ Create(i) \/ Delete(i) \/ Show(i)
                         \/ \E t \in Track : AddLast(i, t) \/ TakeOut(i, t)

Spec == Init /\ [][Next]_<<lists, shown>>
=============================================================================
