-------------------------------- MODULE Lists --------------------------------
(***************************************************************************)
(* Doubly linked lists whose nodes are the first two words of what they    *)
(* link (gekkota_list.c, gekkota_list.h).  A list is its sentinel; an      *)
(* empty list is a sentinel linked to itself; a node of no list has two    *)
(* null words, or whatever the memory it lies in held before.              *)
(*                                                                         *)
(* Links are a record of two functions from nodes to words.  Nothing       *)
(* tells one list of another but the sentinel a walk comes back to.        *)
(***************************************************************************)

CONSTANTS Null, Junk   \* the null word, and any word that is no node

\* A sentinel linked to itself.
ListClear(l, s) ==
    [next |-> [l.next EXCEPT ![s] = s], previous |-> [l.previous EXCEPT ![s] = s]]

\* May e be inserted: an element of which a word is not null is refused.
Insertable(l, e) == l.next[e] = Null /\ l.previous[e] = Null

\* Mutant: the element that was last goes on to the sentinel.
LinkedOneWay(l, i, e) ==
    [next |-> [l.next EXCEPT ![e] = i],
     previous |-> [l.previous EXCEPT ![e] = l.previous[i], ![i] = e]]

\* Element e linked before node i.
Linked(l, i, e) ==
    [next |-> [l.next EXCEPT ![e] = i, ![l.previous[i]] = e],
     previous |-> [l.previous EXCEPT ![e] = l.previous[i], ![i] = e]]

ListInsert(l, i, e) == IF Insertable(l, e) THEN Linked(l, i, e) ELSE l

\* At the end of list s.
ListAdd(l, s, e) == ListInsert(l, s, e)

\* Node i of a list leaves it.
ListRemove(l, i) ==
    [next |-> [l.next EXCEPT ![l.previous[i]] = l.next[i], ![i] = Null],
     previous |-> [l.previous EXCEPT ![l.next[i]] = l.previous[i], ![i] = Null]]

IsEmpty(l, s) == l.next[s] = s

\* Every node is of no list, or both its neighbours know it.
Sound(l, nodes) ==
    \A x \in nodes :
        /\ l.next[x] \in nodes <=> l.previous[x] \in nodes
        /\ l.next[x] \in nodes =>
              l.previous[l.next[x]] = x /\ l.next[l.previous[x]] = x
=============================================================================
