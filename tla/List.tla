-------------------------------- MODULE List --------------------------------
(***************************************************************************)
(* List (containers/list.h), the singly linked list that TypeManager keeps *)
(* its types in: two pointers and the links inside the nodes. The link of  *)
(* a node that is in no list may be anything: neither TypeNode nor the     *)
(* nodes of the tests initialise it, and PopFront leaves it as it was.     *)
(***************************************************************************)
EXTENDS Naturals, Sequences, FiniteSets

CONSTANTS Lists, Nodes, Null

ASSUME ListAssumption == IsFiniteSet(Nodes) /\ Null \notin Nodes

VARIABLES
    head_,      \* per list
    last_,      \* per list
    next,       \* the NextPtr of every node
    content,    \* per list: what its users put into it, in order
    behind      \* history, per list: the link that its last node was left with

listVars == <<head_, last_, next, content, behind>>

ListInit ==
    /\ head_ = [l \in Lists |-> Null]
    /\ last_ = [l \in Lists |-> Null]
    /\ next \in [Nodes -> Nodes \cup {Null}]
    /\ content = [l \in Lists |-> <<>>]
    /\ behind = [l \in Lists |-> Null]

Elements(s) == {s[i] : i \in DOMAIN s}

Free == {n \in Nodes : \A l \in Lists : n \notin Elements(content[l])}

-----------------------------------------------------------------------------
PushBack(l, n) ==
    /\ n \in Free
    /\ next' = [m \in Nodes |-> IF m = n THEN Null
                                ELSE IF m = last_[l] THEN n ELSE next[m]]
    /\ head_' = [head_ EXCEPT ![l] = IF last_[l] = Null THEN n ELSE @]
    /\ last_' = [last_ EXCEPT ![l] = n]
    /\ content' = [content EXCEPT ![l] = Append(@, n)]
    /\ behind' = [behind EXCEPT ![l] = Null]

(* PushFront(node): the first node of a list keeps the link it had.        *)
PushFront(l, n) ==
    /\ n \in Free
    /\ IF head_[l] = Null
       THEN /\ last_' = [last_ EXCEPT ![l] = n]
            /\ behind' = [behind EXCEPT ![l] = next[n]]
            /\ UNCHANGED next
       ELSE next' = [next EXCEPT ![n] = head_[l]] /\ UNCHANGED <<last_, behind>>
    /\ head_' = [head_ EXCEPT ![l] = n]
    /\ content' = [content EXCEPT ![l] = <<n>> \o @]

(* Fault: last_ stays when the list was empty.                             *)
PushFrontListNoLast(l, another) ==
    /\ l # another
    /\ head_[another] # Null
    /\ next' = [next EXCEPT ![last_[another]] = head_[l]]
    /\ head_' = [head_ EXCEPT ![l] = head_[another], ![another] = Null]
    /\ last_' = [last_ EXCEPT ![another] = Null]
    /\ content' = [content EXCEPT ![l] = content[another] \o @, ![another] = <<>>]
    /\ behind' = [behind EXCEPT ![l] = IF last_[l] = Null THEN Null ELSE @]

(* PushFront(List &&). The list moved from is not used again: here it is   *)
(* destroyed and begins anew.                                              *)
PushFrontList(l, another) ==
    /\ l # another
    /\ head_[another] # Null
    /\ next' = [next EXCEPT ![last_[another]] = head_[l]]
    /\ head_' = [head_ EXCEPT ![l] = head_[another], ![another] = Null]
    /\ last_' = [last_ EXCEPT ![l] = IF @ = Null THEN last_[another] ELSE @,
                              ![another] = Null]
    /\ content' = [content EXCEPT ![l] = content[another] \o @, ![another] = <<>>]
    /\ behind' = [behind EXCEPT ![l] = IF last_[l] = Null THEN Null ELSE @]

(* An empty list and a list of one node are told from others by head_ ==   *)
(* last_.                                                                  *)
PopFront(l) ==
    /\ head_' = [head_ EXCEPT ![l] = IF @ = last_[l] THEN Null ELSE next[@]]
    /\ last_' = [last_ EXCEPT ![l] = IF head_[l] = @ THEN Null ELSE @]
    /\ content' = [content EXCEPT ![l] = IF @ = <<>> THEN @ ELSE Tail(@)]
    /\ UNCHANGED <<next, behind>>

ListNext ==
    \E l \in Lists :
        \/ \E n \in Nodes : PushBack(l, n)
        \/ \E n \in Nodes : PushFront(l, n)
        \/ \E another \in Lists : PushFrontList(l, another)
        \/ PopFront(l)

ListSpec == ListInit /\ [][ListNext]_listVars

-----------------------------------------------------------------------------
(* The walk from Head() on, as that over the types, meets the nodes of s:  *)
(* it begins at the first, and each link leads to the next one. Behind the *)
(* last it finds End(), unless that node came to the front of an empty     *)
(* list (list.h:66) and still has the link it brought along.               *)
Walks(l, s) ==
    /\ head_[l] = IF s = <<>> THEN Null ELSE s[1]
    /\ \A i \in 1 .. Len(s) : next[s[i]] = IF i = Len(s) THEN behind[l] ELSE s[i + 1]

(* Last() is the node that PushBack has to link to, also after the list    *)
(* was emptied or took over another.                                       *)
ListTypeOK ==
    \A l \in Lists :
        /\ (head_[l] = Null) = (content[l] = <<>>)
        /\ last_[l] = IF content[l] = <<>> THEN Null ELSE content[l][Len(content[l])]

(* A walk meets exactly what was inserted and not removed, in order.       *)
WalkIsContent == \A l \in Lists : Walks(l, content[l])

(* Links and ends of the lists agree with what was asked for, after any    *)
(* sequence of calls, whatever links the nodes come with: what a node      *)
(* brings along, even one that still points into this or another list,     *)
(* never gets between the nodes of a list, and is gone once another node   *)
(* is appended.                                                            *)
ListInv == ListTypeOK /\ WalkIsContent
=============================================================================
