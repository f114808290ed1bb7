---------------------------- MODULE LinkedStack -----------------------------
(***************************************************************************)
(* LinkedStack (containers/linked_stack.h): a stack of linked nodes whose  *)
(* head is changed by compare-and-exchange alone, so that threads may be   *)
(* stopped between any two of its loads and stores.                        *)
(***************************************************************************)
EXTENDS Naturals, Sequences, FiniteSets

CONSTANTS Threads, StackNodes, NoNode

ASSUME StackAssumption == IsFiniteSet(StackNodes) /\ NoNode \notin StackNodes

VARIABLES
    stackHead,      \* head_
    below,       \* the NextPtr of every node
    owned,      \* per thread: the nodes it may push
    stackPc,         \* per thread: where it is in Push or Pop
    node,       \* per thread: the argument of Push
    head,       \* per thread: the local variable of Push and Pop
    nextLoaded      \* per thread: next in Pop

stackVars == <<stackHead, below, owned, stackPc, node, head, nextLoaded>>

(* The nodes belong to the threads to begin with.                          *)
StackInit ==
    /\ stackHead = NoNode
    /\ below = [n \in StackNodes |-> NoNode]
    /\ owned \in {f \in [Threads -> SUBSET StackNodes] :
                     /\ UNION {f[t] : t \in Threads} = StackNodes
                     /\ \A s, t \in Threads : s # t => f[s] \cap f[t] = {}}
    /\ stackPc = [t \in Threads |-> "idle"]
    /\ node = [t \in Threads |-> NoNode]
    /\ head = [t \in Threads |-> NoNode]
    /\ nextLoaded = [t \in Threads |-> NoNode]

-----------------------------------------------------------------------------
(* The ABA problem is the user's to avoid: a node is not pushed while a    *)
(* thread in Pop has seen it at the head and not yet tried to exchange it. *)
Begin(t, n) ==
    /\ stackPc[t] = "idle"
    /\ n \in owned[t]
    /\ \A u \in Threads : stackPc[u] \in {"popNext", "popExchange"} => head[u] # n
    /\ node' = [node EXCEPT ![t] = n]
    /\ stackPc' = [stackPc EXCEPT ![t] = "pushLoad"]
    /\ UNCHANGED <<stackHead, below, owned, head, nextLoaded>>

(* head = head_.load(); node.*NextPtr = head;                              *)
PushLoad(t) ==
    /\ stackPc[t] = "pushLoad"
    /\ head' = [head EXCEPT ![t] = stackHead]
    /\ below' = [below EXCEPT ![node[t]] = stackHead]
    /\ stackPc' = [stackPc EXCEPT ![t] = "pushExchange"]
    /\ UNCHANGED <<stackHead, owned, node, nextLoaded>>

(* Fault: the head is stored, not exchanged.                               *)
PushStore(t) ==
    /\ stackPc[t] = "pushExchange"
    /\ stackHead' = node[t]
    /\ owned' = [owned EXCEPT ![t] = @ \ {node[t]}]
    /\ stackPc' = [stackPc EXCEPT ![t] = "idle"]
    /\ node' = [node EXCEPT ![t] = NoNode]
    /\ head' = [head EXCEPT ![t] = NoNode]
    /\ UNCHANGED <<below, nextLoaded>>

PushExchange(t) ==
    /\ stackPc[t] = "pushExchange"
    /\ \/ /\ stackHead = head[t]
          /\ stackHead' = node[t]
          /\ owned' = [owned EXCEPT ![t] = @ \ {node[t]}]
          /\ stackPc' = [stackPc EXCEPT ![t] = "idle"]
          /\ node' = [node EXCEPT ![t] = NoNode]
          /\ head' = [head EXCEPT ![t] = NoNode]
       \/ /\ stackHead # head[t]
          /\ stackPc' = [stackPc EXCEPT ![t] = "pushLoad"]
          /\ UNCHANGED <<stackHead, owned, node, head>>
    /\ UNCHANGED <<below, nextLoaded>>

(* Pop loads the head, at first and after a failed exchange, and returns   *)
(* nullptr when there is none.                                             *)
PopLoad(t) ==
    /\ stackPc[t] \in {"idle", "popLoad"}
    /\ head' = [head EXCEPT ![t] = stackHead]
    /\ stackPc' = [stackPc EXCEPT ![t] = IF stackHead = NoNode THEN "idle" ELSE "popNext"]
    /\ UNCHANGED <<stackHead, below, owned, node, nextLoaded>>

PopNext(t) ==
    /\ stackPc[t] = "popNext"
    /\ nextLoaded' = [nextLoaded EXCEPT ![t] = below[head[t]]]
    /\ stackPc' = [stackPc EXCEPT ![t] = "popExchange"]
    /\ UNCHANGED <<stackHead, below, owned, node, head>>

PopExchange(t) ==
    /\ stackPc[t] = "popExchange"
    /\ \/ /\ stackHead = head[t]
          /\ stackHead' = nextLoaded[t]
          /\ owned' = [owned EXCEPT ![t] = @ \cup {head[t]}]
          /\ stackPc' = [stackPc EXCEPT ![t] = "idle"]
          /\ head' = [head EXCEPT ![t] = NoNode]
          /\ nextLoaded' = [nextLoaded EXCEPT ![t] = NoNode]
       \/ /\ stackHead # head[t]
          /\ stackPc' = [stackPc EXCEPT ![t] = "popLoad"]
          /\ UNCHANGED <<stackHead, owned, head, nextLoaded>>
    /\ UNCHANGED <<below, node>>

StackStep(t) ==
    \/ PushLoad(t)
    \/ PushExchange(t)
    \/ stackPc[t] = "popLoad" /\ PopLoad(t)
    \/ PopNext(t)
    \/ PopExchange(t)

StackNext ==
    \E t \in Threads :
        \/ \E n \in StackNodes : Begin(t, n)
        \/ stackPc[t] = "idle" /\ PopLoad(t)
        \/ StackStep(t)

StackSpec == StackInit /\ [][StackNext]_stackVars

-----------------------------------------------------------------------------
(* The nodes from head_ on, Null behind the last.                          *)
Linked ==
    LET at[k \in 1 .. Cardinality(StackNodes) + 1] ==
            IF k = 1 THEN stackHead
            ELSE IF at[k - 1] = NoNode THEN NoNode ELSE below[at[k - 1]]
    IN  at

Stacked ==
    LET linked == {k \in DOMAIN Linked : Linked[k] # NoNode}
    IN  [k \in 1 .. Cardinality(linked) |-> Linked[k]]

Atomic == INSTANCE Stack WITH items <- Stacked, Nodes <- StackNodes

(* However the threads interleave, Push and Pop act as on a stack and at   *)
(* one moment each: no node is lost or handed out twice, and a popped one  *)
(* was at the top.                                                         *)
IsStack == Atomic!Spec
=============================================================================
