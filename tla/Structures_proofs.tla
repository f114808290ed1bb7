-------------------------- MODULE Structures_proofs -------------------------
(***************************************************************************)
(* The data structures keep what they promise for every size: the          *)
(* semaphore, the list, the ring, the lock-free stack, and the layout of   *)
(* structs.                                                                *)
(***************************************************************************)
EXTENDS MRSWRing, LinkedStack, List, TaskSemaphore, SchemaLayout, TLAPS,
        FiniteSetTheorems, SequenceTheorems, WellFoundedInduction, Integers

-----------------------------------------------------------------------------
(* TaskSemaphore.                                                          *)

Labels == {"unborn", "ready", "starting", "waiting", "yielded", "returning",
           "signalling", "failed", "done"}

SemaphoreTypeOK ==
    /\ taskPc \in [Tasks -> Labels]
    /\ count \in [Tasks -> Nat]
    /\ signalled \subseteq Tasks \ {Root}

(* The task has its semaphore on the stack.                                *)
Active(t) == taskPc[t] \in {"starting", "waiting", "yielded"}

(* A task is born after its parent made the semaphore, and has signalled   *)
(* when it is done.                                                        *)
BornInOrder ==
    /\ \A c \in Tasks \ {Root} : taskPc[Parent[c]] \in {"unborn", "ready"} => taskPc[c] = "unborn"
    /\ \A c \in Tasks \ {Root} : taskPc[c] = "done" <=> c \in signalled
    /\ taskPc[Root] \notin {"signalling", "unborn"}

(* The semaphore exists while a child has still to signal, and counts how  *)
(* many have.                                                              *)
CountsChildren ==
    /\ \A t \in Tasks : t \in onStack <=> Active(t)
    /\ \A t \in Tasks : Active(t) => count[t] = Cardinality(Children(t) \ signalled)
    /\ \A t \in Tasks : taskPc[t] \in {"returning", "signalling", "done"}
                            => Children(t) \subseteq signalled
    /\ \A t \in Tasks : taskPc[t] # "failed"

SemaphoreIInv == SemaphoreTypeOK /\ BornInOrder /\ CountsChildren

(* Subtracting one from a count below the range of an unsigned.            *)
LEMMA UnsignedDecrement ==
    ASSUME NEW k \in Nat, k > 0, NEW u \in Nat, k < u
    PROVE  (k + u - 1) % u = k - 1
<1>1. u > 0 /\ k - 1 \in 0 .. u - 1 /\ k + u - 1 = u * 1 + (k - 1)
  OBVIOUS
<1>2. \A q \in Int, r1 \in 0 .. u - 1 : (u * q + r1) % u = r1
  BY <1>1
<1>. QED  BY <1>1, <1>2

(* There is a task that is everybody's ancestor.                            *)
LEMMA RootIsTask == Root \in Tasks
BY SemaphoreAssumption DEF Root

(* How many children have still to signal.                                 *)
LEMMA ChildrenLeft ==
    ASSUME NEW t \in Tasks, NEW S
    PROVE  /\ IsFiniteSet(Children(t) \ S)
           /\ Cardinality(Children(t) \ S) \in Nat
           /\ Cardinality(Children(t) \ S) < Unsigned
           /\ Cardinality(Children(t) \ S) = 0 <=> Children(t) \subseteq S
           /\ \A c \in Children(t) \ S :
                 Cardinality(Children(t) \ (S \cup {c})) = Cardinality(Children(t) \ S) - 1
<1>. DEFINE left == Children(t) \ S
<1>1. left \subseteq Tasks
  BY DEF Children
<1>2. IsFiniteSet(left) /\ Cardinality(left) <= Cardinality(Tasks)
  BY <1>1, FS_Subset, SemaphoreAssumption
<1>3. Cardinality(left) \in Nat /\ Cardinality(Tasks) \in Nat
  BY <1>2, FS_CardinalityType, SemaphoreAssumption
<1>4. Cardinality(left) < Unsigned
  BY <1>2, <1>3, SemaphoreAssumption
<1>5. Cardinality(left) = 0 <=> left = {}
  BY <1>2, FS_EmptySet
<1>6. ASSUME NEW c \in left
      PROVE  Cardinality(Children(t) \ (S \cup {c})) = Cardinality(left) - 1
  <2>1. Children(t) \ (S \cup {c}) = left \ {c}
    OBVIOUS
  <2>2. Cardinality(left \ {c}) = Cardinality(left) - 1
    BY <1>2, <1>6, FS_RemoveElement
  <2>. QED  BY <2>1, <2>2
<1>. QED  BY <1>2, <1>3, <1>4, <1>5, <1>6

(* While a task has still to signal its parent waits for it.               *)
LEMMA ParentIsActive ==
    ASSUME SemaphoreIInv, NEW c \in Tasks \ {Root},
           taskPc[c] # "unborn", c \notin signalled
    PROVE  /\ Parent[c] \in Tasks /\ Active(Parent[c]) /\ c \in Children(Parent[c])
           /\ count[Parent[c]] \in Nat /\ count[Parent[c]] > 0 /\ count[Parent[c]] < Unsigned
           /\ count[Parent[c]] = Cardinality(Children(Parent[c]) \ signalled)
<1>1. Parent[c] \in Tasks /\ c \in Children(Parent[c])
  BY SemaphoreAssumption DEF Children
<1>2. taskPc[Parent[c]] \in {"starting", "waiting", "yielded"}
  <2>1. taskPc[Parent[c]] \notin {"unborn", "ready"}
    BY DEF SemaphoreIInv, BornInOrder
  <2>2. taskPc[Parent[c]] \notin {"returning", "signalling", "done", "failed"}
    BY <1>1 DEF SemaphoreIInv, CountsChildren
  <2>3. taskPc[Parent[c]] \in Labels
    BY <1>1 DEF SemaphoreIInv, SemaphoreTypeOK
  <2>. QED  BY <2>1, <2>2, <2>3 DEF Labels
<1>3. count[Parent[c]] = Cardinality(Children(Parent[c]) \ signalled)
  BY <1>1, <1>2 DEF SemaphoreIInv, CountsChildren, Active
<1>4. /\ Cardinality(Children(Parent[c]) \ signalled) \in Nat
      /\ Cardinality(Children(Parent[c]) \ signalled) < Unsigned
      /\ Cardinality(Children(Parent[c]) \ signalled) # 0
  BY <1>1, ChildrenLeft
<1>. QED  BY <1>1, <1>2, <1>3, <1>4 DEF Active

(* A semaphore outlives its last signal and is passed by no one before it, *)
(* for any tree of tasks: its count is the number of children that have    *)
(* still to signal.                                                        *)
THEOREM SemaphoreIsSound == SemaphoreSpec => []SemaphoreInv
<1>1. SemaphoreInit => SemaphoreIInv
  <2>. SUFFICES ASSUME SemaphoreInit PROVE SemaphoreIInv
    OBVIOUS
  <2>. USE RootIsTask DEF SemaphoreInit
  <2>1. SemaphoreTypeOK
    BY DEF SemaphoreTypeOK, Labels
  <2>2. BornInOrder
    BY DEF BornInOrder
  <2>3. CountsChildren
    BY DEF CountsChildren, Active
  <2>. QED  BY <2>1, <2>2, <2>3 DEF SemaphoreIInv
<1>2. SemaphoreIInv /\ [SemaphoreNext]_semaphoreVars => SemaphoreIInv'
  <2>. SUFFICES ASSUME SemaphoreIInv, [SemaphoreNext]_semaphoreVars PROVE SemaphoreIInv'
    OBVIOUS
  <2>0. /\ taskPc \in [Tasks -> Labels] /\ count \in [Tasks -> Nat]
        /\ signalled \subseteq Tasks \ {Root} /\ Root \in Tasks /\ Parent \in [Tasks -> Tasks]
    BY RootIsTask, SemaphoreAssumption DEF SemaphoreIInv, SemaphoreTypeOK
  <2>1. ASSUME NEW t \in Tasks, Leaf(t) PROVE SemaphoreIInv'
    <3>1. taskPc[t] = "ready" /\ taskPc' = [taskPc EXCEPT ![t] = "returning"]
          /\ UNCHANGED <<count, onStack, signalled>> /\ Children(t) = {}
      BY <2>1 DEF Leaf, Goes
    <3>2. SemaphoreTypeOK'
      BY <2>0, <3>1 DEF SemaphoreTypeOK, Labels
    <3>3. BornInOrder'
      <4>1. \A c \in Tasks \ {Root} : Parent[c] # t
        BY <3>1 DEF Children
      <4>. QED  BY <2>0, <3>1, <4>1 DEF SemaphoreIInv, BornInOrder
    <3>4. CountsChildren'
      BY <2>0, <3>1 DEF SemaphoreIInv, CountsChildren, Active
    <3>. QED  BY <3>2, <3>3, <3>4 DEF SemaphoreIInv
  <2>2. ASSUME NEW t \in Tasks, ConstructSemaphore(t) PROVE SemaphoreIInv'
    <3>1. taskPc[t] = "ready" /\ taskPc' = [taskPc EXCEPT ![t] = "starting"]
          /\ onStack' = onStack \cup {t} /\ signalled' = signalled
          /\ count' = [count EXCEPT ![t] = Cardinality(Children(t))]
      BY <2>2 DEF ConstructSemaphore, Goes
    <3>2. Cardinality(Children(t)) \in Nat /\ Children(t) \ signalled = Children(t)
      <4>1. \A c \in Children(t) : taskPc[c] = "unborn"
        BY <3>1 DEF SemaphoreIInv, BornInOrder, Children
      <4>2. \A c \in Children(t) : c \notin signalled
        BY <4>1 DEF SemaphoreIInv, BornInOrder, Children
      <4>3. Children(t) \ {} = Children(t)
        OBVIOUS
      <4>. QED  BY <4>2, <4>3, ChildrenLeft
    <3>3. SemaphoreTypeOK'
      BY <2>0, <3>1, <3>2 DEF SemaphoreTypeOK, Labels
    <3>4. BornInOrder'
      BY <2>0, <3>1 DEF SemaphoreIInv, BornInOrder
    <3>5. CountsChildren'
      BY <2>0, <3>1, <3>2 DEF SemaphoreIInv, CountsChildren, Active
    <3>. QED  BY <3>3, <3>4, <3>5 DEF SemaphoreIInv
  <2>3. ASSUME NEW t \in Tasks, Start(t) PROVE SemaphoreIInv'
    <3>1. PICK c \in Children(t), label \in {"waiting", "starting"} :
              /\ taskPc[c] = "unborn"
              /\ taskPc' = [taskPc EXCEPT ![c] = "ready", ![t] = label]
      BY <2>3 DEF Start
    <3>2. taskPc[t] = "starting" /\ UNCHANGED <<count, onStack, signalled>>
      BY <2>3 DEF Start
    <3>3. c \in Tasks \ {Root} /\ c # t /\ Parent[c] = t
      BY <3>1, <3>2 DEF Children
    <3>4. /\ taskPc'[c] = "ready" /\ taskPc'[t] = label
          /\ \A u \in Tasks : u # c /\ u # t => taskPc'[u] = taskPc[u]
          /\ taskPc' \in [Tasks -> Labels]
      BY <2>0, <3>1, <3>3 DEF Labels
    <3>5. SemaphoreTypeOK'
      BY <2>0, <3>2, <3>4 DEF SemaphoreTypeOK
    <3>6. BornInOrder'
      <4>1. ASSUME NEW d \in Tasks \ {Root}, taskPc'[Parent[d]] \in {"unborn", "ready"}
            PROVE  taskPc'[d] = "unborn"
        <5>1. Parent[d] \in Tasks /\ Parent[d] # t /\ taskPc[Parent[d]] \in {"unborn", "ready"}
          BY <2>0, <3>1, <3>4, <4>1
        <5>2. taskPc[d] = "unborn" /\ d # c
          BY <3>3, <5>1 DEF SemaphoreIInv, BornInOrder
        <5>. QED  BY <3>2, <3>4, <5>2
      <4>2. \A d \in Tasks \ {Root} : taskPc'[d] = "done" <=> d \in signalled'
        BY <3>1, <3>2, <3>4 DEF SemaphoreIInv, BornInOrder
      <4>. QED  BY <2>0, <3>3, <3>4, <4>1, <4>2 DEF SemaphoreIInv, BornInOrder
    <3>7. CountsChildren'
      <4>1. \A u \in Tasks : Active(u)' <=> Active(u)
        BY <3>1, <3>2, <3>3, <3>4 DEF Active
      <4>. QED  BY <3>2, <3>4, <4>1 DEF SemaphoreIInv, CountsChildren
    <3>. QED  BY <3>5, <3>6, <3>7 DEF SemaphoreIInv
  <2>4. ASSUME NEW t \in Tasks, WaitReturns(t) PROVE SemaphoreIInv'
    <3>1. taskPc[t] = "waiting" /\ taskPc' = [taskPc EXCEPT ![t] = "returning"] /\ count[t] = 0
          /\ onStack' = onStack \ {t} /\ UNCHANGED <<count, signalled>>
      BY <2>4 DEF WaitReturns, Goes, MayPass
    <3>2. Children(t) \subseteq signalled
      <4>1. Cardinality(Children(t) \ signalled) = 0
        BY <3>1 DEF SemaphoreIInv, CountsChildren, Active
      <4>. QED  BY <4>1, ChildrenLeft
    <3>3. SemaphoreTypeOK'
      BY <2>0, <3>1 DEF SemaphoreTypeOK, Labels
    <3>4. BornInOrder'
      BY <2>0, <3>1 DEF SemaphoreIInv, BornInOrder
    <3>5. CountsChildren'
      BY <2>0, <3>1, <3>2 DEF SemaphoreIInv, CountsChildren, Active
    <3>. QED  BY <3>3, <3>4, <3>5 DEF SemaphoreIInv
  <2>5. ASSUME NEW t \in Tasks, WaitYields(t) \/ Resumed(t) PROVE SemaphoreIInv'
    <3>1. PICK label \in {"waiting", "yielded"} :
              /\ taskPc[t] \in {"waiting", "yielded"} /\ taskPc' = [taskPc EXCEPT ![t] = label]
              /\ UNCHANGED <<count, onStack, signalled>>
      BY <2>5 DEF WaitYields, Resumed, Goes
    <3>2. SemaphoreTypeOK'
      BY <2>0, <3>1 DEF SemaphoreTypeOK, Labels
    <3>3. BornInOrder'
      BY <2>0, <3>1 DEF SemaphoreIInv, BornInOrder
    <3>4. CountsChildren'
      BY <2>0, <3>1 DEF SemaphoreIInv, CountsChildren, Active
    <3>. QED  BY <3>2, <3>3, <3>4 DEF SemaphoreIInv
  <2>6. ASSUME NEW t \in Tasks, SignalLoads(t) PROVE SemaphoreIInv'
    <3>1. taskPc[t] = "returning" /\ t # Root /\ t \notin signalled
      BY <2>6 DEF SignalLoads, SemaphoreIInv, BornInOrder
    <3>2. count[Parent[t]] > 0
      BY <3>1, ParentIsActive
    <3>3. taskPc' = [taskPc EXCEPT ![t] = "signalling"] /\ UNCHANGED <<count, onStack, signalled>>
      BY <2>6, <3>2 DEF SignalLoads, Goes
    <3>4. SemaphoreTypeOK'
      BY <2>0, <3>1, <3>3 DEF SemaphoreTypeOK, Labels
    <3>5. BornInOrder'
      BY <2>0, <3>1, <3>3 DEF SemaphoreIInv, BornInOrder
    <3>6. CountsChildren'
      BY <2>0, <3>1, <3>3 DEF SemaphoreIInv, CountsChildren, Active
    <3>. QED  BY <3>4, <3>5, <3>6 DEF SemaphoreIInv
  <2>7. ASSUME NEW t \in Tasks, SignalDecrements(t) PROVE SemaphoreIInv'
    <3>1. /\ taskPc[t] = "signalling" /\ taskPc' = [taskPc EXCEPT ![t] = "done"]
          /\ signalled' = signalled \cup {t} /\ onStack' = onStack
          /\ count' = Decremented(t)
      BY <2>7 DEF SignalDecrements, Goes
    <3>2. t \in Tasks \ {Root} /\ t \notin signalled
      BY <3>1 DEF SemaphoreIInv, BornInOrder
    <3>. DEFINE p == Parent[t]
    <3>3. /\ p \in Tasks /\ Active(p) /\ t \in Children(p)
          /\ count[p] \in Nat /\ count[p] > 0 /\ count[p] < Unsigned
          /\ count[p] = Cardinality(Children(p) \ signalled)
      BY <3>1, <3>2, ParentIsActive
    <3>4. count' = [count EXCEPT ![p] = count[p] - 1]
      <4>1. (count[p] + Unsigned - 1) % Unsigned = count[p] - 1
        BY <3>3, UnsignedDecrement, SemaphoreAssumption
      <4>. QED  BY <3>1, <4>1 DEF Decremented
    <3>5. Cardinality(Children(p) \ signalled') = count[p] - 1
      BY <3>1, <3>2, <3>3, ChildrenLeft
    <3>6. \A u \in Tasks : u # p => Children(u) \ signalled' = Children(u) \ signalled
      BY <3>1, <3>3 DEF Children
    <3>. HIDE DEF p
    <3>7. SemaphoreTypeOK'
      BY <2>0, <3>1, <3>2, <3>3, <3>4 DEF SemaphoreTypeOK, Labels
    <3>8. BornInOrder'
      BY <2>0, <3>1, <3>2 DEF SemaphoreIInv, BornInOrder
    <3>9. CountsChildren'
      <4>1. \A u \in Tasks : Active(u)' <=> Active(u)
        BY <2>0, <3>1 DEF Active
      <4>2. ASSUME NEW u \in Tasks, Active(u)
            PROVE  count'[u] = Cardinality(Children(u) \ signalled')
        <5>1. count[u] = Cardinality(Children(u) \ signalled)
          BY <4>2 DEF SemaphoreIInv, CountsChildren
        <5>. QED  BY <2>0, <3>3, <3>4, <3>5, <3>6, <5>1
      <4>3. \A u \in Tasks : taskPc'[u] \in {"returning", "signalling", "done"}
                                 => Children(u) \subseteq signalled'
        BY <2>0, <3>1 DEF SemaphoreIInv, CountsChildren
      <4>4. \A u \in Tasks : taskPc'[u] # "failed"
        BY <2>0, <3>1 DEF SemaphoreIInv, CountsChildren
      <4>5. \A u \in Tasks : u \in onStack' <=> Active(u)'
        BY <3>1, <4>1 DEF SemaphoreIInv, CountsChildren
      <4>. QED  BY <4>1, <4>2, <4>3, <4>4, <4>5 DEF CountsChildren
    <3>. QED  BY <3>7, <3>8, <3>9 DEF SemaphoreIInv
  <2>8. CASE RootDone
    <3>1. /\ taskPc[Root] = "returning" /\ taskPc' = [taskPc EXCEPT ![Root] = "done"]
          /\ UNCHANGED <<count, onStack, signalled>>
      BY <2>8 DEF RootDone, Goes
    <3>2. SemaphoreTypeOK'
      BY <2>0, <3>1 DEF SemaphoreTypeOK, Labels
    <3>3. BornInOrder'
      BY <2>0, <3>1 DEF SemaphoreIInv, BornInOrder
    <3>4. CountsChildren'
      BY <2>0, <3>1 DEF SemaphoreIInv, CountsChildren, Active
    <3>. QED  BY <3>2, <3>3, <3>4 DEF SemaphoreIInv
  <2>9. CASE UNCHANGED semaphoreVars
    BY <2>9 DEF semaphoreVars, SemaphoreIInv, SemaphoreTypeOK, BornInOrder,
       CountsChildren, Active
  <2>. QED  BY <2>1, <2>2, <2>3, <2>4, <2>5, <2>6, <2>7, <2>8, <2>9
            DEF SemaphoreNext, TaskStep
<1>3. SemaphoreIInv => SemaphoreInv
  <2>. SUFFICES ASSUME SemaphoreIInv PROVE SemaphoreInv
    OBVIOUS
  <2>1. SemaphoreExists
    <3>. SUFFICES ASSUME NEW t \in Tasks \ {Root}, taskPc[t] \in {"returning", "signalling"}
                  PROVE  Parent[t] \in onStack
      BY DEF SemaphoreExists
    <3>1. t \notin signalled
      BY DEF SemaphoreIInv, BornInOrder
    <3>. QED  BY <3>1, ParentIsActive DEF SemaphoreIInv, CountsChildren
  <2>2. WaitsForAll
    BY DEF WaitsForAll, SemaphoreIInv, CountsChildren
  <2>. QED  BY <2>1, <2>2 DEF SemaphoreInv
<1>. QED  BY <1>1, <1>2, <1>3, PTL DEF SemaphoreSpec

-----------------------------------------------------------------------------
(* List.                                                                   *)

ListFunctions ==
    /\ head_ \in [Lists -> Nodes \cup {Null}]
    /\ last_ \in [Lists -> Nodes \cup {Null}]
    /\ next \in [Nodes -> Nodes \cup {Null}]
    /\ content \in [Lists -> Seq(Nodes)]
    /\ behind \in [Lists -> Nodes \cup {Null}]

(* A node is in one list, at one place.                                    *)
OncePerNode ==
    \A k, l \in Lists : \A i \in 1 .. Len(content[k]), j \in 1 .. Len(content[l]) :
        content[k][i] = content[l][j] => k = l /\ i = j

ListIInv == ListFunctions /\ OncePerNode /\ ListTypeOK /\ WalkIsContent

(* Head and tail of what a list holds.                                     *)
LEMMA ListEnds ==
    ASSUME ListIInv, NEW l \in Lists
    PROVE  /\ content[l] \in Seq(Nodes) /\ Len(content[l]) \in Nat
           /\ \A i \in 1 .. Len(content[l]) : content[l][i] \in Nodes
           /\ content[l] = <<>> <=> Len(content[l]) = 0
           /\ Len(content[l]) = 0 => head_[l] = Null /\ last_[l] = Null
           /\ Len(content[l]) # 0 => /\ head_[l] = content[l][1] /\ head_[l] \in Nodes
                                     /\ last_[l] = content[l][Len(content[l])]
                                     /\ last_[l] \in Nodes
           /\ \A i \in 1 .. Len(content[l]) :
                 next[content[l][i]] = IF i = Len(content[l]) THEN behind[l] ELSE content[l][i + 1]
<1>1. content[l] \in Seq(Nodes)
  BY DEF ListIInv, ListFunctions
<1>2. /\ Len(content[l]) \in Nat /\ (content[l] = <<>> <=> Len(content[l]) = 0)
      /\ \A i \in 1 .. Len(content[l]) : content[l][i] \in Nodes
  BY <1>1, LenProperties, EmptySeq, ElementOfSeq
<1>3. /\ head_[l] = IF content[l] = <<>> THEN Null ELSE content[l][1]
      /\ last_[l] = IF content[l] = <<>> THEN Null ELSE content[l][Len(content[l])]
  BY DEF ListIInv, ListTypeOK, WalkIsContent, Walks
<1>4. \A i \in 1 .. Len(content[l]) :
          next[content[l][i]] = IF i = Len(content[l]) THEN behind[l] ELSE content[l][i + 1]
  BY DEF ListIInv, WalkIsContent, Walks
<1>5. Len(content[l]) # 0 => 1 \in 1 .. Len(content[l]) /\ Len(content[l]) \in 1 .. Len(content[l])
  BY <1>2
<1>. QED  BY <1>1, <1>2, <1>3, <1>4, <1>5

(* The invariant, element by element: what has to be shown of a step.      *)
LEMMA ListIInvNext ==
    ASSUME ListFunctions', OncePerNode',
           \A l \in Lists :
              /\ Len(content'[l]) = 0 => head_'[l] = Null /\ last_'[l] = Null
              /\ Len(content'[l]) # 0 => /\ head_'[l] = content'[l][1]
                                         /\ last_'[l] = content'[l][Len(content'[l])]
              /\ \A i \in 1 .. Len(content'[l]) :
                    next'[content'[l][i]] = IF i = Len(content'[l]) THEN behind'[l]
                                            ELSE content'[l][i + 1]
    PROVE  ListIInv'
<1>1. ASSUME NEW l \in Lists
      PROVE  /\ content'[l] = <<>> <=> Len(content'[l]) = 0
             /\ Len(content'[l]) # 0 => content'[l][1] \in Nodes /\ content'[l][1] # Null
  <2>1. content'[l] \in Seq(Nodes)
    BY DEF ListFunctions
  <2>2. Len(content'[l]) # 0 => 1 \in 1 .. Len(content'[l])
    BY <2>1, LenProperties
  <2>. QED  BY <2>1, <2>2, EmptySeq, ElementOfSeq, ListAssumption
<1>2. ListTypeOK'
  BY <1>1 DEF ListTypeOK
<1>3. WalkIsContent'
  BY <1>1 DEF WalkIsContent, Walks
<1>. QED  BY <1>2, <1>3 DEF ListIInv

(* A node that may be inserted is in no list.                              *)
LEMMA FreeIsNowhere ==
    ASSUME ListIInv, NEW n \in Free
    PROVE  n \in Nodes /\ \A l \in Lists : \A i \in 1 .. Len(content[l]) : content[l][i] # n
<1>1. \A l \in Lists : DOMAIN content[l] = 1 .. Len(content[l])
  BY LenProperties DEF ListIInv, ListFunctions
<1>. QED  BY <1>1 DEF Free, Elements

(* List::PushBack keeps the invariant: the old last node gets a successor.  *)
LEMMA PushBackKeeps ==
    ASSUME ListIInv, NEW l \in Lists, NEW n \in Nodes, PushBack(l, n)
    PROVE  ListIInv'
<1>. DEFINE m == Len(content[l])
<1>1. n \in Free /\ \A k \in Lists : \A i \in 1 .. Len(content[k]) : content[k][i] # n
  BY FreeIsNowhere DEF PushBack
<1>2. /\ content' \in [Lists -> Seq(Nodes)]
      /\ \A k \in Lists : k # l => content'[k] = content[k]
      /\ Len(content'[l]) = m + 1 /\ m \in Nat
      /\ \A i \in 1 .. m : content'[l][i] = content[l][i]
      /\ content'[l][m + 1] = n
  BY ListEnds, AppendProperties DEF PushBack, ListIInv, ListFunctions
<1>3. /\ head_' = [head_ EXCEPT ![l] = IF last_[l] = Null THEN n ELSE @]
      /\ last_' = [last_ EXCEPT ![l] = n]
      /\ behind' = [behind EXCEPT ![l] = Null]
      /\ \A x \in Nodes : next'[x] = IF x = n THEN Null ELSE IF x = last_[l] THEN n ELSE next[x]
  BY DEF PushBack
<1>4. ListFunctions'
  <2>1. next' \in [Nodes -> Nodes \cup {Null}]
    BY DEF PushBack, ListIInv, ListFunctions
  <2>. QED  BY <1>2, <1>3, <2>1 DEF ListIInv, ListFunctions
<1>5. ASSUME NEW k \in Lists, NEW i \in 1 .. Len(content'[k])
      PROVE  \/ i \in 1 .. Len(content[k]) /\ content'[k][i] = content[k][i]
             \/ k = l /\ i = m + 1 /\ content'[k][i] = n
  <2>1. CASE k = l
    <3>1. i \in 1 .. m \/ i = m + 1
      BY <1>2, <1>5, <2>1
    <3>. QED  BY <1>2, <2>1, <3>1
  <2>. QED  BY <1>2, <1>5, <2>1
<1>6. OncePerNode'
  <2>. SUFFICES ASSUME NEW j \in Lists, NEW k \in Lists, NEW a \in 1 .. Len(content'[j]),
                       NEW b \in 1 .. Len(content'[k]), content'[j][a] = content'[k][b]
                PROVE  j = k /\ a = b
    BY DEF OncePerNode
  <2>1. CASE /\ a \in 1 .. Len(content[j]) /\ content'[j][a] = content[j][a]
             /\ b \in 1 .. Len(content[k]) /\ content'[k][b] = content[k][b]
    <3>1. content[j][a] = content[k][b]
      BY <2>1
    <3>. QED  BY <2>1, <3>1 DEF ListIInv, OncePerNode
  <2>. QED  BY <1>1, <1>5, <2>1
<1>7. ASSUME NEW k \in Lists, k # l
      PROVE  /\ content'[k] = content[k] /\ head_'[k] = head_[k] /\ last_'[k] = last_[k]
             /\ behind'[k] = behind[k]
             /\ \A i \in 1 .. Len(content[k]) : next'[content[k][i]] = next[content[k][i]]
  <2>1. \A i \in 1 .. Len(content[k]) : content[k][i] # last_[l]
    <3>1. CASE m = 0
      BY <3>1, ListEnds, ListAssumption
    <3>2. CASE m # 0
      <4>1. last_[l] = content[l][m] /\ m \in 1 .. m
        BY <1>2, <3>2, ListEnds
      <4>. QED  BY <1>7, <4>1 DEF ListIInv, OncePerNode
    <3>. QED  BY <3>1, <3>2
  <2>. QED  BY <1>1, <1>2, <1>3, <1>7, <2>1, ListEnds DEF ListIInv,
           ListFunctions
<1>8. /\ head_'[l] = content'[l][1] /\ last_'[l] = content'[l][m + 1]
  <2>1. last_'[l] = n
    BY <1>3 DEF ListIInv, ListFunctions
  <2>2. CASE m = 0
    <3>1. last_[l] = Null
      BY <2>2, ListEnds
    <3>2. head_'[l] = n
      BY <1>3, <3>1 DEF ListIInv, ListFunctions
    <3>. QED  BY <1>2, <2>1, <2>2, <3>2
  <2>3. CASE m # 0
    <3>1. last_[l] # Null /\ head_[l] = content[l][1] /\ 1 \in 1 .. m
      BY <1>2, <2>3, ListEnds, ListAssumption
    <3>2. head_'[l] = head_[l]
      BY <1>3, <3>1 DEF ListIInv, ListFunctions
    <3>. QED  BY <1>2, <2>1, <3>1, <3>2
  <2>. QED  BY <2>2, <2>3
<1>9. ASSUME NEW i \in 1 .. m + 1
      PROVE  next'[content'[l][i]] = IF i = m + 1 THEN behind'[l] ELSE content'[l][i + 1]
  <2>1. CASE i = m + 1
    <3>1. behind'[l] = Null
      BY <1>3 DEF ListIInv, ListFunctions
    <3>. QED  BY <1>2, <1>3, <2>1, <3>1
  <2>2. CASE i = m
    <3>1. i \in 1 .. m /\ i # m + 1 /\ content'[l][i] = content[l][m] /\ last_[l] = content[l][m]
      BY <1>2, <1>9, <2>2, ListEnds
    <3>2. content[l][m] # n /\ content[l][m] \in Nodes
      BY <1>1, <2>2, <3>1, ListEnds
    <3>. QED  BY <1>2, <1>3, <2>2, <3>1, <3>2
  <2>3. CASE i # m /\ i # m + 1
    <3>1. /\ i \in 1 .. m /\ m \in 1 .. m /\ i + 1 \in 1 .. m
          /\ content'[l][i] = content[l][i] /\ last_[l] = content[l][m]
      BY <1>2, <1>9, <2>3, ListEnds
    <3>2. content[l][i] # n /\ content[l][i] \in Nodes /\ content[l][i] # last_[l]
      BY <1>1, <2>3, <3>1, ListEnds DEF ListIInv, OncePerNode
    <3>3. next[content[l][i]] = content[l][i + 1] /\ content'[l][i + 1] = content[l][i + 1]
      BY <1>2, <2>3, <3>1, ListEnds
    <3>. QED  BY <1>3, <2>3, <3>1, <3>2, <3>3
  <2>. QED  BY <2>1, <2>2, <2>3
<1>10. ASSUME NEW k \in Lists
       PROVE /\ Len(content'[k]) = 0 => head_'[k] = Null /\ last_'[k] = Null
             /\ Len(content'[k]) # 0 => /\ head_'[k] = content'[k][1]
                                        /\ last_'[k] = content'[k][Len(content'[k])]
             /\ \A i \in 1 .. Len(content'[k]) :
                   next'[content'[k][i]] = IF i = Len(content'[k]) THEN behind'[k] ELSE content'[k][i + 1]
  <2>1. CASE k = l
    <3>1. Len(content'[l]) # 0
      BY <1>2
    <3>. QED  BY <1>2, <1>8, <1>9, <2>1, <3>1
  <2>2. CASE k # l
    BY <1>7, <1>10, <2>2, ListEnds
  <2>. QED  BY <2>1, <2>2
<1>. QED  BY <1>4, <1>6, <1>10, ListIInvNext

(* List::PushFront keeps it: the positions of the others move by one.       *)
LEMMA PushFrontKeeps ==
    ASSUME ListIInv, NEW l \in Lists, NEW n \in Nodes, PushFront(l, n)
    PROVE  ListIInv'
<1>. DEFINE m == Len(content[l])
<1>1. n \in Free /\ \A k \in Lists : \A i \in 1 .. Len(content[k]) : content[k][i] # n
  BY FreeIsNowhere DEF PushFront
<1>2. /\ content' \in [Lists -> Seq(Nodes)]
      /\ \A k \in Lists : k # l => content'[k] = content[k]
      /\ Len(content'[l]) = m + 1 /\ m \in Nat
      /\ \A i \in 1 .. m : content'[l][i + 1] = content[l][i]
      /\ content'[l][1] = n
  <2>1. content[l] \in Seq(Nodes) /\ m \in Nat
    BY ListEnds
  <2>2. <<n>> \in Seq(Nodes) /\ Len(<<n>>) = 1 /\ <<n>>[1] = n
    OBVIOUS
  <2>3. /\ <<n>> \o content[l] \in Seq(Nodes)
        /\ Len(<<n>> \o content[l]) = 1 + m
        /\ \A i \in 1 .. 1 + m :
              (<<n>> \o content[l])[i] = IF i <= 1 THEN <<n>>[i] ELSE content[l][i - 1]
    BY <2>1, <2>2, ConcatProperties
  <2>4. content'[l] = <<n>> \o content[l] /\ \A k \in Lists : k # l => content'[k] = content[k]
    BY DEF PushFront, ListIInv, ListFunctions
  <2>5. content' \in [Lists -> Seq(Nodes)]
    BY <2>3 DEF PushFront, ListIInv, ListFunctions
  <2>6. content'[l][1] = n
    BY <2>1, <2>2, <2>3, <2>4
  <2>7. ASSUME NEW i \in 1 .. m PROVE content'[l][i + 1] = content[l][i]
    <3>1. i + 1 \in 1 .. 1 + m /\ ~(i + 1 <= 1) /\ (i + 1) - 1 = i
      BY <2>1
    <3>. QED  BY <2>3, <2>4, <3>1
  <2>. QED  BY <2>1, <2>3, <2>4, <2>5, <2>6, <2>7
<1>3. /\ head_' = [head_ EXCEPT ![l] = n]
      /\ m = 0 => /\ last_' = [last_ EXCEPT ![l] = n] /\ next' = next
                  /\ behind' = [behind EXCEPT ![l] = next[n]]
      /\ m # 0 => /\ last_' = last_ /\ next' = [next EXCEPT ![n] = head_[l]]
                  /\ behind' = behind
  BY ListEnds, ListAssumption DEF PushFront
<1>4. ListFunctions'
  <2>1. head_[l] \in Nodes \cup {Null}
    BY DEF ListIInv, ListFunctions
  <2>. QED  BY <1>2, <1>3, <2>1 DEF ListIInv, ListFunctions
<1>5. ASSUME NEW k \in Lists, NEW i \in 1 .. Len(content'[k])
      PROVE  \/ k = l /\ i = 1 /\ content'[k][i] = n
             \/ \E j \in 1 .. Len(content[k]) : /\ content'[k][i] = content[k][j]
                                                /\ j = IF k = l THEN i - 1 ELSE i
  <2>1. CASE k = l /\ i # 1
    <3>1. i - 1 \in 1 .. m /\ (i - 1) + 1 = i
      BY <1>2, <1>5, <2>1
    <3>2. content'[l][i] = content[l][i - 1]
      BY <1>2, <3>1
    <3>. QED  BY <2>1, <3>1, <3>2
  <2>. QED  BY <1>2, <1>5, <2>1
<1>6. OncePerNode'
  <2>. SUFFICES ASSUME NEW j \in Lists, NEW k \in Lists, NEW a \in 1 .. Len(content'[j]),
                       NEW b \in 1 .. Len(content'[k]), content'[j][a] = content'[k][b]
                PROVE  j = k /\ a = b
    BY DEF OncePerNode
  <2>0. ASSUME NEW q \in Lists, NEW x \in 1 .. Len(content'[q]), content'[q][x] = n
        PROVE  q = l /\ x = 1
    <3>1. ASSUME NEW y \in 1 .. Len(content[q]), content'[q][x] = content[q][y]
          PROVE  FALSE
      BY <1>1, <2>0, <3>1
    <3>. QED  BY <1>5, <3>1
  <2>1. CASE (j = l /\ a = 1 /\ content'[j][a] = n) \/ (k = l /\ b = 1 /\ content'[k][b] = n)
    <3>1. content'[j][a] = n /\ content'[k][b] = n
      BY <2>1, Zenon
    <3>. QED  BY <2>0, <3>1
  <2>2. CASE /\ \E x \in 1 .. Len(content[j]) : /\ content'[j][a] = content[j][x]
                                                /\ x = IF j = l THEN a - 1 ELSE a
             /\ \E y \in 1 .. Len(content[k]) : /\ content'[k][b] = content[k][y]
                                                /\ y = IF k = l THEN b - 1 ELSE b
    <3>1. PICK x \in 1 .. Len(content[j]) : /\ content'[j][a] = content[j][x]
                                            /\ x = IF j = l THEN a - 1 ELSE a
      BY <2>2
    <3>2. PICK y \in 1 .. Len(content[k]) : /\ content'[k][b] = content[k][y]
                                            /\ y = IF k = l THEN b - 1 ELSE b
      BY <2>2
    <3>3. content[j][x] = content[k][y]
      BY <3>1, <3>2
    <3>4. j = k /\ x = y
      BY <3>3 DEF ListIInv, OncePerNode
    <3>. QED  BY <3>1, <3>2, <3>4
  <2>. QED  BY <1>5, <2>1, <2>2
<1>7. \A k \in Lists : \A i \in 1 .. Len(content[k]) : next'[content[k][i]] = next[content[k][i]]
  BY <1>1, <1>3, ListEnds DEF ListIInv, ListFunctions
<1>8. ASSUME NEW k \in Lists, k # l
      PROVE  /\ content'[k] = content[k] /\ head_'[k] = head_[k] /\ last_'[k] = last_[k]
             /\ behind'[k] = behind[k]
  BY <1>2, <1>3, <1>8 DEF ListIInv, ListFunctions
<1>9. head_'[l] = content'[l][1] /\ last_'[l] = content'[l][m + 1]
  <2>1. head_'[l] = n
    BY <1>3 DEF ListIInv, ListFunctions
  <2>2. CASE m = 0
    BY <1>2, <1>3, <2>1, <2>2 DEF ListIInv, ListFunctions
  <2>3. CASE m # 0
    <3>1. m \in 1 .. m /\ last_[l] = content[l][m]
      BY <1>2, <2>3, ListEnds
    <3>. QED  BY <1>2, <1>3, <2>1, <2>3, <3>1
  <2>. QED  BY <2>2, <2>3
<1>10. ASSUME NEW i \in 1 .. m + 1
       PROVE  next'[content'[l][i]] = IF i = m + 1 THEN behind'[l] ELSE content'[l][i + 1]
  <2>1. CASE i = 1
    <3>1. CASE m = 0
      <4>1. behind'[l] = next[n]
        BY <1>3, <3>1 DEF ListIInv, ListFunctions
      <4>. QED  BY <1>2, <1>3, <2>1, <3>1, <4>1
    <3>2. CASE m # 0
      <4>1. 1 \in 1 .. m /\ head_[l] = content[l][1] /\ i # m + 1
        BY <1>2, <2>1, <3>2, ListEnds
      <4>2. content'[l][1 + 1] = content[l][1]
        BY <1>2, <4>1
      <4>3. next'[n] = head_[l]
        BY <1>3, <3>2 DEF ListIInv, ListFunctions
      <4>. QED  BY <1>2, <2>1, <4>1, <4>2, <4>3
    <3>. QED  BY <3>1, <3>2
  <2>2. CASE i # 1
    <3>0. m # 0 /\ behind'[l] = behind[l]
      BY <1>2, <1>3, <1>10, <2>2
    <3>1. PICK j \in 1 .. m : j = i - 1 /\ j + 1 = i
      BY <1>2, <1>10, <2>2
    <3>2. content'[l][i] = content[l][j]
      BY <1>2, <3>1
    <3>3. next'[content'[l][i]] = IF j = m THEN behind[l] ELSE content[l][j + 1]
      BY <1>7, <3>2, ListEnds
    <3>4. CASE j = m
      BY <1>2, <3>0, <3>1, <3>3, <3>4
    <3>5. CASE j # m
      <4>1. j + 1 \in 1 .. m /\ i # m + 1
        BY <1>2, <3>1, <3>5
      <4>2. content'[l][i + 1] = content[l][j + 1]
        BY <1>2, <3>1, <4>1
      <4>. QED  BY <3>3, <3>5, <4>1, <4>2
    <3>. QED  BY <3>4, <3>5
  <2>. QED  BY <2>1, <2>2
<1>11. ASSUME NEW k \in Lists
       PROVE /\ Len(content'[k]) = 0 => head_'[k] = Null /\ last_'[k] = Null
             /\ Len(content'[k]) # 0 => /\ head_'[k] = content'[k][1]
                                        /\ last_'[k] = content'[k][Len(content'[k])]
             /\ \A i \in 1 .. Len(content'[k]) :
                   next'[content'[k][i]] = IF i = Len(content'[k]) THEN behind'[k] ELSE content'[k][i + 1]
  <2>1. CASE k = l
    <3>1. Len(content'[l]) # 0
      BY <1>2
    <3>. QED  BY <1>2, <1>9, <1>10, <2>1, <3>1
  <2>2. CASE k # l
    BY <1>7, <1>8, <1>11, <2>2, ListEnds
  <2>. QED  BY <2>1, <2>2
<1>. QED  BY <1>4, <1>6, <1>11, ListIInvNext

(* List::PopFront keeps it, on an empty list, a single node and longer.     *)
LEMMA PopFrontKeeps ==
    ASSUME ListIInv, NEW l \in Lists, PopFront(l)
    PROVE  ListIInv'
<1>. DEFINE m == Len(content[l])
<1>1. m \in Nat /\ content[l] \in Seq(Nodes) /\ (content[l] = <<>> <=> m = 0)
  BY ListEnds
<1>2. CASE m = 0
  <2>1. head_[l] = Null /\ last_[l] = Null
    BY <1>2, ListEnds
  <2>2. head_' = head_ /\ last_' = last_ /\ next' = next /\ content' = content /\ behind' = behind
    BY <1>1, <1>2, <2>1 DEF PopFront, ListIInv, ListFunctions
  <2>. QED  BY <2>2 DEF ListIInv, ListFunctions, OncePerNode, ListTypeOK,
           WalkIsContent, Walks
<1>3. CASE m # 0
  <2>1. /\ content' \in [Lists -> Seq(Nodes)]
        /\ \A k \in Lists : k # l => content'[k] = content[k]
        /\ Len(content'[l]) = m - 1
        /\ \A i \in 1 .. m - 1 : content'[l][i] = content[l][i + 1]
    <3>1. content[l] # <<>>
      BY <1>1, <1>3
    <3>2. /\ Tail(content[l]) \in Seq(Nodes) /\ Len(Tail(content[l])) = m - 1
          /\ \A i \in 1 .. m - 1 : Tail(content[l])[i] = content[l][i + 1]
      BY <1>1, <3>1, HeadTailProperties
    <3>3. content'[l] = Tail(content[l]) /\ \A k \in Lists : k # l => content'[k] = content[k]
      BY <3>1 DEF PopFront, ListIInv, ListFunctions
    <3>4. content' \in [Lists -> Seq(Nodes)]
      BY <3>1, <3>2 DEF PopFront, ListIInv, ListFunctions
    <3>. QED  BY <3>2, <3>3, <3>4
  <2>2. head_[l] = content[l][1] /\ last_[l] = content[l][m] /\ 1 \in 1 .. m /\ m \in 1 .. m
    BY <1>1, <1>3, ListEnds
  <2>3. head_[l] = last_[l] <=> m = 1
    <3>1. content[l][1] = content[l][m] => 1 = m
      BY <2>2 DEF ListIInv, OncePerNode
    <3>. QED  BY <2>2, <3>1
  <2>4. /\ head_' = [head_ EXCEPT ![l] = IF m = 1 THEN Null ELSE next[head_[l]]]
        /\ last_' = [last_ EXCEPT ![l] = IF m = 1 THEN Null ELSE last_[l]]
        /\ next' = next /\ behind' = behind
    BY <2>3 DEF PopFront
  <2>5. ListFunctions'
    <3>1. head_[l] \in Nodes /\ next[head_[l]] \in Nodes \cup {Null}
      BY <1>3, ListEnds DEF ListIInv, ListFunctions
    <3>. QED  BY <2>1, <2>4, <3>1 DEF ListIInv, ListFunctions
  <2>6. ASSUME NEW k \in Lists, NEW i \in 1 .. Len(content'[k])
        PROVE  \E j \in 1 .. Len(content[k]) : /\ content'[k][i] = content[k][j]
                                               /\ j = IF k = l THEN i + 1 ELSE i
    <3>1. CASE k = l
      <4>1. i \in 1 .. m - 1 /\ i + 1 \in 1 .. m
        BY <1>1, <2>1, <2>6, <3>1
      <4>. QED  BY <2>1, <3>1, <4>1
    <3>. QED  BY <2>1, <2>6, <3>1
  <2>7. OncePerNode'
    <3>. SUFFICES ASSUME NEW j \in Lists, NEW k \in Lists, NEW a \in 1 .. Len(content'[j]),
                         NEW b \in 1 .. Len(content'[k]), content'[j][a] = content'[k][b]
                  PROVE  j = k /\ a = b
      BY DEF OncePerNode
    <3>1. PICK x \in 1 .. Len(content[j]) : /\ content'[j][a] = content[j][x]
                                            /\ x = IF j = l THEN a + 1 ELSE a
      BY <2>6
    <3>2. PICK y \in 1 .. Len(content[k]) : /\ content'[k][b] = content[k][y]
                                            /\ y = IF k = l THEN b + 1 ELSE b
      BY <2>6
    <3>3. content[j][x] = content[k][y]
      BY <3>1, <3>2
    <3>4. j = k /\ x = y
      BY <3>3 DEF ListIInv, OncePerNode
    <3>. QED  BY <3>1, <3>2, <3>4
  <2>8. ASSUME NEW k \in Lists, k # l
        PROVE  content'[k] = content[k] /\ head_'[k] = head_[k] /\ last_'[k] = last_[k]
    BY <2>1, <2>4, <2>8 DEF ListIInv, ListFunctions
  <2>9. /\ m - 1 = 0 => head_'[l] = Null /\ last_'[l] = Null
        /\ m - 1 # 0 => head_'[l] = content'[l][1] /\ last_'[l] = content'[l][m - 1]
    <3>1. CASE m = 1
      BY <2>4, <3>1 DEF ListIInv, ListFunctions
    <3>2. CASE m # 1
      <4>1. head_'[l] = next[content[l][1]] /\ last_'[l] = content[l][m]
        BY <2>2, <2>4, <3>2 DEF ListIInv, ListFunctions
      <4>2. next[content[l][1]] = content[l][1 + 1]
        BY <2>2, <3>2, ListEnds
      <4>3. 1 \in 1 .. m - 1 /\ m - 1 \in 1 .. m - 1 /\ (m - 1) + 1 = m
        <5>1. \A x \in Nat \ {0, 1} : 1 \in 1 .. x - 1 /\ x - 1 \in 1 .. x - 1 /\ (x - 1) + 1 = x
          OBVIOUS
        <5>2. m \in Nat \ {0, 1}
          BY <1>1, <1>3, <3>2
        <5>. QED  BY <5>1, <5>2
      <4>4. content'[l][1] = content[l][1 + 1] /\ content'[l][m - 1] = content[l][m]
        BY <2>1, <4>3
      <4>. QED  BY <1>1, <3>2, <4>1, <4>2, <4>4
    <3>. QED  BY <3>1, <3>2
  <2>10. ASSUME NEW i \in 1 .. m - 1
         PROVE  next'[content'[l][i]] = IF i = m - 1 THEN behind'[l] ELSE content'[l][i + 1]
    <3>1. i + 1 \in 1 .. m /\ content'[l][i] = content[l][i + 1]
      BY <1>1, <2>1, <2>10
    <3>2. next'[content'[l][i]] = IF i + 1 = m THEN behind[l] ELSE content[l][(i + 1) + 1]
      BY <2>4, <3>1, ListEnds
    <3>3. CASE i = m - 1
      BY <1>1, <2>4, <3>2, <3>3
    <3>4. CASE i # m - 1
      <4>1. i + 1 \in 1 .. m - 1 /\ i + 1 # m
        BY <1>1, <2>10, <3>4
      <4>. QED  BY <2>1, <3>2, <3>4, <4>1
    <3>. QED  BY <3>3, <3>4
  <2>11. ASSUME NEW k \in Lists
         PROVE /\ Len(content'[k]) = 0 => head_'[k] = Null /\ last_'[k] = Null
               /\ Len(content'[k]) # 0 => /\ head_'[k] = content'[k][1]
                                          /\ last_'[k] = content'[k][Len(content'[k])]
               /\ \A i \in 1 .. Len(content'[k]) :
                     next'[content'[k][i]] = IF i = Len(content'[k]) THEN behind'[k]
                                             ELSE content'[k][i + 1]
    <3>1. CASE k = l
      BY <2>1, <2>9, <2>10, <3>1
    <3>2. CASE k # l
      BY <2>4, <2>8, <2>11, <3>2, ListEnds
    <3>. QED  BY <3>1, <3>2
  <2>. QED  BY <2>5, <2>7, <2>11, ListIInvNext
<1>. QED  BY <1>2, <1>3

(* List::PushFront of a whole list keeps it: its last node is linked to the
   old head, and it is left empty.                                          *)
LEMMA PushFrontListKeeps ==
    ASSUME ListIInv, NEW l \in Lists, NEW another \in Lists, PushFrontList(l, another)
    PROVE  ListIInv'
<1>14. PICK p \in Nat : p = Len(content[another])
  BY ListEnds
<1>15. PICK m \in Nat : m = Len(content[l])
  BY ListEnds
<1>1. l # another /\ head_[another] # Null
  BY DEF PushFrontList
<1>2. /\ p \in Nat /\ p # 0 /\ m \in Nat
      /\ content[l] \in Seq(Nodes) /\ content[another] \in Seq(Nodes)
      /\ p \in 1 .. p /\ 1 \in 1 .. p
      /\ head_[another] = content[another][1] /\ last_[another] = content[another][p]
      /\ last_[another] \in Nodes /\ p = Len(content[another]) /\ m = Len(content[l])
  BY <1>1, <1>14, <1>15, ListEnds
<1>16. p # 0
  BY <1>2
<1>3. /\ content' \in [Lists -> Seq(Nodes)]
      /\ \A k \in Lists : k # l /\ k # another => content'[k] = content[k]
      /\ Len(content'[another]) = 0
      /\ Len(content'[l]) = p + m
      /\ \A i \in 1 .. p : content'[l][i] = content[another][i]
      /\ \A i \in 1 .. m : content'[l][p + i] = content[l][i]
  <2>1. /\ content[another] \o content[l] \in Seq(Nodes)
        /\ Len(content[another] \o content[l]) = p + m
        /\ \A i \in 1 .. p + m : (content[another] \o content[l])[i] =
                                     IF i <= p THEN content[another][i] ELSE content[l][i - p]
    BY <1>2, ConcatProperties
  <2>2. /\ content'[l] = content[another] \o content[l] /\ content'[another] = <<>>
        /\ \A k \in Lists : k # l /\ k # another => content'[k] = content[k]
    BY <1>1 DEF PushFrontList, ListIInv, ListFunctions
  <2>3. <<>> \in Seq(Nodes) /\ Len(<<>>) = 0
    OBVIOUS
  <2>4. content' \in [Lists -> Seq(Nodes)]
    BY <2>1, <2>3 DEF PushFrontList, ListIInv, ListFunctions
  <2>5. ASSUME NEW i \in 1 .. p PROVE content'[l][i] = content[another][i]
    <3>1. i \in 1 .. p + m /\ i <= p
      OBVIOUS
    <3>. QED  BY <2>1, <2>2, <3>1
  <2>6. ASSUME NEW i \in 1 .. m PROVE content'[l][p + i] = content[l][i]
    <3>1. p + i \in 1 .. p + m /\ ~(p + i <= p) /\ (p + i) - p = i
      OBVIOUS
    <3>. QED  BY <2>1, <2>2, <3>1
  <2>. QED  BY <2>1, <2>2, <2>3, <2>4, <2>5, <2>6
<1>4. /\ next' = [next EXCEPT ![last_[another]] = head_[l]]
      /\ head_' = [head_ EXCEPT ![l] = head_[another], ![another] = Null]
      /\ last_' = [last_ EXCEPT ![l] = IF last_[l] = Null THEN last_[another] ELSE last_[l],
                                ![another] = Null]
      /\ behind' = [behind EXCEPT ![l] = IF last_[l] = Null THEN Null ELSE behind[l]]
  BY DEF PushFrontList
<1>5. ListFunctions'
  <2>1. \A k \in Lists : head_[k] \in Nodes \cup {Null} /\ last_[k] \in Nodes \cup {Null}
    BY DEF ListIInv, ListFunctions
  <2>2. next' \in [Nodes -> Nodes \cup {Null}]
    BY <1>4, <2>1 DEF ListIInv, ListFunctions
  <2>3. head_' \in [Lists -> Nodes \cup {Null}]
    BY <1>4, <2>1 DEF ListIInv, ListFunctions
  <2>4. last_' \in [Lists -> Nodes \cup {Null}]
    BY <1>4, <2>1 DEF ListIInv, ListFunctions
  <2>5. behind' \in [Lists -> Nodes \cup {Null}]
    BY <1>4 DEF ListIInv, ListFunctions
  <2>. QED  BY <1>3, <2>2, <2>3, <2>4, <2>5 DEF ListFunctions
<1>6. ASSUME NEW k \in Lists, NEW i \in 1 .. Len(content'[k])
      PROVE  \E from \in Lists : \E j \in 1 .. Len(content[from]) :
                 /\ content'[k][i] = content[from][j]
                 /\ \/ k = l /\ from = another /\ j = i /\ i <= p
                    \/ k = l /\ from = l /\ j = i - p /\ ~(i <= p)
                    \/ k # l /\ k # another /\ from = k /\ j = i
  <2>1. k # another
    BY <1>3, <1>6
  <2>2. CASE k = l /\ i <= p
    <3>1. i \in 1 .. p
      BY <1>3, <1>6, <2>2
    <3>. QED  BY <1>2, <1>3, <2>2, <3>1
  <2>3. CASE k = l /\ ~(i <= p)
    <3>3. i \in 1 .. p + m
      BY <1>3, <1>6, <2>3
    <3>1. PICK j \in 1 .. m : j = i - p /\ p + j = i
      BY <2>3, <3>3
    <3>2. content'[l][i] = content[l][j]
      BY <1>3, <3>1
    <3>. QED  BY <1>2, <2>3, <3>1, <3>2
  <2>4. CASE k # l
    BY <1>3, <1>6, <2>1, <2>4
  <2>. QED  BY <2>2, <2>3, <2>4
<1>7. OncePerNode'
  <2>. SUFFICES ASSUME NEW j \in Lists, NEW k \in Lists, NEW a \in 1 .. Len(content'[j]),
                       NEW b \in 1 .. Len(content'[k]), content'[j][a] = content'[k][b]
                PROVE  j = k /\ a = b
    BY DEF OncePerNode
  <2>1. PICK f \in Lists : \E x \in 1 .. Len(content[f]) :
                 /\ content'[j][a] = content[f][x]
                 /\ \/ j = l /\ f = another /\ x = a /\ a <= p
                    \/ j = l /\ f = l /\ x = a - p /\ ~(a <= p)
                    \/ j # l /\ j # another /\ f = j /\ x = a
    BY <1>6
  <2>2. PICK g \in Lists : \E y \in 1 .. Len(content[g]) :
                 /\ content'[k][b] = content[g][y]
                 /\ \/ k = l /\ g = another /\ y = b /\ b <= p
                    \/ k = l /\ g = l /\ y = b - p /\ ~(b <= p)
                    \/ k # l /\ k # another /\ g = k /\ y = b
    BY <1>6
  <2>7. PICK x \in 1 .. Len(content[f]) :
                 /\ content'[j][a] = content[f][x]
                 /\ \/ j = l /\ f = another /\ x = a /\ a <= p
                    \/ j = l /\ f = l /\ x = a - p /\ ~(a <= p)
                    \/ j # l /\ j # another /\ f = j /\ x = a
    BY <2>1
  <2>8. PICK y \in 1 .. Len(content[g]) :
                 /\ content'[k][b] = content[g][y]
                 /\ \/ k = l /\ g = another /\ y = b /\ b <= p
                    \/ k = l /\ g = l /\ y = b - p /\ ~(b <= p)
                    \/ k # l /\ k # another /\ g = k /\ y = b
    BY <2>2
  <2>3. content[f][x] = content[g][y]
    BY <2>7, <2>8
  <2>4. f = g /\ x = y
    BY <2>3 DEF ListIInv, OncePerNode
  <2>5. j = k
    BY <1>1, <2>7, <2>8, <2>4
  <2>6. a = b
    BY <1>1, <1>2, <2>7, <2>8, <2>4
  <2>. QED  BY <2>5, <2>6
<1>8. ASSUME NEW k \in Lists, NEW i \in 1 .. Len(content[k]), k # another \/ i # p
      PROVE  next'[content[k][i]] = next[content[k][i]]
  <2>1. content[k][i] # last_[another]
    BY <1>2, <1>8 DEF ListIInv, OncePerNode
  <2>. QED  BY <1>4, <2>1, ListEnds DEF ListIInv, ListFunctions
<1>9. next'[content[another][p]] = head_[l]
  BY <1>2, <1>4 DEF ListIInv, ListFunctions
<1>10. /\ head_'[another] = Null /\ last_'[another] = Null
       /\ head_'[l] = head_[another]
       /\ last_'[l] = IF last_[l] = Null THEN last_[another] ELSE last_[l]
       /\ \A k \in Lists : k # l /\ k # another => head_'[k] = head_[k] /\ last_'[k] = last_[k]
  BY <1>1, <1>4 DEF ListIInv, ListFunctions
<1>17. /\ \A k \in Lists : k # l => behind'[k] = behind[k]
       /\ m = 0 => behind'[l] = Null
       /\ m # 0 => behind'[l] = behind[l]
  <2>1. m = 0 <=> last_[l] = Null
    BY <1>2, ListEnds, ListAssumption
  <2>. QED  BY <1>4, <2>1 DEF ListIInv, ListFunctions
<1>11. head_'[l] = content'[l][1] /\ last_'[l] = content'[l][p + m]
  <2>1. head_'[l] = content'[l][1]
    BY <1>2, <1>3, <1>10
  <2>2. CASE m = 0
    <3>1. last_[l] = Null
      BY <1>2, <2>2, ListEnds
    <3>. QED  BY <1>2, <1>3, <1>10, <2>1, <2>2, <3>1
  <2>3. CASE m # 0
    <3>1. last_[l] # Null /\ last_[l] = content[l][m] /\ m \in 1 .. m
      BY <1>2, <2>3, ListEnds, ListAssumption
    <3>. QED  BY <1>3, <1>10, <2>1, <3>1
  <2>. QED  BY <2>2, <2>3
<1>12. ASSUME NEW i \in 1 .. p + m
       PROVE  next'[content'[l][i]] = IF i = p + m THEN behind'[l] ELSE content'[l][i + 1]
  <2>1. CASE i < p
    <3>1. i \in 1 .. p /\ i + 1 \in 1 .. p /\ i # p /\ i # p + m
      BY <1>12, <2>1
    <3>2. next'[content[another][i]] = content[another][i + 1]
      BY <1>2, <1>8, <3>1, ListEnds
    <3>. QED  BY <1>3, <3>1, <3>2
  <2>2. CASE i = p
    <3>1. content'[l][i] = content[another][p]
      BY <1>2, <1>3, <2>2
    <3>2. CASE m = 0
      <4>2. i = p + m
        BY <2>2, <3>2
      <4>1. head_[l] = Null /\ i = p + m
        BY <1>2, <3>2, <4>2, ListEnds
      <4>. QED  BY <1>9, <1>17, <3>1, <3>2, <4>1
    <3>3. CASE m # 0
      <4>3. 1 \in 1 .. m /\ i # p + m
        BY <2>2, <3>3
      <4>1. head_[l] = content[l][1] /\ 1 \in 1 .. m /\ i # p + m
        BY <1>2, <3>3, <4>3, ListEnds
      <4>2. content'[l][p + 1] = content[l][1]
        BY <1>3, <4>1
      <4>. QED  BY <1>9, <2>2, <3>1, <4>1, <4>2
    <3>. QED  BY <3>2, <3>3
  <2>3. CASE i > p
    <3>0. m # 0 /\ behind'[l] = behind[l]
      <4>1. m # 0
        BY <1>12, <2>3
      <4>. QED  BY <1>17, <4>1
    <3>1. PICK j \in 1 .. m : j = i - p /\ p + j = i
      BY <1>12, <2>3
    <3>2. content'[l][i] = content[l][j]
      BY <1>3, <3>1
    <3>3. next'[content'[l][i]] = IF j = m THEN behind[l] ELSE content[l][j + 1]
      BY <1>1, <1>2, <1>8, <3>2, ListEnds
    <3>4. CASE j = m
      BY <3>0, <3>1, <3>3, <3>4
    <3>5. CASE j # m
      <4>1. j + 1 \in 1 .. m /\ p + (j + 1) = i + 1 /\ i # p + m
        BY <3>1, <3>5
      <4>2. content'[l][i + 1] = content[l][j + 1]
        BY <1>3, <4>1
      <4>. QED  BY <3>3, <3>5, <4>1, <4>2
    <3>. QED  BY <3>4, <3>5
  <2>4. i < p \/ i = p \/ i > p
    BY <1>12
  <2>. QED  BY <2>1, <2>2, <2>3, <2>4
<1>13. ASSUME NEW k \in Lists
       PROVE /\ Len(content'[k]) = 0 => head_'[k] = Null /\ last_'[k] = Null
             /\ Len(content'[k]) # 0 => /\ head_'[k] = content'[k][1]
                                        /\ last_'[k] = content'[k][Len(content'[k])]
             /\ \A i \in 1 .. Len(content'[k]) :
                   next'[content'[k][i]] = IF i = Len(content'[k]) THEN behind'[k] ELSE content'[k][i + 1]
  <2>1. CASE k = l
    <3>2. p + m # 0
      BY <1>16
    <3>1. Len(content'[l]) # 0 /\ Len(content'[l]) = p + m
      BY <1>3, <3>2
    <3>. QED  BY <1>11, <1>12, <2>1, <3>1
  <2>2. CASE k = another
    <3>1. \A i \in 1 .. Len(content'[another]) : FALSE
      BY <1>3
    <3>. QED  BY <1>3, <1>10, <2>2, <3>1
  <2>3. CASE k # l /\ k # another
    <3>1. /\ content'[k] = content[k] /\ head_'[k] = head_[k] /\ last_'[k] = last_[k]
          /\ behind'[k] = behind[k]
      BY <1>3, <1>10, <1>17, <2>3
    <3>2. \A i \in 1 .. Len(content[k]) : next'[content[k][i]] = next[content[k][i]]
      BY <1>8, <2>3
    <3>. QED  BY <3>1, <3>2, ListEnds
  <2>. QED  BY <2>1, <2>2, <2>3
<1>. QED  BY <1>5, <1>7, <1>13, ListIInvNext

(* After any sequence of calls, and whatever links the nodes come with, a  *)
(* walk over a list meets what was put into it, in order, and Last() is    *)
(* the node that PushBack has to link to. Behind the last node there is    *)
(* nothing, or the old link of a node pushed to the front of an empty list.*)
THEOREM ListHoldsItsContent == ListSpec => []ListInv
<1>1. ListInit => ListIInv
  <2>. SUFFICES ASSUME ListInit PROVE ListIInv
    OBVIOUS
  <2>. USE DEF ListInit
  <2>1. <<>> \in Seq(Nodes) /\ Len(<<>>) = 0
    OBVIOUS
  <2>2. \A l \in Lists : content[l] = <<>>
    OBVIOUS
  <2>3. ListFunctions
    BY <2>1 DEF ListFunctions
  <2>4. OncePerNode
    BY <2>1, <2>2 DEF OncePerNode
  <2>5. ListTypeOK /\ WalkIsContent
    BY <2>1, <2>2 DEF ListTypeOK, WalkIsContent, Walks
  <2>. QED  BY <2>3, <2>4, <2>5 DEF ListIInv
<1>2. ListIInv /\ [ListNext]_listVars => ListIInv'
  <2>. SUFFICES ASSUME ListIInv, [ListNext]_listVars PROVE ListIInv'
    OBVIOUS
  <2>1. CASE UNCHANGED listVars
    BY <2>1 DEF listVars, ListIInv, ListFunctions, OncePerNode, ListTypeOK,
       WalkIsContent, Walks
  <2>. QED  BY <2>1, PushBackKeeps, PushFrontKeeps, PushFrontListKeeps,
           PopFrontKeeps
            DEF ListNext
<1>3. ListIInv => ListInv
  BY DEF ListIInv, ListInv
<1>. QED  BY <1>1, <1>2, <1>3, PTL DEF ListSpec

-----------------------------------------------------------------------------
(* Remainders.                                                             *)

(* The rest of a division is what is left of a multiple.                   *)
LEMMA ModUnique ==
    ASSUME NEW u \in Nat, u > 0, NEW q \in Int, NEW x \in 0 .. u - 1
    PROVE  (u * q + x) % u = x
OBVIOUS

(* A remainder is below the modulus and differs by a multiple of it.        *)
LEMMA ModType ==
    ASSUME NEW u \in Nat, u > 0, NEW a \in Int
    PROVE  /\ a % u \in 0 .. u - 1
           /\ \E q \in Int : a = u * q + (a % u)
OBVIOUS

(* What is below the modulus is its own remainder.                          *)
LEMMA ModSmall ==
    ASSUME NEW u \in Nat, u > 0, NEW a \in 0 .. u - 1
    PROVE  a % u = a /\ (u + a) % u = a
OBVIOUS

(* A summand may be reduced first.                                         *)
LEMMA ModAdd ==
    ASSUME NEW u \in Nat, u > 0, NEW a \in Int, NEW b \in Int
    PROVE  ((a % u) + b) % u = (a + b) % u
<1>1. PICK q \in Int : a = u * q + (a % u)
  BY ModType
<1>2. (a % u) + b \in Int
  BY ModType
<1>3. PICK p \in Int : (a % u) + b = u * p + (((a % u) + b) % u)
  BY <1>2, ModType
<1>4. ((a % u) + b) % u \in 0 .. u - 1
  BY <1>2, ModType
<1>5. ASSUME NEW x \in Int, NEW y \in Int, a = u * q + x, x + b = u * p + y
      PROVE  a + b = u * (q + p) + y
  BY <1>5
<1>6. a % u \in Int /\ ((a % u) + b) % u \in Int
  BY <1>4, ModType
<1>7. a + b = u * (q + p) + (((a % u) + b) % u)
  BY <1>1, <1>3, <1>5, <1>6
<1>8. q + p \in Int
  OBVIOUS
<1>. QED  BY <1>4, <1>7, <1>8, ModUnique

(* Reducing by a multiple first makes no difference.                       *)
LEMMA ModOfMod ==
    ASSUME NEW u \in Nat, u > 0, NEW m \in Nat, m > 0, m % u = 0, NEW a \in Int
    PROVE  (a % m) % u = a % u
<1>1. PICK k \in Int : m = u * k
  BY ModType
<1>2. PICK q \in Int : a = m * q + (a % m)
  BY ModType
<1>3. a % m \in Int
  BY ModType
<1>4. PICK p \in Int : a % m = u * p + ((a % m) % u)
  BY <1>3, ModType
<1>5. (a % m) % u \in 0 .. u - 1
  BY <1>3, ModType
<1>6. ASSUME NEW x \in Int, NEW y \in Int, a = m * q + x, x = u * p + y
      PROVE  a = u * (k * q + p) + y
  <2>1. m * q = u * (k * q)
    BY <1>1
  <2>2. u * (k * q + p) = u * (k * q) + u * p
    OBVIOUS
  <2>. QED  BY <1>6, <2>1, <2>2
<1>7. a = u * (k * q + p) + ((a % m) % u)
  BY <1>2, <1>3, <1>4, <1>5, <1>6
<1>8. PICK z \in Int : a = u * z + ((a % m) % u)
  BY <1>7
<1>9. ASSUME NEW x \in 0 .. u - 1, a = u * z + x PROVE a % u = x
  BY <1>9, ModUnique
<1>. QED  BY <1>5, <1>8, <1>9

(* Numbers less than u apart have different rests.                         *)
LEMMA ModApart ==
    ASSUME NEW u \in Nat, u > 0, NEW a \in Int, NEW d \in 1 .. u - 1
    PROVE  (a + d) % u # a % u
<1>. SUFFICES ASSUME (a + d) % u = a % u PROVE FALSE
  OBVIOUS
<1>1. PICK q \in Int : a = u * q + (a % u)
  BY ModType
<1>2. PICK p \in Int : a + d = u * p + ((a + d) % u)
  <2>1. a + d \in Int
    OBVIOUS
  <2>. QED  BY <2>1, ModType
<1>3. a % u \in Int
  BY ModType
<1>4. d = u * (p - q)
  <2>1. ASSUME NEW x \in Int, a = u * q + x, a + d = u * p + x PROVE d = u * (p - q)
    BY <2>1
  <2>. QED  BY <1>1, <1>2, <1>3, <2>1
<1>5. p - q <= 0 \/ p - q >= 1
  OBVIOUS
<1>6. ASSUME NEW z \in Int, d = u * z, z <= 0 \/ z >= 1 PROVE FALSE
  <2>1. CASE z <= 0
    BY <1>6, <2>1
  <2>2. CASE z >= 1
    BY <1>6, <2>2
  <2>. QED  BY <1>6, <2>1, <2>2
<1>. QED  BY <1>4, <1>5, <1>6

(* A counter that was advanced by the modulus is where it was.              *)
LEMMA ModCycle ==
    ASSUME NEW u \in Nat, u > 0, NEW a \in Int
    PROVE  (a + u) % u = a % u
<1>1. PICK q \in Int : a = u * q + (a % u)
  BY ModType
<1>2. ASSUME NEW x \in Int, a = u * q + x PROVE a + u = u * (q + 1) + x
  BY <1>2
<1>3. a % u \in 0 .. u - 1 /\ q + 1 \in Int
  BY ModType
<1>4. a + u = u * (q + 1) + (a % u)
  BY <1>1, <1>2, <1>3
<1>. QED  BY <1>3, <1>4, ModUnique

-----------------------------------------------------------------------------
(* MRSWRing.                                                               *)

RingIInv ==
    /\ data \in [0 .. Size - 1 -> Values \cup {Empty}]
    /\ r \in 0 .. Modulus - 1
    /\ w \in 0 .. Modulus - 1
    /\ Count <= Size

(* Count is how far w_ is ahead of r_, around the counters' range.         *)
LEMMA CountIs ==
    ASSUME NEW x \in 0 .. Modulus - 1, NEW y \in 0 .. Modulus - 1,
           NEW n, n = (y + Modulus - x) % Modulus
    PROVE  /\ n \in 0 .. Modulus - 1
           /\ y = (x + n) % Modulus
           /\ \A c \in 0 .. Modulus - 1 : y = (x + c) % Modulus => c = n
<1>0. Modulus \in Nat /\ Modulus > 0
  BY RingAssumption
<1>1. CASE y >= x
  <2>1. y - x \in 0 .. Modulus - 1 /\ y + Modulus - x = Modulus + (y - x)
    BY <1>0, <1>1
  <2>2. n = y - x
    BY <1>0, <2>1, ModSmall
  <2>3. y % Modulus = y /\ x + (y - x) = y
    BY <1>0, ModSmall
  <2>4. ASSUME NEW c \in 0 .. Modulus - 1, y = (x + c) % Modulus
        PROVE  y - x = c
    <3>1. CASE x + c < Modulus
      <4>1. x + c \in 0 .. Modulus - 1
        BY <1>0, <3>1
      <4>. QED  BY <1>0, <2>4, <4>1, ModSmall
    <3>2. CASE ~(x + c < Modulus)
      <4>1. x + c - Modulus \in 0 .. Modulus - 1 /\ x + c = Modulus + (x + c - Modulus)
        BY <1>0, <3>2
      <4>2. y = x + c - Modulus
        BY <1>0, <2>4, <4>1, ModSmall
      <4>. QED  BY <1>0, <1>1, <4>2
    <3>. QED  BY <3>1, <3>2
  <2>5. y - x \in 0 .. Modulus - 1 /\ y = (x + (y - x)) % Modulus
    BY <2>1, <2>3
  <2>. QED  BY <2>2, <2>4, <2>5
<1>2. CASE ~(y >= x)
  <2>1. y + Modulus - x \in 0 .. Modulus - 1
    BY <1>0, <1>2
  <2>2. n = y + Modulus - x
    BY <1>0, <2>1, ModSmall
  <2>3. x + (y + Modulus - x) = Modulus + y /\ (Modulus + y) % Modulus = y
    BY <1>0, ModSmall
  <2>4. ASSUME NEW c \in 0 .. Modulus - 1, y = (x + c) % Modulus
        PROVE  y + Modulus - x = c
    <3>1. CASE x + c < Modulus
      <4>1. x + c \in 0 .. Modulus - 1
        BY <1>0, <3>1
      <4>2. y = x + c
        BY <1>0, <2>4, <4>1, ModSmall
      <4>. QED  BY <1>0, <1>2, <4>2
    <3>2. CASE ~(x + c < Modulus)
      <4>1. x + c - Modulus \in 0 .. Modulus - 1 /\ x + c = Modulus + (x + c - Modulus)
        BY <1>0, <3>2
      <4>2. y = x + c - Modulus
        BY <1>0, <2>4, <4>1, ModSmall
      <4>. QED  BY <1>0, <4>2
    <3>. QED  BY <3>1, <3>2
  <2>5. y = (x + (y + Modulus - x)) % Modulus
    BY <2>3
  <2>. QED  BY <2>1, <2>2, <2>4, <2>5
<1>. QED  BY <1>1, <1>2

(* Sizes, and how many values are queued.                                  *)
LEMMA RingFacts ==
    ASSUME RingIInv
    PROVE  /\ Size \in Nat /\ Size > 0 /\ Modulus \in Nat /\ Modulus > 0
           /\ Size < Modulus /\ Modulus % Size = 0
           /\ r \in 0 .. Modulus - 1 /\ w \in 0 .. Modulus - 1
           /\ Count \in 0 .. Size /\ Count \in 0 .. Modulus - 1
           /\ w = (r + Count) % Modulus /\ w % Size = (r + Count) % Size
<1>1. /\ Size \in Nat /\ Size > 0 /\ Modulus \in Nat /\ Modulus > 0
      /\ Size < Modulus /\ Modulus % Size = 0
  BY RingAssumption
<1>2. r \in 0 .. Modulus - 1 /\ w \in 0 .. Modulus - 1 /\ Count <= Size
  BY DEF RingIInv
<1>3. Count \in 0 .. Modulus - 1 /\ w = (r + Count) % Modulus
  <2>1. Count = (w + Modulus - r) % Modulus
    BY DEF Count
  <2>. QED  BY <1>2, <2>1, CountIs
<1>4. r + Count \in Int
  BY <1>1, <1>2, <1>3
<1>5. w % Size = (r + Count) % Size
  BY <1>1, <1>3, <1>4, ModOfMod
<1>6. Count \in 0 .. Size
  BY <1>1, <1>2, <1>3
<1>. QED  BY <1>1, <1>2, <1>3, <1>5, <1>6

(* What IsEmpty and IsFull tell from the counters is what the count says.  *)
LEMMA EmptyAndFull ==
    ASSUME RingIInv
    PROVE  (IsEmpty <=> Count = 0) /\ (IsFull <=> Count = Size)
<1>0. /\ Size \in Nat /\ Size > 0 /\ Modulus \in Nat /\ Modulus > 0 /\ Size < Modulus
      /\ r \in 0 .. Modulus - 1 /\ w \in 0 .. Modulus - 1 /\ r \in Int
      /\ Count \in 0 .. Size /\ w = (r + Count) % Modulus
      /\ w % Size = (r + Count) % Size
  BY RingFacts
<1>1. IsEmpty <=> Count = 0
  <2>1. r % Modulus = r /\ r + 0 = r
    BY <1>0, ModSmall
  <2>2. Count = 0 => r = w
    BY <1>0, <2>1
  <2>3. 0 \in 0 .. Modulus - 1
    BY <1>0
  <2>4. r = w => w = (r + 0) % Modulus
    BY <2>1
  <2>6. Count = (w + Modulus - r) % Modulus
    BY DEF Count
  <2>5. r = w => 0 = Count
    BY <1>0, <2>3, <2>4, <2>6, CountIs
  <2>. QED  BY <2>2, <2>5 DEF IsEmpty
<1>2. CASE Count = 0
  BY <1>0, <1>1, <1>2 DEF IsFull
<1>3. CASE Count = Size
  <2>1. (r + Size) % Size = r % Size
    BY <1>0, ModCycle
  <2>. QED  BY <1>0, <1>1, <1>3, <2>1 DEF IsFull
<1>4. CASE Count # 0 /\ Count # Size
  <2>1. Count \in 1 .. Size - 1
    BY <1>0, <1>4
  <2>2. (r + Count) % Size # r % Size
    BY <1>0, <2>1, ModApart
  <2>3. w % Size # r % Size
    BY <1>0, <2>2, Zenon
  <2>4. ~IsFull
    BY <2>3 DEF IsFull
  <2>. QED  BY <1>1, <1>4, <2>4
<1>. QED  BY <1>1, <1>2, <1>3, <1>4

(* The cell of the i-th queued value.                                      *)
LEMMA Cells ==
    ASSUME RingIInv, NEW i \in 1 .. Size
    PROVE  /\ ((r + i - 1) % Modulus) % Size = (r + (i - 1)) % Size
           /\ (r + (i - 1)) % Size \in 0 .. Size - 1
<1>. USE RingFacts
<1>1. r + i - 1 = r + (i - 1) /\ r + (i - 1) \in Int
  OBVIOUS
<1>. QED  BY <1>1, ModOfMod, ModType

(* Queued is a sequence of Count values.                                   *)
LEMMA QueuedIs ==
    ASSUME RingIInv
    PROVE  /\ Queued \in Seq(Values \cup {Empty}) /\ Len(Queued) = Count
           /\ \A i \in 1 .. Count : Queued[i] = data[(r + (i - 1)) % Size]
<1>. USE RingFacts
<1>1. \A i \in 1 .. Count : i \in 1 .. Size
  OBVIOUS
<1>2. \A i \in 1 .. Count : /\ Queued[i] = data[(r + (i - 1)) % Size]
                            /\ Queued[i] \in Values \cup {Empty}
  BY <1>1, Cells DEF Queued, RingIInv
<1>3. Count \in Nat
  OBVIOUS
<1>4. Queued \in [1 .. Count -> Values \cup {Empty}]
  BY <1>2 DEF Queued
<1>5. Queued \in Seq(Values \cup {Empty})
  BY <1>3, <1>4, SeqDef
<1>6. DOMAIN Queued = 1 .. Count
  BY DEF Queued
<1>7. PICK k \in Nat : k = Len(Queued) /\ 1 .. k = 1 .. Count
  BY <1>5, <1>6, LenProperties
<1>8. PICK c \in Nat : c = Count
  BY <1>3
<1>9. k = c
  BY <1>7, <1>8
<1>. QED  BY <1>2, <1>5, <1>7, <1>8, <1>9

(* The ring as the constructor leaves it.                                  *)
LEMMA RingStartsEmpty == RingInit => RingIInv /\ Fifo!Init
<1>. SUFFICES ASSUME RingInit  PROVE RingIInv /\ Fifo!Init
  OBVIOUS
<1>1. r = 0 /\ w = 0 /\ result = <<"none">>
  BY DEF RingInit
<1>2. Size \in Nat /\ Size > 0 /\ Modulus \in Nat /\ Modulus > 0
  BY RingAssumption
<1>3. 0 \in 0 .. Modulus - 1 /\ 0 = (0 + 0) % Modulus
  BY <1>2, ModSmall
<1>4. Count = (0 + Modulus - 0) % Modulus
  BY <1>1 DEF Count
<1>5. Count = 0
  BY <1>3, <1>4, CountIs
<1>6. RingIInv
  BY <1>1, <1>2, <1>3, <1>5 DEF RingIInv, RingInit
<1>7. Len(Queued) = 0 /\ Queued \in Seq(Values \cup {Empty})
  BY <1>5, <1>6, QueuedIs
<1>8. Queued = << >>
  BY <1>7, EmptySeq
<1>. QED  BY <1>1, <1>6, <1>8 DEF Fifo!Init

(* Push writes behind the last queued value, or reports that the ring is   *)
(* full.                                                                   *)
LEMMA RingPushAppends ==
    ASSUME RingIInv, NEW v \in Values, RingPush(v)
    PROVE  RingIInv' /\ Fifo!Push(v)
<1>0. /\ Size \in Nat /\ Size > 0 /\ Modulus \in Nat /\ Modulus > 0 /\ Size < Modulus
      /\ r \in 0 .. Modulus - 1 /\ w \in 0 .. Modulus - 1 /\ Count \in 0 .. Size
      /\ w = (r + Count) % Modulus /\ w % Size = (r + Count) % Size
  BY RingFacts
<1>1. /\ Queued \in Seq(Values \cup {Empty}) /\ Len(Queued) = Count
      /\ \A i \in 1 .. Count : Queued[i] = data[(r + (i - 1)) % Size]
  BY QueuedIs
<1>2. CASE IsFull
  <2>1. Count = Size /\ ~(Count < Size)
    BY <1>0, <1>2, EmptyAndFull
  <2>2. UNCHANGED <<data, r, w>> /\ result' = <<"push", FALSE>>
    BY <1>2 DEF RingPush
  <2>3. Queued' = Queued /\ Count' = Count
    BY <2>2 DEF Queued, Count
  <2>4. RingIInv'
    BY <2>2, <2>3 DEF RingIInv
  <2>. QED  BY <1>1, <2>1, <2>2, <2>3, <2>4 DEF Fifo!Push
<1>3. CASE ~IsFull
  <2>1. Count \in 0 .. Size - 1 /\ Count < Size
    BY <1>0, <1>3, EmptyAndFull
  <2>2. /\ data' = [data EXCEPT ![w % Size] = v] /\ w' = (w + 1) % Modulus
        /\ r' = r /\ result' = <<"push", TRUE>>
    BY <1>3 DEF RingPush, Increment
  <2>3. PICK c \in 0 .. Size - 1 : c = Count
    BY <2>1
  <2>4. w = (r + c) % Modulus /\ w % Size = (r + c) % Size
    BY <1>0, <2>3
  <2>5. w' = (r + (c + 1)) % Modulus
    <3>1. r + c \in Int /\ 1 \in Int /\ r + c + 1 = r + (c + 1)
      BY <1>0
    <3>. QED  BY <1>0, <2>2, <2>4, <3>1, ModAdd
  <2>6. c + 1 \in 0 .. Modulus - 1 /\ c + 1 \in 1 .. Size /\ c + 1 \in Nat
    BY <1>0
  <2>7. w' \in 0 .. Modulus - 1
    <3>1. r + (c + 1) \in Int
      BY <1>0
    <3>. QED  BY <1>0, <2>5, <3>1, ModType
  <2>8. Count' = c + 1
    <3>1. Count' = (w' + Modulus - r) % Modulus
      BY <2>2 DEF Count
    <3>. QED  BY <1>0, <2>5, <2>6, <2>7, <3>1, CountIs
  <2>9. w % Size \in 0 .. Size - 1
    BY <1>0, ModType
  <2>10. data \in [0 .. Size - 1 -> Values \cup {Empty}]
    BY DEF RingIInv
  <2>11. data' \in [0 .. Size - 1 -> Values \cup {Empty}]
    BY <2>2, <2>9, <2>10
  <2>12. RingIInv'
    BY <1>0, <2>2, <2>6, <2>7, <2>8, <2>11 DEF RingIInv
  <2>13. Queued' = [i \in 1 .. c + 1 |-> data'[((r + i - 1) % Modulus) % Size]]
    BY <2>2, <2>8 DEF Queued
  <2>14. \A i \in 1 .. c + 1 : /\ Queued'[i] = data'[(r + (i - 1)) % Size]
                               /\ (r + (i - 1)) % Size \in 0 .. Size - 1
    <3>1. \A i \in 1 .. c + 1 : i \in 1 .. Size
      BY <1>0
    <3>. QED  BY <2>13, <3>1, Cells
  <2>15. \A i \in 1 .. c : Queued'[i] = Queued[i]
    <3>. SUFFICES ASSUME NEW i \in 1 .. c  PROVE Queued'[i] = Queued[i]
      OBVIOUS
    <3>1. /\ i \in 1 .. c + 1 /\ r + (i - 1) \in Int /\ c - (i - 1) \in 1 .. Size - 1
          /\ (r + (i - 1)) + (c - (i - 1)) = r + c
      BY <1>0
    <3>2. (r + c) % Size # (r + (i - 1)) % Size
      BY <1>0, <3>1, ModApart
    <3>3. data'[(r + (i - 1)) % Size] = data[(r + (i - 1)) % Size]
      BY <2>2, <2>4, <2>10, <2>14, <3>1, <3>2
    <3>4. Queued[i] = data[(r + (i - 1)) % Size]
      BY <1>1, <2>3
    <3>. QED  BY <2>14, <3>1, <3>3, <3>4
  <2>16. Queued'[c + 1] = v
    <3>1. c + 1 \in 1 .. c + 1 /\ r + ((c + 1) - 1) = r + c
      BY <1>0
    <3>. QED  BY <2>2, <2>4, <2>9, <2>10, <2>14, <3>1
  <2>17. Queued' = Append(Queued, v)
    <3>1. Append(Queued, v) \in Seq(Values \cup {Empty}) /\ Len(Append(Queued, v)) = c + 1
      BY <1>1, <2>3
    <3>2. \A i \in 1 .. c : Append(Queued, v)[i] = Queued[i]
      BY <1>1, <2>3
    <3>3. Append(Queued, v)[c + 1] = v
      BY <1>1, <2>3
    <3>4. \A i \in 1 .. c + 1 : Append(Queued, v)[i] = Queued'[i]
      <4>1. \A i \in 1 .. c + 1 : i \in 1 .. c \/ i = c + 1
        OBVIOUS
      <4>. QED  BY <2>15, <2>16, <3>2, <3>3, <4>1
    <3>5. Queued' \in [1 .. c + 1 -> Values \cup {Empty}]
      BY <2>11, <2>13, <2>14
    <3>6. Queued' \in Seq(Values \cup {Empty}) /\ Len(Queued') = c + 1
      BY <2>6, <3>5, SeqDef, LenProperties
    <3>. QED  BY <3>1, <3>4, <3>6, SeqEqual
  <2>. QED  BY <1>1, <2>1, <2>2, <2>12, <2>17 DEF Fifo!Push
<1>. QED  BY <1>2, <1>3

(* Pop hands out the oldest value, or reports that there is none.          *)
LEMMA RingPopTakesFirst ==
    ASSUME RingIInv, RingPop
    PROVE  RingIInv' /\ Fifo!Pop
<1>0. /\ Size \in Nat /\ Size > 0 /\ Modulus \in Nat /\ Modulus > 0 /\ Size < Modulus
      /\ r \in 0 .. Modulus - 1 /\ w \in 0 .. Modulus - 1 /\ Count \in 0 .. Size
      /\ w = (r + Count) % Modulus
  BY RingFacts
<1>1. /\ Queued \in Seq(Values \cup {Empty}) /\ Len(Queued) = Count
      /\ \A i \in 1 .. Count : Queued[i] = data[(r + (i - 1)) % Size]
  BY QueuedIs
<1>2. CASE IsEmpty
  <2>1. Count = 0
    BY <1>2, EmptyAndFull
  <2>2. UNCHANGED <<data, r, w>> /\ result' = <<"pop", FALSE>>
    BY <1>2 DEF RingPop
  <2>3. Queued' = Queued /\ Count' = Count
    BY <2>2 DEF Queued, Count
  <2>4. RingIInv'
    BY <2>2, <2>3 DEF RingIInv
  <2>5. Queued = << >>
    BY <1>1, <2>1, EmptySeq
  <2>. QED  BY <2>2, <2>3, <2>4, <2>5 DEF Fifo!Pop
<1>3. CASE ~IsEmpty
  <2>1. Count # 0 /\ Count \in 1 .. Size
    BY <1>0, <1>3, EmptyAndFull
  <2>2. /\ data' = [data EXCEPT ![r % Size] = Empty] /\ r' = (r + 1) % Modulus
        /\ w' = w /\ result' = <<"pop", TRUE, data[r % Size]>>
    BY <1>3 DEF RingPop, Increment
  <2>3. PICK c \in 1 .. Size : c = Count
    BY <2>1
  <2>4. r' \in 0 .. Modulus - 1
    <3>1. r + 1 \in Int
      BY <1>0
    <3>. QED  BY <1>0, <2>2, <3>1, ModType
  <2>5. \A i \in 0 .. Size : (r' + i) % Modulus = (r + (i + 1)) % Modulus
    <3>. SUFFICES ASSUME NEW i \in 0 .. Size
                  PROVE  (r' + i) % Modulus = (r + (i + 1)) % Modulus
      OBVIOUS
    <3>1. r + 1 \in Int /\ i \in Int /\ r + 1 + i = r + (i + 1)
      BY <1>0
    <3>. QED  BY <1>0, <2>2, <3>1, ModAdd
  <2>6. c - 1 \in 0 .. Size /\ c - 1 \in 0 .. Modulus - 1 /\ c - 1 \in Nat /\ c - 1 <= Size
    BY <1>0
  <2>7. w = (r' + (c - 1)) % Modulus
    <3>1. (c - 1) + 1 = c
      OBVIOUS
    <3>. QED  BY <1>0, <2>3, <2>5, <2>6, <3>1
  <2>8. Count' = c - 1
    <3>1. PICK x \in 0 .. Modulus - 1 : x = r'
      BY <2>4
    <3>2. Count' = (w + Modulus - x) % Modulus
      BY <2>2, <3>1 DEF Count
    <3>3. w = (x + (c - 1)) % Modulus
      BY <2>7, <3>1
    <3>. QED  BY <1>0, <2>6, <3>2, <3>3, CountIs
  <2>9. r % Size \in 0 .. Size - 1
    BY <1>0, ModType
  <2>10. data \in [0 .. Size - 1 -> Values \cup {Empty}]
    BY DEF RingIInv
  <2>11. data' \in [0 .. Size - 1 -> Values \cup {Empty}]
    BY <2>2, <2>9, <2>10
  <2>12. RingIInv'
    BY <1>0, <2>2, <2>4, <2>6, <2>8, <2>11 DEF RingIInv
  <2>13. Queued' = [i \in 1 .. c - 1 |-> data'[((r' + i - 1) % Modulus) % Size]]
    BY <2>8 DEF Queued
  <2>14. \A i \in 1 .. c - 1 : /\ Queued'[i] = data'[(r + ((i + 1) - 1)) % Size]
                               /\ (r + ((i + 1) - 1)) % Size \in 0 .. Size - 1
    <3>. SUFFICES ASSUME NEW i \in 1 .. c - 1
                  PROVE  /\ Queued'[i] = data'[(r + ((i + 1) - 1)) % Size]
                         /\ (r + ((i + 1) - 1)) % Size \in 0 .. Size - 1
      OBVIOUS
    <3>1. /\ i - 1 \in 0 .. Size /\ r' + i - 1 = r' + (i - 1) /\ i + 1 \in 1 .. Size
          /\ r + ((i - 1) + 1) = r + (i + 1) - 1
      BY <1>0, <2>4
    <3>2. (r' + i - 1) % Modulus = (r + (i + 1) - 1) % Modulus
      BY <2>5, <3>1
    <3>3. /\ ((r + (i + 1) - 1) % Modulus) % Size = (r + ((i + 1) - 1)) % Size
          /\ (r + ((i + 1) - 1)) % Size \in 0 .. Size - 1
      BY <3>1, Cells
    <3>4. Queued'[i] = data'[((r' + i - 1) % Modulus) % Size]
      BY <2>13
    <3>. QED  BY <3>2, <3>3, <3>4
  <2>15. \A i \in 1 .. c - 1 : Queued'[i] = Queued[i + 1]
    <3>. SUFFICES ASSUME NEW i \in 1 .. c - 1  PROVE Queued'[i] = Queued[i + 1]
      OBVIOUS
    <3>1. i + 1 \in 1 .. c /\ i \in 1 .. Size - 1 /\ r \in Int /\ r + ((i + 1) - 1) = r + i
      BY <1>0
    <3>2. (r + i) % Size # r % Size
      BY <1>0, <3>1, ModApart
    <3>3. data'[(r + ((i + 1) - 1)) % Size] = data[(r + ((i + 1) - 1)) % Size]
      BY <2>2, <2>10, <2>14, <3>1, <3>2
    <3>4. Queued[i + 1] = data[(r + ((i + 1) - 1)) % Size]
      BY <1>1, <2>3, <3>1
    <3>. QED  BY <2>14, <3>3, <3>4
  <2>16. Queued # << >> /\ Head(Queued) = data[r % Size]
    <3>1. 1 \in 1 .. c /\ r + (1 - 1) = r
      BY <1>0
    <3>2. Queued[1] = data[r % Size]
      BY <1>1, <2>3, <3>1
    <3>3. Queued # << >>
      BY <1>1, <2>1, EmptySeq
    <3>. QED  BY <1>1, <3>2, <3>3, HeadTailProperties
  <2>17. Queued' = Tail(Queued)
    <3>1. /\ Tail(Queued) \in Seq(Values \cup {Empty}) /\ Len(Tail(Queued)) = c - 1
          /\ \A i \in 1 .. c - 1 : Tail(Queued)[i] = Queued[i + 1]
      BY <1>1, <2>3, <2>16, HeadTailProperties
    <3>2. Queued' \in [1 .. c - 1 -> Values \cup {Empty}]
      BY <2>11, <2>13, <2>14
    <3>3. Queued' \in Seq(Values \cup {Empty}) /\ Len(Queued') = c - 1
      BY <2>6, <3>2, SeqDef, LenProperties
    <3>. QED  BY <2>15, <3>1, <3>3, SeqEqual
  <2>. QED  BY <2>2, <2>12, <2>16, <2>17 DEF Fifo!Pop
<1>. QED  BY <1>2, <1>3

(* MRSWRing is a bounded FIFO queue of Size values, for every size that    *)
(* divides the range of its counters: its Push and Pop lose, duplicate and *)
(* reorder nothing, and report full and empty exactly when they are, also  *)
(* while r_ and w_ wrap around.                                            *)
THEOREM RingIsFifo == RingSpec => IsFifo
<1>1. RingInit => RingIInv /\ Fifo!Init
  BY RingStartsEmpty
<1>2. RingIInv /\ [RingNext]_ringVars => RingIInv' /\ [Fifo!Next]_(Fifo!vars)
  <2>. SUFFICES ASSUME RingIInv, [RingNext]_ringVars
                PROVE  RingIInv' /\ [Fifo!Next]_(Fifo!vars)
    OBVIOUS
  <2>1. ASSUME NEW v \in Values, RingPush(v)  PROVE RingIInv' /\ Fifo!Next
    BY <2>1, RingPushAppends DEF Fifo!Next
  <2>2. CASE RingPop
    BY <2>2, RingPopTakesFirst DEF Fifo!Next
  <2>3. CASE UNCHANGED ringVars
    <3>1. UNCHANGED <<data, r, w, result>>
      BY <2>3 DEF ringVars
    <3>2. Queued' = Queued /\ Count' = Count
      BY <3>1 DEF Queued, Count
    <3>. QED  BY <3>1, <3>2 DEF RingIInv, Fifo!vars
  <2>. QED  BY <2>1, <2>2, <2>3 DEF RingNext
<1>. QED  BY <1>1, <1>2, PTL DEF RingSpec, IsFifo, Fifo!Spec

-----------------------------------------------------------------------------
(* LinkedStack.                                                            *)

(* A set of natural numbers has a least one.                               *)
LEMMA LeastOne ==
    ASSUME NEW T, T \subseteq Nat, T # {}
    PROVE  \E m \in T : \A k \in T : m <= k
<1>1. PICK m \in T : \A k \in T : ~(<<k, m>> \in OpToRel(<, Nat))
  BY NatLessThanWellFounded, WFMin
<1>2. \A k \in T : ~(k < m)
  BY <1>1 DEF OpToRel
<1>. QED  BY <1>2

(* The sequence s follows the links b from the node h to Null, and meets   *)
(* no node twice.                                                          *)
ChainFrom(s, h, b) ==
    /\ s \in Seq(StackNodes)
    /\ \A i, j \in 1 .. Len(s) : s[i] = s[j] => i = j
    /\ h = IF Len(s) = 0 THEN NoNode ELSE s[1]
    /\ \A i \in 1 .. Len(s) : b[s[i]] = IF i = Len(s) THEN NoNode ELSE s[i + 1]

(* What defines Linked.                                                    *)
Follows(f, h, b) ==
    f = [k \in 1 .. Cardinality(StackNodes) + 1 |->
            IF k = 1 THEN h ELSE IF f[k - 1] = NoNode THEN NoNode ELSE b[f[k - 1]]]

(* No chain is longer than there are nodes.                                *)
LEMMA ChainIsBounded ==
    ASSUME NEW s, NEW h, NEW b, ChainFrom(s, h, b)
    PROVE  /\ Len(s) \in Nat /\ Cardinality(StackNodes) \in Nat
           /\ Len(s) <= Cardinality(StackNodes)
           /\ \A i \in 1 .. Len(s) : s[i] \in StackNodes /\ s[i] # NoNode
<1>1. /\ s \in Seq(StackNodes) /\ s \in [1 .. Len(s) -> StackNodes] /\ Len(s) \in Nat
      /\ \A i, j \in 1 .. Len(s) : s[i] = s[j] => i = j
  BY LenProperties DEF ChainFrom
<1>2. s \in Injection(1 .. Len(s), StackNodes)
  BY <1>1 DEF Injection, IsInjective
<1>3. Cardinality(1 .. Len(s)) <= Cardinality(StackNodes)
  BY <1>2, FS_Injection, StackAssumption
<1>4. Cardinality(1 .. Len(s)) = Len(s)
  <2>1. Cardinality(1 .. Len(s)) = IF 1 > Len(s) THEN 0 ELSE Len(s) - 1 + 1
    BY <1>1, FS_Interval
  <2>. QED  BY <1>1, <2>1
<1>. QED  BY <1>1, <1>3, <1>4, FS_CardinalityType, StackAssumption

(* The recursive function Linked runs through the chain and stays at Null. *)
LEMMA LinkedFollowsChain ==
    ASSUME NEW s, NEW h, NEW b, ChainFrom(s, h, b),
           NEW g, g = CHOOSE f : Follows(f, h, b)
    PROVE  g = [k \in 1 .. Cardinality(StackNodes) + 1 |->
                   IF k <= Len(s) THEN s[k] ELSE NoNode]
<1>. DEFINE c == [k \in 1 .. Cardinality(StackNodes) + 1 |->
                     IF k <= Len(s) THEN s[k] ELSE NoNode]
<1>0. PICK n \in Nat : n = Cardinality(StackNodes)
  BY ChainIsBounded
<1>1. PICK m \in Nat : m = Len(s)
  BY ChainIsBounded
<1>2. /\ m <= n /\ \A i \in 1 .. m : s[i] # NoNode
      /\ h = IF m = 0 THEN NoNode ELSE s[1]
      /\ \A i \in 1 .. m : b[s[i]] = IF i = m THEN NoNode ELSE s[i + 1]
  BY <1>0, <1>1, ChainIsBounded DEF ChainFrom
<1>3. c = [k \in 1 .. n + 1 |-> IF k <= m THEN s[k] ELSE NoNode]
  BY <1>0, <1>1
<1>. HIDE DEF c
<1>4. ASSUME NEW k \in 1 .. n + 1
      PROVE  c[k] = IF k = 1 THEN h ELSE IF c[k - 1] = NoNode THEN NoNode ELSE b[c[k - 1]]
  <2>1. CASE k = 1
    BY <1>2, <1>3, <2>1
  <2>2. CASE k # 1
    <3>1. k - 1 \in 1 .. n + 1 /\ (k - 1 <= m => k - 1 \in 1 .. m) /\ (k - 1) + 1 = k
      BY <2>2
    <3>2. CASE k - 1 <= m
      <4>1. c[k - 1] = s[k - 1] /\ c[k - 1] # NoNode
        BY <1>2, <1>3, <3>1, <3>2
      <4>2. b[s[k - 1]] = IF k - 1 = m THEN NoNode ELSE s[k]
        BY <1>2, <3>1, <3>2
      <4>3. c[k] = IF k - 1 = m THEN NoNode ELSE s[k]
        BY <1>3, <3>2
      <4>. QED  BY <2>2, <4>1, <4>2, <4>3
    <3>3. CASE ~(k - 1 <= m)
      BY <1>3, <2>2, <3>1, <3>3
    <3>. QED  BY <3>2, <3>3
  <2>. QED  BY <2>1, <2>2
<1>5. Follows(c, h, b)
  BY <1>0, <1>3, <1>4 DEF Follows
<1>6. Follows(g, h, b)
  <2>1. \E f : Follows(f, h, b)
    BY <1>5
  <2>. QED  BY <2>1
<1>7. /\ g = [k \in 1 .. n + 1 |->
               IF k = 1 THEN h ELSE IF g[k - 1] = NoNode THEN NoNode ELSE b[g[k - 1]]]
  BY <1>0, <1>6 DEF Follows
<1>8. \A k \in 1 .. n + 1 : g[k] = c[k]
  <2>. DEFINE T == {k \in 1 .. n + 1 : g[k] # c[k]}
  <2>. SUFFICES ASSUME T # {}  PROVE FALSE
    OBVIOUS
  <2>1. PICK k \in T : \A j \in T : k <= j
    <3>1. T \subseteq Nat
      OBVIOUS
    <3>. QED  BY <3>1, LeastOne
  <2>2. k \in 1 .. n + 1 /\ g[k] # c[k]
    BY <2>1
  <2>3. k # 1 => k - 1 \in 1 .. n + 1 /\ g[k - 1] = c[k - 1]
    BY <2>1, <2>2
  <2>4. g[k] = IF k = 1 THEN h ELSE IF g[k - 1] = NoNode THEN NoNode ELSE b[g[k - 1]]
    BY <1>7, <2>2
  <2>. QED  BY <1>4, <2>2, <2>3, <2>4
<1>. QED  BY <1>3, <1>7, <1>8, <1>0 DEF c

(* Linked, for the links in h and b, and what Stacked reads off it.        *)
IsLinked(g, h, b) == g = CHOOSE f : Follows(f, h, b)
Visited(g) == [k \in 1 .. Cardinality({k \in DOMAIN g : g[k] # NoNode}) |-> g[k]]

(* So what is read off it is the chain.                                    *)
LEMMA ReadOff ==
    ASSUME NEW s, NEW h, NEW b, NEW g, ChainFrom(s, h, b), IsLinked(g, h, b)
    PROVE  Visited(g) = s
<1>0. PICK n \in Nat : n = Cardinality(StackNodes)
  BY ChainIsBounded
<1>1. PICK m \in Nat : m = Len(s)
  BY ChainIsBounded
<1>2. m <= n /\ \A i \in 1 .. m : s[i] # NoNode
  BY <1>0, <1>1, ChainIsBounded
<1>3. g = [k \in 1 .. n + 1 |-> IF k <= m THEN s[k] ELSE NoNode]
  <2>1. g = CHOOSE f : Follows(f, h, b)
    BY DEF IsLinked
  <2>. QED  BY <1>0, <1>1, <2>1, LinkedFollowsChain
<1>4. {k \in DOMAIN g : g[k] # NoNode} = 1 .. m
  <2>1. DOMAIN g = 1 .. n + 1
    BY <1>3
  <2>2. \A k \in 1 .. n + 1 : g[k] # NoNode <=> k \in 1 .. m
    <3>1. \A k \in 1 .. n + 1 : g[k] = IF k <= m THEN s[k] ELSE NoNode
      BY <1>3
    <3>. QED  BY <1>2, <3>1
  <2>3. \A k \in 1 .. m : k \in 1 .. n + 1
    BY <1>2
  <2>. QED  BY <2>1, <2>2, <2>3
<1>5. Cardinality(1 .. m) = m
  <2>1. Cardinality(1 .. m) = IF 1 > m THEN 0 ELSE m - 1 + 1
    BY FS_Interval
  <2>. QED  BY <2>1
<1>6. s = [k \in 1 .. m |-> s[k]]
  <2>1. s \in Seq(StackNodes)
    BY DEF ChainFrom
  <2>. QED  BY <1>1, <2>1, LenProperties
<1>7. \A k \in 1 .. m : g[k] = s[k]
  <2>1. \A k \in 1 .. m : k \in 1 .. n + 1 /\ k <= m
    BY <1>2
  <2>. QED  BY <1>3, <2>1
<1>. QED  BY <1>4, <1>5, <1>6, <1>7 DEF Visited

(* The chain from head_ is the stack, in this state and in the next.       *)
LEMMA ChainIsStacked ==
    ASSUME NEW s
    PROVE  /\ ChainFrom(s, stackHead, below) => Stacked = s
           /\ ChainFrom(s, stackHead', below') => Stacked' = s
<1>1. IsLinked(Linked, stackHead, below)
  BY DEF Linked, Follows, IsLinked
<1>2. IsLinked(Linked', stackHead', below')
  BY DEF Linked, Follows, IsLinked
<1>3. Stacked = Visited(Linked)
  BY Zenon DEF Stacked, Visited
<1>4. Stacked' = Visited(Linked')
  BY Zenon DEF Stacked, Visited
<1>5. ASSUME ChainFrom(s, stackHead, below)  PROVE Stacked = s
  <2>1. Visited(Linked) = s
    BY <1>1, <1>5, ReadOff, Zenon
  <2>. QED  BY <1>3, <2>1, Zenon
<1>6. ASSUME ChainFrom(s, stackHead', below')  PROVE Stacked' = s
  <2>1. Visited(Linked') = s
    BY <1>2, <1>6, ReadOff, Zenon
  <2>. QED  BY <1>4, <2>1, Zenon
<1>. QED  BY <1>5, <1>6

Pushing(t) == stackPc[t] \in {"pushLoad", "pushExchange"}
Popping(t) == stackPc[t] \in {"popNext", "popExchange"}

StackTypes ==
    /\ stackHead \in StackNodes \cup {NoNode}
    /\ below \in [StackNodes -> StackNodes \cup {NoNode}]
    /\ owned \in [Threads -> SUBSET StackNodes]
    /\ stackPc \in [Threads -> {"idle", "pushLoad", "pushExchange",
                                "popLoad", "popNext", "popExchange"}]
    /\ node \in [Threads -> StackNodes \cup {NoNode}]
    /\ head \in [Threads -> StackNodes \cup {NoNode}]
    /\ nextLoaded \in [Threads -> StackNodes \cup {NoNode}]

(* The links from head_ end, and what they reach belongs to no thread.     *)
StackIsChain ==
    /\ ChainFrom(Stacked, stackHead, below)
    /\ \A t \in Threads : \A i \in 1 .. Len(Stacked) : Stacked[i] \notin owned[t]

(* No node belongs to two threads.                                         *)
OneOwner == \A t, u \in Threads : t # u => owned[t] \cap owned[u] = {}

(* A thread in Push owns its node, so that the link it stored stays.       *)
PushIsPrivate ==
    \A t \in Threads :
        /\ Pushing(t) => node[t] \in owned[t]
        /\ stackPc[t] = "pushExchange" => below[node[t]] = head[t]

(* The link a thread in Pop read stays too: nobody pushes that node again. *)
PopIsStable ==
    \A t \in Threads :
        /\ Popping(t) => head[t] \in StackNodes
        /\ Popping(t) => \A u \in Threads : Pushing(u) => node[u] # head[t]
        /\ stackPc[t] = "popExchange" => nextLoaded[t] = below[head[t]]

StackIInv == StackTypes /\ StackIsChain /\ OneOwner /\ PushIsPrivate /\ PopIsStable

(* A step that leaves head_ and the links of the stack alone leaves the    *)
(* stack as it is.                                                         *)
LEMMA StackStays ==
    ASSUME StackIInv, stackHead' = stackHead, owned' = owned,
           \A i \in 1 .. Len(Stacked) : below'[Stacked[i]] = below[Stacked[i]]
    PROVE  Stacked' = Stacked /\ StackIsChain' /\ OneOwner'
<1>1. PICK s : s = Stacked
  OBVIOUS
<1>2. ChainFrom(s, stackHead, below)
  BY <1>1 DEF StackIInv, StackIsChain
<1>3. \A i \in 1 .. Len(s) : below'[s[i]] = below[s[i]]
  BY <1>1
<1>4. ChainFrom(s, stackHead', below')
  BY <1>2, <1>3 DEF ChainFrom
<1>5. Stacked' = s
  BY <1>4, ChainIsStacked
<1>6. \A t \in Threads : \A i \in 1 .. Len(s) : s[i] \notin owned'[t]
  BY <1>1 DEF StackIInv, StackIsChain
<1>7. StackIsChain'
  BY <1>4, <1>5, <1>6 DEF StackIsChain
<1>8. OneOwner'
  BY DEF StackIInv, OneOwner
<1>. QED  BY <1>1, <1>5, <1>7, <1>8

(* The stack as it is made.                                                *)
LEMMA StackStartsEmpty == StackInit => StackIInv /\ Atomic!Init
<1>. SUFFICES ASSUME StackInit  PROVE StackIInv /\ Atomic!Init
  OBVIOUS
<1>0. NoNode \notin StackNodes
  BY StackAssumption
<1>1. << >> \in Seq(StackNodes) /\ Len(<< >>) = 0
  OBVIOUS
<1>2. ChainFrom(<< >>, stackHead, below)
  BY <1>1 DEF StackInit, ChainFrom
<1>3. Stacked = << >>
  BY <1>2, ChainIsStacked
<1>4. StackIsChain
  <2>1. ChainFrom(Stacked, stackHead, below)
    BY <1>2, <1>3
  <2>2. \A i \in 1 .. Len(Stacked) : FALSE
    BY <1>1, <1>3
  <2>. QED  BY <2>1, <2>2 DEF StackIsChain
<1>5. OneOwner
  BY DEF StackInit, OneOwner
<1>6. StackTypes
  BY DEF StackInit, StackTypes
<1>7. \A t \in Threads : stackPc[t] = "idle"
  BY DEF StackInit
<1>8. PushIsPrivate /\ PopIsStable
  BY <1>7 DEF PushIsPrivate, PopIsStable, Pushing, Popping
<1>9. owned \in [Threads -> SUBSET StackNodes]
  BY DEF StackInit
<1>. QED  BY <1>3, <1>4, <1>5, <1>6, <1>8, <1>9 DEF StackIInv, Atomic!Init

(* A thread that enters Push owns the node and no thread is about to pop   *)
(* it, which is what the users of the stack have to see to.                *)
LEMMA BeginKeeps ==
    ASSUME StackIInv, NEW t \in Threads, NEW n \in StackNodes, Begin(t, n)
    PROVE  StackIInv' /\ Stacked' = Stacked /\ owned' = owned
<1>0. /\ stackPc[t] = "idle" /\ n \in owned[t]
      /\ \A u \in Threads : Popping(u) => head[u] # n
      /\ node' = [node EXCEPT ![t] = n]
      /\ stackPc' = [stackPc EXCEPT ![t] = "pushLoad"]
      /\ UNCHANGED <<stackHead, below, owned, head, nextLoaded>>
  BY DEF Begin, Popping
<1>1. StackTypes /\ PushIsPrivate /\ PopIsStable
  BY DEF StackIInv
<1>2. Stacked' = Stacked /\ StackIsChain' /\ OneOwner'
  BY <1>0, StackStays
<1>3. StackTypes'
  BY <1>0, <1>1 DEF StackTypes
<1>4. node \in [Threads -> StackNodes \cup {NoNode}] /\ DOMAIN stackPc = Threads
  BY <1>1 DEF StackTypes
<1>5. PushIsPrivate'
  BY <1>0, <1>1, <1>4 DEF PushIsPrivate, Pushing
<1>6. PopIsStable'
  BY <1>0, <1>1, <1>4 DEF PopIsStable, Pushing, Popping
<1>. QED  BY <1>0, <1>2, <1>3, <1>5, <1>6 DEF StackIInv

(* Only the owner of a node stores its link, and the node is not in the    *)
(* stack.                                                                  *)
LEMMA PushLoadKeeps ==
    ASSUME StackIInv, NEW t \in Threads, PushLoad(t)
    PROVE  StackIInv' /\ Stacked' = Stacked /\ owned' = owned
<1>0. /\ stackPc[t] = "pushLoad"
      /\ head' = [head EXCEPT ![t] = stackHead]
      /\ below' = [below EXCEPT ![node[t]] = stackHead]
      /\ stackPc' = [stackPc EXCEPT ![t] = "pushExchange"]
      /\ UNCHANGED <<stackHead, owned, node, nextLoaded>>
  BY DEF PushLoad
<1>1. StackTypes /\ PushIsPrivate /\ PopIsStable /\ OneOwner
  BY DEF StackIInv
<1>2. Pushing(t) /\ node[t] \in owned[t]
  BY <1>0, <1>1 DEF PushIsPrivate, Pushing
<1>3. /\ stackHead \in StackNodes \cup {NoNode} /\ node[t] \in StackNodes
      /\ below \in [StackNodes -> StackNodes \cup {NoNode}]
      /\ DOMAIN stackPc = Threads /\ DOMAIN head = Threads
  BY <1>1, <1>2 DEF StackTypes
<1>4. Stacked' = Stacked /\ StackIsChain' /\ OneOwner'
  <2>1. \A i \in 1 .. Len(Stacked) : Stacked[i] # node[t] /\ Stacked[i] \in StackNodes
    <3>1. \A i \in 1 .. Len(Stacked) : Stacked[i] \notin owned[t]
      BY DEF StackIInv, StackIsChain
    <3>2. \A i \in 1 .. Len(Stacked) : Stacked[i] \in StackNodes
      BY ChainIsBounded DEF StackIInv, StackIsChain
    <3>. QED  BY <1>2, <3>1, <3>2
  <2>2. \A i \in 1 .. Len(Stacked) : below'[Stacked[i]] = below[Stacked[i]]
    BY <1>0, <1>3, <2>1
  <2>. QED  BY <1>0, <2>2, StackStays
<1>5. StackTypes'
  BY <1>0, <1>1, <1>3 DEF StackTypes
<1>6. PushIsPrivate'
  <2>. SUFFICES ASSUME NEW u \in Threads
                PROVE  /\ Pushing(u)' => node[u] \in owned[u]
                       /\ stackPc'[u] = "pushExchange" => below'[node[u]] = head'[u]
    BY <1>0 DEF PushIsPrivate
  <2>1. CASE u = t
    BY <1>0, <1>2, <1>3, <2>1
  <2>2. CASE u # t
    <3>1. stackPc'[u] = stackPc[u] /\ head'[u] = head[u]
      BY <1>0, <1>3, <2>2
    <3>2. Pushing(u) => node[u] \in owned[u] /\ node[u] # node[t] /\ node[u] \in StackNodes
      BY <1>1, <1>2, <2>2 DEF PushIsPrivate, OneOwner, StackTypes
    <3>3. Pushing(u) => below'[node[u]] = below[node[u]]
      BY <1>0, <1>3, <3>2
    <3>. QED  BY <1>1, <3>1, <3>2, <3>3 DEF PushIsPrivate, Pushing
  <2>. QED  BY <2>1, <2>2
<1>7. PopIsStable'
  <2>. SUFFICES ASSUME NEW u \in Threads
                PROVE  /\ Popping(u)' => head'[u] \in StackNodes
                       /\ Popping(u)' => \A v \in Threads : Pushing(v)' => node[v] # head'[u]
                       /\ stackPc'[u] = "popExchange" => nextLoaded[u] = below'[head'[u]]
    BY <1>0 DEF PopIsStable
  <2>1. CASE u = t
    BY <1>0, <1>3, <2>1 DEF Popping
  <2>2. CASE u # t
    <3>1. stackPc'[u] = stackPc[u] /\ head'[u] = head[u]
      BY <1>0, <1>3, <2>2
    <3>2. \A v \in Threads : Pushing(v)' => Pushing(v)
      BY <1>0, <1>2, <1>3 DEF Pushing
    <3>3. Popping(u) => /\ head[u] \in StackNodes
                        /\ \A v \in Threads : Pushing(v) => node[v] # head[u]
      BY <1>1 DEF PopIsStable
    <3>4. Popping(u) => below'[head[u]] = below[head[u]]
      BY <1>0, <1>2, <1>3, <3>3
    <3>5. stackPc[u] = "popExchange" => Popping(u) /\ nextLoaded[u] = below[head[u]]
      BY <1>1 DEF PopIsStable, Popping
    <3>6. Popping(u)' <=> Popping(u)
      BY <3>1 DEF Popping
    <3>. QED  BY <3>1, <3>2, <3>3, <3>4, <3>5, <3>6
  <2>. QED  BY <2>1, <2>2
<1>. QED  BY <1>0, <1>4, <1>5, <1>6, <1>7 DEF StackIInv

(* The exchange puts the node on top if head_ is still what it links to;   *)
(* otherwise Push starts over.                                             *)
LEMMA PushExchangeKeeps ==
    ASSUME StackIInv, NEW t \in Threads, PushExchange(t)
    PROVE  /\ StackIInv'
           /\ (Stacked' = Stacked /\ owned' = owned) \/ Atomic!Push(t)
<1>1. StackTypes /\ PushIsPrivate /\ PopIsStable /\ OneOwner
  BY DEF StackIInv
<1>2. stackPc[t] = "pushExchange" /\ UNCHANGED <<below, nextLoaded>>
  BY DEF PushExchange
<1>3. Pushing(t) /\ node[t] \in owned[t] /\ below[node[t]] = head[t]
  BY <1>1, <1>2 DEF PushIsPrivate, Pushing
<1>4. /\ stackHead \in StackNodes \cup {NoNode} /\ node[t] \in StackNodes
      /\ node \in [Threads -> StackNodes \cup {NoNode}]
      /\ head \in [Threads -> StackNodes \cup {NoNode}]
      /\ owned \in [Threads -> SUBSET StackNodes] /\ DOMAIN stackPc = Threads
      /\ NoNode \notin StackNodes
  BY <1>1, <1>3, StackAssumption DEF StackTypes
<1>5. CASE stackHead # head[t]
  <2>1. /\ stackPc' = [stackPc EXCEPT ![t] = "pushLoad"]
        /\ UNCHANGED <<stackHead, owned, node, head>>
    BY <1>5 DEF PushExchange
  <2>2. Stacked' = Stacked /\ StackIsChain' /\ OneOwner'
    BY <1>2, <2>1, StackStays
  <2>3. StackTypes'
    BY <1>1, <1>2, <2>1 DEF StackTypes
  <2>4. \A u \in Threads : /\ Pushing(u)' <=> Pushing(u)
                           /\ Popping(u)' <=> Popping(u)
                           /\ stackPc'[u] = "popExchange" <=> stackPc[u] = "popExchange"
                           /\ stackPc'[u] = "pushExchange" => stackPc[u] = "pushExchange"
    BY <1>2, <1>4, <2>1 DEF Pushing, Popping
  <2>5. PushIsPrivate'
    BY <1>1, <1>2, <2>1, <2>4 DEF PushIsPrivate
  <2>6. PopIsStable'
    BY <1>1, <1>2, <2>1, <2>4 DEF PopIsStable
  <2>. QED  BY <2>1, <2>2, <2>3, <2>5, <2>6 DEF StackIInv
<1>6. CASE stackHead = head[t]
  <2>1. /\ stackHead' = node[t]
        /\ owned' = [owned EXCEPT ![t] = @ \ {node[t]}]
        /\ stackPc' = [stackPc EXCEPT ![t] = "idle"]
        /\ node' = [node EXCEPT ![t] = NoNode]
        /\ head' = [head EXCEPT ![t] = NoNode]
    BY <1>6 DEF PushExchange
  <2>2. PICK s : s = Stacked
    OBVIOUS
  <2>3. /\ ChainFrom(s, stackHead, below)
        /\ \A u \in Threads : \A i \in 1 .. Len(s) : s[i] \notin owned[u]
    BY <2>2 DEF StackIInv, StackIsChain
  <2>4. PICK m \in Nat : m = Len(s)
    BY <2>3, ChainIsBounded
  <2>5. /\ s \in Seq(StackNodes)
        /\ \A i, j \in 1 .. m : s[i] = s[j] => i = j
        /\ stackHead = IF m = 0 THEN NoNode ELSE s[1]
        /\ \A i \in 1 .. m : below[s[i]] = IF i = m THEN NoNode ELSE s[i + 1]
        /\ \A i \in 1 .. m : s[i] \in StackNodes
        /\ \A u \in Threads : \A i \in 1 .. m : s[i] \notin owned[u]
    BY <2>3, <2>4, ChainIsBounded DEF ChainFrom
  <2>6. PICK q : q = <<node[t]>> \o s
    OBVIOUS
  <2>7. /\ q \in Seq(StackNodes) /\ Len(q) = m + 1 /\ q[1] = node[t]
        /\ \A i \in 2 .. m + 1 : q[i] = s[i - 1]
    <3>1. <<node[t]>> \in Seq(StackNodes) /\ Len(<<node[t]>>) = 1 /\ <<node[t]>>[1] = node[t]
      BY <1>4
    <3>2. /\ q \in Seq(StackNodes) /\ Len(q) = 1 + m
          /\ \A i \in 1 .. 1 + m : q[i] = IF i <= 1 THEN <<node[t]>>[i] ELSE s[i - 1]
      BY <2>4, <2>5, <2>6, <3>1, ConcatProperties
    <3>. QED  BY <3>1, <3>2
  <2>8. \A i \in 1 .. m + 1 : i = 1 \/ (i \in 2 .. m + 1 /\ i - 1 \in 1 .. m)
    OBVIOUS
  <2>9. ChainFrom(q, stackHead', below')
    <3>1. \A i, j \in 1 .. m + 1 : q[i] = q[j] => i = j
      <4>. SUFFICES ASSUME NEW i \in 1 .. m + 1, NEW j \in 1 .. m + 1, q[i] = q[j]
                    PROVE  i = j
        OBVIOUS
      <4>1. \A k \in 2 .. m + 1 : q[k] # q[1]
        BY <1>3, <2>5, <2>7, <2>8
      <4>2. CASE i # 1 /\ j # 1
        <5>1. i - 1 \in 1 .. m /\ j - 1 \in 1 .. m /\ s[i - 1] = s[j - 1]
          BY <2>7, <2>8, <4>2
        <5>2. i - 1 = j - 1
          BY <2>5, <5>1
        <5>. QED  BY <5>2
      <4>. QED  BY <2>8, <4>1, <4>2
    <3>2. \A i \in 1 .. m + 1 : below'[q[i]] = IF i = m + 1 THEN NoNode ELSE q[i + 1]
      <4>. SUFFICES ASSUME NEW i \in 1 .. m + 1
                    PROVE  below[q[i]] = IF i = m + 1 THEN NoNode ELSE q[i + 1]
        BY <1>2
      <4>1. CASE i = 1
        <5>1. below[q[1]] = stackHead
          BY <1>3, <1>6, <2>7
        <5>2. m # 0 => 2 \in 2 .. m + 1
          OBVIOUS
        <5>3. m # 0 => q[2] = s[1]
          BY <2>7, <5>2
        <5>. QED  BY <2>5, <4>1, <5>1, <5>3
      <4>2. CASE i # 1
        <5>1. i \in 2 .. m + 1 /\ i - 1 \in 1 .. m /\ (i - 1) + 1 = i
          BY <2>8, <4>2
        <5>2. q[i] = s[i - 1] /\ below[s[i - 1]] = IF i - 1 = m THEN NoNode ELSE s[i]
          BY <2>5, <2>7, <5>1
        <5>3. i # m + 1 => i + 1 \in 2 .. m + 1 /\ (i + 1) - 1 = i
          BY <5>1
        <5>4. i # m + 1 => q[i + 1] = s[i]
          BY <2>7, <5>3
        <5>. QED  BY <5>1, <5>2, <5>4
      <4>. QED  BY <4>1, <4>2
    <3>3. stackHead' = q[1] /\ m + 1 # 0
      BY <2>1, <2>7
    <3>. QED  BY <2>7, <3>1, <3>2, <3>3 DEF ChainFrom
  <2>10. Stacked' = q
    BY <2>9, ChainIsStacked
  <2>11. \A u \in Threads : owned'[u] \subseteq owned[u] /\ node[t] \notin owned'[u]
    BY <1>1, <1>3, <1>4, <2>1 DEF OneOwner
  <2>12. StackIsChain'
    <3>1. \A u \in Threads : \A i \in 1 .. m + 1 : q[i] \notin owned'[u]
      BY <2>5, <2>7, <2>8, <2>11
    <3>2. ChainFrom(Stacked', stackHead', below')
      BY <2>9, <2>10
    <3>3. \A u \in Threads : \A i \in 1 .. Len(Stacked') : Stacked'[i] \notin owned'[u]
      BY <2>7, <2>10, <3>1
    <3>. QED  BY <3>2, <3>3 DEF StackIsChain
  <2>13. OneOwner'
    BY <1>1, <2>11 DEF OneOwner
  <2>14. StackTypes'
    BY <1>1, <1>2, <1>4, <2>1 DEF StackTypes
  <2>15. \A u \in Threads : u # t => /\ stackPc'[u] = stackPc[u] /\ node'[u] = node[u]
                                     /\ head'[u] = head[u] /\ owned'[u] = owned[u]
    BY <1>4, <2>1
  <2>16. stackPc'[t] = "idle"
    BY <1>4, <2>1
  <2>17. PushIsPrivate'
    BY <1>1, <1>2, <2>15, <2>16 DEF PushIsPrivate, Pushing
  <2>18. PopIsStable'
    BY <1>1, <1>2, <2>15, <2>16 DEF PopIsStable, Pushing, Popping
  <2>19. Atomic!Push(t)
    <3>1. Stacked' = <<node[t]>> \o Stacked
      BY <2>2, <2>6, <2>10
    <3>. QED  BY <1>3, <2>1, <3>1 DEF Atomic!Push
  <2>. QED  BY <2>12, <2>13, <2>14, <2>17, <2>18, <2>19 DEF StackIInv
<1>. QED  BY <1>5, <1>6

(* Pop loads the head: a node of the stack is no thread's to push.         *)
LEMMA PopLoadKeeps ==
    ASSUME StackIInv, NEW t \in Threads, PopLoad(t)
    PROVE  StackIInv' /\ Stacked' = Stacked /\ owned' = owned
<1>0. /\ stackPc[t] \in {"idle", "popLoad"}
      /\ head' = [head EXCEPT ![t] = stackHead]
      /\ stackPc' = [stackPc EXCEPT ![t] = IF stackHead = NoNode THEN "idle" ELSE "popNext"]
      /\ UNCHANGED <<stackHead, below, owned, node, nextLoaded>>
  BY DEF PopLoad
<1>1. StackTypes /\ PushIsPrivate /\ PopIsStable
  BY DEF StackIInv
<1>2. Stacked' = Stacked /\ StackIsChain' /\ OneOwner'
  BY <1>0, StackStays
<1>3. StackTypes'
  BY <1>0, <1>1 DEF StackTypes
<1>4. /\ stackHead \in StackNodes \cup {NoNode}
      /\ DOMAIN stackPc = Threads /\ DOMAIN head = Threads
  BY <1>1 DEF StackTypes
<1>5. \A u \in Threads : u # t => stackPc'[u] = stackPc[u] /\ head'[u] = head[u]
  BY <1>0, <1>4
<1>6. stackPc'[t] \in {"idle", "popNext"} /\ head'[t] = stackHead
      /\ (stackPc'[t] = "popNext" => stackHead \in StackNodes)
  BY <1>0, <1>4
<1>7. PushIsPrivate'
  BY <1>0, <1>1, <1>5, <1>6 DEF PushIsPrivate, Pushing
<1>8. \A u \in Threads : stackHead \in StackNodes => stackHead \notin owned[u]
  <2>1. /\ ChainFrom(Stacked, stackHead, below) /\ NoNode \notin StackNodes
        /\ \A u \in Threads : \A i \in 1 .. Len(Stacked) : Stacked[i] \notin owned[u]
    BY StackAssumption DEF StackIInv, StackIsChain
  <2>2. PICK m \in Nat : m = Len(Stacked)
    BY <2>1, ChainIsBounded
  <2>3. stackHead = IF m = 0 THEN NoNode ELSE Stacked[1]
    BY <2>1, <2>2 DEF ChainFrom
  <2>4. m # 0 => 1 \in 1 .. m
    OBVIOUS
  <2>. QED  BY <2>1, <2>2, <2>3, <2>4
<1>9. \A u \in Threads : Pushing(u)' => Pushing(u) /\ node[u] \in owned[u]
  BY <1>0, <1>1, <1>5, <1>6 DEF PushIsPrivate, Pushing
<1>10. PopIsStable'
  <2>. SUFFICES ASSUME NEW u \in Threads
                PROVE  /\ Popping(u)' => head'[u] \in StackNodes
                       /\ Popping(u)' => \A v \in Threads : Pushing(v)' => node[v] # head'[u]
                       /\ stackPc'[u] = "popExchange" => nextLoaded[u] = below[head'[u]]
    BY <1>0 DEF PopIsStable
  <2>1. CASE u = t
    <3>1. Popping(t)' => stackHead \in StackNodes
      BY <1>6 DEF Popping
    <3>. QED  BY <1>6, <1>8, <1>9, <2>1, <3>1
  <2>2. CASE u # t
    <3>1. Popping(u)' <=> Popping(u)
      BY <1>5, <2>2 DEF Popping
    <3>. QED  BY <1>1, <1>5, <1>9, <2>2, <3>1 DEF PopIsStable
  <2>. QED  BY <2>1, <2>2
<1>. QED  BY <1>0, <1>2, <1>3, <1>7, <1>10 DEF StackIInv

(* Pop reads the link of the head it loaded.                               *)
LEMMA PopNextKeeps ==
    ASSUME StackIInv, NEW t \in Threads, PopNext(t)
    PROVE  StackIInv' /\ Stacked' = Stacked /\ owned' = owned
<1>0. /\ stackPc[t] = "popNext"
      /\ nextLoaded' = [nextLoaded EXCEPT ![t] = below[head[t]]]
      /\ stackPc' = [stackPc EXCEPT ![t] = "popExchange"]
      /\ UNCHANGED <<stackHead, below, owned, node, head>>
  BY DEF PopNext
<1>1. StackTypes /\ PushIsPrivate /\ PopIsStable
  BY DEF StackIInv
<1>2. Stacked' = Stacked /\ StackIsChain' /\ OneOwner'
  BY <1>0, StackStays
<1>3. head[t] \in StackNodes
  BY <1>0, <1>1 DEF PopIsStable, Popping
<1>4. below[head[t]] \in StackNodes \cup {NoNode}
  BY <1>1, <1>3 DEF StackTypes
<1>5. StackTypes'
  BY <1>0, <1>1, <1>4 DEF StackTypes
<1>6. DOMAIN stackPc = Threads /\ DOMAIN nextLoaded = Threads
  BY <1>1 DEF StackTypes
<1>7. \A u \in Threads : Pushing(u)' <=> Pushing(u)
  BY <1>0, <1>6 DEF Pushing
<1>8. \A u \in Threads : Popping(u)' <=> Popping(u)
  BY <1>0, <1>6 DEF Popping
<1>9. PushIsPrivate'
  <2>1. \A u \in Threads : stackPc'[u] = "pushExchange" => stackPc[u] = "pushExchange"
    BY <1>0, <1>6
  <2>. QED  BY <1>0, <1>1, <1>7, <2>1 DEF PushIsPrivate
<1>10. PopIsStable'
  <2>1. \A u \in Threads : stackPc'[u] = "popExchange" => nextLoaded'[u] = below[head[u]]
    BY <1>0, <1>1, <1>6 DEF PopIsStable
  <2>. QED  BY <1>0, <1>1, <1>7, <1>8, <2>1 DEF PopIsStable
<1>. QED  BY <1>0, <1>2, <1>5, <1>9, <1>10 DEF StackIInv

(* The exchange takes the top if head_ is still the node whose link was    *)
(* read; otherwise Pop starts over.                                        *)
LEMMA PopExchangeKeeps ==
    ASSUME StackIInv, NEW t \in Threads, PopExchange(t)
    PROVE  /\ StackIInv'
           /\ (Stacked' = Stacked /\ owned' = owned) \/ Atomic!Pop(t)
<1>1. StackTypes /\ PushIsPrivate /\ PopIsStable /\ OneOwner
  BY DEF StackIInv
<1>2. stackPc[t] = "popExchange" /\ UNCHANGED <<below, node>>
  BY DEF PopExchange
<1>3. head[t] \in StackNodes /\ nextLoaded[t] = below[head[t]]
  BY <1>1, <1>2 DEF PopIsStable, Popping
<1>4. /\ below \in [StackNodes -> StackNodes \cup {NoNode}]
      /\ nextLoaded \in [Threads -> StackNodes \cup {NoNode}]
      /\ head \in [Threads -> StackNodes \cup {NoNode}]
      /\ owned \in [Threads -> SUBSET StackNodes] /\ DOMAIN stackPc = Threads
      /\ NoNode \notin StackNodes
  BY <1>1, StackAssumption DEF StackTypes
<1>5. CASE stackHead # head[t]
  <2>1. /\ stackPc' = [stackPc EXCEPT ![t] = "popLoad"]
        /\ UNCHANGED <<stackHead, owned, head, nextLoaded>>
    BY <1>5 DEF PopExchange
  <2>2. Stacked' = Stacked /\ StackIsChain' /\ OneOwner'
    BY <1>2, <2>1, StackStays
  <2>3. StackTypes'
    BY <1>1, <1>2, <2>1 DEF StackTypes
  <2>4. \A u \in Threads : /\ Pushing(u)' <=> Pushing(u)
                           /\ Popping(u)' => Popping(u)
                           /\ stackPc'[u] = "popExchange" => stackPc[u] = "popExchange"
                           /\ stackPc'[u] = "pushExchange" => stackPc[u] = "pushExchange"
    BY <1>2, <1>4, <2>1 DEF Pushing, Popping
  <2>5. PushIsPrivate'
    BY <1>1, <1>2, <2>1, <2>4 DEF PushIsPrivate
  <2>6. PopIsStable'
    BY <1>1, <1>2, <2>1, <2>4 DEF PopIsStable
  <2>. QED  BY <2>1, <2>2, <2>3, <2>5, <2>6 DEF StackIInv
<1>6. CASE stackHead = head[t]
  <2>1. /\ stackHead' = nextLoaded[t]
        /\ owned' = [owned EXCEPT ![t] = @ \cup {head[t]}]
        /\ stackPc' = [stackPc EXCEPT ![t] = "idle"]
        /\ head' = [head EXCEPT ![t] = NoNode]
        /\ nextLoaded' = [nextLoaded EXCEPT ![t] = NoNode]
    BY <1>6 DEF PopExchange
  <2>2. PICK s : s = Stacked
    OBVIOUS
  <2>3. /\ ChainFrom(s, stackHead, below)
        /\ \A u \in Threads : \A i \in 1 .. Len(s) : s[i] \notin owned[u]
    BY <2>2 DEF StackIInv, StackIsChain
  <2>4. PICK m \in Nat : m = Len(s)
    BY <2>3, ChainIsBounded
  <2>5. /\ s \in Seq(StackNodes)
        /\ \A i, j \in 1 .. m : s[i] = s[j] => i = j
        /\ stackHead = IF m = 0 THEN NoNode ELSE s[1]
        /\ \A i \in 1 .. m : below[s[i]] = IF i = m THEN NoNode ELSE s[i + 1]
        /\ \A u \in Threads : \A i \in 1 .. m : s[i] \notin owned[u]
    BY <2>3, <2>4 DEF ChainFrom
  <2>6. m # 0 /\ head[t] = s[1]
    BY <1>3, <1>4, <1>6, <2>5
  <2>7. m - 1 \in Nat /\ 1 \in 1 .. m /\ \A i \in 1 .. m - 1 : i \in 1 .. m /\ i + 1 \in 1 .. m
    BY <2>6
  <2>8. s # << >> /\ Head(s) = s[1]
    BY <2>4, <2>5, <2>6, HeadTailProperties
  <2>9. PICK q : q = Tail(s)
    OBVIOUS
  <2>10. /\ q \in Seq(StackNodes) /\ Len(q) = m - 1
         /\ \A i \in 1 .. m - 1 : q[i] = s[i + 1]
    BY <2>4, <2>5, <2>8, <2>9, HeadTailProperties
  <2>11. ChainFrom(q, stackHead', below')
    <3>1. \A i, j \in 1 .. m - 1 : q[i] = q[j] => i = j
      <4>. SUFFICES ASSUME NEW i \in 1 .. m - 1, NEW j \in 1 .. m - 1, q[i] = q[j]
                    PROVE  i = j
        OBVIOUS
      <4>1. i + 1 = j + 1
        BY <2>5, <2>7, <2>10
      <4>. QED  BY <4>1
    <3>2. \A i \in 1 .. m - 1 : below'[q[i]] = IF i = m - 1 THEN NoNode ELSE q[i + 1]
      <4>. SUFFICES ASSUME NEW i \in 1 .. m - 1
                    PROVE  below[q[i]] = IF i = m - 1 THEN NoNode ELSE q[i + 1]
        BY <1>2
      <4>1. q[i] = s[i + 1]
        BY <2>10
      <4>2. below[s[i + 1]] = IF i + 1 = m THEN NoNode ELSE s[(i + 1) + 1]
        BY <2>5, <2>7
      <4>3. i # m - 1 => i + 1 \in 1 .. m - 1 /\ i + 1 # m
        OBVIOUS
      <4>4. i # m - 1 => q[i + 1] = s[(i + 1) + 1]
        BY <2>10, <4>3
      <4>. QED  BY <4>1, <4>2, <4>3, <4>4
    <3>3. stackHead' = IF m - 1 = 0 THEN NoNode ELSE q[1]
      <4>1. stackHead' = below[s[1]]
        BY <1>3, <2>1, <2>6
      <4>2. below[s[1]] = IF 1 = m THEN NoNode ELSE s[1 + 1]
        BY <2>5, <2>7
      <4>3. m - 1 # 0 => 1 \in 1 .. m - 1 /\ 1 # m
        BY <2>7
      <4>4. m - 1 # 0 => q[1] = s[1 + 1]
        BY <2>10, <4>3
      <4>. QED  BY <4>1, <4>2, <4>3, <4>4
    <3>. QED  BY <2>10, <3>1, <3>2, <3>3 DEF ChainFrom
  <2>12. Stacked' = q
    BY <2>11, ChainIsStacked
  <2>13. \A u \in Threads : owned'[u] = IF u = t THEN owned[t] \cup {s[1]} ELSE owned[u]
    BY <1>4, <2>1, <2>6
  <2>14. StackIsChain'
    <3>1. \A u \in Threads : \A i \in 1 .. m - 1 : q[i] \notin owned'[u]
      <4>1. \A i \in 1 .. m - 1 : i + 1 # 1
        OBVIOUS
      <4>2. \A i \in 1 .. m - 1 : s[i + 1] # s[1]
        BY <2>5, <2>7, <4>1
      <4>3. \A u \in Threads : \A i \in 1 .. m - 1 : s[i + 1] \notin owned[u]
        BY <2>5, <2>7
      <4>. QED  BY <2>10, <2>13, <4>2, <4>3
    <3>2. ChainFrom(Stacked', stackHead', below')
      BY <2>11, <2>12
    <3>3. \A u \in Threads : \A i \in 1 .. Len(Stacked') : Stacked'[i] \notin owned'[u]
      BY <2>10, <2>12, <3>1
    <3>. QED  BY <3>2, <3>3 DEF StackIsChain
  <2>15. OneOwner'
    <3>1. \A u \in Threads : s[1] \notin owned[u]
      BY <2>5, <2>7
    <3>. QED  BY <1>1, <2>13, <3>1 DEF OneOwner
  <2>16. StackTypes'
    BY <1>1, <1>2, <1>3, <1>4, <2>1 DEF StackTypes
  <2>17. \A u \in Threads : u # t => /\ stackPc'[u] = stackPc[u] /\ nextLoaded'[u] = nextLoaded[u]
                                     /\ head'[u] = head[u] /\ owned'[u] = owned[u]
    BY <1>4, <2>1
  <2>18. stackPc'[t] = "idle"
    BY <1>4, <2>1
  <2>19. PushIsPrivate'
    BY <1>1, <1>2, <2>17, <2>18 DEF PushIsPrivate, Pushing
  <2>20. PopIsStable'
    BY <1>1, <1>2, <2>17, <2>18 DEF PopIsStable, Pushing, Popping
  <2>21. Atomic!Pop(t)
    <3>1. Stacked' = Tail(Stacked) /\ Stacked # << >>
      BY <2>2, <2>8, <2>9, <2>12
    <3>2. owned' = [owned EXCEPT ![t] = @ \cup {Head(Stacked)}]
      BY <2>1, <2>2, <2>6, <2>8
    <3>. QED  BY <3>1, <3>2 DEF Atomic!Pop
  <2>. QED  BY <2>14, <2>15, <2>16, <2>19, <2>20, <2>21 DEF StackIInv
<1>. QED  BY <1>5, <1>6

(* LinkedStack is a stack: however the loads, stores and exchanges of any  *)
(* number of threads interleave, every Push and Pop takes effect at one    *)
(* moment, its successful exchange, and loses or duplicates no node.       *)
THEOREM StackIsAtomic == StackSpec => IsStack
<1>1. StackInit => StackIInv /\ Atomic!Init
  BY StackStartsEmpty
<1>2. StackIInv /\ [StackNext]_stackVars => StackIInv' /\ [Atomic!Next]_<<Stacked, owned>>
  <2>. SUFFICES ASSUME StackIInv, [StackNext]_stackVars
                PROVE  StackIInv' /\ [Atomic!Next]_<<Stacked, owned>>
    OBVIOUS
  <2>1. ASSUME NEW t \in Threads, NEW n \in StackNodes, Begin(t, n)
        PROVE  StackIInv' /\ UNCHANGED <<Stacked, owned>>
    BY <2>1, BeginKeeps
  <2>2. ASSUME NEW t \in Threads, PopLoad(t)
        PROVE  StackIInv' /\ UNCHANGED <<Stacked, owned>>
    BY <2>2, PopLoadKeeps
  <2>3. ASSUME NEW t \in Threads, PushLoad(t)
        PROVE  StackIInv' /\ UNCHANGED <<Stacked, owned>>
    BY <2>3, PushLoadKeeps
  <2>4. ASSUME NEW t \in Threads, PopNext(t)
        PROVE  StackIInv' /\ UNCHANGED <<Stacked, owned>>
    BY <2>4, PopNextKeeps
  <2>5. ASSUME NEW t \in Threads, PushExchange(t)
        PROVE  StackIInv' /\ [Atomic!Next]_<<Stacked, owned>>
    BY <2>5, PushExchangeKeeps DEF Atomic!Next
  <2>6. ASSUME NEW t \in Threads, PopExchange(t)
        PROVE  StackIInv' /\ [Atomic!Next]_<<Stacked, owned>>
    BY <2>6, PopExchangeKeeps DEF Atomic!Next
  <2>7. CASE UNCHANGED stackVars
    <3>1. UNCHANGED <<stackHead, below, owned, stackPc, node, head, nextLoaded>>
      BY <2>7 DEF stackVars
    <3>2. Stacked' = Stacked /\ StackIsChain' /\ OneOwner'
      BY <3>1, StackStays
    <3>3. StackTypes' /\ PushIsPrivate' /\ PopIsStable'
      BY <3>1 DEF StackIInv, StackTypes, PushIsPrivate, PopIsStable, Pushing,
         Popping
    <3>. QED  BY <3>1, <3>2, <3>3 DEF StackIInv
  <2>. QED  BY <2>1, <2>2, <2>3, <2>4, <2>5, <2>6, <2>7 DEF StackNext,
           StackStep
<1>. QED  BY <1>1, <1>2, PTL DEF StackSpec, IsStack, Atomic!Spec

-----------------------------------------------------------------------------
(* The layout of structs.                                                  *)

Sequence(s) == s \in Seq({s[i] : i \in DOMAIN s})

(* A type whose values can be laid out.                                    *)
Sized(f) == f.size \in Nat /\ f.alignment \in BasicSizes \cup {0}

(* Where the loop of defstruct is after the fields fs: they lie one behind *)
(* the other, each at the next address its alignment allows, and, unless   *)
(* a struct without fields is among them, without overlap.                 *)
LaidOut(fs, offs, size, align) ==
    /\ Sequence(fs) /\ Sequence(offs) /\ Len(offs) = Len(fs)
    /\ size \in Nat /\ align \in BasicSizes \cup {0}
    /\ \A i \in 1 .. Len(fs) : Sized(fs[i]) /\ fs[i].alignment <= align
    /\ \A i \in 1 .. Len(fs) :
          /\ offs[i] \in Nat
          /\ offs[i] = AlignPtr(IF i = 1 THEN 0 ELSE offs[i - 1] + fs[i - 1].size,
                                fs[i].alignment)
    /\ size = IF Len(fs) = 0 THEN 0 ELSE offs[Len(fs)] + fs[Len(fs)].size
    /\ (\A i \in 1 .. Len(fs) : fs[i].alignment # 0) =>
          /\ \A i, j \in 1 .. Len(fs) : i < j => offs[i] + fs[i].size <= offs[j]
          /\ \A i \in 1 .. Len(fs) : offs[i] + fs[i].size <= size

(* A struct that was defined.                                              *)
Complete(s) ==
    /\ Sized(s)
    /\ LET n == Len(s.fields)
           end == IF n = 0 THEN 0 ELSE s.offsets[n] + s.fields[n].size
       IN  /\ LaidOut(s.fields, s.offsets, end, s.alignment)
           /\ s.size = AlignPtr(end, s.alignment)

LayoutIInv ==
    /\ Sequence(schemas)
    /\ \A k \in 1 .. Len(schemas) : Complete(schemas[k])
    /\ LaidOut(fields, offsets, total, alignment)

(* Division by a positive number.                                          *)
LEMMA Divides ==
    ASSUME NEW a \in Nat, a > 0, NEW q \in Int, NEW d \in 0 .. a - 1
    PROVE  (a * q + d) \div a = q /\ (a * q + d) % a = d
OBVIOUS

(* Every number has a quotient and a remainder.                            *)
LEMMA Quotient ==
    ASSUME NEW a \in Nat, a > 0, NEW x \in Nat
    PROVE  \E q \in Nat, d \in 0 .. a - 1 : x = a * q + d
<1>1. x % a \in 0 .. a - 1 /\ x \div a \in Nat /\ x = a * (x \div a) + (x % a)
  OBVIOUS
<1>. QED  BY <1>1

(* AlignPtr gives the next multiple of an alignment, and a base that is    *)
(* itself aligned moves with it.                                           *)
LEMMA AlignedUp ==
    ASSUME NEW a \in Nat, a > 0, NEW x \in Nat, NEW b \in Nat, b % a = 0
    PROVE  /\ AlignPtr(x, a) \in Nat
           /\ AlignPtr(x, a) >= x
           /\ AlignPtr(x, a) % a = 0
           /\ AlignPtr(b + x, a) = b + AlignPtr(x, a)
           /\ (b + AlignPtr(x, a)) % a = 0
<1>0. x + a - 1 \in Nat
  OBVIOUS
<1>1. PICK q \in Nat, d \in 0 .. a - 1 : x + a - 1 = a * q + d
  BY <1>0, Quotient
<1>2. PICK k \in Nat, z \in 0 .. a - 1 : b = a * k + z
  BY Quotient
<1>3. z = 0
  BY <1>2, Divides
<1>4. AlignPtr(x, a) = a * q
  <2>1. (x + a - 1) \div a = q
    BY <1>1, Divides
  <2>. QED  BY <2>1 DEF AlignPtr
<1>5. a * q \in Nat /\ a * q >= x
  <2>1. a * q \in Nat
    OBVIOUS
  <2>2. PICK y \in Nat : y = a * q
    BY <2>1
  <2>3. x + a - 1 = y + d
    BY <1>1, <2>2
  <2>. QED  BY <2>2, <2>3
<1>6. (a * q) % a = 0
  <2>1. (a * q + 0) % a = 0 /\ a * q + 0 = a * q
    BY Divides
  <2>. QED  BY <2>1
<1>7. AlignPtr(b + x, a) = a * (k + q)
  <2>1. b + x + a - 1 = a * (k + q) + d
    <3>1. a * (k + q) = a * k + a * q /\ a * k \in Int /\ a * q \in Int
      OBVIOUS
    <3>2. PICK y \in Int : y = a * q
      BY <3>1
    <3>3. b = a * k
      BY <1>2, <1>3, <3>1
    <3>4. x + a - 1 = y + d /\ a * (k + q) = b + y
      BY <1>1, <3>1, <3>2, <3>3
    <3>. QED  BY <3>4
  <2>2. (b + x + a - 1) \div a = k + q
    BY <2>1, Divides
  <2>. QED  BY <2>2 DEF AlignPtr
<1>8. a * (k + q) = b + a * q /\ (a * (k + q)) % a = 0
  <2>1. (a * (k + q) + 0) % a = 0 /\ a * (k + q) + 0 = a * (k + q)
    BY Divides
  <2>2. a * (k + q) = a * k + a * q
    OBVIOUS
  <2>. QED  BY <1>2, <1>3, <2>1, <2>2
<1>. QED  BY <1>4, <1>5, <1>6, <1>7, <1>8

(* What is appended to a sequence comes after all of it.                   *)
LEMMA AppendIs ==
    ASSUME NEW s, Sequence(s), NEW e
    PROVE  /\ Sequence(Append(s, e))
           /\ Len(s) \in Nat /\ Len(Append(s, e)) = Len(s) + 1
           /\ \A i \in 1 .. Len(s) : Append(s, e)[i] = s[i]
           /\ Append(s, e)[Len(s) + 1] = e
<1>. DEFINE S == {s[i] : i \in DOMAIN s}
            T == S \cup {e}
            t == Append(s, e)
<1>1. s \in Seq(S)
  BY DEF Sequence
<1>2. s \in Seq(T)
  BY <1>1, SeqMonotonic
<1>. HIDE DEF S, T
<1>3. PICK n \in Nat : n = Len(s)
  BY <1>2, LenProperties
<1>4. e \in T
  BY DEF T
<1>5. /\ t \in Seq(T) /\ Len(t) = n + 1
      /\ \A i \in 1 .. n : t[i] = s[i]
      /\ t[n + 1] = e
  BY <1>2, <1>3, <1>4, AppendProperties
<1>6. t \in [1 .. n + 1 -> T] /\ n + 1 \in Nat
  BY <1>3, <1>5, LenProperties
<1>7. t \in [1 .. n + 1 -> {t[i] : i \in DOMAIN t}]
  BY <1>6
<1>8. t \in Seq({t[i] : i \in DOMAIN t})
  BY <1>6, <1>7, SeqDef
<1>. QED  BY <1>3, <1>5, <1>8 DEF Sequence

(* What AlignPtr gives for every alignment a type can have.                *)
LEMMA AlignType ==
    ASSUME NEW x \in Nat, NEW a \in BasicSizes \cup {0}
    PROVE  /\ AlignPtr(x, a) \in Nat
           /\ a # 0 => /\ a \in Nat /\ a > 0
                       /\ AlignPtr(x, a) >= x
                       /\ AlignPtr(x, a) % a = 0
<1>1. CASE a = 0
  BY <1>1 DEF AlignPtr
<1>2. CASE a # 0
  <2>1. a \in Nat /\ a > 0 /\ 0 % a = 0
    BY <1>2, LayoutAssumption
  <2>. QED  BY <2>1, AlignedUp
<1>. QED  BY <1>1, <1>2

(* What is aligned is a multiple.                                          *)
LEMMA Multiple ==
    ASSUME NEW a \in Nat, a > 0, NEW x \in Nat, x % a = 0
    PROVE  \E q \in Nat : x = a * q
<1>1. PICK q \in Nat, d \in 0 .. a - 1 : x = a * q + d
  BY Quotient
<1>2. d = 0
  BY <1>1, Divides
<1>3. a * q \in Nat
  OBVIOUS
<1>. QED  BY <1>1, <1>2, <1>3

(* What is aligned for a struct is aligned for each of its fields.         *)
LEMMA AlignedWithin ==
    ASSUME NEW a \in BasicSizes, NEW b \in BasicSizes, a <= b, NEW x \in Nat, x % b = 0
    PROVE  x % a = 0
<1>1. a \in Nat /\ a > 0 /\ b \in Nat /\ b > 0 /\ b % a = 0
  BY LayoutAssumption
<1>2. PICK k \in Nat : b = a * k
  BY <1>1, Multiple
<1>3. PICK m \in Nat : x = b * m
  BY <1>1, Multiple
<1>4. k * m \in Nat /\ x = a * (k * m)
  BY <1>1, <1>2, <1>3
<1>5. PICK q \in Nat : q = k * m
  BY <1>4
<1>6. x = a * q + 0 /\ 0 \in 0 .. a - 1
  BY <1>1, <1>4, <1>5
<1>. QED  BY <1>1, <1>6, Divides

(* One turn of the loop of defstruct.                                      *)
LEMMA FieldIsLaidOut ==
    ASSUME NEW fs, NEW offs, NEW size, NEW align, LaidOut(fs, offs, size, align),
           NEW f, Sized(f),
           NEW at, at = AlignPtr(size, f.alignment)
    PROVE  LaidOut(Append(fs, f), Append(offs, at), at + f.size,
                   Larger(align, f.alignment))
<1>. DEFINE gs == Append(fs, f)
            os == Append(offs, at)
<1>1. PICK n \in Nat : n = Len(fs)
  BY AppendIs DEF LaidOut
<1>2. /\ Sequence(gs) /\ Len(gs) = n + 1
      /\ \A i \in 1 .. n : gs[i] = fs[i]
      /\ gs[n + 1] = f
  BY <1>1, AppendIs DEF LaidOut
<1>3. /\ Sequence(os) /\ Len(os) = n + 1
      /\ \A i \in 1 .. n : os[i] = offs[i]
      /\ os[n + 1] = at
  BY <1>1, AppendIs DEF LaidOut
<1>4. /\ size \in Nat /\ align \in BasicSizes \cup {0}
      /\ \A i \in 1 .. n : /\ fs[i].size \in Nat /\ fs[i].alignment \in BasicSizes \cup {0}
                           /\ fs[i].alignment <= align /\ offs[i] \in Nat
      /\ f.size \in Nat /\ f.alignment \in BasicSizes \cup {0}
  BY <1>1 DEF LaidOut, Sized
<1>5. /\ \A i \in 1 .. n :
            offs[i] = AlignPtr(IF i = 1 THEN 0 ELSE offs[i - 1] + fs[i - 1].size,
                               fs[i].alignment)
      /\ size = IF n = 0 THEN 0 ELSE offs[n] + fs[n].size
      /\ (\A i \in 1 .. n : fs[i].alignment # 0) =>
            /\ \A i, j \in 1 .. n : i < j => offs[i] + fs[i].size <= offs[j]
            /\ \A i \in 1 .. n : offs[i] + fs[i].size <= size
  BY <1>1 DEF LaidOut
<1>6. /\ align \in Nat /\ f.alignment \in Nat
      /\ \A i \in 1 .. n : fs[i].alignment \in Nat
  <2>1. \A a \in BasicSizes \cup {0} : a \in Nat
    BY LayoutAssumption
  <2>. QED  BY <1>4, <2>1
<1>7. at \in Nat /\ (f.alignment # 0 => at >= size)
  BY <1>4, AlignType
<1>. HIDE DEF gs, os
<1>8. /\ Larger(align, f.alignment) \in BasicSizes \cup {0}
      /\ Larger(align, f.alignment) >= align /\ Larger(align, f.alignment) >= f.alignment
  <2>1. PICK x \in Nat : x = align
    BY <1>6
  <2>2. PICK y \in Nat : y = f.alignment
    BY <1>6
  <2>3. Larger(x, y) \in {x, y} /\ Larger(x, y) >= x /\ Larger(x, y) >= y
    BY DEF Larger
  <2>. QED  BY <1>4, <2>1, <2>2, <2>3
<1>9. \A i \in 1 .. n + 1 : i = n + 1 \/ i \in 1 .. n
  OBVIOUS
<1>10. \A i \in 1 .. n + 1 : Sized(gs[i]) /\ gs[i].alignment <= Larger(align, f.alignment)
  <2>1. Larger(align, f.alignment) \in Nat
    BY <1>4, <1>6 DEF Larger
  <2>2. \A i \in 1 .. n : fs[i].alignment <= Larger(align, f.alignment)
    BY <1>4, <1>6, <1>8, <2>1
  <2>. QED  BY <1>2, <1>4, <1>8, <1>9, <2>2 DEF Sized
<1>11. \A i \in 1 .. n + 1 :
          /\ os[i] \in Nat
          /\ os[i] = AlignPtr(IF i = 1 THEN 0 ELSE os[i - 1] + gs[i - 1].size,
                              gs[i].alignment)
  <2>. SUFFICES ASSUME NEW i \in 1 .. n + 1
                PROVE  /\ os[i] \in Nat
                       /\ os[i] = AlignPtr(IF i = 1 THEN 0 ELSE os[i - 1] + gs[i - 1].size,
                                           gs[i].alignment)
    OBVIOUS
  <2>1. CASE i \in 1 .. n
    <3>1. i # 1 => i - 1 \in 1 .. n
      BY <2>1
    <3>. QED  BY <1>2, <1>3, <1>4, <1>5, <2>1, <3>1
  <2>2. CASE i = n + 1
    <3>1. i # 1 => i - 1 = n /\ n \in 1 .. n /\ n # 0
      BY <2>2
    <3>2. i = 1 => n = 0
      BY <2>2
    <3>3. size = IF i = 1 THEN 0 ELSE os[i - 1] + gs[i - 1].size
      BY <1>2, <1>3, <1>5, <3>1, <3>2
    <3>. QED  BY <1>2, <1>3, <1>7, <2>2, <3>3
  <2>. QED  BY <1>9, <2>1, <2>2
<1>12. ASSUME \A i \in 1 .. n + 1 : gs[i].alignment # 0
       PROVE  /\ \A i, j \in 1 .. n + 1 : i < j => os[i] + gs[i].size <= os[j]
              /\ \A i \in 1 .. n + 1 : os[i] + gs[i].size <= at + f.size
  <2>1. f.alignment # 0 /\ \A i \in 1 .. n : fs[i].alignment # 0
    <3>1. n + 1 \in 1 .. n + 1 /\ \A i \in 1 .. n : i \in 1 .. n + 1
      OBVIOUS
    <3>. QED  BY <1>2, <1>12, <3>1
  <2>2. at >= size /\ \A i \in 1 .. n : offs[i] + fs[i].size <= size
    BY <1>5, <1>7, <2>1
  <2>3. \A i, j \in 1 .. n : i < j => offs[i] + fs[i].size <= offs[j]
    BY <1>5, <2>1
  <2>4. \A i \in 1 .. n : /\ os[i] = offs[i] /\ gs[i].size = fs[i].size
                          /\ os[i] + gs[i].size <= size
    BY <1>2, <1>3, <2>2
  <2>5. \A i \in 1 .. n : offs[i] + fs[i].size \in Nat
    BY <1>4
  <2>6. \A i \in 1 .. n + 1 : os[i] + gs[i].size <= at + f.size
    BY <1>2, <1>3, <1>4, <1>7, <1>9, <2>2, <2>4, <2>5
  <2>7. ASSUME NEW i \in 1 .. n + 1, NEW j \in 1 .. n + 1, i < j
        PROVE  os[i] + gs[i].size <= os[j]
    <3>1. i \in 1 .. n
      BY <2>7
    <3>2. CASE j \in 1 .. n
      BY <2>3, <2>4, <2>7, <3>1, <3>2
    <3>3. CASE j = n + 1
      BY <1>3, <1>4, <1>7, <2>2, <2>4, <2>5, <3>1, <3>3
    <3>. QED  BY <1>9, <3>2, <3>3
  <2>. QED  BY <2>6, <2>7
<1>13. at + f.size \in Nat /\ at + f.size = IF n + 1 = 0 THEN 0 ELSE os[n + 1] + gs[n + 1].size
  BY <1>2, <1>3, <1>4, <1>7
<1>14. LaidOut(gs, os, at + f.size, Larger(align, f.alignment))
  BY <1>2, <1>3, <1>8, <1>10, <1>11, <1>12, <1>13 DEF LaidOut
<1>. QED  BY <1>14 DEF gs, os

(* All walks over a struct find the fields where defstruct put them.       *)
LEMMA WalkFollowsLayout ==
    ASSUME NEW fs, NEW offs, NEW size, NEW align, LaidOut(fs, offs, size, align),
           NEW a \in Nat,
           \A i \in 1 .. Len(fs) : fs[i].alignment # 0 /\ a % fs[i].alignment = 0
    PROVE  \A i \in 1 .. Len(fs) :
              AlignPtr(WalkEnds(fs, a)[i - 1], fs[i].alignment) = a + offs[i]
<1>. DEFINE Ends(f) == f = [i \in 0 .. Len(fs) |->
                               IF i = 0 THEN a
                               ELSE AlignPtr(f[i - 1], fs[i].alignment) + fs[i].size]
            c == [i \in 0 .. Len(fs) |->
                     IF i = 0 THEN a ELSE a + (offs[i] + fs[i].size)]
<1>1. PICK n \in Nat : n = Len(fs)
  BY AppendIs DEF LaidOut
<1>2. \A i \in 1 .. n : /\ fs[i].size \in Nat /\ fs[i].alignment \in BasicSizes
                        /\ offs[i] \in Nat
                        /\ offs[i] = AlignPtr(IF i = 1 THEN 0 ELSE offs[i - 1] + fs[i - 1].size,
                                              fs[i].alignment)
  BY <1>1 DEF LaidOut, Sized
<1>3. a \in Nat /\ \A b \in BasicSizes : b \in Nat /\ b > 0
  BY LayoutAssumption
<1>4. c = [i \in 0 .. n |-> IF i = 0 THEN a ELSE a + (offs[i] + fs[i].size)]
  BY <1>1
<1>5. \A f : Ends(f) <=> f = [i \in 0 .. n |->
                                 IF i = 0 THEN a
                                 ELSE AlignPtr(f[i - 1], fs[i].alignment) + fs[i].size]
  BY <1>1
<1>6. WalkEnds(fs, a) = CHOOSE f : Ends(f)
  BY DEF WalkEnds
<1>. HIDE DEF c, Ends
<1>7. ASSUME NEW i \in 1 .. n
      PROVE  AlignPtr(c[i - 1], fs[i].alignment) = a + offs[i]
  <2>. DEFINE x == IF i = 1 THEN 0 ELSE offs[i - 1] + fs[i - 1].size
  <2>1. i - 1 \in 0 .. n /\ (i # 1 => i - 1 \in 1 .. n /\ i - 1 # 0) /\ (i = 1 => i - 1 = 0)
    OBVIOUS
  <2>2. x \in Nat /\ c[i - 1] = a + x
    BY <1>2, <1>3, <1>4, <2>1
  <2>3. offs[i] = AlignPtr(x, fs[i].alignment)
    BY <1>2
  <2>. HIDE DEF x
  <2>4. AlignPtr(a + x, fs[i].alignment) = a + AlignPtr(x, fs[i].alignment)
    <3>1. PICK b \in BasicSizes : b = fs[i].alignment
      BY <1>2
    <3>2. b \in Nat /\ b > 0 /\ a \in Nat /\ a % b = 0
      BY <1>1, <1>3, <3>1
    <3>3. AlignPtr(a + x, b) = a + AlignPtr(x, b)
      BY <2>2, <3>2, AlignedUp
    <3>. QED  BY <3>1, <3>3
  <2>. QED  BY <2>2, <2>3, <2>4
<1>8. \A i \in 0 .. n :
        c[i] = IF i = 0 THEN a ELSE AlignPtr(c[i - 1], fs[i].alignment) + fs[i].size
  <2>. SUFFICES ASSUME NEW i \in 0 .. n, i # 0
                PROVE  c[i] = AlignPtr(c[i - 1], fs[i].alignment) + fs[i].size
    BY <1>4
  <2>1. i \in 1 .. n
    OBVIOUS
  <2>2. c[i] = a + (offs[i] + fs[i].size)
    BY <1>4
  <2>3. AlignPtr(c[i - 1], fs[i].alignment) = a + offs[i]
    BY <1>7, <2>1
  <2>4. offs[i] \in Nat /\ fs[i].size \in Nat /\ a \in Nat
    BY <1>2, <1>3, <2>1
  <2>. QED  BY <2>2, <2>3, <2>4
<1>9. Ends(c)
  <2>1. c = [i \in 0 .. n |-> c[i]]
    BY <1>4
  <2>. QED  BY <1>5, <1>8, <2>1
<1>10. PICK g : g = WalkEnds(fs, a)
  OBVIOUS
<1>11. Ends(g)
  BY <1>6, <1>9, <1>10
<1>12. \A i \in 0 .. n :
        g[i] = IF i = 0 THEN a ELSE AlignPtr(g[i - 1], fs[i].alignment) + fs[i].size
  BY <1>5, <1>11
<1>13. \A i \in 0 .. n : g[i] = c[i]
  <2>. SUFFICES ASSUME \E i \in 0 .. n : g[i] # c[i]  PROVE FALSE
    OBVIOUS
  <2>1. PICK k \in {i \in 0 .. n : g[i] # c[i]} :
               \A i \in {j \in 0 .. n : g[j] # c[j]} : k <= i
    <3>1. {i \in 0 .. n : g[i] # c[i]} \subseteq Nat /\ {i \in 0 .. n : g[i] # c[i]} # {}
      OBVIOUS
    <3>. QED  BY <3>1, LeastOne
  <2>2. k # 0 => k - 1 \in 0 .. n /\ g[k - 1] = c[k - 1]
    BY <2>1
  <2>3. g[k] = IF k = 0 THEN a ELSE AlignPtr(g[k - 1], fs[k].alignment) + fs[k].size
    BY <1>12
  <2>. QED  BY <1>8, <2>1, <2>2, <2>3
<1>14. \A i \in 1 .. n : i - 1 \in 0 .. n
  OBVIOUS
<1>. QED  BY <1>1, <1>7, <1>10, <1>13, <1>14

(* What the invariant says of a struct that was defined.                   *)
LEMMA CompleteIsSound ==
    ASSUME NEW s, Complete(s), s.fields # <<>>,
           \A i \in 1 .. Len(s.fields) : s.fields[i].alignment # 0
    PROVE  /\ \A i, j \in 1 .. Len(s.fields) :
                 i < j => s.offsets[i] + s.fields[i].size <= s.offsets[j]
           /\ \A i \in 1 .. Len(s.fields) :
                 s.offsets[i] + s.fields[i].size <= s.size
           /\ s.size % s.alignment = 0
           /\ \A a \in Nat : a % s.alignment = 0 =>
                 \A i \in 1 .. Len(s.fields) :
                    /\ Walk(s, a)[i] = a + s.offsets[i]
                    /\ Walk(s, a)[i] % s.fields[i].alignment = 0
<1>. DEFINE fs == s.fields
            offs == s.offsets
            end == IF Len(fs) = 0 THEN 0 ELSE offs[Len(fs)] + fs[Len(fs)].size
<1>0. \A b \in BasicSizes : b \in Nat /\ b > 0
  BY LayoutAssumption
<1>1. LaidOut(fs, offs, end, s.alignment) /\ s.size = AlignPtr(end, s.alignment)
  BY DEF Complete
<1>. HIDE DEF end
<1>2. PICK n \in Nat : n = Len(fs) /\ n # 0
  <2>1. fs \in Seq({fs[i] : i \in DOMAIN fs})
    BY <1>1 DEF LaidOut, Sequence
  <2>. QED  BY <2>1, EmptySeq
<1>3. /\ \A i \in 1 .. n : /\ fs[i].size \in Nat /\ fs[i].alignment \in BasicSizes
                           /\ fs[i].alignment <= s.alignment /\ offs[i] \in Nat
      /\ end \in Nat /\ s.alignment \in BasicSizes \cup {0}
  BY <1>1, <1>2 DEF LaidOut, Sized
<1>4. s.alignment # 0
  <2>1. 1 \in 1 .. n
    BY <1>2
  <2>2. fs[1].alignment \in Nat /\ fs[1].alignment > 0
    BY <1>0, <1>3, <2>1
  <2>. QED  BY <1>3, <2>1, <2>2
<1>5. s.size \in Nat /\ s.size >= end /\ s.size % s.alignment = 0
  BY <1>1, <1>3, <1>4, AlignType
<1>6. /\ \A i, j \in 1 .. n : i < j => offs[i] + fs[i].size <= offs[j]
      /\ \A i \in 1 .. n : offs[i] + fs[i].size <= end
  BY <1>1, <1>2 DEF LaidOut
<1>7. \A i \in 1 .. n : offs[i] + fs[i].size <= s.size
  <2>1. \A i \in 1 .. n : offs[i] + fs[i].size \in Nat
    BY <1>3
  <2>. QED  BY <1>3, <1>5, <1>6, <2>1
<1>8. ASSUME NEW a \in Nat, a % s.alignment = 0, NEW i \in 1 .. n
      PROVE  /\ Walk(s, a)[i] = a + offs[i]
             /\ Walk(s, a)[i] % fs[i].alignment = 0
  <2>0. \A k \in 1 .. n : a % fs[k].alignment = 0
    BY <1>3, <1>4, <1>8, AlignedWithin
  <2>1. Walk(s, a)[i] = AlignPtr(WalkEnds(fs, a)[i - 1], fs[i].alignment)
    BY <1>2 DEF Walk
  <2>2. Walk(s, a)[i] = a + offs[i]
    BY <1>1, <1>2, <2>0, <2>1, WalkFollowsLayout
  <2>. DEFINE x == IF i = 1 THEN 0 ELSE offs[i - 1] + fs[i - 1].size
  <2>3. offs[i] = AlignPtr(x, fs[i].alignment)
    BY <1>1, <1>2 DEF LaidOut
  <2>4. x \in Nat
    <3>1. i # 1 => i - 1 \in 1 .. n
      OBVIOUS
    <3>. QED  BY <1>3, <3>1
  <2>. HIDE DEF x
  <2>5. /\ fs[i].alignment \in Nat /\ fs[i].alignment > 0
        /\ a \in Nat /\ a % fs[i].alignment = 0
    BY <1>0, <1>3, <2>0
  <2>6. (a + AlignPtr(x, fs[i].alignment)) % fs[i].alignment = 0
    BY <2>4, <2>5, AlignedUp
  <2>. QED  BY <2>2, <2>3, <2>6
<1>. QED  BY <1>2, <1>5, <1>6, <1>7, <1>8

(* The invariant holds of an empty list of structs, and defstruct keeps it *)
(* in every turn of its loop and at its end.                               *)
LEMMA LayoutInvariant == LayoutSpec => []LayoutIInv
<1>1. LayoutInit => LayoutIInv
  <2>. SUFFICES ASSUME LayoutInit  PROVE LayoutIInv
    OBVIOUS
  <2>1. Sequence(<<>>) /\ Len(<<>>) = 0
    BY EmptySeq DEF Sequence
  <2>2. LaidOut(<<>>, <<>>, 0, 0)
    BY <2>1 DEF LaidOut
  <2>. QED  BY <2>1, <2>2 DEF LayoutInit, LayoutIInv
<1>2. LayoutIInv /\ [LayoutNext]_layoutVars => LayoutIInv'
  <2>. SUFFICES ASSUME LayoutIInv, [LayoutNext]_layoutVars  PROVE LayoutIInv'
    OBVIOUS
  <2>1. ASSUME NEW f \in Known, DefineField(f)  PROVE LayoutIInv'
    <3>1. Sized(f)
      <4>1. CASE f \in Basics
        BY <4>1, LayoutAssumption DEF Basics, Sized
      <4>2. CASE \E i \in 1 .. Len(schemas) : f = schemas[i]
        BY <4>2 DEF LayoutIInv, Complete
      <4>. QED  BY <4>1, <4>2 DEF Known
    <3>2. PICK at : at = AlignPtr(total, f.alignment)
      OBVIOUS
    <3>3. LaidOut(Append(fields, f), Append(offsets, at), at + f.size,
                  Larger(alignment, f.alignment))
      BY <3>1, <3>2, FieldIsLaidOut DEF LayoutIInv
    <3>4. /\ fields' = Append(fields, f) /\ offsets' = Append(offsets, at)
          /\ total' = at + f.size /\ alignment' = Larger(alignment, f.alignment)
          /\ schemas' = schemas
      BY <2>1, <3>2 DEF DefineField
    <3>. QED  BY <3>3, <3>4 DEF LayoutIInv
  <2>2. ASSUME DefineStruct  PROVE LayoutIInv'
    <3>1. PICK s : s = [size |-> AlignPtr(total, alignment),
                        alignment |-> alignment, basic |-> FALSE,
                        fields |-> fields, offsets |-> offsets]
      OBVIOUS
    <3>2. schemas' = Append(schemas, s) /\ fields' = <<>> /\ offsets' = <<>>
          /\ total' = 0 /\ alignment' = 0
      BY <2>2, <3>1 DEF DefineStruct
    <3>3. /\ s.size = AlignPtr(total, alignment) /\ s.alignment = alignment
          /\ s.fields = fields /\ s.offsets = offsets
      BY <3>1
    <3>4. LaidOut(fields, offsets, total, alignment)
      BY DEF LayoutIInv
    <3>5. /\ total \in Nat /\ alignment \in BasicSizes \cup {0}
          /\ total = IF Len(fields) = 0 THEN 0 ELSE offsets[Len(fields)] + fields[Len(fields)].size
      BY <3>4 DEF LaidOut
    <3>6. Complete(s)
      BY <3>3, <3>4, <3>5, AlignType DEF Complete, Sized
    <3>7. Sequence(schemas) /\ \A k \in 1 .. Len(schemas) : Complete(schemas[k])
      BY DEF LayoutIInv
    <3>8. PICK n \in Nat : n = Len(schemas)
      BY <3>7, AppendIs
    <3>9. Sequence(schemas') /\ Len(schemas') = n + 1 /\ schemas'[n + 1] = s
          /\ \A k \in 1 .. n : schemas'[k] = schemas[k]
      BY <3>2, <3>7, <3>8, AppendIs
    <3>10. \A k \in 1 .. n + 1 : k = n + 1 \/ k \in 1 .. n
      OBVIOUS
    <3>11. \A k \in 1 .. Len(schemas') : Complete(schemas'[k])
      BY <3>6, <3>7, <3>8, <3>9, <3>10
    <3>12. LaidOut(<<>>, <<>>, 0, 0)
      <4>1. Sequence(<<>>) /\ Len(<<>>) = 0
        BY EmptySeq DEF Sequence
      <4>. QED  BY <4>1 DEF LaidOut
    <3>. QED  BY <3>2, <3>9, <3>11, <3>12 DEF LayoutIInv
  <2>3. CASE UNCHANGED layoutVars
    BY <2>3 DEF layoutVars, LayoutIInv, LaidOut
  <2>. QED  BY <2>1, <2>2, <2>3 DEF LayoutNext
<1>. QED  BY <1>1, <1>2, PTL DEF LayoutSpec

(* For every set of basic types, every number of structs and fields: no    *)
(* field overlaps another or leaves its struct, and the writer and the     *)
(* serializer find each field where defstruct has put it, aligned.         *)
THEOREM LayoutIsSound == LayoutSpec => []LayoutInv
<1>1. LayoutIInv => LayoutInv
  <2>. SUFFICES ASSUME LayoutIInv  PROVE LayoutInv
    OBVIOUS
  <2>1. ASSUME NEW s \in Structs
        PROVE  /\ Complete(s) /\ s.fields # <<>>
               /\ \A i \in 1 .. Len(s.fields) : s.fields[i].alignment # 0
    BY DEF LayoutIInv, Structs
  <2>2. \A a \in Addresses : a \in Nat
    BY LayoutAssumption
  <2>. QED  BY <2>1, <2>2, CompleteIsSound DEF LayoutInv, FieldsDisjoint, WalkAgrees
<1>. QED  BY <1>1, LayoutInvariant, PTL
=============================================================================
