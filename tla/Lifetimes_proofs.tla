-------------------------- MODULE Lifetimes_proofs --------------------------
(***************************************************************************)
(* What holds, for every number of variables, objects, threads and arenas, *)
(* of the parts that decide who owns what and when it is given back.       *)
(***************************************************************************)
EXTENDS Either, Dep, Log, Main, ScratchAllocator, TLAPS, FiniteSetTheorems,
        SequenceTheorems, WellFoundedInduction

-----------------------------------------------------------------------------
(* Either and Maybe.                                                       *)

FlagValues == {"left", "right", "value", "none", "gone"}

(* The functions that EitherInv speaks of, and OwnedOnce by elements.      *)
EitherFunctions ==
    /\ flag \in [Slots -> FlagValues]
    /\ member \in [Slots -> FlagValues]
    /\ owns \in [Slots -> Resources \cup {Nothing}]

OwnsApart ==
    /\ \A r \in Resources : r \in heap <=> r # Nothing /\ \E s \in Slots : owns[s] = r
    /\ \A s, t \in Slots : s # t /\ owns[s] = owns[t] => owns[s] = Nothing

EitherIInv == EitherFunctions /\ EitherTypeOK /\ OwnsApart

(* OwnedOnce says of the sets OwnedBy what OwnsApart says of resources.    *)
LEMMA OwnedOnceByElements == EitherTypeOK /\ EitherFunctions /\ OwnsApart => OwnedOnce
BY DEF OwnsApart, OwnedOnce, OwnedBy, EitherTypeOK, EitherFunctions

(* Two variables of one type have the same sides.                          *)
LEMMA SidesOfSameType ==
    ASSUME NEW s \in Slots, NEW t \in Slots, SameType(s, t)
    PROVE  /\ Sides(s) = Sides(t)
           /\ s \in Plain <=> t \in Plain
           /\ Sides(s) \subseteq FlagValues \ {"gone"}
BY DEF SameType, Sides, FlagValues

(* There is a resource to be had while the heap has not all of them.       *)
LEMMA FreshIsNew ==
    ASSUME EitherIInv, heap # Resources
    PROVE  Fresh \in Resources /\ Fresh \notin heap /\ Fresh # Nothing
<1>1. \E r \in Resources : r \notin heap
  BY DEF EitherIInv, EitherTypeOK
<1>. QED  BY <1>1, EitherAssumption DEF Fresh

(* Becomes keeps the ownership apart when it gives back what the member    *)
(* owned and takes nothing that is owned.                                  *)
LEMMA BecomesKeeps ==
    ASSUME EitherIInv, NEW s \in Slots, NEW side \in Sides(s) \cup {"gone"},
           NEW res \in Resources \cup {Nothing}, res \notin heap,
           side \in {"gone", "none"} \/ s \in Plain => res = Nothing,
           Becomes(s, side, res, OwnedBy(s))
    PROVE  EitherIInv'
<1>. USE DEF EitherIInv, Becomes, OwnedBy
<1>1. side \in FlagValues
  BY DEF Sides, FlagValues
<1>2. EitherFunctions'
  BY <1>1 DEF EitherFunctions
<1>3. OwnsApart'
  BY DEF OwnsApart, EitherFunctions
<1>4. EitherTypeOK'
  BY <1>1 DEF EitherTypeOK, EitherFunctions
<1>. QED  BY <1>2, <1>3, <1>4

(* So does a move, which gives back what the target owned.                 *)
LEMMA TakesFromKeeps ==
    ASSUME EitherIInv, NEW s \in Slots, NEW t \in Slots, s # t,
           SameType(s, t), Alive(t), TakesFrom(s, t, OwnedBy(s))
    PROVE  EitherIInv'
<1>. USE DEF EitherIInv, TakesFrom, OwnedBy
<1>1. EitherFunctions'
  BY DEF EitherFunctions
<1>2. OwnsApart'
  BY DEF OwnsApart, EitherFunctions
<1>3. EitherTypeOK'
  BY SidesOfSameType DEF EitherTypeOK, EitherFunctions
<1>. QED  BY <1>1, <1>2, <1>3

(* The flag of a variable that does not live owns nothing to be given      *)
(* back.                                                                   *)
LEMMA NotAliveOwnsNothing ==
    ASSUME EitherIInv, NEW s \in Slots, ~Alive(s)
    PROVE  OwnedBy(s) = {}
BY DEF EitherIInv, EitherTypeOK, Alive, OwnedBy

(* A copy owns a resource of its own.                                      *)
LEMMA CopyIsNew ==
    ASSUME EitherIInv, NEW s \in Slots, NEW t \in Slots, SameType(s, t),
           Alive(t), heap # Resources
    PROVE  /\ CopyOf(t) \in Resources \cup {Nothing}
           /\ CopyOf(t) \notin heap
           /\ flag[t] \in Sides(s)
           /\ flag[t] \in {"gone", "none"} \/ s \in Plain => CopyOf(t) = Nothing
<1>1. Nothing \notin heap
  BY EitherAssumption DEF EitherIInv, EitherTypeOK
<1>. QED  BY <1>1, FreshIsNew, SidesOfSameType
      DEF EitherIInv, EitherTypeOK, CopyOf, Alive

(* After any sequence of constructions, copies, moves, maps and            *)
(* destructions of Eithers and Maybes the flag names the live member, and  *)
(* every resource has exactly one member that will give it back.           *)
THEOREM EitherIsSound == EitherSpec => []EitherInv
<1>1. EitherInit => EitherIInv
  BY EitherAssumption DEF EitherInit, EitherIInv, EitherFunctions,
     EitherTypeOK,
     OwnsApart, FlagValues
<1>2. EitherIInv /\ [EitherNext]_eitherVars => EitherIInv'
  <2>. SUFFICES ASSUME EitherIInv, [EitherNext]_eitherVars PROVE EitherIInv'
    OBVIOUS
  <2>0. Nothing \notin heap
    BY EitherAssumption DEF EitherIInv, EitherTypeOK
  <2>1. ASSUME NEW s \in Slots, NEW side \in Sides(s), ConstructMember(s, side)
        PROVE  EitherIInv'
    <3>1. OwnedBy(s) = {}
      BY <2>1, NotAliveOwnsNothing DEF ConstructMember
    <3>2. CASE s \in Plain \/ side = "none"
      <4>1. Becomes(s, side, Nothing, OwnedBy(s))
        BY <2>1, <3>1, <3>2 DEF ConstructMember
      <4>. QED  BY <2>0, <4>1, BecomesKeeps
    <3>3. CASE ~(s \in Plain \/ side = "none")
      <4>1. heap # Resources /\ Becomes(s, side, Fresh, OwnedBy(s))
        BY <2>1, <3>1, <3>3 DEF ConstructMember
      <4>2. side # "gone"
        BY DEF Sides
      <4>. QED  BY <3>3, <4>1, <4>2, FreshIsNew, BecomesKeeps
    <3>. QED  BY <3>2, <3>3
  <2>2. ASSUME NEW s \in Slots, DestroyMember(s)
        PROVE  EitherIInv'
    BY <2>0, <2>2, BecomesKeeps DEF DestroyMember
  <2>3. ASSUME NEW s \in Slots, Consume(s)
        PROVE  EitherIInv'
    <3>1. Becomes(s, flag[s], Nothing, OwnedBy(s))
      BY <2>3 DEF Consume, Becomes, EitherIInv, EitherFunctions, EitherTypeOK
    <3>2. flag[s] \in Sides(s) \cup {"gone"}
      BY DEF EitherIInv, EitherTypeOK
    <3>. QED  BY <2>0, <3>1, <3>2, BecomesKeeps
  <2>4. ASSUME NEW s \in Slots, NEW t \in Slots, CopyConstruct(s, t)
        PROVE  EitherIInv'
    <3>1. Becomes(s, flag[t], CopyOf(t), OwnedBy(s))
      BY <2>4, NotAliveOwnsNothing DEF CopyConstruct
    <3>. QED  BY <2>4, <3>1, CopyIsNew, BecomesKeeps DEF CopyConstruct
  <2>5. ASSUME NEW s \in Slots, NEW t \in Slots, MoveConstruct(s, t)
        PROVE  EitherIInv'
    <3>1. TakesFrom(s, t, OwnedBy(s)) /\ s # t
      BY <2>5, NotAliveOwnsNothing DEF MoveConstruct
    <3>. QED  BY <2>5, <3>1, TakesFromKeeps DEF MoveConstruct
  <2>6. ASSUME NEW s \in Slots, NEW t \in Slots, CopyAssign(s, t)
        PROVE  EitherIInv'
    BY <2>6, CopyIsNew, BecomesKeeps DEF CopyAssign, MayAssign
  <2>7. ASSUME NEW s \in Slots, NEW t \in Slots, MoveAssign(s, t)
        PROVE  EitherIInv'
    BY <2>7, TakesFromKeeps DEF MoveAssign, MayAssign
  <2>8. ASSUME NEW s \in Slots, NEW t \in Slots, MapMaybe(s, t)
        PROVE  EitherIInv'
    <3>1. Becomes(t, flag[s], CopyOf(s), OwnedBy(t)) /\ SameType(t, s)
      BY <2>8, NotAliveOwnsNothing DEF MapMaybe, SameType
    <3>. QED  BY <2>8, <3>1, CopyIsNew, BecomesKeeps DEF MapMaybe
  <2>9. ASSUME NEW s \in Slots, NEW t \in Slots, NEW side \in {"left", "right"},
               Map(s, t, side)
        PROVE  EitherIInv'
    <3>1. s # t /\ SameType(t, s) /\ Alive(s) /\ OwnedBy(t) = {}
      BY <2>9, NotAliveOwnsNothing DEF Map, SameType
    <3>2. CASE TakesFrom(t, s, {})
      BY <3>1, <3>2, TakesFromKeeps
    <3>3. CASE /\ flag[s] = side /\ heap # Resources
               /\ flag' = [flag EXCEPT ![t] = side]
               /\ member' = [member EXCEPT ![t] = side]
               /\ owns' = [owns EXCEPT ![s] = Nothing, ![t] = CopyOf(s)]
               /\ heap' = (heap \ OwnedBy(s)) \cup ({CopyOf(s)} \ {Nothing})
      <4>. DEFINE res == CopyOf(s)
      <4>1. /\ res \in Resources \cup {Nothing} /\ res \notin heap
            /\ side \in Sides(t)
            /\ side \in {"gone", "none"} \/ t \in Plain => res = Nothing
            /\ owns[t] = Nothing
        BY <3>1, <3>3, CopyIsNew DEF OwnedBy
      <4>. HIDE DEF res
      <4>2. /\ owns' = [owns EXCEPT ![s] = Nothing, ![t] = res]
            /\ heap' = (heap \ ({owns[s]} \ {Nothing})) \cup ({res} \ {Nothing})
        BY <3>3 DEF res, OwnedBy
      <4>3. EitherFunctions'
        BY <3>1, <3>3, <4>1, <4>2 DEF EitherIInv, EitherFunctions, FlagValues
      <4>4. OwnsApart'
        BY <3>1, <4>1, <4>2 DEF EitherIInv, OwnsApart, EitherFunctions
      <4>5. EitherTypeOK'
        BY <3>1, <3>3, <4>1, <4>2 DEF EitherIInv, EitherTypeOK, EitherFunctions
      <4>. QED  BY <4>3, <4>4, <4>5 DEF EitherIInv
    <3>. QED  BY <2>9, <3>2, <3>3 DEF Map
  <2>10. CASE UNCHANGED eitherVars
    BY <2>10 DEF eitherVars, EitherIInv, EitherFunctions, EitherTypeOK,
       OwnsApart
  <2>. QED  BY <2>1, <2>2, <2>3, <2>4, <2>5, <2>6, <2>7, <2>8, <2>9, <2>10
        DEF EitherNext
<1>3. EitherIInv => EitherInv
  BY OwnedOnceByElements DEF EitherIInv, EitherInv
<1>. QED  BY <1>1, <1>2, <1>3, PTL DEF EitherSpec

-----------------------------------------------------------------------------
(* Dependable and Dep.                                                     *)

Variables == Holders \cup Deps

DepFunctions ==
    /\ there \subseteq Variables
    /\ object \in [Variables -> Objects \cup ByValue \cup {Null}]
    /\ lifetime \in [Variables -> Lifetimes \cup {Null}]

(* A Dependable that holds an object holds it alone, with a lifetime that  *)
(* is alive.                                                               *)
HoldersOwn == \A h \in there \cap Holders :
    /\ object[h] # Null => object[h] \in objects /\ IsAlive(lifetime[h])
    /\ h \in ByPointer => object[h] \in Objects \cup {Null}
    /\ h \in ByValue => object[h] = h

(* A Dep to an object has both the object and the lifetime of the          *)
(* Dependable that holds it; a Dep shares no lifetime without the object.  *)
DepsAreBacked == \A d \in there \cap Deps :
    /\ object[d] # Null => \E h \in there \cap Holders :
          object[h] = object[d] /\ lifetime[h] = lifetime[d]
    /\ \A h \in there \cap Holders :
          lifetime[h] = lifetime[d] /\ lifetime[h] # Null =>
              object[h] = object[d]

DepIInv ==
    /\ DepFunctions /\ DepTypeOK /\ HoldersOwn /\ DepsAreBacked
    /\ AlarmsAreReal

(* The variables, objects and null are told apart.                         *)
LEMMA SortsDiffer ==
    /\ ByPointer \cap ByValue = {} /\ Holders \cap Deps = {}
    /\ Objects \cap ByValue = {}
    /\ Null \notin ByPointer /\ Null \notin ByValue /\ Null \notin Deps
    /\ Null \notin Objects /\ Null \notin Lifetimes
    /\ Objects \cap ByPointer = {} /\ Objects \cap Deps = {}
<1>. DEFINE sorts == <<ByPointer, ByValue, Deps, Objects, Lifetimes, {Null}>>
<1>1. \A i, j \in 1 .. 6 : i # j => sorts[i] \cap sorts[j] = {}
  BY DepAssumption
<1>2. /\ sorts[1] = ByPointer /\ sorts[2] = ByValue /\ sorts[3] = Deps
      /\ sorts[4] = Objects /\ sorts[5] = Lifetimes /\ sorts[6] = {Null}
  OBVIOUS
<1>. HIDE DEF sorts
<1>3. /\ sorts[1] \cap sorts[2] = {} /\ sorts[1] \cap sorts[3] = {}
      /\ sorts[2] \cap sorts[3] = {} /\ sorts[4] \cap sorts[2] = {}
      /\ sorts[1] \cap sorts[6] = {} /\ sorts[2] \cap sorts[6] = {}
      /\ sorts[3] \cap sorts[6] = {} /\ sorts[4] \cap sorts[6] = {}
      /\ sorts[5] \cap sorts[6] = {} /\ sorts[4] \cap sorts[1] = {}
      /\ sorts[4] \cap sorts[3] = {}
  BY <1>1
<1>. QED  BY <1>2, <1>3 DEF Holders

(* The use count of a lifetime tells whether it is used, and by whom when  *)
(* it is one.                                                              *)
LEMMA UseCountFacts ==
    ASSUME NEW l
    PROVE  /\ UseCount(l) = 0 => \A x \in Variables : lifetime[x] # l
           /\ \A x \in Variables : lifetime[x] = l =>
                 IF UseCount(l) = 1
                 THEN \A y \in Variables : lifetime[y] = l => y = x
                 ELSE \E y \in Variables : y # x /\ lifetime[y] = l
<1>. DEFINE S == {x \in Holders \cup Deps : lifetime[x] = l}
<1>1. IsFiniteSet(S)
  <2>1. S \in SUBSET (ByPointer \cup ByValue \cup Deps)
    BY DEF Holders
  <2>. QED  BY <2>1, DepAssumption, FS_Subset
<1>2. UseCount(l) = Cardinality(S)
  BY DEF UseCount
<1>3. (Cardinality(S) = 0 <=> S = {}) /\ (Cardinality(S) = 1 <=> \E x : S = {x})
  BY <1>1, FS_EmptySet, FS_Singleton
<1>4. \A x : x \in S <=> x \in Variables /\ lifetime[x] = l
  BY DEF Variables
<1>. HIDE DEF S
<1>5. ASSUME NEW x \in S, Cardinality(S) # 1
      PROVE  \E y \in S : y # x
  <2>1. S # {x}
    BY <1>3, <1>5
  <2>. QED  BY <1>5, <2>1
<1>. QED  BY <1>2, <1>3, <1>4, <1>5

(* The assertions of a Dep on itself hold.                                 *)
LEMMA DepsAreNotDead ==
    ASSUME DepIInv, NEW d \in there \cap Deps
    PROVE  NotDead(d) /\ (object[d] = Null \/ object[d] \in objects)
<1>. SUFFICES ASSUME object[d] # Null
              PROVE  IsAlive(lifetime[d]) /\ object[d] \in objects
  BY DEF NotDead
<1>1. PICK h \in there \cap Holders :
          object[h] = object[d] /\ lifetime[h] = lifetime[d]
  BY DEF DepIInv, DepsAreBacked
<1>. QED  BY <1>1 DEF DepIInv, HoldersOwn

(* An assertion that fails fails for a reason.                             *)
LEMMA FailsForAReason ==
    ASSUME DepIInv, NEW what, Fails(what),
           \/ what \in objects /\ \E d \in there \cap Deps : object[d] = what
           \/ what \in ByPointer /\ object[what] = Null
    PROVE  DepIInv'
BY DEF Fails, DepIInv, DepFunctions, DepTypeOK, HoldersOwn, DepsAreBacked,
   AlarmsAreReal, IsAlive

(* The tracking of lifetimes notices every Dep that would be left dangling *)
(* and raises no false alarm, whatever was copied, moved and destroyed     *)
(* before: ~Dependable, the constructors and operator= of Dep.             *)
THEOREM DepTrackingIsSound == DepSpec => []DepInv
<1>1. DepInit => DepIInv
  BY DEF DepInit, DepIInv, DepFunctions, DepTypeOK, HoldersOwn, DepsAreBacked,
     AlarmsAreReal, Variables
<1>2. DepIInv /\ [DepNext]_depVars => DepIInv'
  <2>. SUFFICES ASSUME DepIInv, [DepNext]_depVars PROVE DepIInv'
    OBVIOUS
  <2>0. DepFunctions /\ DepTypeOK /\ HoldersOwn /\ DepsAreBacked /\ AlarmsAreReal
    BY DEF DepIInv
  <2>1. ASSUME failed = Null, NEW h \in Holders,
               NEW o \in Objects \cup ByValue \cup {Null}, Create(h, o)
        PROVE  DepIInv'
    <3>1. PICK l \in FreshLifetimes : Sets(h, o, l) /\ killed' = killed \ {l}
      BY <2>1 DEF Create
    <3>2. /\ l \in Lifetimes /\ l # Null
          /\ \A x \in Variables : lifetime[x] # l
      BY <3>1, UseCountFacts, SortsDiffer DEF FreshLifetimes
    <3>3. /\ h \in Variables /\ h \notin there /\ h \notin Deps
          /\ object' = [object EXCEPT ![h] = o]
          /\ lifetime' = [lifetime EXCEPT ![h] = l]
          /\ there' = there \cup {h}
          /\ objects' = objects \cup ({o} \ {Null})
          /\ failed' = failed
          /\ h \in ByValue => o = h
          /\ h \notin ByValue => o \in (Objects \ objects) \cup {Null}
      BY <2>1, <3>1, SortsDiffer DEF Create, Sets, Variables
    <3>4. \A g \in there \cap Holders : object[g] = Null \/ object[g] # o
      BY <2>0, <3>3, SortsDiffer DEF HoldersOwn, Holders
    <3>5. DepFunctions'
      BY <2>0, <3>2, <3>3 DEF DepFunctions
    <3>6. DepTypeOK'
      BY <2>0, <3>2, <3>3, <3>4 DEF DepTypeOK, DepFunctions, Variables
    <3>7. HoldersOwn'
      BY <2>0, <3>1, <3>2, <3>3, SortsDiffer
         DEF HoldersOwn, DepFunctions, IsAlive, Holders
    <3>8. DepsAreBacked'
      BY <2>0, <3>2, <3>3 DEF DepsAreBacked, DepFunctions, Variables
    <3>9. AlarmsAreReal'
      BY <2>1, <3>3 DEF AlarmsAreReal
    <3>. QED  BY <3>5, <3>6, <3>7, <3>8, <3>9 DEF DepIInv
  <2>2. ASSUME failed = Null, NEW h \in Holders, DestroyHolder(h)
        PROVE  DepIInv'
    <3>0. h \in there /\ h \in Variables /\ h \notin Deps
      BY <2>2, SortsDiffer DEF DestroyHolder, Variables
    <3>1. CASE object[h] = Null /\ Ends(h) /\ UNCHANGED <<killed, objects>>
      BY <2>0, <2>2, <3>0, <3>1
         DEF Ends, Sets, DepIInv, DepFunctions, DepTypeOK, HoldersOwn,
             DepsAreBacked, AlarmsAreReal, IsAlive, Variables
    <3>2. CASE /\ object[h] # Null /\ OnlyUser(h)
               /\ killed' = killed \cup {lifetime[h]}
               /\ objects' = objects \ {object[h]}
               /\ Ends(h)
      <4>1. /\ \A x \in Variables : lifetime[x] = lifetime[h] => x = h
            /\ lifetime[h] # Null
        BY <3>0, <3>2, UseCountFacts DEF OnlyUser, IsAlive
      <4>2. /\ object' = [object EXCEPT ![h] = Null]
            /\ lifetime' = [lifetime EXCEPT ![h] = Null]
            /\ there' = there \ {h} /\ failed' = failed
        BY <3>2 DEF Ends, Sets
      <4>3. DepFunctions' /\ AlarmsAreReal'
        BY <2>0, <2>2, <4>2 DEF DepFunctions, AlarmsAreReal
      <4>4. DepTypeOK'
        BY <2>0, <3>2, <4>2 DEF DepTypeOK, DepFunctions, Variables
      <4>5. HoldersOwn'
        BY <2>0, <3>0, <3>2, <4>1, <4>2
           DEF HoldersOwn, DepTypeOK, DepFunctions, IsAlive, Variables
      <4>6. DepsAreBacked'
        BY <2>0, <3>0, <4>1, <4>2 DEF DepsAreBacked, DepFunctions, Variables
      <4>. QED  BY <4>3, <4>4, <4>5, <4>6 DEF DepIInv
    <3>3. CASE object[h] # Null /\ ~OnlyUser(h) /\ Fails(object[h])
      <4>1. object[h] \in objects /\ IsAlive(lifetime[h])
        BY <2>0, <3>0, <3>3 DEF HoldersOwn
      <4>2. PICK x \in Variables : x # h /\ lifetime[x] = lifetime[h]
        BY <3>0, <3>3, <4>1, UseCountFacts DEF OnlyUser
      <4>3. x \in there \cap Deps
        BY <2>0, <3>0, <4>1, <4>2 DEF DepTypeOK, IsAlive, Variables
      <4>4. object[x] = object[h]
        BY <2>0, <3>0, <4>1, <4>2, <4>3 DEF DepsAreBacked, IsAlive
      <4>. QED  BY <3>3, <4>1, <4>3, <4>4, FailsForAReason
    <3>. QED  BY <2>2, <3>1, <3>2, <3>3 DEF DestroyHolder
  <2>3. ASSUME failed = Null, NEW h \in Holders, NEW g \in Holders,
               MovePointer(h, g)
        PROVE  DepIInv'
    <3>1. /\ h # g /\ h \in ByPointer /\ g \in ByPointer /\ g \in there
          /\ h \in Variables /\ g \in Variables /\ h \notin Deps /\ g \notin Deps
          /\ object' = [object EXCEPT ![h] = object[g], ![g] = object[h]]
          /\ lifetime' = [lifetime EXCEPT ![h] = lifetime[g], ![g] = lifetime[h]]
          /\ there' = there \cup {h}
          /\ killed' = killed /\ objects' = objects /\ failed' = failed
      BY <2>3, SortsDiffer DEF MovePointer, Swap, Variables
    <3>2. h \notin there => object[h] = Null /\ lifetime[h] = Null
      BY <2>0, <3>1 DEF DepTypeOK, Variables
    <3>3. DepFunctions' /\ AlarmsAreReal'
      BY <2>0, <2>3, <3>1 DEF DepFunctions, AlarmsAreReal
    <3>4. DepTypeOK'
      BY <2>0, <3>1, <3>2 DEF DepTypeOK, DepFunctions, Variables
    <3>5. HoldersOwn'
      BY <2>0, <3>1, <3>2, SortsDiffer
         DEF HoldersOwn, DepFunctions, IsAlive, Variables
    <3>6. DepsAreBacked'
      <4>1. ASSUME NEW d \in there \cap Deps
            PROVE  object'[d] = object[d] /\ lifetime'[d] = lifetime[d]
        BY <2>0, <3>1 DEF DepFunctions, Variables
      <4>2. there' \cap Deps = there \cap Deps
        BY <3>1
      <4>3. /\ object'[h] = object[g] /\ lifetime'[h] = lifetime[g]
            /\ object'[g] = object[h] /\ lifetime'[g] = lifetime[h]
            /\ \A k \in Variables : k # h /\ k # g =>
                  object'[k] = object[k] /\ lifetime'[k] = lifetime[k]
        BY <2>0, <3>1 DEF DepFunctions
      <4>4. ASSUME NEW d \in there \cap Deps, object[d] # Null
            PROVE  \E k \in there' \cap Holders :
                       object'[k] = object[d] /\ lifetime'[k] = lifetime[d]
        <5>1. PICK k \in there \cap Holders :
                  object[k] = object[d] /\ lifetime[k] = lifetime[d]
          BY <2>0, <4>4 DEF DepsAreBacked
        <5>2. CASE k = g
          BY <3>1, <4>3, <5>1, <5>2
        <5>3. CASE k = h
          BY <3>1, <4>3, <5>1, <5>3
        <5>4. CASE k # h /\ k # g
          BY <3>1, <4>3, <5>1, <5>4 DEF Variables
        <5>. QED  BY <5>2, <5>3, <5>4
      <4>5. ASSUME NEW d \in there \cap Deps, NEW k \in there' \cap Holders,
                   lifetime'[k] = lifetime[d], lifetime'[k] # Null
            PROVE  object'[k] = object[d]
        <5>1. CASE k = h
          BY <2>0, <3>1, <4>3, <4>5, <5>1 DEF DepsAreBacked
        <5>2. CASE k = g
          BY <2>0, <3>1, <3>2, <4>3, <4>5, <5>2 DEF DepsAreBacked
        <5>3. CASE k # h /\ k # g
          <6>1. /\ k \in there \cap Holders
                /\ object'[k] = object[k] /\ lifetime'[k] = lifetime[k]
            BY <3>1, <4>3, <5>3 DEF Variables
          <6>. QED  BY <2>0, <4>5, <6>1 DEF DepsAreBacked
        <5>. QED  BY <5>1, <5>2, <5>3
      <4>. QED  BY <4>1, <4>2, <4>4, <4>5 DEF DepsAreBacked
    <3>. QED  BY <3>3, <3>4, <3>5, <3>6 DEF DepIInv
  <2>4. ASSUME failed = Null, NEW d \in Deps, DestroyDep(d)
        PROVE  DepIInv'
    <3>1. d \in there /\ d \notin Holders /\ d \in Variables /\ NotDead(d)
      BY <2>4, DepsAreNotDead, SortsDiffer DEF DestroyDep, Variables
    <3>2. Ends(d) /\ UNCHANGED <<killed, objects>>
      BY <2>4, <3>1 DEF DestroyDep
    <3>. QED  BY <2>0, <2>4, <3>1, <3>2
          DEF Ends, Sets, DepIInv, DepFunctions, DepTypeOK, HoldersOwn,
              DepsAreBacked, AlarmsAreReal, IsAlive, Variables
  <2>5. ASSUME failed = Null, NEW d \in Deps, NEW x \in Holders \cup Deps,
               NEW moved \in BOOLEAN, DepFrom(d, x, moved)
        PROVE  DepIInv'
    <3>0. /\ d # x /\ x \in there /\ x \in Variables /\ d \in Variables
          /\ d \notin Holders
          /\ x \in Holders => ~moved
          /\ x \in Holders => d \notin there
      BY <2>5, SortsDiffer DEF DepFrom, Variables
    <3>1. CASE Accepts(d, x)
      <4>1. /\ object' = [object EXCEPT ![d] = object[x],
                                 ![x] = IF moved THEN Null ELSE object[x]]
            /\ lifetime' = [lifetime EXCEPT ![d] = lifetime[x],
                                 ![x] = IF moved THEN Null ELSE lifetime[x]]
            /\ there' = there \cup {d}
            /\ killed' = killed /\ objects' = objects /\ failed' = failed
        BY <2>5, <3>1 DEF DepFrom
      <4>2. DepFunctions' /\ AlarmsAreReal'
        BY <2>0, <2>5, <3>0, <4>1 DEF DepFunctions, AlarmsAreReal
      <4>3. ASSUME NEW h \in Holders
            PROVE  /\ object'[h] = object[h] /\ lifetime'[h] = lifetime[h]
                   /\ h \in there' <=> h \in there
        BY <2>0, <3>0, <4>1 DEF DepFunctions, Variables
      <4>4. DepTypeOK'
        BY <2>0, <3>0, <4>1, <4>3 DEF DepTypeOK, DepFunctions, Variables
      <4>5. HoldersOwn'
        <5>1. killed' = killed /\ objects' = objects
          BY <4>1
        <5>. QED  BY <2>0, <4>3, <5>1 DEF HoldersOwn, IsAlive
      <4>6. ASSUME NEW e \in there' \cap Deps
            PROVE  \/ object'[e] = Null /\ lifetime'[e] = Null
                   \/ \E y \in there \cap Variables :
                         object'[e] = object[y] /\ lifetime'[e] = lifetime[y]
        BY <2>0, <3>0, <4>1, <4>6 DEF DepFunctions, Variables
      <4>7. ASSUME NEW y \in there \cap Variables
            PROVE  /\ object[y] # Null => \E h \in there \cap Holders :
                         object[h] = object[y] /\ lifetime[h] = lifetime[y]
                   /\ \A h \in there \cap Holders :
                         lifetime[h] = lifetime[y] /\ lifetime[h] # Null =>
                             object[h] = object[y]
        BY <2>0, <4>7 DEF DepsAreBacked, DepTypeOK, Variables
      <4>8. DepsAreBacked'
        BY <4>3, <4>6, <4>7 DEF DepsAreBacked
      <4>. QED  BY <4>2, <4>4, <4>5, <4>8 DEF DepIInv
    <3>2. CASE ~Accepts(d, x)
      <4>1. Fails(x) /\ d \notin there /\ x \in Holders /\ ~IsAlive(lifetime[x])
        BY <2>5, <3>0, <3>2, DepsAreNotDead DEF DepFrom, Accepts
      <4>2. object[x] = Null /\ x \in ByPointer
        BY <2>0, <3>0, <4>1, SortsDiffer DEF HoldersOwn, Holders
      <4>. QED  BY <4>1, <4>2, FailsForAReason
    <3>. QED  BY <3>1, <3>2
  <2>6. CASE UNCHANGED depVars
    BY <2>6 DEF depVars, DepIInv, DepFunctions, DepTypeOK, HoldersOwn,
       DepsAreBacked, AlarmsAreReal, IsAlive
  <2>. QED  BY <2>1, <2>2, <2>3, <2>4, <2>5, <2>6 DEF DepNext
<1>3. DepIInv => DepInv
  BY DepsAreNotDead DEF DepIInv, DepInv, NoDangling
<1>. QED  BY <1>1, <1>2, <1>3, PTL DEF DepSpec

-----------------------------------------------------------------------------
(* Log.                                                                    *)

(* The text of a path that fits in prefix_.                                *)
Cut(p) == SubSeq(p, 1, IF Len(p) < PrefixSize THEN Len(p) ELSE PrefixSize)

LogFunctions ==
    /\ DOMAIN path = DOMAIN logs
    /\ \A l \in DOMAIN logs : path[l] \in Seq(PrefixChars)
    /\ open \subseteq Files

(* Who closes an open file, by elements; only an owner has a file to close. *)
FileHasOwner ==
    /\ \A l \in DOMAIN logs : logs[l].own => logs[l].fp # NoFile
    /\ \A file \in open : \E l \in DOMAIN logs :
          /\ logs[l].own /\ logs[l].fp = file
          /\ \A m \in DOMAIN logs : logs[m].own /\ logs[m].fp = file => m = l

FilesAreOpen == \A l \in DOMAIN logs : logs[l].fp \in open \cup {NoFile}

LogIInv ==
    /\ LogFunctions /\ LogTypeOK /\ FilesAreOpen /\ FileHasOwner
    /\ PrefixIsPath

(* Sequences of one and of two elements.                                   *)
LEMMA ShortSequences ==
    ASSUME NEW S, NEW x \in S, NEW y \in S
    PROVE  <<x>> \in Seq(S) /\ <<x, y>> \in Seq(S)
OBVIOUS

(* Cutting a path off and then appending a text is appending the text and  *)
(* then cutting off.                                                       *)
LEMMA AppendPrefixIsCut ==
    ASSUME NEW p \in Seq(PrefixChars), NEW str \in Seq(PrefixChars)
    PROVE  AppendPrefix(Cut(p), str) = Cut(p \o str)
<1>. DEFINE n == IF Len(p) < PrefixSize THEN Len(p) ELSE PrefixSize
            c == Cut(p)
            k == IF Len(str) < PrefixSize - Len(c) THEN Len(str)
                 ELSE PrefixSize - Len(c)
            q == p \o str
            m == IF Len(q) < PrefixSize THEN Len(q) ELSE PrefixSize
            t == SubSeq(str, 1, k)
<1>1. /\ Len(p) \in Nat /\ Len(str) \in Nat /\ PrefixSize \in Nat
      /\ \A i \in 1 .. Len(p) : p[i] \in PrefixChars
      /\ \A i \in 1 .. Len(str) : str[i] \in PrefixChars
  BY LogAssumption, LenProperties, ElementOfSeq
<1>2. n \in Nat /\ n <= Len(p) /\ n <= PrefixSize
  BY <1>1
<1>3. /\ c \in Seq(PrefixChars) /\ Len(c) = n
      /\ \A i \in 1 .. n : c[i] = p[i]
  <2>1. \A i \in 1 .. n : p[i] \in PrefixChars
    BY <1>1, <1>2
  <2>2. c = SubSeq(p, 1, n)
    BY DEF Cut
  <2>. HIDE DEF n, c
  <2>3. /\ SubSeq(p, 1, n) \in Seq(PrefixChars)
        /\ Len(SubSeq(p, 1, n)) = IF 1 <= n THEN n - 1 + 1 ELSE 0
        /\ \A i \in 1 .. n - 1 + 1 : SubSeq(p, 1, n)[i] = p[1 + i - 1]
    BY <1>2, <2>1, SubSeqProperties
  <2>. QED  BY <1>2, <2>2, <2>3
<1>. HIDE DEF c
<1>4. k \in Nat /\ k <= Len(str) /\ n + k = m
  <2>1. Len(q) = Len(p) + Len(str)
    BY ConcatProperties
  <2>2. /\ k = IF Len(str) < PrefixSize - n THEN Len(str) ELSE PrefixSize - n
        /\ m = IF Len(p) + Len(str) < PrefixSize THEN Len(p) + Len(str)
               ELSE PrefixSize
    BY <1>3, <2>1
  <2>3. n = IF Len(p) < PrefixSize THEN Len(p) ELSE PrefixSize
    OBVIOUS
  <2>. HIDE DEF n, k, m, q
  <2>4. CASE Len(p) < PrefixSize
    <3>1. n = Len(p)
      BY <2>3, <2>4
    <3>2. CASE Len(str) < PrefixSize - n
      BY <1>1, <2>2, <3>1, <3>2
    <3>3. CASE ~(Len(str) < PrefixSize - n)
      BY <1>1, <2>2, <2>4, <3>1, <3>3
    <3>. QED  BY <3>2, <3>3
  <2>5. CASE ~(Len(p) < PrefixSize)
    <3>1. n = PrefixSize
      BY <2>3, <2>5
    <3>. QED  BY <1>1, <2>2, <2>5, <3>1
  <2>. QED  BY <2>4, <2>5
<1>. HIDE DEF n, k
<1>5. /\ t \in Seq(PrefixChars) /\ Len(t) = k
      /\ \A i \in 1 .. k : t[i] = str[i]
  <2>1. \A i \in 1 .. k : str[i] \in PrefixChars
    BY <1>1, <1>4
  <2>2. /\ SubSeq(str, 1, k) \in Seq(PrefixChars)
        /\ Len(SubSeq(str, 1, k)) = IF 1 <= k THEN k - 1 + 1 ELSE 0
        /\ \A i \in 1 .. k - 1 + 1 : SubSeq(str, 1, k)[i] = str[1 + i - 1]
    BY <1>4, <2>1, SubSeqProperties
  <2>. QED  BY <1>4, <2>2
<1>6. AppendPrefix(c, str) = c \o t
  BY DEF AppendPrefix, k, t
<1>. HIDE DEF t
<1>7. /\ q \in Seq(PrefixChars) /\ Len(q) = Len(p) + Len(str)
      /\ \A i \in 1 .. Len(p) + Len(str) : q[i] =
            IF i <= Len(p) THEN p[i] ELSE str[i - Len(p)]
  BY ConcatProperties
<1>8. /\ c \o t \in Seq(PrefixChars) /\ Len(c \o t) = n + k
      /\ \A i \in 1 .. n + k : (c \o t)[i] = IF i <= n THEN c[i] ELSE t[i - n]
  BY <1>3, <1>5, ConcatProperties
<1>9. m \in Nat /\ m <= Len(q)
  BY <1>1, <1>7
<1>10. Cut(q) = SubSeq(q, 1, m)
  BY DEF Cut
<1>. HIDE DEF q, m
<1>11. /\ Cut(q) \in Seq(PrefixChars) /\ Len(Cut(q)) = m
       /\ \A i \in 1 .. m : Cut(q)[i] = q[i]
  <2>1. \A i \in 1 .. m : q[i] \in PrefixChars
    BY <1>7, <1>9, ElementOfSeq
  <2>2. /\ SubSeq(q, 1, m) \in Seq(PrefixChars)
        /\ Len(SubSeq(q, 1, m)) = IF 1 <= m THEN m - 1 + 1 ELSE 0
        /\ \A i \in 1 .. m - 1 + 1 : SubSeq(q, 1, m)[i] = q[1 + i - 1]
    BY <1>9, <2>1, SubSeqProperties
  <2>. QED  BY <1>9, <1>10, <2>2
<1>12. ASSUME NEW i \in 1 .. m PROVE (c \o t)[i] = Cut(q)[i]
  <2>1. (c \o t)[i] = IF i <= n THEN p[i] ELSE str[i - n]
    BY <1>2, <1>3, <1>4, <1>5, <1>8
  <2>2. Cut(q)[i] = IF i <= Len(p) THEN p[i] ELSE str[i - Len(p)]
    BY <1>7, <1>9, <1>11
  <2>3. n = Len(p) \/ i <= n
    BY <1>1, <1>2, <1>4, <1>9 DEF n, m
  <2>4. CASE n = Len(p)
    BY <2>1, <2>2, <2>4
  <2>5. CASE i <= n
    BY <1>1, <1>2, <1>9, <2>1, <2>2, <2>5
  <2>. QED  BY <2>3, <2>4, <2>5
<1>13. Len(c \o t) = Len(Cut(q))
  BY <1>4, <1>8, <1>11
<1>14. c \o t = Cut(q)
  BY <1>8, <1>11, <1>12, <1>13, SeqEqual
<1>. QED  BY <1>6, <1>14 DEF c, q

(* The prefix of a derived log is the cut path of a derived log.           *)
LEMMA PrefixedIsCut ==
    ASSUME NEW p \in Seq(PrefixChars), NEW str \in Seq(PrefixChars)
    PROVE  /\ Prefixed(Cut(p), str) = Cut(p \o <<"[">> \o str \o <<"]", " ">>)
           /\ p \o <<"[">> \o str \o <<"]", " ">> \in Seq(PrefixChars)
<1>1. <<"[">> \in Seq(PrefixChars) /\ <<"]", " ">> \in Seq(PrefixChars)
  <2>1. "[" \in PrefixChars /\ "]" \in PrefixChars /\ " " \in PrefixChars
    BY DEF PrefixChars
  <2>. QED  BY <2>1, ShortSequences
<1>2. p \o <<"[">> \in Seq(PrefixChars)
  BY <1>1, ConcatProperties
<1>3. p \o <<"[">> \o str \in Seq(PrefixChars)
  BY <1>2, ConcatProperties
<1>4. p \o <<"[">> \o str \o <<"]", " ">> \in Seq(PrefixChars)
  BY <1>1, <1>3, ConcatProperties
<1>5. AppendPrefix(Cut(p), <<"[">>) = Cut(p \o <<"[">>)
  BY <1>1, AppendPrefixIsCut
<1>6. AppendPrefix(Cut(p \o <<"[">>), str) = Cut(p \o <<"[">> \o str)
  BY <1>2, AppendPrefixIsCut
<1>7. AppendPrefix(Cut(p \o <<"[">> \o str), <<"]", " ">>)
        = Cut(p \o <<"[">> \o str \o <<"]", " ">>)
  BY <1>1, <1>3, AppendPrefixIsCut
<1>. QED  BY <1>4, <1>5, <1>6, <1>7 DEF Prefixed

(* A cut path is text within prefix_.                                      *)
LEMMA CutFits ==
    ASSUME NEW p \in Seq(PrefixChars)
    PROVE  Cut(p) \in Seq(PrefixChars) /\ Len(Cut(p)) <= PrefixSize
<1>. DEFINE n == IF Len(p) < PrefixSize THEN Len(p) ELSE PrefixSize
<1>1. n \in Nat /\ n <= Len(p) /\ n <= PrefixSize /\ Len(p) \in Nat
  BY LogAssumption, LenProperties
<1>2. \A i \in 1 .. n : p[i] \in PrefixChars
  BY <1>1, ElementOfSeq
<1>3. Cut(p) = SubSeq(p, 1, n)
  BY DEF Cut
<1>. HIDE DEF n
<1>4. /\ SubSeq(p, 1, n) \in Seq(PrefixChars)
      /\ Len(SubSeq(p, 1, n)) = IF 1 <= n THEN n - 1 + 1 ELSE 0
  BY <1>1, <1>2, SubSeqProperties
<1>. QED  BY LogAssumption, <1>1, <1>3, <1>4

(* The initial log has an empty prefix.                                    *)
LEMMA CutOfEmpty == Cut(<<>>) = <<>> /\ <<>> \in Seq(PrefixChars)
<1>1. <<>> \in Seq(PrefixChars) /\ Len(<<>>) = 0
  BY EmptySeq
<1>2. Cut(<<>>) = SubSeq(<<>>, 1, 0)
  BY <1>1, LogAssumption DEF Cut
<1>. QED  BY <1>1, <1>2, SubSeqEmpty

(* What holds of the loggers: each open file has one logger that closes    *)
(* it, nobody writes to a closed one, and every prefix is the path of its  *)
(* logger cut off at the end of prefix_ (Create, the move constructor,     *)
(* the constructor of a derived Log, AppendPrefix and ~Log).               *)
THEOREM LogsAreSound == LogSpec => []LogInv
<1>0. NoFile \notin Files /\ Flags \subseteq SUBSET {"stdout", "syslog"}
  BY LogAssumption
<1>1. LogInit => LogIInv
  BY DEF LogInit, LogIInv, LogFunctions, LogTypeOK, FilesAreOpen, FileHasOwner,
     PrefixIsPath
<1>2. LogIInv /\ [LogNext]_logVars => LogIInv'
  <2>. SUFFICES ASSUME LogIInv, [LogNext]_logVars PROVE LogIInv'
    OBVIOUS
  <2>0. /\ LogFunctions /\ LogTypeOK /\ FilesAreOpen /\ FileHasOwner
        /\ \A l \in DOMAIN logs : logs[l].prefix = Cut(path[l])
    BY DEF LogIInv, PrefixIsPath, Cut
  <2>1. ASSUME NEW l \in Logs, NEW name \in LevelNames, NEW flags \in Flags,
               NEW file \in Files \cup {NoFile}, CreateLog(l, name, flags, file)
        PROVE  LogIInv'
    <3>1. PICK level \in LogLevelFromString(name) :
              Put(l, [level |-> level, fp |-> file, own |-> file # NoFile,
                      flags |-> flags, started |-> FALSE, prefix |-> <<>>], <<>>)
      BY <2>1 DEF CreateLog
    <3>. DEFINE r == [level |-> level, fp |-> file, own |-> file # NoFile,
                      flags |-> flags, started |-> FALSE, prefix |-> <<>>]
    <3>2. level \in 0 .. 4
      BY DEF LogLevelFromString, log_level_names
    <3>3. /\ r \in Log /\ r.fp = file /\ r.own = (file # NoFile)
          /\ r.prefix = <<>> /\ Len(r.prefix) <= PrefixSize
      BY <1>0, <3>2, CutOfEmpty, EmptySeq, LogAssumption DEF Log
    <3>. HIDE DEF r
    <3>4. /\ DOMAIN logs' = DOMAIN logs \cup {l} /\ DOMAIN path' = DOMAIN logs \cup {l}
          /\ logs'[l] = r /\ path'[l] = <<>>
          /\ \A k \in DOMAIN logs : k # l => logs'[k] = logs[k] /\ path'[k] = path[k]
      BY <3>1 DEF Put, r
    <3>5. l \notin DOMAIN logs /\ file \notin open /\ open' = open \cup ({file} \ {NoFile})
      BY <2>1 DEF CreateLog
    <3>6. LogFunctions' /\ LogTypeOK' /\ FilesAreOpen'
      BY <2>0, <3>3, <3>4, <3>5, CutOfEmpty
         DEF LogFunctions, LogTypeOK, FilesAreOpen
    <3>7. FileHasOwner'
      <4>1. \A k \in DOMAIN logs : logs[k].own => logs[k].fp # file
        BY <2>0, <3>5 DEF FilesAreOpen, FileHasOwner
      <4>2. \A k \in DOMAIN logs' : logs'[k].own => logs'[k].fp # NoFile
        BY <2>0, <3>3, <3>4 DEF FileHasOwner
      <4>3. ASSUME NEW g \in open
            PROVE  \E k \in DOMAIN logs' :
                      /\ logs'[k].own /\ logs'[k].fp = g
                      /\ \A m \in DOMAIN logs' :
                            logs'[m].own /\ logs'[m].fp = g => m = k
        <5>1. PICK k \in DOMAIN logs :
                  /\ logs[k].own /\ logs[k].fp = g
                  /\ \A m \in DOMAIN logs : logs[m].own /\ logs[m].fp = g => m = k
          BY <2>0 DEF FileHasOwner
        <5>2. g # file
          BY <3>5
        <5>. QED  BY <3>3, <3>4, <3>5, <5>1, <5>2
      <4>4. ASSUME file # NoFile
            PROVE  \E k \in DOMAIN logs' :
                      /\ logs'[k].own /\ logs'[k].fp = file
                      /\ \A m \in DOMAIN logs' :
                            logs'[m].own /\ logs'[m].fp = file => m = k
        BY <3>3, <3>4, <4>1, <4>4
      <4>. QED  BY <3>5, <4>2, <4>3, <4>4 DEF FileHasOwner
    <3>8. PrefixIsPath'
      BY <2>0, <3>3, <3>4, CutOfEmpty DEF PrefixIsPath, Cut
    <3>. QED  BY <3>6, <3>7, <3>8 DEF LogIInv
  <2>2. ASSUME NEW l \in Logs, Write(l) PROVE LogIInv'
    BY <2>2 DEF Write, LogIInv, LogFunctions, LogTypeOK, FilesAreOpen,
       FileHasOwner, PrefixIsPath
  <2>3. ASSUME NEW l \in Logs, DestroyLog(l) PROVE LogIInv'
    <3>1. /\ l \in DOMAIN logs
          /\ DOMAIN logs' = DOMAIN logs \ {l} /\ DOMAIN path' = DOMAIN logs \ {l}
          /\ \A k \in DOMAIN logs \ {l} : logs'[k] = logs[k] /\ path'[k] = path[k]
          /\ open' = IF logs[l].own THEN open \ {logs[l].fp} ELSE open
          /\ logs[l].own => \A m \in DOMAIN logs \ {l} : logs[m].fp # logs[l].fp
      BY <2>3 DEF DestroyLog
    <3>2. LogFunctions' /\ LogTypeOK'
      BY <2>0, <3>1 DEF LogFunctions, LogTypeOK
    <3>3. FilesAreOpen'
      BY <2>0, <3>1 DEF FilesAreOpen
    <3>4. FileHasOwner'
      <4>1. \A k \in DOMAIN logs' : logs'[k].own => logs'[k].fp # NoFile
        BY <2>0, <3>1 DEF FileHasOwner
      <4>2. ASSUME NEW g \in open'
            PROVE  \E k \in DOMAIN logs' :
                      /\ logs'[k].own /\ logs'[k].fp = g
                      /\ \A m \in DOMAIN logs' :
                            logs'[m].own /\ logs'[m].fp = g => m = k
        <5>1. g \in open /\ (logs[l].own => g # logs[l].fp)
          BY <3>1
        <5>2. PICK k \in DOMAIN logs :
                  /\ logs[k].own /\ logs[k].fp = g
                  /\ \A m \in DOMAIN logs : logs[m].own /\ logs[m].fp = g => m = k
          BY <2>0, <5>1 DEF FileHasOwner
        <5>3. k # l
          BY <5>1, <5>2
        <5>. QED  BY <3>1, <5>2, <5>3
      <4>. QED  BY <4>1, <4>2 DEF FileHasOwner
    <3>5. PrefixIsPath'
      BY <2>0, <3>1 DEF PrefixIsPath, Cut
    <3>. QED  BY <3>2, <3>3, <3>4, <3>5 DEF LogIInv
  <2>4. ASSUME NEW l \in Logs, NEW m \in Logs, MoveLog(l, m) PROVE LogIInv'
    <3>. DEFINE r == [logs[l] EXCEPT !.started = FALSE]
                q == [logs[l] EXCEPT !.own = FALSE, !.fp = NoFile]
    <3>1. /\ l \in DOMAIN logs /\ m \notin DOMAIN logs /\ l # m
          /\ DOMAIN logs' = DOMAIN logs \cup {m}
          /\ DOMAIN path' = DOMAIN logs \cup {m}
          /\ logs'[m] = r /\ logs'[l] = q
          /\ path'[m] = path[l]
          /\ \A k \in DOMAIN logs : path'[k] = path[k]
          /\ \A k \in DOMAIN logs : k # l => logs'[k] = logs[k]
          /\ open' = open
      BY <2>4 DEF MoveLog
    <3>2. logs[l] \in Log /\ Len(logs[l].prefix) <= PrefixSize
      BY <2>0, <3>1 DEF LogTypeOK
    <3>3. /\ r \in Log /\ r.own = logs[l].own /\ r.fp = logs[l].fp
          /\ r.prefix = logs[l].prefix
          /\ q \in Log /\ q.own = FALSE /\ q.fp = NoFile
          /\ q.prefix = logs[l].prefix
      BY <3>2 DEF Log
    <3>. HIDE DEF r, q
    <3>4. LogFunctions' /\ LogTypeOK' /\ FilesAreOpen'
      BY <2>0, <3>1, <3>2, <3>3 DEF LogFunctions, LogTypeOK, FilesAreOpen
    <3>5. FileHasOwner'
      <4>1. \A k \in DOMAIN logs' : logs'[k].own => logs'[k].fp # NoFile
        BY <2>0, <3>1, <3>3 DEF FileHasOwner
      <4>2. ASSUME NEW g \in open
            PROVE  \E k \in DOMAIN logs' :
                      /\ logs'[k].own /\ logs'[k].fp = g
                      /\ \A n \in DOMAIN logs' :
                            logs'[n].own /\ logs'[n].fp = g => n = k
        <5>1. PICK k \in DOMAIN logs :
                  /\ logs[k].own /\ logs[k].fp = g
                  /\ \A n \in DOMAIN logs : logs[n].own /\ logs[n].fp = g => n = k
          BY <2>0 DEF FileHasOwner
        <5>2. CASE k = l
          BY <3>1, <3>3, <5>1, <5>2
        <5>3. CASE k # l
          BY <3>1, <3>3, <5>1, <5>3
        <5>. QED  BY <5>2, <5>3
      <4>. QED  BY <3>1, <4>1, <4>2 DEF FileHasOwner
    <3>6. PrefixIsPath'
      BY <2>0, <3>1, <3>3 DEF PrefixIsPath, Cut
    <3>. QED  BY <3>4, <3>5, <3>6 DEF LogIInv
  <2>5. ASSUME NEW l \in Logs, NEW m \in Logs, NEW n \in PrefixLengths,
               Derive(l, m, [i \in 1 .. n |-> "c"])
        PROVE  LogIInv'
    <3>. DEFINE str == [i \in 1 .. n |-> "c"]
                text == path[l] \o <<"[">> \o str \o <<"]", " ">>
                r == [logs[l] EXCEPT !.own = FALSE, !.started = FALSE,
                                     !.prefix = Prefixed(@, str)]
    <3>1. str \in Seq(PrefixChars)
      BY LogAssumption DEF PrefixChars
    <3>2. l \in DOMAIN logs /\ m \notin DOMAIN logs /\ Put(m, r, text) /\ open' = open
      BY <2>5 DEF Derive
    <3>. HIDE DEF str
    <3>3. Prefixed(Cut(path[l]), str) = Cut(text) /\ text \in Seq(PrefixChars)
      BY <2>0, <3>1, <3>2, PrefixedIsCut DEF LogFunctions
    <3>. HIDE DEF text
    <3>4. Cut(text) \in Seq(PrefixChars) /\ Len(Cut(text)) <= PrefixSize
      BY <3>3, CutFits
    <3>5. r \in Log /\ r.own = FALSE /\ r.fp = logs[l].fp /\ r.prefix = Cut(text)
      <4>1. logs[l] \in Log /\ logs[l].prefix = Cut(path[l])
        BY <2>0, <3>2 DEF LogTypeOK
      <4>2. r = [logs[l] EXCEPT !.own = FALSE, !.started = FALSE,
                                !.prefix = Cut(text)]
        BY <3>3, <4>1
      <4>. HIDE DEF r
      <4>. QED  BY <3>4, <4>1, <4>2 DEF Log
    <3>. HIDE DEF r
    <3>6. /\ DOMAIN logs' = DOMAIN logs \cup {m}
          /\ DOMAIN path' = DOMAIN logs \cup {m}
          /\ logs'[m] = r /\ path'[m] = text
          /\ \A k \in DOMAIN logs : logs'[k] = logs[k] /\ path'[k] = path[k]
      BY <3>2 DEF Put
    <3>7. LogFunctions' /\ LogTypeOK' /\ FilesAreOpen'
      BY <2>0, <3>2, <3>3, <3>4, <3>5, <3>6
         DEF LogFunctions, LogTypeOK, FilesAreOpen
    <3>8. FileHasOwner'
      <4>1. ASSUME NEW g \in open
            PROVE  \E k \in DOMAIN logs' :
                      /\ logs'[k].own /\ logs'[k].fp = g
                      /\ \A j \in DOMAIN logs' :
                            logs'[j].own /\ logs'[j].fp = g => j = k
        <5>1. PICK k \in DOMAIN logs :
                  /\ logs[k].own /\ logs[k].fp = g
                  /\ \A j \in DOMAIN logs : logs[j].own /\ logs[j].fp = g => j = k
          BY <2>0 DEF FileHasOwner
        <5>. QED  BY <3>5, <3>6, <5>1
      <4>. QED  BY <2>0, <3>2, <3>5, <3>6, <4>1 DEF FileHasOwner
    <3>9. PrefixIsPath'
      BY <2>0, <3>5, <3>6 DEF PrefixIsPath, Cut
    <3>. QED  BY <3>7, <3>8, <3>9 DEF LogIInv
  <2>6. CASE UNCHANGED logVars
    BY <2>6 DEF logVars, LogIInv, LogFunctions, LogTypeOK, FilesAreOpen,
       FileHasOwner, PrefixIsPath
  <2>. QED  BY <2>1, <2>2, <2>3, <2>4, <2>5, <2>6 DEF LogNext
<1>3. LogIInv => LogInv
  <2>. SUFFICES ASSUME LogIInv, NEW file \in open
                PROVE  Cardinality({l \in DOMAIN logs :
                                      logs[l].own /\ logs[l].fp = file}) = 1
    BY DEF LogIInv, LogInv, OneOwner, FilesAreOpen
  <2>1. PICK l \in DOMAIN logs :
            /\ logs[l].own /\ logs[l].fp = file
            /\ \A m \in DOMAIN logs : logs[m].own /\ logs[m].fp = file => m = l
    BY DEF LogIInv, FileHasOwner
  <2>2. {m \in DOMAIN logs : logs[m].own /\ logs[m].fp = file} = {l}
    BY <2>1
  <2>. QED  BY <2>2, FS_Singleton
<1>. QED  BY <1>1, <1>2, <1>3, PTL DEF LogSpec

-----------------------------------------------------------------------------
(* The frame of XYEntrypoint.                                              *)

(* The variables of the frame, in the order of their construction.         *)
FrameOrder ==
    <<"allocator", "config", "log", "type_manager", "storage",
      "json_payload_handler", "slang_env", "task_manager", "tcp">>

FrameNames ==
    {"allocator", "config", "log", "type_manager", "storage",
     "json_payload_handler", "slang_env", "task_manager", "tcp"}

(* What exists is the beginning of FrameOrder.                             *)
FrameIsPrefix ==
    /\ frame \in Seq(FrameNames)
    /\ Len(frame) \in 0 .. 9
    /\ \A i \in 1 .. Len(frame) : frame[i] = FrameOrder[i]

(* How long the frame is where XYEntrypoint is.                            *)
FrameSoFar ==
    \/ pc = "config" /\ Len(frame) = 1
    \/ pc = "log" /\ Len(frame) = 2
    \/ pc \in {"tasks", "types"} /\ Len(frame) = 3
    \/ pc = "storage" /\ Len(frame) = 4
    \/ pc = "json" /\ Len(frame) = 5
    \/ pc = "env" /\ Len(frame) = 6
    \/ pc = "own" /\ Len(frame) = 7
    \/ pc = "tcp" /\ Len(frame) = 8
    \/ pc \in {"handler", "execs", "run", "starting", "running"} /\ Len(frame) = 9
    \/ pc = "return"
    \/ Finished

(* Before it owns the task manager the frame can only be given up when     *)
(* there is none, and threads have user data only while it is owned.       *)
OwnedWhileUsed ==
    /\ pc \in {"config", "log", "tasks"} => tasks = "none"
    /\ pc = "return" /\ Len(frame) < 8 => tasks \in {"none", "gone"}
    /\ userData # {} => \/ pc \in {"starting", "running"} \/ Finished
                        \/ pc = "return" /\ Len(frame) >= 8

FrameInv ==
    /\ FrameIsPrefix /\ FrameSoFar /\ OwnedWhileUsed
    /\ ~Finished => alarm = "none"
    /\ OnlyTasksHold

(* Where each variable is in FrameOrder.                                   *)
LEMMA FrameOrderIs ==
    /\ FrameOrder[1] = "allocator" /\ FrameOrder[2] = "config"
    /\ FrameOrder[3] = "log" /\ FrameOrder[4] = "type_manager"
    /\ FrameOrder[5] = "storage" /\ FrameOrder[6] = "json_payload_handler"
    /\ FrameOrder[7] = "slang_env" /\ FrameOrder[8] = "task_manager"
    /\ FrameOrder[9] = "tcp"
BY DEF FrameOrder

(* Where in FrameOrder the Deps of a variable are: before it.              *)
LEMMA DepsComeBefore ==
    ASSUME NEW n \in 1 .. 9, NEW i \in 1 .. n
    PROVE  FrameOrder[n] \notin DepsOf(FrameOrder[i])
<1>1. \A k \in 1 .. 9 : \/ k = 1 \/ k = 2 \/ k = 3 \/ k = 4 \/ k = 5
                       \/ k = 6 \/ k = 7 \/ k = 8 \/ k = 9
  OBVIOUS
<1>3. i \in 1 .. 9 /\ i <= n
  OBVIOUS
<1>4. CASE FrameOrder[i] = "type_manager"
  <2>1. i = 4
    BY <1>1, FrameOrderIs, <1>3, <1>4
  <2>2. FrameOrder[n] \notin {"log", "allocator"}
    BY <1>1, FrameOrderIs, <1>3, <2>1
  <2>. QED  BY <1>4, <2>2 DEF DepsOf
<1>5. CASE FrameOrder[i] = "json_payload_handler"
  <2>1. i = 6
    BY <1>1, FrameOrderIs, <1>3, <1>5
  <2>2. FrameOrder[n] # "storage"
    BY <1>1, FrameOrderIs, <1>3, <2>1
  <2>. QED  BY <1>5, <2>2 DEF DepsOf
<1>6. CASE FrameOrder[i] = "slang_env"
  <2>1. i = 7
    BY <1>1, FrameOrderIs, <1>3, <1>6
  <2>2. FrameOrder[n] # "json_payload_handler"
    BY <1>1, FrameOrderIs, <1>3, <2>1
  <2>. QED  BY <1>6, <2>2 DEF DepsOf
<1>7. CASE FrameOrder[i] \notin {"type_manager", "json_payload_handler", "slang_env"}
  BY <1>7 DEF DepsOf
<1>. QED  BY <1>4, <1>5, <1>6, <1>7

(* A return before Run leaves the frame as it is.                          *)
LEMMA FailKeeps ==
    ASSUME FrameInv, Fail, ~Finished, UNCHANGED <<userData, suspended, alarm>>,
           pc \in {"config", "log", "tasks", "tcp", "execs"}
    PROVE  FrameInv'
<1>. USE DEF FrameInv, Fail
<1>1. FrameIsPrefix'
  BY DEF FrameIsPrefix
<1>2. FrameSoFar' /\ ~Finished'
  BY DEF FrameSoFar, Finished
<1>3. OwnedWhileUsed'
  <2>1. pc \in {"tcp", "execs"} => Len(frame) \in {8, 9}
    BY DEF FrameSoFar, Finished
  <2>2. userData' = {}
    BY DEF OwnedWhileUsed, Finished
  <2>3. Len(frame) < 8 => tasks = "none"
    <3>1. Len(frame) \in 0 .. 9
      BY DEF FrameIsPrefix
    <3>2. pc \in {"tcp", "execs"} => Len(frame) >= 8
      BY <2>1
    <3>. QED  BY <3>1, <3>2 DEF OwnedWhileUsed
  <2>. QED  BY <2>2, <2>3 DEF OwnedWhileUsed
<1>4. OnlyTasksHold'
  BY DEF OnlyTasksHold
<1>. QED  BY <1>1, <1>2, <1>3, <1>4

(* The next variable is the one that FrameOrder says.                      *)
LEMMA ConstructKeeps ==
    ASSUME FrameInv, ~Finished, UNCHANGED <<userData, suspended, alarm>>,
           NEW made, NEW next, ConstructVariable(made, next),
           \/ made = "config" /\ next = "log" /\ pc = "config"
           \/ made = "log" /\ next = "tasks" /\ pc = "log"
           \/ made = "type_manager" /\ next = "storage" /\ pc = "types"
           \/ made = "storage" /\ next = "json" /\ pc = "storage"
           \/ made = "json_payload_handler" /\ next = "env" /\ pc = "json"
           \/ made = "slang_env" /\ next = "own" /\ pc = "env"
           \/ made = "task_manager" /\ next = "tcp" /\ pc = "own"
           \/ made = "tcp" /\ next = "handler" /\ pc = "tcp"
    PROVE  FrameInv'
<1>. USE DEF FrameInv, ConstructVariable
<1>8. /\ 1 + 1 = 2 /\ 2 + 1 = 3 /\ 3 + 1 = 4 /\ 4 + 1 = 5
      /\ 5 + 1 = 6 /\ 6 + 1 = 7 /\ 7 + 1 = 8 /\ 8 + 1 = 9
  OBVIOUS
<1>1. Len(frame) \in 0 .. 8 /\ made \in FrameNames /\ made = FrameOrder[Len(frame) + 1]
  <2>1. \/ made = "config" /\ Len(frame) = 1
        \/ made = "log" /\ Len(frame) = 2
        \/ made = "type_manager" /\ Len(frame) = 3
        \/ made = "storage" /\ Len(frame) = 4
        \/ made = "json_payload_handler" /\ Len(frame) = 5
        \/ made = "slang_env" /\ Len(frame) = 6
        \/ made = "task_manager" /\ Len(frame) = 7
        \/ made = "tcp" /\ Len(frame) = 8
    BY DEF FrameSoFar, Finished
  <2>2. Len(frame) \in 0 .. 8
    BY <2>1
  <2>3. made = FrameOrder[Len(frame) + 1]
    BY <2>1, <1>8, FrameOrderIs, Zenon
  <2>. QED  BY <2>1, <2>2, <2>3 DEF FrameNames
<1>2. Len(frame') = Len(frame) + 1 /\ frame' \in Seq(FrameNames)
  BY <1>1 DEF FrameIsPrefix
<1>3. \A i \in 1 .. Len(frame') :
          frame'[i] = IF i = Len(frame) + 1 THEN made ELSE frame[i]
  BY <1>1, <1>2 DEF FrameIsPrefix
<1>4. FrameIsPrefix'
  <2>4. \A n \in 0 .. 8 : \A i \in 1 .. n + 1 : i = n + 1 \/ i \in 1 .. n
    OBVIOUS
  <2>1. \A i \in 1 .. Len(frame') : i = Len(frame) + 1 \/ i \in 1 .. Len(frame)
    BY <1>1, <1>2, <2>4
  <2>2. \A i \in 1 .. Len(frame') : frame'[i] = FrameOrder[i]
    BY <1>1, <1>3, <2>1 DEF FrameIsPrefix
  <2>5. \A n \in 0 .. 8 : n + 1 \in 0 .. 9
    OBVIOUS
  <2>3. Len(frame') \in 0 .. 9
    BY <1>1, <1>2, <2>5
  <2>. QED  BY <1>2, <2>2, <2>3 DEF FrameIsPrefix
<1>5. FrameSoFar' /\ ~Finished'
  <2>1. ~Finished'
    BY DEF Finished
  <2>2. \/ pc' = "log" /\ Len(frame) = 1
        \/ pc' = "tasks" /\ Len(frame) = 2
        \/ pc' = "storage" /\ Len(frame) = 3
        \/ pc' = "json" /\ Len(frame) = 4
        \/ pc' = "env" /\ Len(frame) = 5
        \/ pc' = "own" /\ Len(frame) = 6
        \/ pc' = "tcp" /\ Len(frame) = 7
        \/ pc' = "handler" /\ Len(frame) = 8
    BY DEF FrameSoFar, Finished
  <2>3. \/ pc' = "log" /\ Len(frame') = 2
        \/ pc' = "tasks" /\ Len(frame') = 3
        \/ pc' = "storage" /\ Len(frame') = 4
        \/ pc' = "json" /\ Len(frame') = 5
        \/ pc' = "env" /\ Len(frame') = 6
        \/ pc' = "own" /\ Len(frame') = 7
        \/ pc' = "tcp" /\ Len(frame') = 8
        \/ pc' = "handler" /\ Len(frame') = 9
    BY <1>2, <2>2, <1>8, Zenon
  <2>. QED  BY <2>1, <2>3 DEF FrameSoFar
<1>6. OwnedWhileUsed'
  BY <1>2 DEF OwnedWhileUsed, FrameSoFar, Finished
<1>7. OnlyTasksHold'
  BY DEF OnlyTasksHold
<1>. QED  BY <1>4, <1>5, <1>6, <1>7

(* Of the frame only the environment may be referred to when its turn to   *)
(* be destroyed comes, and then by a task that is suspended.               *)
LEMMA LastIsFree ==
    ASSUME FrameInv, pc = "return", frame # <<>>,
           Last(frame) = "task_manager" => userData = {},
           Last(frame) \in Referred
    PROVE  Last(frame) = "slang_env" /\ suspended # {}
<1>. DEFINE n == Len(frame)
<1>1. n \in 1 .. 9 /\ Last(frame) = FrameOrder[n] /\ ~Finished
  BY DEF FrameInv, FrameIsPrefix, Last, Finished
<1>2. Last(frame) \notin UNION {DepsOf(frame[i]) : i \in DOMAIN frame}
  <2>1. \A i \in DOMAIN frame : i \in 1 .. n /\ frame[i] = FrameOrder[i]
    BY DEF FrameInv, FrameIsPrefix
  <2>2. \A i \in DOMAIN frame : FrameOrder[n] \notin DepsOf(frame[i])
    BY <1>1, <2>1, DepsComeBefore
  <2>. QED  BY <1>1, <2>2
<1>3. n < 8 => tasks \in {"none", "gone"} /\ userData = {}
  BY <1>1 DEF FrameInv, OwnedWhileUsed
<1>4. (n = 8 \/ n = 9) => Last(frame) \in {"task_manager", "tcp"}
  BY <1>1, FrameOrderIs
<1>5. Last(frame) \in {"log"} \cup SharedDeps => tasks \in {"none", "gone"} /\ userData = {}
  <2>1. \A k \in 1 .. 9 : k < 8 \/ k = 8 \/ k = 9
    OBVIOUS
  <2>2. n < 8 \/ n = 8 \/ n = 9
    BY <1>1, <2>1
  <2>. QED  BY <2>2, <1>3, <1>4 DEF SharedDeps
<1>. QED  BY <1>2, <1>5 DEF Referred

(* The destructors of the frame.                                           *)
LEMMA DestroyKeeps ==
    ASSUME FrameInv, ~Finished, DestroyVariable
    PROVE  FrameInv'
<1>1. Len(frame) \in 1 .. 9 /\ Last(frame) = FrameOrder[Len(frame)]
  BY DEF FrameInv, FrameIsPrefix, Last, DestroyVariable
<1>2. CASE Last(frame) \in Referred
  <2>1. /\ pc' = "aborted" /\ alarm' = Last(frame)
        /\ UNCHANGED <<frame, tasks, userData, suspended>>
    BY <1>2 DEF DestroyVariable, threadVars
  <2>2. OnlyTasksHold'
    BY <1>2, <2>1, LastIsFree DEF OnlyTasksHold, DestroyVariable
  <2>. QED  BY <2>1, <2>2
            DEF FrameInv, FrameIsPrefix, FrameSoFar, OwnedWhileUsed, Finished
<1>3. CASE Last(frame) \notin Referred
  <2>1. /\ frame' = Front(frame) /\ pc' = "return" /\ pc = "return"
        /\ tasks' = IF Last(frame) = "task_manager" THEN "gone" ELSE tasks
        /\ UNCHANGED <<alarm, userData, suspended>>
        /\ Last(frame) = "task_manager" => userData = {}
    BY <1>3 DEF DestroyVariable, threadVars
  <2>2. frame \in Seq(FrameNames)
    BY DEF FrameInv, FrameIsPrefix
  <2>6. /\ Len(frame') = Len(frame) - 1 /\ frame' \in Seq(FrameNames)
        /\ \A i \in 1 .. Len(frame) - 1 : frame'[i] = frame[i]
    <3>1. PICK n \in 1 .. 9 : n = Len(frame)
      BY <1>1
    <3>2. \A i \in 1 .. n - 1 : frame[i] \in FrameNames
      BY <2>2, <3>1, ElementOfSeq
    <3>3. frame' = SubSeq(frame, 1, n - 1) /\ 1 \in Int /\ n - 1 \in Int
      BY <2>1, <3>1 DEF Front
    <3>4. /\ frame' \in Seq(FrameNames)
          /\ Len(frame') = IF 1 <= n - 1 THEN (n - 1) - 1 + 1 ELSE 0
          /\ \A i \in 1 .. (n - 1) - 1 + 1 : frame'[i] = frame[1 + i - 1]
      BY <3>2, <3>3, SubSeqProperties
    <3>5. Len(frame') = n - 1 /\ \A i \in 1 .. n - 1 : frame'[i] = frame[i]
      BY <3>4
    <3>. QED  BY <3>1, <3>4, <3>5
  <2>3. FrameIsPrefix'
    <3>1. \A i \in 1 .. Len(frame) : frame[i] = FrameOrder[i]
      BY DEF FrameInv, FrameIsPrefix
    <3>5. \A n \in 1 .. 9 : \A i \in 1 .. n - 1 : i \in 1 .. n
      OBVIOUS
    <3>2. \A i \in 1 .. Len(frame') : i \in 1 .. Len(frame) - 1 /\ i \in 1 .. Len(frame)
      BY <1>1, <2>6, <3>5
    <3>3. \A i \in 1 .. Len(frame') : frame'[i] = FrameOrder[i]
      BY <2>6, <3>1, <3>2
    <3>4. Len(frame') \in 0 .. 9
      <4>1. \A n \in 1 .. 9 : n - 1 \in 0 .. 9
        OBVIOUS
      <4>. QED  BY <1>1, <2>6, <4>1
    <3>. QED  BY <2>6, <3>3, <3>4 DEF FrameIsPrefix
  <2>4. FrameOrder[8] = "task_manager"
    BY DEF FrameOrder
  <2>5. OwnedWhileUsed'
    <3>1. CASE Len(frame) = 8
      BY <1>1, <2>1, <2>6, <2>4, <3>1 DEF OwnedWhileUsed
    <3>2. CASE Len(frame) # 8
      <4>1. Len(frame') < 8 => Len(frame) < 8
        BY <1>1, <2>6, <3>2
      <4>2. Len(frame) >= 8 => Len(frame') >= 8
        BY <1>1, <2>6, <3>2
      <4>3. Len(frame') < 8 => tasks' \in {"none", "gone"}
        BY <2>1, <4>1 DEF FrameInv, OwnedWhileUsed
      <4>. QED  BY <2>1, <4>2, <4>3 DEF FrameInv, OwnedWhileUsed, Finished
    <3>. QED  BY <3>1, <3>2
  <2>. QED  BY <2>1, <2>3, <2>5
            DEF FrameInv, FrameSoFar, OnlyTasksHold, Finished
<1>. QED  BY <1>2, <1>3

(* However the program comes to return, the destructors of its frame find  *)
(* no Dep on what they destroy but, on the environment, that of a task     *)
(* which never finishes: the order of the frame sees to the Deps of its    *)
(* members, and that the task manager is destroyed before what its threads *)
(* use, after they have ended, sees to theirs.                             *)
THEOREM FrameOutlivesItsUsers == MainSpec => []OnlyTasksHold
<1>1. MainInit => FrameInv
  <2>. SUFFICES ASSUME MainInit PROVE FrameInv
    OBVIOUS
  <2>. USE DEF MainInit
  <2>1. Len(frame) = 1 /\ frame[1] = "allocator" /\ frame \in Seq(FrameNames)
    BY DEF FrameNames
  <2>2. FrameIsPrefix
    BY <2>1 DEF FrameIsPrefix, FrameOrder
  <2>. QED  BY <2>1, <2>2
            DEF FrameInv, FrameSoFar, OwnedWhileUsed, OnlyTasksHold
<1>2. FrameInv /\ [MainNext]_mainVars => FrameInv'
  <2>. SUFFICES ASSUME FrameInv, [MainNext]_mainVars PROVE FrameInv'
    OBVIOUS
  <2>1. CASE ~Finished /\ FrameStep
    <3>0. ~Finished /\ UNCHANGED <<userData, suspended, alarm>>
      BY <2>1 DEF FrameStep, threadVars
    <3>1. CASE LoadConfig
      BY <3>0, <3>1, FailKeeps, ConstructKeeps DEF LoadConfig
    <3>2. CASE OpenLog
      BY <3>0, <3>2, FailKeeps, ConstructKeeps DEF OpenLog
    <3>3. CASE CreateTaskManager
      <4>1. CASE Fail
        BY <3>0, <3>3, <4>1, FailKeeps DEF CreateTaskManager
      <4>2. CASE tasks' = "made" /\ pc' = "types" /\ UNCHANGED <<code, frame, entrypoints>>
        BY <3>0, <3>3, <4>2
           DEF CreateTaskManager, FrameInv, FrameIsPrefix, FrameSoFar,
               OwnedWhileUsed, OnlyTasksHold, Finished
      <4>. QED  BY <3>3, <4>1, <4>2 DEF CreateTaskManager
    <3>4. CASE ConstructNext
      BY <3>0, <3>4, ConstructKeeps DEF ConstructNext
    <3>5. CASE CreateTcpManager
      BY <3>0, <3>5, FailKeeps, ConstructKeeps DEF CreateTcpManager
    <3>6. CASE ScheduleConfigExecs
      <4>1. CASE Fail
        BY <3>0, <3>6, <4>1, FailKeeps DEF ScheduleConfigExecs
      <4>2. CASE pc' = "run" /\ UNCHANGED <<code, frame, tasks>>
        BY <3>0, <3>6, <4>2
           DEF ScheduleConfigExecs, FrameInv, FrameIsPrefix, FrameSoFar,
               OwnedWhileUsed, OnlyTasksHold, Finished
      <4>. QED  BY <3>6, <4>1, <4>2 DEF ScheduleConfigExecs
    <3>7. CASE RunReturns
      <4>1. Len(frame) = 9
        BY <3>7 DEF RunReturns, FrameInv, FrameSoFar, Finished
      <4>. QED  BY <3>0, <3>7, <4>1
         DEF RunReturns, FrameInv, FrameIsPrefix, FrameSoFar, OwnedWhileUsed,
             OnlyTasksHold, Finished
    <3>. QED  BY <2>1, <3>1, <3>2, <3>3, <3>4, <3>5, <3>6, <3>7 DEF FrameStep
  <2>2. CASE ~Finished /\ CreateExitHandler
    BY <2>2 DEF CreateExitHandler, threadVars, FrameInv, FrameIsPrefix, FrameSoFar,
       OwnedWhileUsed, OnlyTasksHold, Finished
  <2>3. CASE ~Finished /\ Run
    BY <2>3 DEF Run, threadVars, FrameInv, FrameIsPrefix, FrameSoFar,
       OwnedWhileUsed, OnlyTasksHold, Finished
  <2>11. ASSUME NEW t \in Threads, ~Finished, StartThread(t)
        PROVE  FrameInv'
    BY <2>11 DEF StartThread, FrameInv, FrameIsPrefix, FrameSoFar,
       OwnedWhileUsed, OnlyTasksHold, Finished
  <2>4. CASE ~Finished /\ DestroyVariable
    BY <2>4, DestroyKeeps
  <2>5. CASE ~Finished /\ Return
    BY <2>5 DEF Return, threadVars, FrameInv, FrameIsPrefix, FrameSoFar, OwnedWhileUsed,
       OnlyTasksHold, Finished
  <2>6. ASSUME NEW t \in Threads, ~Finished, ThreadStep(t)
        PROVE  FrameInv'
    BY <2>6 DEF ThreadStep, LeavesLoop, TellsOthers, ThreadEnds, FrameInv, FrameIsPrefix, FrameSoFar,
       OwnedWhileUsed, OnlyTasksHold, Finished
  <2>7. ASSUME NEW s \in Sessions, ~Finished, SessionOpens(s) \/ SessionCloses(s)
        PROVE  FrameInv'
    BY <2>7 DEF SessionOpens, SessionCloses, threadVars, FrameInv, FrameIsPrefix,
       FrameSoFar, OwnedWhileUsed, OnlyTasksHold, Finished
  <2>8. CASE ~Finished /\ ExecuteFiles
    <3>1. UNCHANGED <<pc, frame, tasks, userData, alarm>> /\ alarm = "none"
      BY <2>8 DEF ExecuteFiles, FrameInv
    <3>. QED  BY <2>8, <3>1 DEF FrameInv, FrameIsPrefix, FrameSoFar,
                   OwnedWhileUsed, OnlyTasksHold, Finished
  <2>9. CASE Signal
    <3>1. /\ UNCHANGED <<frame, tasks, userData, suspended, alarm>> /\ ~Finished
          /\ pc' = pc \/ pc' \in {"crashed", "killed"}
      BY <2>9 DEF Signal, Stop
    <3>. QED  BY <3>1 DEF FrameInv, FrameIsPrefix, FrameSoFar,
                   OwnedWhileUsed, OnlyTasksHold, Finished
  <2>10. CASE UNCHANGED mainVars
    BY <2>10 DEF mainVars, threadVars, FrameInv, FrameIsPrefix, FrameSoFar,
       OwnedWhileUsed, OnlyTasksHold, Finished
  <2>. QED  BY <2>1, <2>2, <2>3, <2>4, <2>5, <2>6, <2>7, <2>8, <2>9, <2>10,
               <2>11
            DEF MainNext, MainStep
<1>3. FrameInv => OnlyTasksHold
  BY DEF FrameInv
<1>. QED  BY <1>1, <1>2, <1>3, PTL DEF MainSpec

-----------------------------------------------------------------------------
(* ScratchAllocator.                                                       *)

(* A set of numbers that is not empty has a least one.                     *)
LEMMA LeastOne ==
    ASSUME NEW T, T \subseteq Nat, T # {}
    PROVE  \E k \in T : \A l \in T : k <= l
<1>1. PICK k \in T : \A l \in T : ~(<<l, k>> \in OpToRel(<, Nat))
  BY NatLessThanWellFounded, WFMin
<1>2. \A l \in T : ~(l < k)
  BY <1>1 DEF OpToRel
<1>. QED  BY <1>2

(* What defines the function in ArenaBytes.                                *)
SumsUp(f, n, a) ==
    f = [i \in 0 .. n |-> IF i = 0 THEN 0 ELSE f[i - 1] + a[i].size]

(* There is such a function, and its values are natural numbers.           *)
LEMMA SumsExist ==
    ASSUME NEW a, NEW n \in Nat, \A i \in 1 .. n : a[i].size \in Nat
    PROVE  \E f : SumsUp(f, n, a) /\ \A i \in 0 .. n : f[i] \in Nat
<1>. DEFINE Missing == {k \in 0 .. n : ~\E f : SumsUp(f, k, a) /\ \A i \in 0 .. k : f[i] \in Nat}
<1>. SUFFICES ASSUME Missing # {}  PROVE FALSE
  OBVIOUS
<1>0. Missing \subseteq Nat
  OBVIOUS
<1>1. PICK k \in Missing : \A l \in Missing : k <= l
  BY <1>0, LeastOne
<1>2. k # 0
  <2>1. SumsUp([i \in 0 .. 0 |-> 0], 0, a)
    BY DEF SumsUp
  <2>. QED  BY <1>1, <2>1
<1>3. k - 1 \in 0 .. n /\ k - 1 \notin Missing /\ k \in Nat /\ k \in 1 .. n
  BY <1>1, <1>2
<1>4. PICK f : SumsUp(f, k - 1, a) /\ \A i \in 0 .. k - 1 : f[i] \in Nat
  BY <1>3
<1>. DEFINE g == [i \in 0 .. k |-> IF i = k THEN f[k - 1] + a[k].size ELSE f[i]]
<1>5. \A i \in 0 .. k : g[i] \in Nat
  BY <1>3, <1>4
<1>6. \A i \in 0 .. k - 1 : f[i] = IF i = 0 THEN 0 ELSE f[i - 1] + a[i].size
  BY <1>4 DEF SumsUp
<1>7. ASSUME NEW i \in 0 .. k
      PROVE  g[i] = IF i = 0 THEN 0 ELSE g[i - 1] + a[i].size
  <2>1. CASE i = k
    BY <1>3, <2>1
  <2>2. CASE i # k
    <3>1. i \in 0 .. k - 1 /\ (i # 0 => i - 1 \in 0 .. k /\ i - 1 # k)
      BY <1>3, <2>2
    <3>2. g[i] = f[i] /\ (i # 0 => g[i - 1] = f[i - 1])
      BY <2>2, <3>1
    <3>. QED  BY <1>6, <3>1, <3>2
  <2>. QED  BY <2>1, <2>2
<1>8. SumsUp(g, k, a)
  BY <1>7 DEF SumsUp
<1>. QED  BY <1>1, <1>5, <1>8

(* It is the only one, and the same for a longer chain.                    *)
LEMMA SumsAgree ==
    ASSUME NEW a, NEW b, NEW n \in Nat, NEW k \in Nat, NEW f, NEW g,
           SumsUp(f, n, a), SumsUp(g, k, b), k <= n,
           \A i \in 1 .. k : a[i].size = b[i].size
    PROVE  \A i \in 0 .. k : f[i] = g[i]
<1>. SUFFICES ASSUME {i \in 0 .. k : f[i] # g[i]} # {}  PROVE FALSE
  OBVIOUS
<1>0. {i \in 0 .. k : f[i] # g[i]} \subseteq Nat
  OBVIOUS
<1>1. PICK j \in {i \in 0 .. k : f[i] # g[i]} : \A l \in {i \in 0 .. k : f[i] # g[i]} : j <= l
  BY <1>0, LeastOne
<1>2. f[j] = IF j = 0 THEN 0 ELSE f[j - 1] + a[j].size
  BY <1>1 DEF SumsUp
<1>3. g[j] = IF j = 0 THEN 0 ELSE g[j - 1] + b[j].size
  BY <1>1 DEF SumsUp
<1>4. j # 0 => j \in 1 .. k /\ j - 1 \in 0 .. k /\ f[j - 1] = g[j - 1]
  BY <1>1
<1>. QED  BY <1>1, <1>2, <1>3, <1>4

(* What ArenaBytes computes.                                               *)
LEMMA ArenaBytesIs ==
    ASSUME NEW a, NEW n \in Nat, \A i \in 1 .. n : a[i].size \in Nat
    PROVE  /\ ArenaBytes(a, n) \in Nat
           /\ ArenaBytes(a, 0) = 0
           /\ n > 0 => ArenaBytes(a, n) = ArenaBytes(a, n - 1) + a[n].size
<1>. DEFINE Sums(k) == CHOOSE f : SumsUp(f, k, a)
<1>1. \A k \in Nat : ArenaBytes(a, k) = Sums(k)[k]
  BY DEF ArenaBytes, SumsUp
<1>2. ASSUME NEW k \in 0 .. n
      PROVE  SumsUp(Sums(k), k, a) /\ Sums(k)[k] \in Nat
  <2>0. k \in Nat /\ \A i \in 1 .. k : a[i].size \in Nat
    OBVIOUS
  <2>1. PICK f : SumsUp(f, k, a) /\ \A i \in 0 .. k : f[i] \in Nat
    BY <2>0, SumsExist
  <2>2. SumsUp(Sums(k), k, a)
    BY <2>1
  <2>. HIDE DEF Sums
  <2>3. \A i \in 0 .. k : Sums(k)[i] = f[i]
    BY <2>1, <2>2, SumsAgree
  <2>. QED  BY <2>1, <2>2, <2>3
<1>. HIDE DEF Sums
<1>3. ArenaBytes(a, 0) = 0
  BY <1>1, <1>2 DEF SumsUp
<1>4. ASSUME n > 0  PROVE Sums(n)[n] = Sums(n - 1)[n - 1] + a[n].size
  <2>1. n - 1 \in 0 .. n /\ n - 1 \in Nat /\ n - 1 \in 0 .. n - 1
    BY <1>4
  <2>2. \A i \in 0 .. n - 1 : Sums(n)[i] = Sums(n - 1)[i]
    BY <1>2, <2>1, SumsAgree
  <2>3. Sums(n)[n] = Sums(n)[n - 1] + a[n].size
    BY <1>2, <1>4 DEF SumsUp
  <2>. QED  BY <2>1, <2>2, <2>3
<1>. QED  BY <1>1, <1>2, <1>3, <1>4

(* Arenas that are added at the end do not count among the first ones.     *)
LEMMA ArenaBytesSame ==
    ASSUME NEW a, NEW b, NEW n \in Nat, \A i \in 1 .. n : a[i].size \in Nat,
           \A i \in 1 .. n : a[i].size = b[i].size
    PROVE  ArenaBytes(b, n) = ArenaBytes(a, n)
<1>1. PICK f : SumsUp(f, n, a)
  BY SumsExist
<1>2. \A i \in 1 .. n : b[i].size \in Nat
  OBVIOUS
<1>3. PICK g : SumsUp(g, n, b)
  BY <1>2, SumsExist
<1>4. SumsUp(CHOOSE h : SumsUp(h, n, a), n, a) /\ SumsUp(CHOOSE h : SumsUp(h, n, b), n, b)
  BY <1>1, <1>3
<1>5. (CHOOSE h : SumsUp(h, n, a))[n] = (CHOOSE h : SumsUp(h, n, b))[n]
  BY <1>4, SumsAgree
<1>. QED  BY <1>5 DEF ArenaBytes, SumsUp

(* The further along the chain, the more there is.                         *)
LEMMA ArenaBytesGrow ==
    ASSUME NEW a, NEW n \in Nat, \A i \in 1 .. n : a[i].size \in Nat,
           NEW k \in 0 .. n
    PROVE  ArenaBytes(a, k) <= ArenaBytes(a, n)
<1>. DEFINE Less == {l \in k .. n : ~(ArenaBytes(a, k) <= ArenaBytes(a, l))}
<1>. SUFFICES ASSUME Less # {}  PROVE FALSE
  OBVIOUS
<1>0. Less \subseteq Nat
  OBVIOUS
<1>1. PICK j \in Less : \A l \in Less : j <= l
  BY <1>0, LeastOne
<1>2. \A l \in 0 .. n : ArenaBytes(a, l) \in Nat
  BY ArenaBytesIs
<1>3. j # k
  BY <1>1, <1>2
<1>4. j - 1 \in k .. n /\ j - 1 \notin Less /\ j \in 1 .. n /\ j > 0
  BY <1>1, <1>3
<1>5. ArenaBytes(a, j) = ArenaBytes(a, j - 1) + a[j].size
  BY <1>4, ArenaBytesIs
<1>. QED  BY <1>1, <1>2, <1>4, <1>5

(* Of some subsets of a finite set one has the fewest elements.            *)
LEMMA SmallestSet ==
    ASSUME NEW S, IsFiniteSet(S), NEW Q, Q \subseteq SUBSET S, Q # {}
    PROVE  \E s \in Q : \A q \in Q : Cardinality(s) <= Cardinality(q)
<1>1. \A s \in Q : IsFiniteSet(s) /\ Cardinality(s) \in Nat
  BY FS_Subset, FS_CardinalityType
<1>2. {Cardinality(s) : s \in Q} \subseteq Nat /\ {Cardinality(s) : s \in Q} # {}
  BY <1>1
<1>3. PICK k \in {Cardinality(s) : s \in Q} : \A l \in {Cardinality(s) : s \in Q} : k <= l
  BY <1>2, LeastOne
<1>. QED  BY <1>3

(* The block that a sum takes next, and its size.                          *)
Pick(s) == CHOOSE x \in s : TRUE
Width(b) == b.to - b.from

(* What defines the function in BlockBytes, on the subsets P.              *)
AddsUp(f, P) ==
    f = [s \in P |-> IF s = {} THEN 0 ELSE Width(Pick(s)) + f[s \ {Pick(s)}]]

(* A set without the block that is taken is smaller.                       *)
LEMMA PickIs ==
    ASSUME NEW s, s # {}, IsFiniteSet(s)
    PROVE  /\ Pick(s) \in s
           /\ IsFiniteSet(s \ {Pick(s)})
           /\ Cardinality(s) \in Nat /\ Cardinality(s) > 0
           /\ Cardinality(s \ {Pick(s)}) = Cardinality(s) - 1
<1>1. Pick(s) \in s
  BY DEF Pick
<1>2. Cardinality(s) \in Nat /\ Cardinality(s \ {Pick(s)}) \in Nat
  BY <1>1, FS_CardinalityType, FS_RemoveElement
<1>3. IsFiniteSet(s \ {Pick(s)}) /\ Cardinality(s \ {Pick(s)}) = Cardinality(s) - 1
  BY <1>1, FS_RemoveElement
<1>4. PICK n \in Nat, m \in Nat : n = Cardinality(s) /\ m = Cardinality(s \ {Pick(s)})
  BY <1>2
<1>5. m = n - 1
  BY <1>3, <1>4
<1>6. n > 0
  BY <1>5
<1>. QED  BY <1>1, <1>2, <1>3, <1>4, <1>6

(* There is a function that adds up the blocks of every subset.            *)
LEMMA AddsExist ==
    ASSUME NEW S, IsFiniteSet(S), \A b \in S : Width(b) \in Nat
    PROVE  \E f : AddsUp(f, SUBSET S) /\ \A s \in SUBSET S : f[s] \in Nat
<1>. DEFINE P(k) == {s \in SUBSET S : Cardinality(s) <= k}
            Adds(f, k) == AddsUp(f, P(k)) /\ \A s \in P(k) : f[s] \in Nat
            Missing == {k \in Nat : ~\E f : Adds(f, k)}
<1>1. \A s \in SUBSET S : /\ IsFiniteSet(s) /\ Cardinality(s) \in Nat
                          /\ Cardinality(s) <= Cardinality(S)
  BY FS_Subset, FS_CardinalityType
<1>2. Cardinality(S) \in Nat /\ P(Cardinality(S)) = SUBSET S
  BY <1>1, FS_CardinalityType
<1>3. Missing = {}
  <2>. SUFFICES ASSUME Missing # {}  PROVE FALSE
    OBVIOUS
  <2>0. Missing \subseteq Nat
    OBVIOUS
  <2>1. PICK k \in Missing : \A l \in Missing : k <= l
    BY <2>0, LeastOne
  <2>2. k # 0
    <3>1. \A s \in P(0) : s = {}
      BY <1>1, FS_EmptySet
    <3>2. Adds([s \in P(0) |-> 0], 0)
      BY <3>1 DEF AddsUp
    <3>. QED  BY <2>1, <3>2
  <2>3. k \in Nat /\ k - 1 \in Nat /\ k - 1 \notin Missing
    <3>. HIDE DEF Missing
    <3>1. k \in Nat
      BY <2>0, <2>1
    <3>2. k - 1 \in Nat /\ ~(k <= k - 1)
      BY <2>2, <3>1
    <3>. QED  BY <2>1, <3>1, <3>2
  <2>4. PICK f : Adds(f, k - 1)
    BY <2>3
  <2>. DEFINE g == [s \in P(k) |-> IF s = {} THEN 0 ELSE Width(Pick(s)) + f[s \ {Pick(s)}]]
  <2>5. ASSUME NEW s \in P(k), s # {}
        PROVE  Pick(s) \in S /\ s \ {Pick(s)} \in P(k - 1) /\ s \ {Pick(s)} \in P(k)
    <3>1. IsFiniteSet(s) /\ s \in SUBSET S /\ Cardinality(s) <= k
      BY <1>1, <2>5
    <3>2. /\ Pick(s) \in s /\ Cardinality(s) \in Nat
          /\ Cardinality(s \ {Pick(s)}) = Cardinality(s) - 1
      BY <2>5, <3>1, PickIs
    <3>. QED  BY <2>3, <3>1, <3>2
  <2>6. \A s \in P(k - 1) : s \in P(k)
    BY <1>1, <2>3
  <2>7. /\ \A s \in P(k - 1) : f[s] = IF s = {} THEN 0 ELSE Width(Pick(s)) + f[s \ {Pick(s)}]
        /\ \A s \in P(k - 1) : f[s] \in Nat
    BY <2>4 DEF AddsUp
  <2>. HIDE DEF P
  <2>8. \A s \in P(k) : g[s] = IF s = {} THEN 0 ELSE Width(Pick(s)) + f[s \ {Pick(s)}]
    OBVIOUS
  <2>9. \A s \in P(k - 1) : g[s] = f[s]
    BY <2>6, <2>7, <2>8
  <2>10. \A s \in P(k) : g[s] = IF s = {} THEN 0 ELSE Width(Pick(s)) + g[s \ {Pick(s)}]
    BY <2>5, <2>8, <2>9
  <2>11. AddsUp(g, P(k))
    BY <2>10 DEF AddsUp
  <2>12. \A s \in P(k) : g[s] \in Nat
    <3>. SUFFICES ASSUME NEW s \in P(k)  PROVE g[s] \in Nat
      OBVIOUS
    <3>1. CASE s = {}
      BY <2>8, <3>1
    <3>2. CASE s # {}
      <4>1. Width(Pick(s)) \in Nat /\ f[s \ {Pick(s)}] \in Nat
        BY <2>5, <2>7, <3>2
      <4>. QED  BY <2>8, <3>2, <4>1
    <3>. QED  BY <3>1, <3>2
  <2>. QED  BY <2>1, <2>11, <2>12
<1>4. PICK f : Adds(f, Cardinality(S))
  BY <1>2, <1>3
<1>. QED  BY <1>2, <1>4

(* What it says of a set is the same whatever larger set it is made for.   *)
LEMMA AddsAgree ==
    ASSUME NEW S, IsFiniteSet(S), NEW T, T \subseteq S,
           NEW f, NEW g, AddsUp(f, SUBSET S), AddsUp(g, SUBSET T)
    PROVE  f[T] = g[T]
<1>. DEFINE Q == {s \in SUBSET T : f[s] # g[s]}
<1>. SUFFICES ASSUME Q # {}  PROVE FALSE
  OBVIOUS
<1>1. PICK s \in Q : \A q \in Q : Cardinality(s) <= Cardinality(q)
  <2>1. Q \subseteq SUBSET S
    OBVIOUS
  <2>. QED  BY <2>1, SmallestSet
<1>2. s \in SUBSET S /\ s \in SUBSET T /\ IsFiniteSet(s)
  BY <1>1, FS_Subset
<1>3. f[s] = IF s = {} THEN 0 ELSE Width(Pick(s)) + f[s \ {Pick(s)}]
  BY <1>2 DEF AddsUp
<1>4. g[s] = IF s = {} THEN 0 ELSE Width(Pick(s)) + g[s \ {Pick(s)}]
  BY <1>2 DEF AddsUp
<1>5. ASSUME s # {}  PROVE f[s \ {Pick(s)}] = g[s \ {Pick(s)}]
  <2>1. /\ Cardinality(s) \in Nat /\ Cardinality(s) > 0
        /\ Cardinality(s \ {Pick(s)}) = Cardinality(s) - 1
    BY <1>2, <1>5, PickIs
  <2>2. s \ {Pick(s)} \notin Q
    BY <1>1, <2>1
  <2>. QED  BY <1>2, <2>2
<1>. QED  BY <1>1, <1>3, <1>4, <1>5

(* What BlockBytes computes, in the order of its sum.                      *)
LEMMA BlockBytesIs ==
    ASSUME NEW S, IsFiniteSet(S), \A b \in S : Width(b) \in Nat
    PROVE  /\ BlockBytes(S) \in Nat
           /\ S = {} => BlockBytes(S) = 0
           /\ S # {} => BlockBytes(S) = Width(Pick(S)) + BlockBytes(S \ {Pick(S)})
<1>. DEFINE Adds(T) == CHOOSE f : AddsUp(f, SUBSET T)
<1>1. \A T : BlockBytes(T) = Adds(T)[T]
  BY DEF BlockBytes, MapThenSumSet, MapThenFoldSet, AddsUp, Pick, Width
<1>2. ASSUME NEW T, T \subseteq S
      PROVE  AddsUp(Adds(T), SUBSET T) /\ Adds(T)[T] \in Nat
  <2>1. IsFiniteSet(T) /\ \A b \in T : Width(b) \in Nat
    BY <1>2, FS_Subset
  <2>2. PICK f : AddsUp(f, SUBSET T) /\ \A s \in SUBSET T : f[s] \in Nat
    BY <2>1, AddsExist
  <2>3. AddsUp(Adds(T), SUBSET T)
    BY <2>2
  <2>. HIDE DEF Adds
  <2>4. Adds(T)[T] = f[T]
    BY <2>1, <2>2, <2>3, AddsAgree
  <2>. QED  BY <2>2, <2>3, <2>4
<1>. HIDE DEF Adds
<1>3. Adds(S)[S] = IF S = {} THEN 0 ELSE Width(Pick(S)) + Adds(S)[S \ {Pick(S)}]
  BY <1>2 DEF AddsUp
<1>4. Adds(S)[S \ {Pick(S)}] = Adds(S \ {Pick(S)})[S \ {Pick(S)}]
  <2>1. S \ {Pick(S)} \subseteq S /\ S \subseteq S
    OBVIOUS
  <2>2. AddsUp(Adds(S), SUBSET S) /\ AddsUp(Adds(S \ {Pick(S)}), SUBSET (S \ {Pick(S)}))
    BY <1>2, <2>1
  <2>. QED  BY <2>1, <2>2, AddsAgree
<1>. QED  BY <1>1, <1>2, <1>3, <1>4

(* The sum does not depend on the order.                                   *)
LEMMA BlockBytesSplit ==
    ASSUME NEW S, IsFiniteSet(S), \A b \in S : Width(b) \in Nat, NEW e \in S
    PROVE  BlockBytes(S) = Width(e) + BlockBytes(S \ {e})
<1>. DEFINE Q == {s \in SUBSET S : \E x \in s : BlockBytes(s) # Width(x) + BlockBytes(s \ {x})}
<1>. SUFFICES ASSUME Q # {}  PROVE FALSE
  OBVIOUS
<1>1. PICK s \in Q : \A q \in Q : Cardinality(s) <= Cardinality(q)
  BY SmallestSet
<1>2. PICK x \in s : BlockBytes(s) # Width(x) + BlockBytes(s \ {x})
  BY <1>1
<1>3. s \in SUBSET S /\ s # {} /\ IsFiniteSet(s)
  BY <1>1, <1>2, FS_Subset
<1>4. PICK y \in s : y = Pick(s)
  BY <1>3, PickIs
<1>5. BlockBytes(s) = Width(y) + BlockBytes(s \ {y}) /\ y # x
  <2>1. \A b \in s : Width(b) \in Nat
    BY <1>3
  <2>. QED  BY <1>2, <1>3, <1>4, <2>1, BlockBytesIs
<1>6. \A z \in s : s \ {z} \notin Q
  <2>. SUFFICES ASSUME NEW z \in s  PROVE s \ {z} \notin Q
    OBVIOUS
  <2>1. Cardinality(s) \in Nat /\ Cardinality(s \ {z}) = Cardinality(s) - 1
    BY <1>3, FS_RemoveElement, FS_CardinalityType
  <2>. QED  BY <1>1, <2>1
<1>7. BlockBytes(s \ {y}) = Width(x) + BlockBytes((s \ {y}) \ {x})
  BY <1>3, <1>5, <1>6
<1>8. BlockBytes(s \ {x}) = Width(y) + BlockBytes((s \ {x}) \ {y})
  BY <1>3, <1>5, <1>6
<1>9. (s \ {x}) \ {y} = (s \ {y}) \ {x}
  OBVIOUS
<1>10. Width(x) \in Nat /\ Width(y) \in Nat /\ BlockBytes((s \ {y}) \ {x}) \in Nat
  <2>1. IsFiniteSet((s \ {y}) \ {x}) /\ \A b \in (s \ {y}) \ {x} : Width(b) \in Nat
    BY <1>3, FS_Subset
  <2>. QED  BY <1>3, <2>1, BlockBytesIs
<1>11. PICK wx \in Nat, wy \in Nat, rest \in Nat :
          wx = Width(x) /\ wy = Width(y) /\ rest = BlockBytes((s \ {y}) \ {x})
  BY <1>10
<1>12. BlockBytes(s \ {x}) = wy + rest
  BY <1>8, <1>9, <1>11
<1>13. BlockBytes(s) = wy + (wx + rest)
  BY <1>5, <1>7, <1>11
<1>14. wy + (wx + rest) = wx + (wy + rest)
  OBVIOUS
<1>. QED  BY <1>2, <1>11, <1>12, <1>13, <1>14

(* Fewer blocks have fewer bytes.                                          *)
LEMMA BlockBytesFewer ==
    ASSUME NEW S, IsFiniteSet(S), \A b \in S : Width(b) \in Nat,
           NEW T, T \subseteq S
    PROVE  BlockBytes(T) <= BlockBytes(S)
<1>. DEFINE Q == {s \in SUBSET S : T \subseteq s /\ ~(BlockBytes(T) <= BlockBytes(s))}
<1>. SUFFICES ASSUME Q # {}  PROVE FALSE
  OBVIOUS
<1>1. PICK s \in Q : \A q \in Q : Cardinality(s) <= Cardinality(q)
  BY SmallestSet
<1>2. \A q \in SUBSET S : /\ IsFiniteSet(q) /\ BlockBytes(q) \in Nat
                          /\ \A b \in q : Width(b) \in Nat
  BY FS_Subset, BlockBytesIs
<1>3. PICK e \in s : e \notin T
  BY <1>1, <1>2
<1>4. BlockBytes(s) = Width(e) + BlockBytes(s \ {e}) /\ Width(e) \in Nat
  BY <1>1, <1>2, BlockBytesSplit
<1>5. s \ {e} \in SUBSET S /\ T \subseteq s \ {e} /\ s \ {e} \notin Q
  <2>1. Cardinality(s) \in Nat /\ Cardinality(s \ {e}) = Cardinality(s) - 1
    BY <1>1, <1>2, FS_RemoveElement, FS_CardinalityType
  <2>. QED  BY <1>1, <1>3, <2>1
<1>. QED  BY <1>1, <1>2, <1>4, <1>5

(* A block more.                                                           *)
LEMMA BlockBytesMore ==
    ASSUME NEW S, IsFiniteSet(S), \A b \in S : Width(b) \in Nat,
           NEW e, Width(e) \in Nat
    PROVE  /\ BlockBytes(S) \in Nat /\ BlockBytes(S \cup {e}) \in Nat
           /\ BlockBytes(S \cup {e}) <= BlockBytes(S) + Width(e)
<1>1. IsFiniteSet(S \cup {e}) /\ \A b \in S \cup {e} : Width(b) \in Nat
  BY FS_AddElement
<1>2. BlockBytes(S) \in Nat /\ BlockBytes(S \cup {e}) \in Nat
  BY <1>1, BlockBytesIs
<1>3. CASE e \in S
  <2>1. BlockBytes(S \cup {e}) = BlockBytes(S)
    <3>1. S \cup {e} = S
      BY <1>3
    <3>. QED  BY <3>1
  <2>2. PICK n \in Nat, w \in Nat : n = BlockBytes(S) /\ w = Width(e)
    BY <1>2
  <2>3. n <= n + w
    OBVIOUS
  <2>. QED  BY <1>2, <2>1, <2>2, <2>3
<1>4. CASE e \notin S
  <2>1. (S \cup {e}) \ {e} = S
    BY <1>4
  <2>2. BlockBytes(S \cup {e}) = Width(e) + BlockBytes((S \cup {e}) \ {e})
    BY <1>1, BlockBytesSplit
  <2>3. PICK n \in Nat, w \in Nat : n = BlockBytes(S) /\ w = Width(e)
    BY <1>2
  <2>4. BlockBytes(S \cup {e}) = w + n
    BY <2>1, <2>2, <2>3
  <2>5. w + n <= n + w
    OBVIOUS
  <2>. QED  BY <1>2, <2>3, <2>4, <2>5
<1>. QED  BY <1>3, <1>4
-----------------------------------------------------------------------------
(* A multiple of d is divided by d without a remainder.                    *)
LEMMA MultipleHasNoRest ==
    ASSUME NEW d \in Nat \ {0}, NEW q \in Nat
    PROVE  (q * d) % d = 0
<1>. DEFINE z == q * d
            k == z \div d
            r0 == z % d
<1>1. z \in Nat
  OBVIOUS
<1>2. k \in Int /\ r0 \in 0 .. d - 1 /\ z = d * k + r0
  BY <1>1
<1>3. PICK y \in Int, r1 \in Int, e \in Int :
        /\ y = q - k /\ r1 = r0 /\ e = d /\ 0 <= r1 /\ r1 < e /\ e > 0
  BY <1>2
<1>4. e * y = r1
  BY <1>1, <1>2, <1>3
<1>5. y = 0
  <2>1. y >= 1 => e * y >= e
    BY <1>3
  <2>2. y <= -1 => e * y < 0
    BY <1>3
  <2>. QED  BY <1>3, <1>4, <2>1, <2>2
<1>. QED  BY <1>3, <1>4, <1>5

(* AlignPointer does not go back, and what it returns is aligned.          *)
LEMMA AlignPointerIs ==
    ASSUME NEW arena, arena.address \in Nat, NEW ptr \in Nat, NEW alignment \in Nat \ {0}
    PROVE  /\ AlignPointer(arena, ptr, alignment) \in Nat
           /\ ptr <= AlignPointer(arena, ptr, alignment)
           /\ (arena.address + AlignPointer(arena, ptr, alignment)) % alignment = 0
<1>1. PICK a \in Nat : a = arena.address
  OBVIOUS
<1>. DEFINE x == a + ptr + alignment - 1
            q == x \div alignment
<1>2. x \in Nat
  BY <1>1
<1>3. q \in Nat /\ x % alignment \in 0 .. alignment - 1 /\ x = alignment * q + (x % alignment)
  BY <1>2
<1>4. PICK n \in Nat : n = q * alignment
  BY <1>3
<1>5. a + ptr <= n
  <2>1. PICK r1 \in 0 .. alignment - 1 : x = n + r1
    BY <1>3, <1>4
  <2>. QED  BY <1>1, <1>2, <2>1
<1>6. n % alignment = 0
  BY <1>3, <1>4, MultipleHasNoRest
<1>7. AlignPointer(arena, ptr, alignment) = n - a
  BY <1>1, <1>4 DEF AlignPointer
<1>8. n - a \in Nat /\ ptr <= n - a /\ a + (n - a) = n
  BY <1>1, <1>4, <1>5
<1>. QED  BY <1>1, <1>6, <1>7, <1>8
-----------------------------------------------------------------------------
(* The block ends at or before a position in the chain.                    *)
Before(b, pos) ==
    b.arena < pos.cur \/ (b.arena = pos.cur /\ b.to <= pos.ptr)

(* What is held from outside the k-th Scoped call.                         *)
Outside(B, k) == {b \in B : b.depth < k}

(* The position pos is in the chain, and the blocks S are before it.       *)
Covers(arenas, pos, S) ==
    /\ pos.cur \in 1 .. Len(arenas)
    /\ pos.ptr \in 0 .. arenas[pos.cur].size
    /\ \A b \in S : Before(b, pos)
    /\ BlockBytes(S) <= ArenaBytes(arenas, pos.cur - 1) + pos.ptr

(* cur_arena_ and cur_ptr_, as Scoped saves them.                          *)
Current(m) == [cur |-> m.cur, ptr |-> m.ptr]

(* The kinds of values, and no block deeper than the calls that run.       *)
ChainTypes(m, B, sc) ==
    /\ m \in [arenas : Seq([address : Nat, size : Nat]),
              cur : Nat, ptr : Nat, total : Nat]
    /\ sc \in Seq([cur : Nat, ptr : Nat])
    /\ IsFiniteSet(B)
    /\ B \subseteq [arena : Nat, from : Nat, to : Nat,
                    alignment : Nat \ {0}, depth : Nat]
    /\ \A b \in B : b.from <= b.to /\ b.depth <= Len(sc)

(* A saved position covers what the call it belongs to will leave behind.  *)
LevelsCover(m, B, sc) ==
    /\ m.cur = 0 => B = {} /\ sc = <<>>
    /\ m.cur # 0 => /\ Covers(m.arenas, Current(m), B)
                    /\ \A k \in 1 .. Len(sc) : Covers(m.arenas, sc[k], Outside(B, k))

(* Usable and Disjoint, for one allocator.                                 *)
BlocksInside(m, B) ==
    \A b \in B :
        /\ b.arena \in 1 .. Len(m.arenas)
        /\ b.to <= m.arenas[b.arena].size
        /\ (m.arenas[b.arena].address + b.from) % b.alignment = 0

BlocksApart(B) ==
    \A b, c \in B :
        b # c => b.arena # c.arena \/ b.to <= c.from \/ c.to <= b.from

(* One allocator: its chain, the blocks held in it, what its calls saved.  *)
Sound(m, B, sc) ==
    /\ ChainTypes(m, B, sc)
    /\ m.total = ArenaBytes(m.arenas, Len(m.arenas))
    /\ LevelsCover(m, B, sc)
    /\ BlocksInside(m, B)
    /\ BlocksApart(B)

ScratchIInv ==
    /\ mem = [o \in Allocators |-> mem[o]]
    /\ blocks = [o \in Allocators |-> blocks[o]]
    /\ scopes = [o \in Allocators |-> scopes[o]]
    /\ \A o \in Allocators : Sound(mem[o], blocks[o], scopes[o])

(* The blocks of an allocator can be summed up.                            *)
LEMMA HeldIsSummable ==
    ASSUME NEW m, NEW B, NEW sc, ChainTypes(m, B, sc), NEW S, S \subseteq B
    PROVE  /\ IsFiniteSet(S) /\ BlockBytes(S) \in Nat
           /\ \A b \in S : Width(b) \in Nat
<1>1. IsFiniteSet(S)
  BY FS_Subset DEF ChainTypes
<1>2. ASSUME NEW b \in S  PROVE Width(b) \in Nat
  <2>1. b.from \in Nat /\ b.to \in Nat /\ b.from <= b.to
    BY DEF ChainTypes
  <2>. QED  BY <2>1 DEF Width
<1>. QED  BY <1>1, <1>2, BlockBytesIs

(* The arenas of an allocator have sizes that can be summed up.            *)
LEMMA ChainIsSummable ==
    ASSUME NEW m, NEW B, NEW sc, ChainTypes(m, B, sc)
    PROVE  /\ Len(m.arenas) \in Nat
           /\ \A i \in 1 .. Len(m.arenas) :
                 m.arenas[i].size \in Nat /\ m.arenas[i].address \in Nat
           /\ \A n \in 0 .. Len(m.arenas) : ArenaBytes(m.arenas, n) \in Nat
<1>1. m.arenas \in Seq([address : Nat, size : Nat])
  BY DEF ChainTypes
<1>2. PICK l \in Nat : l = Len(m.arenas)
  BY <1>1
<1>3. \A i \in 1 .. l : m.arenas[i] \in [address : Nat, size : Nat]
  <2>1. PICK s \in Seq([address : Nat, size : Nat]) : s = m.arenas
    BY <1>1
  <2>2. \A i \in 1 .. Len(s) : s[i] \in [address : Nat, size : Nat]
    BY ElementOfSeq
  <2>. QED  BY <1>2, <2>1, <2>2
<1>4. \A i \in 1 .. l : m.arenas[i].size \in Nat /\ m.arenas[i].address \in Nat
  BY <1>3
<1>5. ASSUME NEW n \in 0 .. l  PROVE ArenaBytes(m.arenas, n) \in Nat
  <2>1. n \in Nat /\ \A i \in 1 .. n : m.arenas[i].size \in Nat
    BY <1>4
  <2>. QED  BY <2>1, ArenaBytesIs
<1>. QED  BY <1>2, <1>4, <1>5

(* With fewer blocks a position still covers them.                         *)
LEMMA CoversFewer ==
    ASSUME NEW m, NEW B, NEW sc, ChainTypes(m, B, sc), NEW S, S \subseteq B,
           NEW T, T \subseteq S, NEW pos, pos.ptr \in Nat, Covers(m.arenas, pos, S)
    PROVE  Covers(m.arenas, pos, T)
<1>1. BlockBytes(T) <= BlockBytes(S) /\ BlockBytes(T) \in Nat /\ BlockBytes(S) \in Nat
  <2>1. IsFiniteSet(S) /\ \A b \in S : Width(b) \in Nat
    BY HeldIsSummable
  <2>2. T \subseteq B
    OBVIOUS
  <2>. QED  BY <2>1, <2>2, BlockBytesFewer, HeldIsSummable
<1>2. ArenaBytes(m.arenas, pos.cur - 1) \in Nat
  <2>1. pos.cur - 1 \in 0 .. Len(m.arenas)
    <3>1. PICK l \in Nat : l = Len(m.arenas)
      BY ChainIsSummable
    <3>2. pos.cur \in 1 .. l
      BY <3>1 DEF Covers
    <3>. QED  BY <3>1, <3>2
  <2>. QED  BY <2>1, ChainIsSummable
<1>3. BlockBytes(S) <= ArenaBytes(m.arenas, pos.cur - 1) + pos.ptr
  BY DEF Covers
<1>4. BlockBytes(T) <= ArenaBytes(m.arenas, pos.cur - 1) + pos.ptr
  <2>1. PICK t1 \in Nat, s1 \in Nat, a1 \in Nat, p1 \in Nat :
          /\ t1 = BlockBytes(T) /\ s1 = BlockBytes(S)
          /\ a1 = ArenaBytes(m.arenas, pos.cur - 1) /\ p1 = pos.ptr
    BY <1>1, <1>2
  <2>2. t1 <= s1 /\ s1 <= a1 + p1
    BY <1>1, <1>3, <2>1
  <2>3. t1 <= a1 + p1
    BY <2>2
  <2>. QED  BY <2>1, <2>3
<1>. QED  BY <1>4 DEF Covers

(* A longer chain of arenas keeps what a position covers.                  *)
LEMMA CoversLonger ==
    ASSUME NEW m, NEW B, NEW sc, ChainTypes(m, B, sc), NEW S, NEW pos,
           Covers(m.arenas, pos, S), NEW a \in [address : Nat, size : Nat]
    PROVE  Covers(Append(m.arenas, a), pos, S)
<1>1. PICK l \in Nat : l = Len(m.arenas)
  BY ChainIsSummable
<1>2. /\ m.arenas \in Seq([address : Nat, size : Nat])
      /\ pos.cur \in 1 .. l /\ pos.cur - 1 \in 0 .. l /\ pos.cur - 1 \in Nat
  <2>1. m.arenas \in Seq([address : Nat, size : Nat])
    BY DEF ChainTypes
  <2>2. pos.cur \in 1 .. l
    BY <1>1 DEF Covers
  <2>3. pos.cur - 1 \in 0 .. l /\ pos.cur - 1 \in Nat
    BY <2>2
  <2>. QED  BY <2>1, <2>2, <2>3
<1>3. /\ Len(Append(m.arenas, a)) = l + 1
      /\ \A i \in 1 .. l : Append(m.arenas, a)[i] = m.arenas[i]
  BY <1>1, <1>2
<1>4. ArenaBytes(Append(m.arenas, a), pos.cur - 1) = ArenaBytes(m.arenas, pos.cur - 1)
  <2>1. \A i \in 1 .. pos.cur - 1 : i \in 1 .. l
    BY <1>2
  <2>2. /\ \A i \in 1 .. pos.cur - 1 : m.arenas[i].size \in Nat
        /\ \A i \in 1 .. pos.cur - 1 : m.arenas[i].size = Append(m.arenas, a)[i].size
    BY <1>1, <1>3, <2>1, ChainIsSummable
  <2>. QED  BY <1>2, <2>2, ArenaBytesSame
<1>5. pos.cur \in 1 .. l + 1
  BY <1>2
<1>. QED  BY <1>2, <1>3, <1>4, <1>5 DEF Covers

(* A new arena at the end of the chain.                                    *)
LEMMA GrowKeeps ==
    ASSUME NEW m, NEW B, NEW sc, Sound(m, B, sc), NEW a \in Nat, NEW size \in Nat
    PROVE  LET n == Grow(m, a, size)
               last == Len(m.arenas) + 1
           IN  /\ Sound(n, B, sc)
               /\ Len(n.arenas) = last
               /\ n.arenas[last].address = a
               /\ size <= n.arenas[last].size
               /\ n.cur = m.cur
<1>. DEFINE new == Larger(2 * m.total, size)
            n == Grow(m, a, size)
            last == Len(m.arenas) + 1
<1>0. ChainTypes(m, B, sc)
  BY DEF Sound
<1>1. /\ m \in [arenas : Seq([address : Nat, size : Nat]), cur : Nat, ptr : Nat, total : Nat]
      /\ m.arenas \in Seq([address : Nat, size : Nat])
      /\ m.cur \in Nat /\ m.ptr \in Nat /\ m.total \in Nat
  BY <1>0 DEF ChainTypes
<1>2. new \in Nat /\ size <= new
  BY <1>1 DEF Larger
<1>3. PICK x \in [address : Nat, size : Nat] : x = Arena(a, new)
  BY <1>2 DEF Arena
<1>4. x.address = a /\ x.size = new
  BY <1>3 DEF Arena
<1>. HIDE DEF new
<1>5. /\ n.arenas = Append(m.arenas, x) /\ n.total = m.total + new
      /\ n.cur = m.cur /\ n.ptr = m.ptr
      /\ n \in [arenas : Seq([address : Nat, size : Nat]), cur : Nat, ptr : Nat, total : Nat]
  <2>1. n = [m EXCEPT !.arenas = Append(@, x), !.total = @ + new]
    BY <1>3 DEF Grow, new
  <2>2. Append(m.arenas, x) \in Seq([address : Nat, size : Nat])
    BY <1>1
  <2>3. m.total + new \in Nat
    BY <1>1, <1>2
  <2>. HIDE DEF n
  <2>. QED  BY <1>1, <2>1, <2>2, <2>3
<1>. HIDE DEF n
<1>6. PICK l \in Nat : l = Len(m.arenas)
  BY <1>0, ChainIsSummable
<1>7. /\ Len(n.arenas) = l + 1
      /\ n.arenas[l + 1] = x
      /\ \A i \in 1 .. l : n.arenas[i] = m.arenas[i]
  BY <1>1, <1>5, <1>6
<1>8. ChainTypes(n, B, sc)
  BY <1>0, <1>5 DEF ChainTypes
<1>9. n.total = ArenaBytes(n.arenas, Len(n.arenas))
  <2>1. \A i \in 1 .. l + 1 : n.arenas[i].size \in Nat
    BY <1>7, <1>8, ChainIsSummable
  <2>2. ArenaBytes(n.arenas, l + 1) = ArenaBytes(n.arenas, l + 1 - 1) + n.arenas[l + 1].size
    <3>1. l + 1 \in Nat /\ l + 1 > 0
      OBVIOUS
    <3>. QED  BY <2>1, <3>1, ArenaBytesIs
  <2>3. ArenaBytes(n.arenas, l) = ArenaBytes(m.arenas, l)
    <3>1. \A i \in 1 .. l : m.arenas[i].size \in Nat /\ m.arenas[i].size = n.arenas[i].size
      BY <1>0, <1>6, <1>7, ChainIsSummable
    <3>. QED  BY <3>1, ArenaBytesSame
  <2>4. m.total = ArenaBytes(m.arenas, l)
    BY <1>6 DEF Sound
  <2>5. l + 1 - 1 = l
    OBVIOUS
  <2>. QED  BY <1>4, <1>5, <1>7, <2>2, <2>3, <2>4, <2>5
<1>10. LevelsCover(n, B, sc)
  <2>1. Current(n) = Current(m)
    BY <1>5 DEF Current
  <2>2. LevelsCover(m, B, sc)
    BY DEF Sound
  <2>3. \A pos, S : Covers(m.arenas, pos, S) => Covers(n.arenas, pos, S)
    <3>. SUFFICES ASSUME NEW pos, NEW S, Covers(m.arenas, pos, S)
                  PROVE  Covers(n.arenas, pos, S)
      OBVIOUS
    <3>1. Covers(Append(m.arenas, x), pos, S)
      BY <1>0, CoversLonger
    <3>. QED  BY <1>5, <3>1
  <2>. QED  BY <1>5, <2>1, <2>2, <2>3 DEF LevelsCover
<1>11. BlocksInside(n, B)
  <2>1. BlocksInside(m, B)
    BY DEF Sound
  <2>2. \A b \in B : b.arena \in 1 .. l /\ b.arena \in 1 .. l + 1
    BY <1>6, <2>1 DEF BlocksInside
  <2>. QED  BY <1>7, <2>1, <2>2 DEF BlocksInside
<1>12. Sound(n, B, sc)
  BY <1>8, <1>9, <1>10, <1>11 DEF Sound
<1>. QED  BY <1>2, <1>4, <1>5, <1>6, <1>7, <1>12 DEF n

(* A caller gives some of its blocks up.                                   *)
LEMMA FreeKeeps ==
    ASSUME NEW m, NEW B, NEW sc, Sound(m, B, sc), NEW C, C \subseteq B
    PROVE  Sound(m, C, sc)
<1>0. ChainTypes(m, B, sc)
  BY DEF Sound
<1>1. ChainTypes(m, C, sc)
  BY <1>0, FS_Subset DEF ChainTypes
<1>2. LevelsCover(m, C, sc)
  <2>1. LevelsCover(m, B, sc)
    BY DEF Sound
  <2>2. m.ptr \in Nat /\ Current(m).ptr \in Nat
    BY <1>0 DEF ChainTypes, Current
  <2>3. m.cur # 0 => Covers(m.arenas, Current(m), C)
    BY <1>0, <2>1, <2>2, CoversFewer DEF LevelsCover
  <2>4. ASSUME m.cur # 0, NEW k \in 1 .. Len(sc)
        PROVE  Covers(m.arenas, sc[k], Outside(C, k))
    <3>1. sc[k].ptr \in Nat
      <4>1. sc \in Seq([cur : Nat, ptr : Nat])
        BY <1>0 DEF ChainTypes
      <4>2. sc[k] \in [cur : Nat, ptr : Nat]
        BY <4>1, ElementOfSeq
      <4>. QED  BY <4>2
    <3>2. Outside(C, k) \subseteq Outside(B, k) /\ Outside(B, k) \subseteq B
      BY DEF Outside
    <3>3. Covers(m.arenas, sc[k], Outside(B, k))
      BY <2>1, <2>4 DEF LevelsCover
    <3>. QED  BY <1>0, <3>1, <3>2, <3>3, CoversFewer
  <2>. QED  BY <2>1, <2>3, <2>4 DEF LevelsCover
<1>3. BlocksInside(m, C) /\ BlocksApart(C)
  BY DEF Sound, BlocksInside, BlocksApart
<1>. QED  BY <1>1, <1>2, <1>3 DEF Sound

(* Purge: nothing is held, and the position is the begin of the chain.     *)
LEMMA PurgeKeeps ==
    ASSUME NEW m, NEW B, NEW sc, Sound(m, B, sc), m.cur # 0
    PROVE  Sound([m EXCEPT !.cur = 1, !.ptr = 0], {}, sc)
<1>. DEFINE n == [m EXCEPT !.cur = 1, !.ptr = 0]
<1>0. Sound(m, {}, sc)
  BY FreeKeeps
<1>1. ChainTypes(m, {}, sc) /\ LevelsCover(m, {}, sc)
  BY <1>0 DEF Sound
<1>2. /\ n.arenas = m.arenas /\ n.cur = 1 /\ n.ptr = 0 /\ n.total = m.total
      /\ n \in [arenas : Seq([address : Nat, size : Nat]), cur : Nat, ptr : Nat, total : Nat]
  BY <1>1 DEF ChainTypes
<1>. HIDE DEF n
<1>3. ChainTypes(n, {}, sc)
  BY <1>1, <1>2 DEF ChainTypes
<1>4. Covers(n.arenas, Current(n), {})
  <2>1. PICK l \in Nat : l = Len(n.arenas) /\ \A i \in 1 .. l : n.arenas[i].size \in Nat
    BY <1>3, ChainIsSummable
  <2>2. m.cur \in 1 .. l
    BY <1>1, <1>2, <2>1 DEF LevelsCover, Covers, Current
  <2>3. 1 \in 1 .. l /\ 0 \in 0 .. n.arenas[1].size
    BY <2>1, <2>2
  <2>4. BlockBytes({}) = 0 /\ ArenaBytes(n.arenas, 0) = 0
    <3>1. IsFiniteSet({})
      BY FS_EmptySet
    <3>. QED  BY <2>1, <3>1, BlockBytesIs, ArenaBytesIs
  <2>5. Current(n).cur = 1 /\ Current(n).ptr = 0 /\ 1 - 1 = 0
    BY <1>2 DEF Current
  <2>6. BlockBytes({}) <= ArenaBytes(n.arenas, 1 - 1) + 0
    BY <2>4, <2>5
  <2>. QED  BY <2>1, <2>3, <2>5, <2>6 DEF Covers
<1>5. LevelsCover(n, {}, sc)
  BY <1>1, <1>2, <1>4 DEF LevelsCover
<1>6. n.total = ArenaBytes(n.arenas, Len(n.arenas))
  BY <1>0, <1>2 DEF Sound
<1>7. Sound(n, {}, sc)
  BY <1>3, <1>5, <1>6 DEF Sound, BlocksInside, BlocksApart
<1>. QED  BY <1>7 DEF n

(* Scoped saves the position, which covers all that is held.               *)
LEMMA EnterKeeps ==
    ASSUME NEW m, NEW B, NEW sc, Sound(m, B, sc), m.cur # 0
    PROVE  Sound(m, B, Append(sc, Current(m)))
<1>. DEFINE q == Append(sc, Current(m))
<1>0. ChainTypes(m, B, sc) /\ LevelsCover(m, B, sc)
  BY DEF Sound
<1>1. sc \in Seq([cur : Nat, ptr : Nat]) /\ Current(m) \in [cur : Nat, ptr : Nat]
  BY <1>0 DEF ChainTypes, Current
<1>2. PICK l \in Nat : l = Len(sc)
  BY <1>1
<1>3. /\ q \in Seq([cur : Nat, ptr : Nat]) /\ Len(q) = l + 1
      /\ q[l + 1] = Current(m) /\ \A k \in 1 .. l : q[k] = sc[k]
  BY <1>1, <1>2
<1>. HIDE DEF q
<1>4. \A b \in B : b.depth \in Nat /\ b.depth <= l
  BY <1>0, <1>2 DEF ChainTypes
<1>5. ChainTypes(m, B, q)
  <2>1. \A b \in B : b.depth <= l + 1
    BY <1>4
  <2>. QED  BY <1>0, <1>3, <2>1 DEF ChainTypes
<1>6. Outside(B, l + 1) = B
  BY <1>4 DEF Outside
<1>7. ASSUME NEW k \in 1 .. l + 1  PROVE Covers(m.arenas, q[k], Outside(B, k))
  <2>1. CASE k = l + 1
    BY <1>0, <1>3, <1>6, <2>1 DEF LevelsCover
  <2>2. CASE k # l + 1
    <3>1. k \in 1 .. l
      BY <2>2
    <3>. QED  BY <1>0, <1>2, <1>3, <3>1 DEF LevelsCover
  <2>. QED  BY <2>1, <2>2
<1>8. LevelsCover(m, B, q)
  BY <1>0, <1>3, <1>7 DEF LevelsCover
<1>9. Sound(m, B, q)
  BY <1>5, <1>8 DEF Sound
<1>. QED  BY <1>9 DEF q

(* The end of a Scoped call: the position it saved covers what is left.    *)
LEMMA ExitKeeps ==
    ASSUME NEW m, NEW B, NEW sc, Sound(m, B, sc), NEW d, d = Len(sc), d > 0
    PROVE  Sound([m EXCEPT !.cur = sc[d].cur, !.ptr = sc[d].ptr],
                 Outside(B, d), SubSeq(sc, 1, d - 1))
<1>. DEFINE n == [m EXCEPT !.cur = sc[d].cur, !.ptr = sc[d].ptr]
            C == Outside(B, d)
            q == SubSeq(sc, 1, d - 1)
<1>0. ChainTypes(m, B, sc) /\ LevelsCover(m, B, sc)
  BY DEF Sound
<1>1. sc \in Seq([cur : Nat, ptr : Nat]) /\ d \in Nat /\ d \in 1 .. Len(sc)
  <2>1. sc \in Seq([cur : Nat, ptr : Nat])
    BY <1>0 DEF ChainTypes
  <2>. QED  BY <2>1
<1>2. sc[d] \in [cur : Nat, ptr : Nat]
  BY <1>1, ElementOfSeq
<1>3. /\ n.arenas = m.arenas /\ n.total = m.total
      /\ n.cur = sc[d].cur /\ n.ptr = sc[d].ptr
      /\ n \in [arenas : Seq([address : Nat, size : Nat]), cur : Nat, ptr : Nat, total : Nat]
  BY <1>0, <1>2 DEF ChainTypes
<1>4. /\ q \in Seq([cur : Nat, ptr : Nat]) /\ Len(q) = d - 1
      /\ \A k \in 1 .. d - 1 : q[k] = sc[k]
  <2>1. d - 1 \in Nat /\ d - 1 <= Len(sc) /\ \A k \in 1 .. d - 1 : k \in 1 .. Len(sc)
    BY <1>1
  <2>2. q \in Seq([cur : Nat, ptr : Nat])
    <3>1. \A k \in 1 .. d - 1 : sc[k] \in [cur : Nat, ptr : Nat]
      BY <1>1, <2>1, ElementOfSeq
    <3>. QED  BY <1>1, <2>1, <3>1, SubSeqProperties
  <2>3. Len(q) = d - 1 /\ \A k \in 1 .. d - 1 : q[k] = sc[k]
    BY <1>1, <2>1, SubSeqProperties
  <2>. QED  BY <2>2, <2>3
<1>5. C \subseteq B /\ \A b \in C : b.depth < d
  BY DEF Outside
<1>6. \A b \in C : b.depth <= d - 1
  BY <1>0, <1>1, <1>5 DEF ChainTypes
<1>7. m.cur # 0
  <2>. SUFFICES ASSUME m.cur = 0  PROVE FALSE
    OBVIOUS
  <2>1. sc = <<>>
    BY <1>0 DEF LevelsCover
  <2>. QED  BY <2>1, <1>1
<1>8. Sound(m, C, sc)
  BY <1>5, FreeKeeps
<1>9. Covers(m.arenas, sc[d], C)
  BY <1>0, <1>1, <1>7 DEF LevelsCover
<1>10. \A k \in 1 .. d - 1 : Covers(m.arenas, sc[k], Outside(C, k))
  <2>1. \A k \in 1 .. d - 1 : k \in 1 .. Len(sc)
    BY <1>1
  <2>. QED  BY <1>7, <1>8, <2>1 DEF Sound, LevelsCover
<1>. HIDE DEF n, C, q
<1>11. ChainTypes(n, C, q)
  BY <1>3, <1>4, <1>6, <1>8 DEF Sound, ChainTypes
<1>12. LevelsCover(n, C, q)
  <2>1. Current(n) = sc[d]
    BY <1>2, <1>3 DEF Current
  <2>2. n.cur # 0
    <3>1. PICK l \in Nat : l = Len(m.arenas)
      BY <1>0, ChainIsSummable
    <3>2. sc[d].cur \in 1 .. l
      BY <1>9, <3>1 DEF Covers
    <3>. QED  BY <1>3, <3>2
  <2>. QED  BY <1>3, <1>4, <1>9, <1>10, <2>1, <2>2 DEF LevelsCover
<1>13. n.total = ArenaBytes(n.arenas, Len(n.arenas))
  BY <1>3 DEF Sound
<1>14. BlocksInside(n, C) /\ BlocksApart(C)
  BY <1>3, <1>8 DEF Sound, BlocksInside
<1>15. Sound(n, C, q)
  BY <1>11, <1>12, <1>13, <1>14 DEF Sound
<1>. QED  BY <1>15 DEF n, C, q

(* A block is placed at or behind the position, and the position moves     *)
(* behind the block.                                                       *)
LEMMA PlaceKeeps ==
    ASSUME NEW m, NEW B, NEW sc, Sound(m, B, sc), m.cur # 0,
           NEW i \in m.cur .. Len(m.arenas), NEW from \in Nat, NEW size \in Nat,
           NEW alignment \in Nat \ {0}, Begin(m, i) <= from,
           from + size <= m.arenas[i].size,
           (m.arenas[i].address + from) % alignment = 0
    PROVE  Sound([m EXCEPT !.cur = i, !.ptr = from + size],
                 B \cup {[arena |-> i, from |-> from, to |-> from + size,
                          alignment |-> alignment, depth |-> Len(sc)]},
                 sc)
<1>. DEFINE n == [m EXCEPT !.cur = i, !.ptr = from + size]
            e == [arena |-> i, from |-> from, to |-> from + size,
                  alignment |-> alignment, depth |-> Len(sc)]
            C == B \cup {e}
<1>0. ChainTypes(m, B, sc) /\ LevelsCover(m, B, sc)
  BY DEF Sound
<1>1. PICK l \in Nat : l = Len(m.arenas)
  BY <1>0, ChainIsSummable
<1>2. /\ m.cur \in 1 .. l /\ m.ptr \in Nat /\ m.ptr <= m.arenas[m.cur].size
      /\ \A b \in B : b.arena < m.cur \/ (b.arena = m.cur /\ b.to <= m.ptr)
      /\ BlockBytes(B) <= ArenaBytes(m.arenas, m.cur - 1) + m.ptr
  <2>1. Covers(m.arenas, Current(m), B)
    BY <1>0 DEF LevelsCover
  <2>2. Current(m).cur = m.cur /\ Current(m).ptr = m.ptr
    BY DEF Current
  <2>3. m.arenas[m.cur].size \in Nat
    BY <1>0, <2>1, <2>2, ChainIsSummable DEF Covers
  <2>. QED  BY <1>1, <2>1, <2>2, <2>3 DEF Covers, Before
<1>3. i \in 1 .. l /\ m.cur <= i
  BY <1>1, <1>2
<1>4. Len(sc) \in Nat
  BY <1>0 DEF ChainTypes
<1>5. /\ e \in [arena : Nat, from : Nat, to : Nat, alignment : Nat \ {0}, depth : Nat]
      /\ e.arena = i /\ e.from = from /\ e.to = from + size
      /\ e.alignment = alignment /\ e.depth = Len(sc)
  BY <1>3, <1>4
<1>6. /\ n.arenas = m.arenas /\ n.total = m.total /\ n.cur = i /\ n.ptr = from + size
      /\ n \in [arenas : Seq([address : Nat, size : Nat]), cur : Nat, ptr : Nat, total : Nat]
  <2>1. i \in Nat /\ from + size \in Nat
    BY <1>3
  <2>2. m \in [arenas : Seq([address : Nat, size : Nat]), cur : Nat, ptr : Nat, total : Nat]
    BY <1>0 DEF ChainTypes
  <2>. QED  BY <2>1, <2>2
<1>. HIDE DEF n, e
<1>7. ChainTypes(n, C, sc)
  <2>1. IsFiniteSet(C)
    BY <1>0, FS_AddElement DEF ChainTypes
  <2>2. e.from <= e.to /\ e.depth <= Len(sc)
    BY <1>4, <1>5
  <2>. QED  BY <1>0, <1>5, <1>6, <2>1, <2>2 DEF ChainTypes
<1>8. \A b \in B : b.arena \in Nat /\ b.from \in Nat /\ b.to \in Nat
  BY <1>0 DEF ChainTypes
<1>9. ASSUME NEW b \in B, b.arena = i  PROVE b.to <= from
  <2>1. m.cur = i /\ b.to <= m.ptr
    BY <1>2, <1>3, <1>8, <1>9
  <2>2. m.ptr <= from
    BY <2>1 DEF Begin
  <2>. QED  BY <1>2, <1>8, <2>1, <2>2
<1>10. BlockBytes(C) <= ArenaBytes(m.arenas, i - 1) + (from + size)
  <2>1. /\ BlockBytes(B) \in Nat /\ BlockBytes(C) \in Nat
        /\ BlockBytes(C) <= BlockBytes(B) + Width(e)
    <3>1. IsFiniteSet(B) /\ \A b \in B : Width(b) \in Nat
      BY <1>0, HeldIsSummable
    <3>2. Width(e) \in Nat
      BY <1>5 DEF Width
    <3>. QED  BY <3>1, <3>2, BlockBytesMore
  <2>2. Width(e) = size
    BY <1>5 DEF Width
  <2>3. /\ m.cur - 1 \in 0 .. l /\ i - 1 \in 0 .. l
        /\ ArenaBytes(m.arenas, m.cur - 1) \in Nat /\ ArenaBytes(m.arenas, i - 1) \in Nat
    <3>1. m.cur - 1 \in 0 .. l /\ i - 1 \in 0 .. l
      BY <1>2, <1>3
    <3>. QED  BY <1>0, <1>1, <3>1, ChainIsSummable
  <2>4. ArenaBytes(m.arenas, m.cur - 1) + m.ptr <= ArenaBytes(m.arenas, i - 1) + from
    <3>1. CASE i = m.cur
      <4>1. m.ptr <= from
        BY <3>1 DEF Begin
      <4>. QED  BY <1>2, <2>3, <3>1, <4>1
    <3>2. CASE i # m.cur
      <4>1. m.cur \in Nat /\ m.cur > 0 /\ m.cur \in 0 .. i - 1 /\ i - 1 \in Nat
        BY <1>2, <1>3, <3>2
      <4>2. \A j \in 1 .. i - 1 : m.arenas[j].size \in Nat
        <5>1. \A j \in 1 .. i - 1 : j \in 1 .. l
          BY <1>3
        <5>. QED  BY <1>0, <1>1, <5>1, ChainIsSummable
      <4>3. \A j \in 1 .. m.cur : m.arenas[j].size \in Nat
        BY <4>1, <4>2
      <4>4. ArenaBytes(m.arenas, m.cur) = ArenaBytes(m.arenas, m.cur - 1) + m.arenas[m.cur].size
        BY <4>1, <4>3, ArenaBytesIs
      <4>5. ArenaBytes(m.arenas, m.cur) <= ArenaBytes(m.arenas, i - 1)
        BY <4>1, <4>2, ArenaBytesGrow
      <4>6. PICK a1 \in Nat, a2 \in Nat, s1 \in Nat :
              /\ a1 = ArenaBytes(m.arenas, m.cur - 1)
              /\ a2 = ArenaBytes(m.arenas, i - 1)
              /\ s1 = m.arenas[m.cur].size
        <5>1. m.arenas[m.cur].size \in Nat
          BY <1>0, <1>1, <1>2, ChainIsSummable
        <5>. QED  BY <2>3, <5>1
      <4>7. a1 + s1 <= a2 /\ m.ptr <= s1
        BY <1>2, <4>4, <4>5, <4>6
      <4>8. a1 + m.ptr <= a2 + from
        BY <1>2, <4>7
      <4>. QED  BY <4>6, <4>8
    <3>. QED  BY <3>1, <3>2
  <2>5. PICK c1 \in Nat, b1 \in Nat, a1 \in Nat, a2 \in Nat, p1 \in Nat :
          /\ c1 = BlockBytes(C) /\ b1 = BlockBytes(B) /\ p1 = m.ptr
          /\ a1 = ArenaBytes(m.arenas, m.cur - 1) /\ a2 = ArenaBytes(m.arenas, i - 1)
    BY <1>2, <2>1, <2>3
  <2>6. c1 <= b1 + size /\ b1 <= a1 + p1 /\ a1 + p1 <= a2 + from
    BY <1>2, <2>1, <2>2, <2>4, <2>5
  <2>7. c1 <= a2 + (from + size)
    BY <2>6
  <2>. QED  BY <2>5, <2>7
<1>11. Covers(n.arenas, Current(n), C)
  <2>1. Current(n).cur = i /\ Current(n).ptr = from + size
    BY <1>6 DEF Current
  <2>2. ASSUME NEW b \in C  PROVE b.arena < i \/ (b.arena = i /\ b.to <= from + size)
    <3>1. CASE b = e
      BY <1>5, <3>1
    <3>2. CASE b \in B
      <4>1. b.arena < i \/ b.arena = i
        BY <1>2, <1>3, <1>8, <3>2
      <4>2. b.arena = i => b.to <= from + size
        BY <1>8, <1>9, <3>2
      <4>. QED  BY <4>1, <4>2
    <3>. QED  BY <3>1, <3>2
  <2>3. from + size \in 0 .. m.arenas[i].size
    <3>1. m.arenas[i].size \in Nat
      BY <1>0, <1>1, <1>3, ChainIsSummable
    <3>. QED  BY <3>1
  <2>. HIDE DEF C
  <2>. QED  BY <1>1, <1>3, <1>6, <1>10, <2>1, <2>2, <2>3 DEF Covers, Before
<1>12. LevelsCover(n, C, sc)
  <2>1. ASSUME NEW k \in 1 .. Len(sc)  PROVE Outside(C, k) = Outside(B, k)
    BY <1>4, <1>5 DEF Outside
  <2>2. n.cur # 0
    BY <1>3, <1>6
  <2>. HIDE DEF C
  <2>. QED  BY <1>0, <1>6, <1>11, <2>1, <2>2 DEF LevelsCover
<1>13. BlocksInside(n, C)
  <2>1. BlocksInside(m, B)
    BY DEF Sound
  <2>2. /\ e.arena \in 1 .. Len(m.arenas) /\ e.to <= m.arenas[e.arena].size
        /\ (m.arenas[e.arena].address + e.from) % e.alignment = 0
    BY <1>1, <1>3, <1>5
  <2>. QED  BY <1>6, <2>1, <2>2 DEF BlocksInside
<1>14. BlocksApart(C)
  <2>1. BlocksApart(B)
    BY DEF Sound
  <2>2. \A b \in B : b.arena # e.arena \/ b.to <= e.from
    BY <1>5, <1>9
  <2>. QED  BY <2>1, <2>2 DEF BlocksApart
<1>15. n.total = ArenaBytes(n.arenas, Len(n.arenas))
  BY <1>6 DEF Sound
<1>16. Sound(n, C, sc)
  BY <1>7, <1>12, <1>13, <1>14, <1>15 DEF Sound
<1>. QED  BY <1>16 DEF n, e

(* One allocator changed, and is as it should be.                          *)
LEMMA OneChanges ==
    ASSUME ScratchIInv, NEW o \in Allocators, NEW m, NEW B, NEW sc, Sound(m, B, sc),
           mem' = [mem EXCEPT ![o] = m], blocks' = [blocks EXCEPT ![o] = B],
           scopes' = [scopes EXCEPT ![o] = sc]
    PROVE  ScratchIInv'
<1>1. /\ mem' = [p \in Allocators |-> mem'[p]]
      /\ blocks' = [p \in Allocators |-> blocks'[p]]
      /\ scopes' = [p \in Allocators |-> scopes'[p]]
  BY DEF ScratchIInv
<1>2. mem'[o] = m /\ blocks'[o] = B /\ scopes'[o] = sc
  BY DEF ScratchIInv
<1>3. \A p \in Allocators \ {o} :
        mem'[p] = mem[p] /\ blocks'[p] = blocks[p] /\ scopes'[p] = scopes[p]
  BY DEF ScratchIInv
<1>4. ASSUME NEW p \in Allocators  PROVE Sound(mem'[p], blocks'[p], scopes'[p])
  <2>1. CASE p = o
    BY <1>2, <2>1
  <2>2. CASE p # o
    BY <1>3, <2>2 DEF ScratchIInv
  <2>. QED  BY <2>1, <2>2
<1>. QED  BY <1>1, <1>4 DEF ScratchIInv

(* AllocAligned keeps the invariant, in an arena it has or in a new one.   *)
LEMMA AllocKeeps ==
    ASSUME AllocatorAssumption, ScratchIInv, NEW o \in Allocators,
           NEW alignment \in Nat \ {0}, NEW size \in Nat,
           AllocAligned(o, alignment, size)
    PROVE  ScratchIInv'
<1>. DEFINE fit == {i \in mem[o].cur .. Len(mem[o].arenas) :
                       AlignedIn(mem[o], i, alignment) + size <= mem[o].arenas[i].size}
<1>1. PICK m : m = mem[o]
  OBVIOUS
<1>2. PICK B, sc : B = blocks[o] /\ sc = scopes[o]
  OBVIOUS
<1>3. Sound(m, B, sc) /\ m.cur # 0
  BY <1>1, <1>2 DEF ScratchIInv, AllocAligned
<1>4. ChainTypes(m, B, sc) /\ m.cur \in Nat /\ m.ptr \in Nat
  BY <1>3 DEF Sound, ChainTypes
<1>5. PICK l \in Nat : l = Len(m.arenas)
  BY <1>4, ChainIsSummable
<1>6. m.cur \in 1 .. l
  <2>1. Covers(m.arenas, Current(m), B)
    BY <1>3 DEF Sound, LevelsCover
  <2>. QED  BY <1>5, <2>1 DEF Covers, Current
<1>7. scopes' = [scopes EXCEPT ![o] = sc]
  <2>1. scopes' = scopes
    BY DEF AllocAligned, Place
  <2>. QED  BY <1>2, <2>1 DEF ScratchIInv
<1>8. CASE fit # {} /\ LET i == Min(fit)
                       IN  Place(o, mem[o], i, AlignedIn(mem[o], i, alignment), alignment, size)
  <2>1. PICK i : i = Min(fit)
    OBVIOUS
  <2>2. i \in fit
    <3>1. \E x \in fit : \A y \in fit : x <= y
      <4>1. fit \subseteq Nat
        BY <1>1, <1>4, <1>5
      <4>. QED  BY <1>8, <4>1, LeastOne
    <3>2. PICK x \in fit : x = Min(fit)
      BY <3>1 DEF Min
    <3>. QED  BY <2>1, <3>2
  <2>3. PICK from : from = AlignedIn(m, i, alignment)
    OBVIOUS
  <2>4. i \in m.cur .. Len(m.arenas) /\ i \in 1 .. l /\ from + size <= m.arenas[i].size
    BY <1>1, <1>5, <1>6, <2>2, <2>3
  <2>5. Begin(m, i) \in Nat /\ m.arenas[i].address \in Nat
    BY <1>4, <1>5, <2>4, ChainIsSummable DEF Begin
  <2>6. /\ from \in Nat /\ Begin(m, i) <= from
        /\ (m.arenas[i].address + from) % alignment = 0
    BY <2>3, <2>5, AlignPointerIs DEF AlignedIn
  <2>7. Place(o, m, i, from, alignment, size)
    BY <1>1, <1>8, <2>1, <2>3
  <2>8. Sound([m EXCEPT !.cur = i, !.ptr = from + size],
              B \cup {[arena |-> i, from |-> from, to |-> from + size,
                       alignment |-> alignment, depth |-> Len(sc)]}, sc)
    BY <1>3, <2>4, <2>6, PlaceKeeps
  <2>9. /\ mem' = [mem EXCEPT ![o] = [m EXCEPT !.cur = i, !.ptr = from + size]]
        /\ blocks' = [blocks EXCEPT ![o] =
              B \cup {[arena |-> i, from |-> from, to |-> from + size,
                       alignment |-> alignment, depth |-> Len(sc)]}]
    BY <1>2, <2>7 DEF Place, CurAfter
  <2>. QED  BY <1>7, <2>8, <2>9, OneChanges
<1>9. CASE \E a \in {x \in Addresses : x % alignment = 0} :
              Place(o, Grow(mem[o], a, size), Len(mem[o].arenas) + 1, 0, alignment, size)
  <2>1. PICK a \in Addresses :
          /\ a % alignment = 0
          /\ Place(o, Grow(m, a, size), Len(m.arenas) + 1, 0, alignment, size)
    BY <1>1, <1>9
  <2>2. a \in Nat
    BY <2>1 DEF AllocatorAssumption
  <2>3. PICK n : n = Grow(m, a, size)
    OBVIOUS
  <2>4. /\ Sound(n, B, sc) /\ Len(n.arenas) = l + 1 /\ n.arenas[l + 1].address = a
        /\ size <= n.arenas[l + 1].size /\ n.cur = m.cur
    BY <1>3, <1>5, <2>2, <2>3, GrowKeeps
  <2>5. /\ n.cur # 0 /\ l + 1 \in n.cur .. Len(n.arenas) /\ l + 1 # n.cur
        /\ 0 \in Nat /\ 0 + size = size /\ a + 0 = a
    BY <1>6, <2>2, <2>4
  <2>6. Begin(n, l + 1) <= 0
    BY <2>5 DEF Begin
  <2>7. Sound([n EXCEPT !.cur = l + 1, !.ptr = 0 + size],
              B \cup {[arena |-> l + 1, from |-> 0, to |-> 0 + size,
                       alignment |-> alignment, depth |-> Len(sc)]}, sc)
    <3>1. 0 + size <= n.arenas[l + 1].size /\ (n.arenas[l + 1].address + 0) % alignment = 0
      BY <2>1, <2>4, <2>5
    <3>. QED  BY <2>4, <2>5, <2>6, <3>1, PlaceKeeps
  <2>8. /\ mem' = [mem EXCEPT ![o] = [n EXCEPT !.cur = l + 1, !.ptr = 0 + size]]
        /\ blocks' = [blocks EXCEPT ![o] =
              B \cup {[arena |-> l + 1, from |-> 0, to |-> 0 + size,
                       alignment |-> alignment, depth |-> Len(sc)]}]
    BY <1>2, <1>5, <2>1, <2>3 DEF Place, CurAfter
  <2>. QED  BY <1>7, <2>7, <2>8, OneChanges
<1>. QED  BY <1>8, <1>9 DEF AllocAligned

(* Every operation keeps the invariant.                                    *)
LEMMA ScratchKeeps ==
    ASSUME AllocatorAssumption, ScratchIInv, [ScratchNext]_scratchVars
    PROVE  ScratchIInv'
<1>1. CASE UNCHANGED scratchVars
  BY <1>1 DEF scratchVars, ScratchIInv
<1>2. ASSUME NEW o \in Allocators, NEW a \in Alignments, NEW s \in Sizes, AllocAligned(o, a, s)
      PROVE  ScratchIInv'
  <2>1. a \in Nat \ {0} /\ s \in Nat
    BY DEF AllocatorAssumption
  <2>. QED  BY <1>2, <2>1, AllocKeeps
<1>3. ASSUME NEW o \in Allocators, NEW s \in Sizes, Alloc(o, s)
      PROVE  ScratchIInv'
  <2>1. MaxAlign \in Nat \ {0} /\ s \in Nat
    BY DEF AllocatorAssumption
  <2>. QED  BY <1>3, <2>1, AllocKeeps DEF Alloc
<1>4. ASSUME NEW o \in Allocators, Free(o)  PROVE ScratchIInv'
  <2>1. PICK b \in blocks[o] : blocks' = [blocks EXCEPT ![o] = blocks[o] \ {b}]
    BY <1>4 DEF Free
  <2>2. mem' = [mem EXCEPT ![o] = mem[o]] /\ scopes' = [scopes EXCEPT ![o] = scopes[o]]
    BY <1>4 DEF Free, ScratchIInv
  <2>3. Sound(mem[o], blocks[o] \ {b}, scopes[o])
    BY FreeKeeps DEF ScratchIInv
  <2>. QED  BY <2>1, <2>2, <2>3, OneChanges
<1>5. ASSUME NEW o \in Allocators, Purge(o)  PROVE ScratchIInv'
  <2>1. Sound([mem[o] EXCEPT !.cur = 1, !.ptr = 0], {}, scopes[o])
    BY <1>5, PurgeKeeps DEF Purge, ScratchIInv
  <2>2. /\ mem' = [mem EXCEPT ![o] = [mem[o] EXCEPT !.cur = 1, !.ptr = 0]]
        /\ blocks' = [blocks EXCEPT ![o] = {}]
        /\ scopes' = [scopes EXCEPT ![o] = scopes[o]]
    BY <1>5 DEF Purge, ScratchIInv
  <2>. QED  BY <2>1, <2>2, OneChanges
<1>6. ASSUME NEW o \in Allocators, ScopedEnter(o)  PROVE ScratchIInv'
  <2>1. Sound(mem[o], blocks[o], Append(scopes[o], Current(mem[o])))
    BY <1>6, EnterKeeps DEF ScopedEnter, ScratchIInv
  <2>2. /\ mem' = [mem EXCEPT ![o] = mem[o]]
        /\ blocks' = [blocks EXCEPT ![o] = blocks[o]]
        /\ scopes' = [scopes EXCEPT ![o] = Append(scopes[o], Current(mem[o]))]
    BY <1>6 DEF ScopedEnter, ScratchIInv, Current
  <2>. QED  BY <2>1, <2>2, OneChanges
<1>7. ASSUME NEW o \in Allocators, ScopedExit(o)  PROVE ScratchIInv'
  <2>1. PICK d, sc : d = Len(scopes[o]) /\ sc = scopes[o]
    OBVIOUS
  <2>2. /\ d > 0
        /\ mem' = [mem EXCEPT ![o] = [mem[o] EXCEPT !.cur = sc[d].cur, !.ptr = sc[d].ptr]]
        /\ blocks' = [blocks EXCEPT ![o] = Outside(blocks[o], d)]
        /\ scopes' = [scopes EXCEPT ![o] = SubSeq(sc, 1, d - 1)]
    BY <1>7, <2>1 DEF ScopedExit, Outside
  <2>3. Sound(mem[o], blocks[o], sc) /\ d = Len(sc)
    BY <2>1 DEF ScratchIInv
  <2>4. Sound([mem[o] EXCEPT !.cur = sc[d].cur, !.ptr = sc[d].ptr],
              Outside(blocks[o], d), SubSeq(sc, 1, d - 1))
    BY <2>2, <2>3, ExitKeeps
  <2>. QED  BY <2>2, <2>4, OneChanges
<1>8. ASSUME NEW o \in Allocators, NEW p \in Allocators, MoveMemory(o, p)
      PROVE  ScratchIInv'
  <2>1. /\ mem' = [x \in Allocators |-> mem'[x]]
        /\ blocks' = [x \in Allocators |-> blocks'[x]]
        /\ scopes' = [x \in Allocators |-> scopes'[x]]
    BY <1>8 DEF MoveMemory, Swapped, ScratchIInv
  <2>2. /\ mem'[o] = mem[p] /\ mem'[p] = mem[o]
        /\ blocks'[o] = blocks[p] /\ blocks'[p] = blocks[o]
        /\ scopes'[o] = scopes[p] /\ scopes'[p] = scopes[o]
    BY <1>8 DEF MoveMemory, Swapped, ScratchIInv
  <2>3. \A x \in Allocators \ {o, p} :
          mem'[x] = mem[x] /\ blocks'[x] = blocks[x] /\ scopes'[x] = scopes[x]
    BY <1>8 DEF MoveMemory, Swapped, ScratchIInv
  <2>4. ASSUME NEW x \in Allocators  PROVE Sound(mem'[x], blocks'[x], scopes'[x])
    <3>1. CASE x \in {o, p}
      BY <2>2, <3>1 DEF ScratchIInv
    <3>2. CASE x \notin {o, p}
      BY <2>3, <3>2 DEF ScratchIInv
    <3>. QED  BY <3>1, <3>2
  <2>. QED  BY <2>1, <2>4 DEF ScratchIInv
<1>. QED  BY <1>1, <1>2, <1>3, <1>4, <1>5, <1>6, <1>7, <1>8 DEF ScratchNext

(* An allocator that was made, and one that has nothing.                   *)
LEMMA ScratchStarts ==
    ASSUME AllocatorAssumption, ScratchInit
    PROVE  ScratchIInv
<1>1. PICK first \in Allocators, a \in Addresses :
        mem = [o \in Allocators |->
                 IF o = first
                 THEN [arenas |-> <<Arena(a, Reserve)>>, cur |-> 1, ptr |-> 0, total |-> Reserve]
                 ELSE NullAllocator]
  BY DEF ScratchInit
<1>2. /\ blocks = [o \in Allocators |-> {}]
      /\ scopes = [o \in Allocators |-> <<>>]
  BY DEF ScratchInit
<1>3. a \in Nat /\ Reserve \in Nat
  BY DEF AllocatorAssumption
<1>4. IsFiniteSet({}) /\ BlockBytes({}) = 0
  BY FS_EmptySet, BlockBytesIs
<1>5. Sound(NullAllocator, {}, <<>>)
  <2>1. ChainTypes(NullAllocator, {}, <<>>)
    BY <1>4 DEF ChainTypes, NullAllocator
  <2>2. NullAllocator.total = ArenaBytes(NullAllocator.arenas, Len(NullAllocator.arenas))
    <3>1. NullAllocator.total = 0 /\ Len(NullAllocator.arenas) = 0
      BY DEF NullAllocator
    <3>2. ArenaBytes(NullAllocator.arenas, 0) = 0
      <4>1. \A i \in 1 .. 0 : NullAllocator.arenas[i].size \in Nat
        OBVIOUS
      <4>. QED  BY <4>1, ArenaBytesIs
    <3>. QED  BY <3>1, <3>2
  <2>3. LevelsCover(NullAllocator, {}, <<>>)
    BY DEF LevelsCover, NullAllocator
  <2>. QED  BY <2>1, <2>2, <2>3 DEF Sound, BlocksInside, BlocksApart
<1>6. ASSUME NEW m, m = [arenas |-> <<Arena(a, Reserve)>>, cur |-> 1, ptr |-> 0,
                         total |-> Reserve]
      PROVE  Sound(m, {}, <<>>)
  <2>1. Arena(a, Reserve) \in [address : Nat, size : Nat] /\ Arena(a, Reserve).size = Reserve
    BY <1>3 DEF Arena
  <2>2. /\ m.arenas \in Seq([address : Nat, size : Nat])
        /\ Len(m.arenas) = 1 /\ m.arenas[1].size = Reserve
        /\ m.cur = 1 /\ m.ptr = 0 /\ m.total = Reserve
    BY <1>6, <2>1
  <2>3. ChainTypes(m, {}, <<>>)
    BY <1>3, <1>4, <1>6, <2>2 DEF ChainTypes
  <2>4. \A i \in 1 .. 1 : m.arenas[i].size \in Nat
    BY <1>3, <2>2
  <2>5. ArenaBytes(m.arenas, 0) = 0 /\ ArenaBytes(m.arenas, 1) = Reserve
    <3>1. 1 \in Nat /\ 1 > 0 /\ 1 - 1 = 0
      OBVIOUS
    <3>2. ArenaBytes(m.arenas, 0) = 0 /\ ArenaBytes(m.arenas, 1) = ArenaBytes(m.arenas, 0) + Reserve
      <4>1. /\ ArenaBytes(m.arenas, 0) = 0
            /\ ArenaBytes(m.arenas, 1) = ArenaBytes(m.arenas, 1 - 1) + m.arenas[1].size
        BY <2>4, <3>1, ArenaBytesIs
      <4>. QED  BY <2>2, <3>1, <4>1
    <3>. QED  BY <1>3, <3>2
  <2>6. Covers(m.arenas, Current(m), {})
    <3>1. Current(m).cur = 1 /\ Current(m).ptr = 0 /\ 1 - 1 = 0
      BY <2>2 DEF Current
    <3>2. 1 \in 1 .. Len(m.arenas) /\ 0 \in 0 .. m.arenas[1].size
      BY <1>3, <2>2
    <3>3. BlockBytes({}) <= ArenaBytes(m.arenas, 1 - 1) + 0
      BY <1>4, <2>5, <3>1
    <3>. QED  BY <3>1, <3>2, <3>3 DEF Covers
  <2>7. LevelsCover(m, {}, <<>>)
    BY <2>2, <2>6 DEF LevelsCover
  <2>. QED  BY <2>2, <2>3, <2>5, <2>7 DEF Sound, BlocksInside, BlocksApart
<1>. QED  BY <1>1, <1>2, <1>5, <1>6 DEF ScratchIInv

(* The invariant is what a caller relies on.                               *)
LEMMA SoundIsEnough ==
    ASSUME ScratchIInv
    PROVE  AllocatorInv
<1>. SUFFICES ASSUME NEW o \in Allocators
              PROVE  LET m == mem[o]
                         B == blocks[o]
                     IN  /\ m.cur \in 0 .. Len(m.arenas)
                         /\ m.cur # 0 => m.ptr \in 0 .. m.arenas[m.cur].size
                         /\ m.total = ArenaBytes(m.arenas, Len(m.arenas))
                         /\ BlocksApart(B)
                         /\ \A b \in B : 0 <= b.from
                         /\ BlocksInside(m, B)
                         /\ BlockBytes(B) <= SizeAllocated(m)
  BY DEF AllocatorInv, ScratchTypeOK, Disjoint, Usable, Counted, BlocksApart,
     BlocksInside
<1>1. PICK m, B, sc : m = mem[o] /\ B = blocks[o] /\ sc = scopes[o]
  OBVIOUS
<1>2. Sound(m, B, sc)
  BY <1>1 DEF ScratchIInv
<1>3. ChainTypes(m, B, sc) /\ LevelsCover(m, B, sc)
  BY <1>2 DEF Sound
<1>4. PICK l \in Nat : l = Len(m.arenas)
  BY <1>3, ChainIsSummable
<1>5. m.cur # 0 => /\ m.cur \in 1 .. l /\ m.ptr \in 0 .. m.arenas[m.cur].size
                   /\ BlockBytes(B) <= ArenaBytes(m.arenas, m.cur - 1) + m.ptr
  BY <1>3, <1>4 DEF LevelsCover, Covers, Current
<1>6. m.cur \in 0 .. l
  BY <1>4, <1>5
<1>7. BlockBytes(B) <= SizeAllocated(m)
  <2>1. CASE m.cur = 0
    <3>1. B = {}
      BY <1>3, <2>1 DEF LevelsCover
    <3>2. BlockBytes(B) = 0
      BY <3>1, FS_EmptySet, BlockBytesIs
    <3>. QED  BY <2>1, <3>2 DEF SizeAllocated
  <2>2. CASE m.cur # 0
    BY <1>5, <2>2 DEF SizeAllocated
  <2>. QED  BY <2>1, <2>2
<1>8. \A b \in B : 0 <= b.from
  BY <1>3 DEF ChainTypes
<1>. QED  BY <1>1, <1>2, <1>4, <1>5, <1>6, <1>7, <1>8 DEF Sound

(* However calls, scopes and moves follow one another, the blocks that     *)
(* callers hold share no byte, lie aligned inside the arenas of their      *)
(* allocator, and are counted by SizeAllocated.                            *)
THEOREM BlocksAreSafe == ScratchSpec => []AllocatorInv
<1>1. ScratchInit => ScratchIInv
  BY ScratchStarts, AllocatorAssumption
<1>2. ScratchIInv /\ [ScratchNext]_scratchVars => ScratchIInv'
  BY ScratchKeeps, AllocatorAssumption
<1>3. ScratchIInv => AllocatorInv
  BY SoundIsEnough
<1>. QED  BY <1>1, <1>2, <1>3, PTL DEF ScratchSpec
=============================================================================
