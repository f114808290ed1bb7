-------------------------------- MODULE Dep ---------------------------------
(***************************************************************************)
(* Dependable and Dep (base/dep.h), as built with XYNQ_TRACK_DEP_LIFETIME: *)
(* a Dependable owns an object, behind a pointer or by value, a Dep is a   *)
(* raw pointer to it, and both share a DepLifetime through which their     *)
(* assertions are to notice a Dep that outlives the object. A failed       *)
(* assertion ends the program. Without the macro nothing is noticed.       *)
(***************************************************************************)
EXTENDS Naturals, FiniteSets

CONSTANTS
    ByPointer,      \* variables of a type Dependable<T*>
    ByValue,        \* variables of a type Dependable<T>, which are their object
    Deps,           \* variables of a type Dep<T>
    Objects,        \* bound: the objects behind pointers
    Lifetimes,      \* bound: the DepLifetimes in use
    Null

ASSUME DepAssumption ==
    /\ LET sorts == <<ByPointer, ByValue, Deps, Objects, Lifetimes, {Null}>>
       IN  \A i, j \in 1 .. 6 : i # j => sorts[i] \cap sorts[j] = {}
    /\ IsFiniteSet(ByPointer \cup ByValue \cup Deps)
    /\ IsFiniteSet(Lifetimes)

Holders == ByPointer \cup ByValue

VARIABLES
    there,      \* the variables within their lifetime
    object,     \* object_ of a Dependable, ptr_ of a Dep
    lifetime,   \* lifetime_ of either
    killed,     \* the DepLifetimes that are not alive_
    objects,    \* the objects that exist
    failed      \* what the assertion that failed was about, or Null

depVars == <<there, object, lifetime, killed, objects, failed>>

DepInit ==
    /\ there = {}
    /\ object = [x \in Holders \cup Deps |-> Null]
    /\ lifetime = [x \in Holders \cup Deps |-> Null]
    /\ killed = {}
    /\ objects = {}
    /\ failed = Null

-----------------------------------------------------------------------------
UseCount(l) == Cardinality({x \in Holders \cup Deps : lifetime[x] = l})

(* make_shared: the storage of a DepLifetime nobody uses is used again.    *)
FreshLifetimes == {l \in Lifetimes : UseCount(l) = 0}

IsAlive(l) == l # Null /\ l \notin killed

Sets(x, o, l) ==
    /\ object' = [object EXCEPT ![x] = o]
    /\ lifetime' = [lifetime EXCEPT ![x] = l]

(* Dependable<T*>(object), nullptr included, and Dependable<T>(args...).   *)
Create(h, o) ==
    /\ h \notin there
    /\ o \in (IF h \in ByValue THEN {h} ELSE (Objects \ objects) \cup {Null})
    /\ \E l \in FreshLifetimes : Sets(h, o, l) /\ killed' = killed \ {l}
    /\ there' = there \cup {h}
    /\ objects' = objects \cup ({o} \ {Null})
    /\ UNCHANGED failed

Swap(h, g) ==
    /\ object' = [object EXCEPT ![h] = object[g], ![g] = object[h]]
    /\ lifetime' = [lifetime EXCEPT ![h] = lifetime[g], ![g] = lifetime[h]]
    /\ UNCHANGED <<killed, objects, failed>>

(* Move construction (h is still Null) and assignment by pointer.          *)
MovePointer(h, g) ==
    /\ h # g
    /\ {h, g} \subseteq ByPointer /\ g \in there
    /\ Swap(h, g)
    /\ there' = there \cup {h}

(* Fault: the destructor does not count the users of the lifetime.         *)
OnlyUserNotCounted(h) == IsAlive(lifetime[h])

(* What ~Dependable asserts.                                               *)
OnlyUser(h) == IsAlive(lifetime[h]) /\ UseCount(lifetime[h]) = 1

Ends(x) ==
    /\ there' = there \ {x}
    /\ Sets(x, Null, Null)
    /\ UNCHANGED failed

Fails(what) ==
    /\ failed' = what
    /\ UNCHANGED <<there, object, lifetime, killed, objects>>

DestroyHolder(h) ==
    /\ h \in there
    /\ \/ /\ object[h] = Null
          /\ Ends(h)
          /\ UNCHANGED <<killed, objects>>
       \/ /\ object[h] # Null /\ OnlyUser(h)
          /\ killed' = killed \cup {lifetime[h]}
          /\ objects' = objects \ {object[h]}
          /\ Ends(h)
       \/ /\ object[h] # Null /\ ~OnlyUser(h)
          /\ Fails(object[h])

-----------------------------------------------------------------------------
(* What every Dep that is not nullptr asserts of itself.                   *)
NotDead(x) == object[x] = Null \/ IsAlive(lifetime[x])

(* What d asserts when it is assigned, is made of a Dependable x, or is    *)
(* made of another Dep x.                                                  *)
Accepts(d, x) ==
    IF d \in there THEN NotDead(d)
    ELSE IF x \in Holders THEN IsAlive(lifetime[x]) ELSE NotDead(x)

(* d is made, or assigned, from x, which gives up its own pointer when it  *)
(* is a Dep that is moved from.                                            *)
DepFrom(d, x, moved) ==
    /\ d # x /\ x \in there
    /\ x \in Holders => ~moved /\ d \notin there
    /\ IF Accepts(d, x)
       THEN LET Left(f) == IF moved THEN Null ELSE f[x]
            IN  /\ object' = [object EXCEPT ![d] = object[x], ![x] = Left(object)]
                /\ lifetime' = [lifetime EXCEPT ![d] = lifetime[x], ![x] = Left(lifetime)]
                /\ there' = there \cup {d}
                /\ UNCHANGED <<killed, objects, failed>>
       ELSE Fails(x)

DestroyDep(d) ==
    /\ d \in there
    /\ IF NotDead(d)
       THEN Ends(d) /\ UNCHANGED <<killed, objects>>
       ELSE Fails(d)

DepNext ==
    /\ failed = Null
    /\ \/ \E h \in Holders :
             \/ \E o \in Objects \cup ByValue \cup {Null} : Create(h, o)
             \/ DestroyHolder(h)
             \/ \E g \in Holders : MovePointer(h, g)
       \/ \E d \in Deps :
             \/ DestroyDep(d)
             \/ \E x \in Holders \cup Deps, moved \in BOOLEAN : DepFrom(d, x, moved)

DepSpec == DepInit /\ [][DepNext]_depVars

-----------------------------------------------------------------------------
(* Two Dependables never own one object nor share a lifetime, so that one  *)
(* delete and one Kill are all that an object gets.                        *)
DepTypeOK ==
    /\ objects \subseteq Objects \cup ByValue
    /\ \A x \in Holders \cup Deps :
          x \notin there => object[x] = Null /\ lifetime[x] = Null
    /\ \A h, g \in there \cap Holders :
          h # g => /\ object[h] = Null \/ object[h] # object[g]
                   /\ lifetime[h] = Null \/ lifetime[h] # lifetime[g]

(* As long as no assertion has failed, the object behind every Dep exists: *)
(* "XYAssert(lifetime_->IsAlive());" in ~Dep says so.                      *)
NoDangling ==
    failed = Null =>
        \A d \in there \cap Deps : object[d] = Null \/ object[d] \in objects

(* An assertion fails for nothing but an object that is about to be        *)
(* destroyed while a Dep still points to it, or a Dep made of a Dependable *)
(* that was moved from.                                                    *)
AlarmsAreReal ==
    \/ failed = Null
    \/ failed \in objects /\ \E d \in there \cap Deps : object[d] = failed
    \/ failed \in ByPointer /\ object[failed] = Null

(* The tracking of lifetimes is sound and complete, whatever was copied,   *)
(* moved and destroyed before.                                             *)
DepInv == DepTypeOK /\ NoDangling /\ AlarmsAreReal
=============================================================================
