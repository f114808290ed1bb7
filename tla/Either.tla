------------------------------- MODULE Either -------------------------------
(***************************************************************************)
(* Either and Maybe (base/either.h, base/maybe.h): a union, and a flag     *)
(* that says which member of it is alive. A member may own a resource, as  *)
(* a Program, a Config or a Log does: copying it makes another, moving it  *)
(* leaves the source alive and empty, its destructor gives it back. The    *)
(* value flow of the results of calls is modelled; the types are not.      *)
(***************************************************************************)
EXTENDS Naturals, FiniteSets

CONSTANTS
    Eithers,        \* variables of a type Either<...>
    Maybes,         \* variables of a type Maybe<...>
    Plain,          \* those among them whose members own nothing
    Resources,      \* bound: what the members may own at a time
    Nothing         \* a member that owns no resource

ASSUME EitherAssumption ==
    /\ Eithers \cap Maybes = {}
    /\ Plain \subseteq Eithers \cup Maybes
    /\ IsFiniteSet(Resources) /\ Nothing \notin Resources

VARIABLES
    flag,       \* is_left_, has_value_; "gone" outside the variable's lifetime
    member,     \* the member of the union that is alive
    owns,       \* the resource of that member, or Nothing
    heap        \* resources not given back

eitherVars == <<flag, member, owns, heap>>

Slots == Eithers \cup Maybes

Sides(s) == IF s \in Eithers THEN {"left", "right"} ELSE {"value", "none"}

SameType(s, t) == Sides(s) = Sides(t) /\ (s \in Plain <=> t \in Plain)

EitherInit ==
    /\ flag = [s \in Slots |-> "gone"]
    /\ member = [s \in Slots |-> "gone"]
    /\ owns = [s \in Slots |-> Nothing]
    /\ heap = {}

-----------------------------------------------------------------------------
Alive(s) == flag[s] # "gone"

OwnedBy(s) == {owns[s]} \ {Nothing}

Fresh == CHOOSE r \in Resources : r \notin heap

(* A member comes to hold res; the resources in freed are given back.      *)
Becomes(s, side, res, freed) ==
    /\ flag' = [flag EXCEPT ![s] = side]
    /\ member' = [member EXCEPT ![s] = side]
    /\ owns' = [owns EXCEPT ![s] = res]
    /\ heap' = (heap \ freed) \cup ({res} \ {Nothing})

(* Construction from a value: Either(LeftType &&), Maybe(T &&), Maybe().   *)
ConstructMember(s, side) ==
    /\ ~Alive(s)
    /\ side \in Sides(s)
    /\ IF s \in Plain \/ side = "none"
       THEN Becomes(s, side, Nothing, {})
       ELSE heap # Resources /\ Becomes(s, side, Fresh, {})

(* What a copy of t's member owns: a resource of its own.                  *)
CopyOf(t) == IF owns[t] = Nothing THEN Nothing ELSE Fresh

CopyConstruct(s, t) ==
    /\ ~Alive(s) /\ Alive(t) /\ SameType(s, t)
    /\ heap # Resources
    /\ Becomes(s, flag[t], CopyOf(t), {})

(* The member of s takes over what t's owns; t's stays alive, empty.       *)
TakesFrom(s, t, freed) ==
    /\ flag' = [flag EXCEPT ![s] = flag[t]]
    /\ member' = [member EXCEPT ![s] = flag[t]]
    /\ owns' = [owns EXCEPT ![s] = owns[t], ![t] = Nothing]
    /\ heap' = heap \ freed

(* Fault: the bytes are copied, and the source keeps its member.           *)
MoveConstructBytes(s, t) ==
    /\ ~Alive(s) /\ Alive(t) /\ SameType(s, t)
    /\ Becomes(s, flag[t], owns[t], {})

MoveConstruct(s, t) ==
    /\ ~Alive(s) /\ Alive(t) /\ SameType(s, t)
    /\ TakesFrom(s, t, {})

(* The destructor of the member the flag names runs.                       *)
DestroyMember(s) ==
    /\ Alive(s)
    /\ Becomes(s, "gone", Nothing, OwnedBy(s))

-----------------------------------------------------------------------------
(* operator= sets the flag and assigns to the member it now names, which   *)
(* gives its own resource back. The member that lived before is not        *)
(* destroyed, so the other side may only be assigned where members own     *)
(* nothing; the repository assigns across no others.                       *)
MayAssign(s, t) ==
    /\ s # t /\ SameType(s, t) /\ s \in Eithers
    /\ Alive(s) /\ Alive(t)
    /\ flag[s] = flag[t] \/ s \in Plain

CopyAssign(s, t) ==
    /\ MayAssign(s, t)
    /\ heap # Resources
    /\ Becomes(s, flag[t], CopyOf(t), OwnedBy(s))

MoveAssign(s, t) ==
    /\ MayAssign(s, t)
    /\ TakesFrom(s, t, OwnedBy(s))

-----------------------------------------------------------------------------
(* Fold, FoldLeft, FoldRight, LeftOrDefault, RightOrDefault, GetOrDefault: *)
(* the function, or the caller's variable, takes the member's value by     *)
(* move and gives its resource back in the end. One that takes no argument *)
(* leaves everything in its place.                                         *)
Consume(s) ==
    /\ Alive(s) /\ flag[s] # "none"
    /\ owns' = [owns EXCEPT ![s] = Nothing]
    /\ heap' = heap \ OwnedBy(s)
    /\ UNCHANGED <<flag, member>>

(* MapLeft and MapRight: the result t is the function's value on the side  *)
(* that is mapped, made of the one moved to it, and is moved from s on the *)
(* other side.                                                             *)
Map(s, t, side) ==
    /\ s \in Eithers /\ ~Alive(t) /\ Alive(s) /\ SameType(s, t)
    /\ \/ flag[s] = side /\ TakesFrom(t, s, {})
       \/ /\ flag[s] = side /\ heap # Resources
          /\ flag' = [flag EXCEPT ![t] = side]
          /\ member' = [member EXCEPT ![t] = side]
          /\ owns' = [owns EXCEPT ![s] = Nothing, ![t] = CopyOf(s)]
          /\ heap' = (heap \ OwnedBy(s)) \cup ({CopyOf(s)} \ {Nothing})
       \/ flag[s] # side /\ TakesFrom(t, s, {})

(* Maybe::Map hands the function the value itself, not a moved one: the    *)
(* Maybe still has it afterwards.                                          *)
MapMaybe(s, t) ==
    /\ s \in Maybes /\ ~Alive(t) /\ Alive(s) /\ SameType(s, t)
    /\ heap # Resources
    /\ Becomes(t, flag[s], CopyOf(s), {})

EitherNext ==
    \E s \in Slots :
        \/ \E side \in Sides(s) : ConstructMember(s, side)
        \/ DestroyMember(s)
        \/ Consume(s)
        \/ \E t \in Slots :
              \/ CopyConstruct(s, t)
              \/ MoveConstruct(s, t)
              \/ CopyAssign(s, t)
              \/ MoveAssign(s, t)
              \/ MapMaybe(s, t)
              \/ \E side \in {"left", "right"} : Map(s, t, side)

EitherSpec == EitherInit /\ [][EitherNext]_eitherVars

-----------------------------------------------------------------------------
(* The flag names the member that is alive, so Left(), Right() and Value() *)
(* return a live member whenever their assertion holds, and only a live    *)
(* member owns anything.                                                   *)
EitherTypeOK ==
    /\ heap \subseteq Resources
    /\ \A s \in Slots :
          /\ flag[s] \in Sides(s) \cup {"gone"}
          /\ member[s] = flag[s]
          /\ flag[s] \in {"gone", "none"} \/ s \in Plain => owns[s] = Nothing

(* What was made is owned by exactly one member that will give it back:    *)
(* nothing leaks and nothing is given back twice, whatever the results go  *)
(* through on their way up the callers.                                    *)
OwnedOnce ==
    /\ heap = UNION {OwnedBy(s) : s \in Slots}
    /\ \A s, t \in Slots : s # t => OwnedBy(s) \cap OwnedBy(t) = {}

(* After any sequence of these: the flag is right, and so is who owns      *)
(* what.                                                                   *)
EitherInv == EitherTypeOK /\ OwnedOnce
=============================================================================
