-------------------------- MODULE ScratchAllocator --------------------------
(***************************************************************************)
(* ScratchAllocator and Arena (base/scratch_allocator, base/arena.h): a    *)
(* chain of arenas and a position in it. Alloc moves the position, Scoped  *)
(* and Purge move it back, and arenas once obtained are walked again. A    *)
(* pointer is an arena and an offset into it; of an arena's address only   *)
(* the remainder that alignment sees is kept.                              *)
(***************************************************************************)
EXTENDS Integers, Sequences, FiniteSets, FiniteSetsExt

CONSTANTS
    Allocators,     \* the ScratchAllocator objects, among which memory moves
    Reserve,        \* reserve_size of the first one
    Sizes,          \* sizes callers ask for
    Alignments,     \* alignments callers ask for
    MaxAlign,       \* alignof(max_align_t)
    Addresses,      \* remainders of the addresses an arena may begin at
    MaxBlocks,      \* bound: blocks in use at a time
    MaxDepth,       \* bound: Scoped calls inside one another
    MaxArenas       \* bound: arenas of an allocator

ASSUME AllocatorAssumption ==
    /\ IsFiniteSet(Allocators) /\ Allocators # {}
    /\ Reserve \in Nat \ {0}
    /\ Sizes \subseteq Nat
    /\ Alignments \subseteq Nat \ {0}
    /\ MaxAlign \in Nat \ {0}
    /\ Addresses \subseteq Nat
    /\ {MaxBlocks, MaxDepth, MaxArenas} \subseteq Nat

VARIABLES
    mem,        \* per allocator: its arenas, cur_arena_, cur_ptr_, total_size_
    blocks,     \* per allocator: what its callers hold, with the depth of Scoped
    scopes      \* per allocator: what the active Scoped calls saved

scratchVars == <<mem, blocks, scopes>>

(* An allocator that was moved from, or was made with reserve_size 0.      *)
NullAllocator == [arenas |-> <<>>, cur |-> 0, ptr |-> 0, total |-> 0]

Arena(address, size) == [address |-> address, size |-> size]

ScratchInit ==
    \E first \in Allocators, a \in {x \in Addresses : x % MaxAlign = 0} :
        /\ mem = [o \in Allocators |->
                     IF o = first
                     THEN [arenas |-> <<Arena(a, Reserve)>>,
                           cur |-> 1, ptr |-> 0, total |-> Reserve]
                     ELSE NullAllocator]
        /\ blocks = [o \in Allocators |-> {}]
        /\ scopes = [o \in Allocators |-> <<>>]

-----------------------------------------------------------------------------
(* Where the first aligned address at or after ptr is, as an offset.       *)
AlignPointer(arena, ptr, alignment) ==
    (((arena.address + ptr + alignment - 1) \div alignment) * alignment)
        - arena.address

Begin(m, i) == IF i = m.cur THEN m.ptr ELSE 0

Larger(a, b) == IF a > b THEN a ELSE b

AlignedIn(m, i, alignment) ==
    AlignPointer(m.arenas[i], Begin(m, i), alignment)

(* Fault: the padding in front of the block is forgotten.                  *)
CurAfterUnpadded(m, i, from, size) == Begin(m, i) + size

CurAfter(m, i, from, size) == from + size

(* The block is handed out and the position is behind it.                  *)
Place(o, m, i, from, alignment, size) ==
    /\ mem' = [mem EXCEPT ![o] = [m EXCEPT !.cur = i,
                                           !.ptr = CurAfter(m, i, from, size)]]
    /\ blocks' = [blocks EXCEPT ![o] = @ \cup
                     {[arena |-> i, from |-> from, to |-> from + size,
                       alignment |-> alignment, depth |-> Len(scopes[o])]}]
    /\ UNCHANGED scopes

Grow(m, address, size) ==
    LET new == Larger(2 * m.total, size)
    IN  [m EXCEPT !.arenas = Append(@, Arena(address, new)),
                  !.total = @ + new]

(* The first arena from cur_arena_ on that has room, or a new one.         *)
AllocAligned(o, alignment, size) ==
    LET m == mem[o]
        fit == {i \in m.cur .. Len(m.arenas) :
                   AlignedIn(m, i, alignment) + size <= m.arenas[i].size}
    IN  /\ m.cur # 0
        /\ Cardinality(blocks[o]) < MaxBlocks
        /\ \/ /\ fit # {}
              /\ LET i == Min(fit)
                 IN  Place(o, m, i, AlignedIn(m, i, alignment), alignment, size)
           \/ /\ fit = {}
              /\ Len(m.arenas) < MaxArenas
              /\ \E a \in {x \in Addresses : x % alignment = 0} :
                    Place(o, Grow(m, a, size), Len(m.arenas) + 1, 0, alignment, size)

Alloc(o, size) == AllocAligned(o, MaxAlign, size)

(* Free: the caller gives the block up, the allocator does nothing.        *)
Free(o) ==
    /\ \E b \in blocks[o] : blocks' = [blocks EXCEPT ![o] = @ \ {b}]
    /\ UNCHANGED <<mem, scopes>>

(* Purge, also inside a Scoped handler: every block is given up.           *)
Purge(o) ==
    /\ mem[o].cur # 0
    /\ mem' = [mem EXCEPT ![o].cur = 1, ![o].ptr = 0]
    /\ blocks' = [blocks EXCEPT ![o] = {}]
    /\ UNCHANGED scopes

ScopedEnter(o) ==
    /\ mem[o].cur # 0
    /\ Len(scopes[o]) < MaxDepth
    /\ scopes' = [scopes EXCEPT ![o] = Append(@, [cur |-> mem[o].cur,
                                                  ptr |-> mem[o].ptr])]
    /\ UNCHANGED <<mem, blocks>>

(* The handler returned: what was allocated in it is given up.             *)
ScopedExit(o) ==
    LET depth == Len(scopes[o])
        saved == scopes[o][depth]
    IN  /\ depth > 0
        /\ mem' = [mem EXCEPT ![o].cur = saved.cur, ![o].ptr = saved.ptr]
        /\ blocks' = [blocks EXCEPT ![o] = {b \in @ : b.depth < depth}]
        /\ scopes' = [scopes EXCEPT ![o] = SubSeq(@, 1, depth - 1)]

Swapped(f, o, p) == [f EXCEPT ![o] = f[p], ![p] = f[o]]

(* Move construction and assignment swap the two. They do not happen while *)
(* a handler runs on either: its saved position would be another's.        *)
MoveMemory(o, p) ==
    /\ o # p
    /\ scopes[o] = <<>> /\ scopes[p] = <<>>
    /\ mem' = Swapped(mem, o, p)
    /\ blocks' = Swapped(blocks, o, p)
    /\ UNCHANGED scopes

ScratchNext ==
    \E o \in Allocators :
        \/ \E a \in Alignments, s \in Sizes : AllocAligned(o, a, s)
        \/ \E s \in Sizes : Alloc(o, s)
        \/ Free(o)
        \/ Purge(o)
        \/ ScopedEnter(o)
        \/ ScopedExit(o)
        \/ \E p \in Allocators : MoveMemory(o, p)

ScratchSpec == ScratchInit /\ [][ScratchNext]_scratchVars

-----------------------------------------------------------------------------
(* The sizes of the first n arenas of a chain.                             *)
ArenaBytes(arenas, n) ==
    LET sz[i \in 0 .. n] == IF i = 0 THEN 0 ELSE sz[i - 1] + arenas[i].size
    IN  sz[n]

SizeAllocated(m) ==
    IF m.cur = 0 THEN 0 ELSE ArenaBytes(m.arenas, m.cur - 1) + m.ptr

(* The bytes of a set of blocks.                                           *)
BlockBytes(S) == MapThenSumSet(LAMBDA b : b.to - b.from, S)

(* The position is inside the chain and total_size_ counts its arenas.     *)
ScratchTypeOK ==
    \A o \in Allocators :
        LET m == mem[o]
        IN  /\ m.cur \in 0 .. Len(m.arenas)
            /\ m.cur # 0 => m.ptr \in 0 .. m.arenas[m.cur].size
            /\ m.total = ArenaBytes(m.arenas, Len(m.arenas))

(* Blocks in use never share a byte: not when an arena is entered again    *)
(* after a Purge or a Scoped call, nor when memory moved to another        *)
(* allocator.                                                              *)
Disjoint ==
    \A o \in Allocators : \A b, c \in blocks[o] :
        b # c => \/ b.arena # c.arena
                 \/ b.to <= c.from
                 \/ c.to <= b.from

(* A block is inside an arena of the allocator that has it, at an address  *)
(* with the alignment its caller asked for.                                *)
Usable ==
    \A o \in Allocators : \A b \in blocks[o] :
        LET a == mem[o].arenas[b.arena]
        IN  /\ b.arena \in 1 .. Len(mem[o].arenas)
            /\ 0 <= b.from /\ b.to <= a.size
            /\ (a.address + b.from) % b.alignment = 0

(* SizeAllocated never reports less than what callers hold.                *)
Counted ==
    \A o \in Allocators :
        BlockBytes(blocks[o]) <= SizeAllocated(mem[o])

(* What a caller of the allocator relies on, after any sequence of calls,  *)
(* scopes and moves.                                                       *)
AllocatorInv == ScratchTypeOK /\ Disjoint /\ Usable /\ Counted
=============================================================================
