------------------------------ MODULE TmObject ------------------------------
(***************************************************************************)
(* Registration of the objects by the constructors of their files and the  *)
(* layout of struct tm_context: one allocation holds the context and,      *)
(* behind it, the private part of every object (tm_main.c, tm.h).  The     *)
(* constructors run before main, in whatever order the program was linked. *)
(***************************************************************************)
EXTENDS Integers

CONSTANTS
    TM_OBJECT_MAX,  \* number of entries of tm_objs
    ObjSize,        \* obj_size of each object, in bytes
    CtxSize         \* sizeof(struct tm_context)

Objects == 0 .. TM_OBJECT_MAX - 1

ASSUME ObjectAssumption ==
    /\ TM_OBJECT_MAX \in Nat \ {0}
    /\ ObjSize \in [Objects -> Nat]
    /\ CtxSize \in Nat

VARIABLES
    tmObjs,     \* the ids whose entry of tm_objs is set
    ctxSize,    \* tm_ctx_size
    below,      \* history: bytes registered for the ids below each id
    allocated,  \* size of the block tm_tc_alloc has, -1: none
    offset,     \* tc->offset
    next,       \* i of the loop of tm_tc_init, -1: not in it yet
    objOff      \* obj_off of that loop

objVars == <<tmObjs, ctxSize, below, allocated, offset, next, objOff>>

\* Mutant: rounds down.
TM_OBJECT_SIZE_DOWN(size) == (size \div 8) * 8

TM_OBJECT_SIZE(size) == ((size + 7) \div 8) * 8

ObjTypeOK ==
    /\ tmObjs \subseteq Objects
    /\ ctxSize \in Nat
    /\ below \in [0 .. TM_OBJECT_MAX -> Nat]
    /\ allocated \in Nat \cup {-1}
    /\ offset \in [Objects -> Nat]
    /\ next \in -1 .. TM_OBJECT_MAX
    /\ objOff \in Nat

ObjInit ==
    /\ tmObjs = {}
    /\ ctxSize = TM_OBJECT_SIZE(CtxSize)
    /\ below = [i \in 0 .. TM_OBJECT_MAX |-> 0]
    /\ allocated = -1
    /\ offset = [i \in Objects |-> 0]
    /\ next = -1
    /\ objOff = 0

\* tm_object_register, called once per object; ERANGE and EEXIST, on which
\* the constructor panics, do not happen for distinct ids of the enum.
Register(id) ==
    /\ allocated = -1
    /\ id \in Objects \ tmObjs
    /\ tmObjs' = tmObjs \cup {id}
    /\ ctxSize' = ctxSize + TM_OBJECT_SIZE(ObjSize[id])
    /\ below' = [i \in 0 .. TM_OBJECT_MAX |->
                    IF i > id THEN below[i] + TM_OBJECT_SIZE(ObjSize[id])
                              ELSE below[i]]
    /\ UNCHANGED <<allocated, offset, next, objOff>>

\* calloc of tm_tc_alloc
Allocate ==
    /\ allocated = -1
    /\ allocated' = ctxSize
    /\ UNCHANGED <<tmObjs, ctxSize, below, offset, next, objOff>>

\* tm_tc_init after its locks: the loop starts behind the context
StartLayout ==
    /\ allocated # -1
    /\ next = -1
    /\ next' = 0
    /\ objOff' = TM_OBJECT_SIZE(CtxSize)
    /\ UNCHANGED <<tmObjs, ctxSize, below, allocated, offset>>

\* one iteration of that loop
Place ==
    /\ next \in Objects
    /\ offset' = [offset EXCEPT ![next] = objOff]
    /\ objOff' = IF next \in tmObjs
                 THEN objOff + TM_OBJECT_SIZE(ObjSize[next]) ELSE objOff
    /\ next' = next + 1
    /\ UNCHANGED <<tmObjs, ctxSize, below, allocated>>

\* tm_tc_free; a second tm_tc_alloc does not happen
ObjNext == (\E id \in Objects : Register(id)) \/ Allocate \/ StartLayout \/ Place

ObjSpec == ObjInit /\ [][ObjNext]_objVars

-----------------------------------------------------------------------------
LaidOut == next = TM_OBJECT_MAX

\* The bytes object i may use through tm_get_object.
PartEnd(i) == offset[i] + ObjSize[i]

\* tm_get_object hands out, whatever the order of the constructors, aligned
\* private parts that lie behind the context, do not overlap and end inside
\* the one block that was allocated before the offsets were known.
PartsDisjoint ==
    LaidOut =>
        /\ \A i \in tmObjs : /\ offset[i] % 8 = 0
                             /\ CtxSize <= offset[i]
                             /\ PartEnd(i) <= allocated
        /\ \A i, j \in tmObjs : i < j => PartEnd(i) <= offset[j]
=============================================================================
