--------------------------- MODULE TmObject_proofs ---------------------------
(***************************************************************************)
(* The private parts of the objects are disjoint, aligned and inside the   *)
(* allocated block, for any number and sizes of objects and any order of   *)
(* the constructors.  The argument goes over below, the bytes registered   *)
(* for the smaller ids: the loop of tm_tc_init reproduces exactly these.   *)
(***************************************************************************)
EXTENDS TmObject, TLAPS

Aligned(i) == TM_OBJECT_SIZE(ObjSize[i])
Context == TM_OBJECT_SIZE(CtxSize)
Part(i) == IF i \in tmObjs THEN Aligned(i) ELSE 0
Ids == 0 .. TM_OBJECT_MAX

\* What the constructors have added up.
BelowInv ==
    /\ below[0] = 0
    /\ \A i \in Ids : below[i] % 8 = 0
    /\ \A i \in Objects : below[i + 1] = below[i] + Part(i)
    /\ \A i \in Objects, j \in Ids : i < j => below[i] + Part(i) <= below[j]
    /\ ctxSize = Context + below[TM_OBJECT_MAX]

\* The block has the size that was added up, and the loop has come to next.
LayoutInv ==
    /\ allocated \in {-1, ctxSize}
    /\ next # -1 => /\ allocated # -1
                    /\ objOff = Context + below[next]
                    /\ \A j \in Objects : j < next => offset[j] = Context + below[j]

ObjInv == ObjTypeOK /\ BelowInv /\ LayoutInv

-----------------------------------------------------------------------------
\* TM_OBJECT_SIZE gives the next multiple of eight.
LEMMA SizeAligned ==
    ASSUME NEW n \in Nat
    PROVE  /\ TM_OBJECT_SIZE(n) \in Nat
           /\ TM_OBJECT_SIZE(n) % 8 = 0
           /\ n <= TM_OBJECT_SIZE(n)
  BY DEF TM_OBJECT_SIZE

LEMMA PartsAligned ==
    /\ \A i \in Objects : Aligned(i) \in Nat /\ Aligned(i) % 8 = 0 /\ ObjSize[i] <= Aligned(i)
    /\ Context \in Nat /\ Context % 8 = 0 /\ CtxSize <= Context
  <1>1. \A i \in Objects : ObjSize[i] \in Nat
    BY ObjectAssumption
  <1> QED  BY <1>1, SizeAligned, ObjectAssumption DEF Aligned, Context

LEMMA Domains ==
    /\ Objects \subseteq Ids
    /\ \A i \in Objects : i \in Int /\ i + 1 \in Ids
    /\ 0 \in Ids /\ TM_OBJECT_MAX \in Ids
    /\ \A i \in Ids : i \in Nat
  BY ObjectAssumption DEF Objects, Ids

LEMMA ObjInitInv == ObjInit => ObjInv
  <1> SUFFICES ASSUME ObjInit PROVE ObjInv  OBVIOUS
  <1> USE DEF ObjInit
  <1>1. ObjTypeOK
    BY PartsAligned, Domains, ObjectAssumption DEF ObjTypeOK, Context, Ids
  <1>2. BelowInv
    BY PartsAligned, Domains DEF BelowInv, Part, Context, Ids
  <1>3. LayoutInv
    BY DEF LayoutInv
  <1> QED  BY <1>1, <1>2, <1>3 DEF ObjInv

-----------------------------------------------------------------------------
LEMMA RegisterInv ==
    ASSUME ObjInv, NEW id \in Objects, Register(id)
    PROVE  ObjInv'
  <1> DEFINE A == Aligned(id)
  <1>1. A \in Nat /\ A % 8 = 0
    BY PartsAligned
  <1>2. /\ tmObjs' = tmObjs \cup {id} /\ id \notin tmObjs
        /\ ctxSize' = ctxSize + A
        /\ \A i \in Ids : below'[i] = IF i > id THEN below[i] + A ELSE below[i]
        /\ below' \in [Ids -> Int]
        /\ UNCHANGED <<allocated, offset, next, objOff>> /\ allocated = -1
    BY <1>1 DEF Register, Aligned, Ids, ObjInv, ObjTypeOK
  <1>3. below \in [Ids -> Nat] /\ ctxSize \in Nat /\ tmObjs \subseteq Objects
    BY DEF ObjInv, ObjTypeOK, Ids
  <1>4. \A i \in Objects : Part(i) \in Nat /\ Part(i)' = IF i = id THEN A ELSE Part(i)
    BY <1>2, PartsAligned DEF Part, Aligned
  <1>5. Part(id) = 0 /\ id \in Int
    BY <1>2, Domains DEF Part
  <1> HIDE DEF A
  <1>6. ObjTypeOK'
    <2>1. below' \in [Ids -> Nat]
      BY <1>1, <1>2, <1>3, Domains
    <2>2. ctxSize' \in Nat
      BY <1>1, <1>2, <1>3
    <2> QED  BY <1>2, <1>3, <2>1, <2>2 DEF ObjInv, ObjTypeOK, Ids
  <1>7. BelowInv'
    <2>1. below'[0] = 0
      BY <1>2, Domains, ObjectAssumption DEF ObjInv, BelowInv, Objects
    <2>2. ASSUME NEW i \in Ids PROVE below'[i] % 8 = 0
      <3>1. below[i] \in Nat /\ below[i] % 8 = 0
        BY <1>3 DEF ObjInv, BelowInv
      <3> QED  BY <1>1, <1>2, <3>1
    <2>3. ASSUME NEW i \in Objects PROVE below'[i + 1] = below'[i] + Part(i)'
      <3>1. i \in Int /\ i \in Ids /\ i + 1 \in Ids
        BY Domains
      <3>2. below[i + 1] = below[i] + Part(i) /\ below[i] \in Nat
        BY <1>3, <3>1 DEF ObjInv, BelowInv
      <3> QED  BY <1>1, <1>2, <1>4, <1>5, <3>1, <3>2
    <2>4. ASSUME NEW i \in Objects, NEW j \in Ids, i < j
          PROVE  below'[i] + Part(i)' <= below'[j]
      <3>1. i \in Int /\ i \in Ids /\ j \in Int
        BY Domains
      <3>2. below[i] + Part(i) <= below[j] /\ below[i] \in Nat /\ below[j] \in Nat
        BY <1>3, <2>4, <3>1 DEF ObjInv, BelowInv
      <3> QED  BY <1>1, <1>2, <1>4, <1>5, <2>4, <3>1, <3>2
    <2>5. ctxSize' = Context + below'[TM_OBJECT_MAX]
      <3>1. TM_OBJECT_MAX > id
        BY ObjectAssumption DEF Objects
      <3>2. ctxSize = Context + below[TM_OBJECT_MAX] /\ below[TM_OBJECT_MAX] \in Nat
        BY <1>3, Domains DEF ObjInv, BelowInv
      <3> QED  BY <1>1, <1>2, <3>1, <3>2, PartsAligned, Domains
    <2> QED  BY <2>1, <2>2, <2>3, <2>4, <2>5 DEF BelowInv, Context, Ids, Objects
  <1>8. LayoutInv'
    BY <1>2 DEF ObjInv, LayoutInv
  <1> QED  BY <1>6, <1>7, <1>8 DEF ObjInv

\* Allocate, StartLayout and Place leave what was registered alone.
LEMMA BelowKept ==
    ASSUME BelowInv, UNCHANGED <<tmObjs, ctxSize, below>>
    PROVE  BelowInv'
  BY DEF BelowInv, Part, Context, Aligned, Ids, Objects

LEMMA AllocateInv == ASSUME ObjInv, Allocate PROVE ObjInv'
  <1>1. BelowInv'
    BY BelowKept DEF ObjInv, Allocate
  <1>2. ObjTypeOK' /\ LayoutInv'
    BY DEF ObjInv, Allocate, ObjTypeOK, LayoutInv
  <1> QED  BY <1>1, <1>2 DEF ObjInv

LEMMA StartLayoutInv == ASSUME ObjInv, StartLayout PROVE ObjInv'
  <1>1. BelowInv'
    BY BelowKept DEF ObjInv, StartLayout
  <1>2. ObjTypeOK'
    BY PartsAligned, ObjectAssumption DEF ObjInv, StartLayout, ObjTypeOK, Context
  <1>3. LayoutInv'
    BY PartsAligned DEF ObjInv, StartLayout, LayoutInv, BelowInv, Context, Objects
  <1> QED  BY <1>1, <1>2, <1>3 DEF ObjInv

LEMMA PlaceInv == ASSUME ObjInv, Place PROVE ObjInv'
  <1>1. BelowInv'
    BY BelowKept DEF ObjInv, Place
  <1>2. /\ next \in Objects /\ next' = next + 1 /\ next \in Nat
        /\ objOff \in Nat /\ below \in [Ids -> Nat]
        /\ UNCHANGED <<tmObjs, ctxSize, below, allocated>>
        /\ offset \in [Objects -> Nat]
        /\ offset' = [offset EXCEPT ![next] = objOff]
        /\ objOff' = objOff + Part(next)
        /\ Part(next) \in Nat
    BY PartsAligned DEF ObjInv, Place, ObjTypeOK, Ids, Part, Aligned, Objects
  <1>3. /\ allocated # -1 /\ objOff = Context + below[next]
        /\ \A j \in Objects : j < next => offset[j] = Context + below[j]
        /\ below[next + 1] = below[next] + Part(next)
        /\ allocated = ctxSize
    BY <1>2 DEF ObjInv, LayoutInv, BelowInv, Objects
  <1>4. ObjTypeOK'
    <2>1. next' \in -1 .. TM_OBJECT_MAX
      BY <1>2, ObjectAssumption DEF Objects
    <2>2. objOff' \in Nat
      BY <1>2
    <2>3. offset' \in [Objects -> Nat]
      BY <1>2
    <2> QED  BY <1>2, <2>1, <2>2, <2>3 DEF ObjInv, ObjTypeOK
  <1>5. objOff' = Context + below[next + 1]
    BY <1>2, <1>3, PartsAligned, Domains
  <1>6. ASSUME NEW j \in Objects, j < next + 1 PROVE offset'[j] = Context + below[j]
    <2>1. j \in Int
      BY Domains
    <2>2. CASE j = next
      BY <1>2, <1>3, <2>2
    <2>3. CASE j < next
      BY <1>2, <1>3, <2>1, <2>3
    <2> QED  BY <1>2, <1>6, <2>1, <2>2, <2>3
  <1>7. LayoutInv'
    BY <1>2, <1>3, <1>5, <1>6 DEF LayoutInv, Context
  <1> QED  BY <1>1, <1>4, <1>7 DEF ObjInv

LEMMA ObjStepInv == ObjInv /\ [ObjNext]_objVars => ObjInv'
  <1> SUFFICES ASSUME ObjInv, [ObjNext]_objVars PROVE ObjInv'  OBVIOUS
  <1>1. ASSUME NEW id \in Objects, Register(id) PROVE ObjInv'
    BY <1>1, RegisterInv
  <1>2. CASE Allocate     BY <1>2, AllocateInv
  <1>3. CASE StartLayout  BY <1>3, StartLayoutInv
  <1>4. CASE Place        BY <1>4, PlaceInv
  <1>5. CASE UNCHANGED objVars
    <2>1. BelowInv'
      BY <1>5, BelowKept DEF ObjInv, objVars
    <2>2. ObjTypeOK' /\ LayoutInv'
      BY <1>5 DEF ObjInv, objVars, ObjTypeOK, LayoutInv, Context
    <2> QED  BY <2>1, <2>2 DEF ObjInv
  <1> QED  BY <1>1, <1>2, <1>3, <1>4, <1>5 DEF ObjNext

LEMMA LayoutCorrect == ObjInv => PartsDisjoint
  <1> SUFFICES ASSUME ObjInv, LaidOut PROVE PartsDisjoint  BY DEF PartsDisjoint
  <1>1. /\ next = TM_OBJECT_MAX /\ next \in Nat /\ tmObjs \subseteq Objects
        /\ below \in [Ids -> Nat] /\ ctxSize \in Nat
    BY ObjectAssumption DEF LaidOut, ObjInv, ObjTypeOK, Ids
  <1>2. allocated = Context + below[TM_OBJECT_MAX]
    BY <1>1 DEF ObjInv, LayoutInv, BelowInv
  <1>3. ASSUME NEW i \in tmObjs
        PROVE  /\ offset[i] = Context + below[i] /\ below[i] \in Nat /\ below[i] % 8 = 0
               /\ i \in Objects /\ Part(i) = Aligned(i)
               /\ ObjSize[i] \in Nat /\ Part(i) \in Nat /\ ObjSize[i] <= Part(i)
    <2>1. i \in Objects /\ i \in Ids /\ i < next
      BY <1>1, Domains DEF Objects
    <2>2. offset[i] = Context + below[i] /\ below[i] % 8 = 0
      BY <1>1, <2>1 DEF ObjInv, LayoutInv, BelowInv
    <2>3. Part(i) = Aligned(i) /\ ObjSize[i] \in Nat
      BY <2>1, ObjectAssumption DEF Part
    <2> QED  BY <1>1, <2>1, <2>2, <2>3, PartsAligned
  <1>4. ASSUME NEW i \in tmObjs
        PROVE  offset[i] % 8 = 0 /\ CtxSize <= offset[i] /\ PartEnd(i) <= allocated
    <2>1. below[i] + Part(i) <= below[TM_OBJECT_MAX]
      BY <1>3, Domains, ObjectAssumption DEF ObjInv, BelowInv, Objects
    <2>2. below[TM_OBJECT_MAX] \in Nat /\ CtxSize \in Nat
      BY <1>1, Domains, ObjectAssumption
    <2> QED  BY <1>2, <1>3, <2>1, <2>2, PartsAligned DEF PartEnd
  <1>5. ASSUME NEW i \in tmObjs, NEW j \in tmObjs, i < j PROVE PartEnd(i) <= offset[j]
    <2>1. below[i] + Part(i) <= below[j]
      BY <1>3, <1>5, Domains DEF ObjInv, BelowInv
    <2>2. Context \in Nat
      BY PartsAligned
    <2>3. offset[j] = Context + below[j] /\ below[j] \in Nat
      BY <1>3
    <2>4. /\ offset[i] = Context + below[i] /\ below[i] \in Nat
          /\ ObjSize[i] \in Nat /\ Part(i) \in Nat /\ ObjSize[i] <= Part(i)
      BY <1>3
    <2>5. PartEnd(i) = Context + below[i] + ObjSize[i]
      BY <2>4 DEF PartEnd
    <2> HIDE DEF Part, Context
    <2> QED  BY <2>1, <2>2, <2>3, <2>4, <2>5
  <1> QED  BY <1>4, <1>5 DEF PartsDisjoint

\* For every order of the constructors and all sizes: tm_get_object hands
\* out disjoint, aligned parts inside the allocated block (tm_main.c, tm.h).
THEOREM PartsAreDisjoint == ObjSpec => []PartsDisjoint
  <1>1. ObjInit => ObjInv               BY ObjInitInv
  <1>2. ObjInv /\ [ObjNext]_objVars => ObjInv'  BY ObjStepInv
  <1>3. ObjInv => PartsDisjoint         BY LayoutCorrect
  <1> QED  BY <1>1, <1>2, <1>3, PTL DEF ObjSpec
=============================================================================
