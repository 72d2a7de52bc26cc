---------------------------- MODULE TmItem_proofs ----------------------------
(***************************************************************************)
(* Proofs about TmItem, for any set of items, any texts and any number of  *)
(* ticks.  The two emptiness tests stay exact however badly the lists are  *)
(* damaged (HeadInv).  As long as no linked item is added again, the lists *)
(* are rings of items that share none (LinkInv): a list is a function from *)
(* 1 .. n to its items (Path, Ring), and what list_add_tail and            *)
(* list_replace_init do to the pointers is one item more, or the same      *)
(* function below another head.  What is drawn and what is not follows     *)
(* from who is on the lists (LossInv).                                     *)
(***************************************************************************)
EXTENDS TmItem, TmInduction, FiniteSetTheorems

Shared == {"static", "tc"}

\* A shared head is empty, or its first and last entry are items.
HeadOK(h) ==
    \/ next[h] = h /\ prev[h] = h
    \/ next[h] \in Items /\ prev[h] \in Items

HeadInv ==
    /\ TypeOK
    /\ emPc = "copy" => item \in Items
    /\ \A h \in Shared : HeadOK(h)
    /\ Empty("static") <=> added = {}

USE ItemAssumption
-----------------------------------------------------------------------------
\* Heads and items are different nodes.
LEMMA NodesApart ==
    /\ \A i \in Items : i \notin Heads /\ i \in Nodes
    /\ \A h \in Heads : h \in Nodes /\ h \notin Items
    /\ Shared \subseteq Heads /\ "local" \in Heads
    /\ "static" # "tc" /\ "static" # "local" /\ "tc" # "local"
BY DEF Nodes, Heads, Shared

\* list_add_tail: the new node is the last one, the first one stays unless
\* the list was empty; the other shared head is not touched.
LEMMA AddTailHeads ==
    ASSUME TypeOK, \A h \in Shared : HeadOK(h), NEW i \in Items,
           ListAddTail(i, "static")
    PROVE  /\ next' \in [Nodes -> Nodes] /\ prev' \in [Nodes -> Nodes]
           /\ \A h \in Shared : HeadOK(h)'
           /\ ~Empty("static")'
<1>1. /\ next \in [Nodes -> Nodes] /\ prev \in [Nodes -> Nodes]
      /\ HeadOK("static") /\ HeadOK("tc")
  BY DEF TypeOK, Shared
<1> DEFINE last == prev["static"]
<1>a. /\ "static" \in Nodes /\ "tc" \in Nodes /\ i \in Nodes /\ last \in Nodes
      /\ "static" # "tc" /\ i # "static" /\ i # "tc" /\ last # "tc"
      /\ last = "static" \/ (last \in Items /\ next["static"] \in Items)
  BY <1>1, NodesApart DEF HeadOK, Heads
<1>b. /\ next' = [[next EXCEPT ![i] = "static"] EXCEPT ![last] = i]
      /\ prev' = [[prev EXCEPT !["static"] = i] EXCEPT ![i] = last]
  BY DEF ListAddTail
<1> HIDE DEF last
<1>2. next' \in [Nodes -> Nodes] /\ prev' \in [Nodes -> Nodes]
  BY <1>1, <1>a, <1>b
<1>3. next'["static"] \in Items /\ prev'["static"] = i
  BY <1>1, <1>a, <1>b, NodesApart
<1>4. next'["tc"] = next["tc"] /\ prev'["tc"] = prev["tc"]
  BY <1>1, <1>a, <1>b
<1>5. \A h \in Shared : HeadOK(h)'
  BY <1>1, <1>3, <1>4 DEF HeadOK, Shared
<1>6. ~Empty("static")'
  BY <1>3, <1>a, NodesApart DEF Empty, Heads
<1>7. QED  BY <1>2, <1>5, <1>6

\* list_replace_init of a list that is not empty: the new head takes its
\* place, the old head is empty, and no other head is touched.
LEMMA ReplaceHeads ==
    ASSUME TypeOK, NEW old \in Shared, HeadOK(old), ~Empty(old),
           NEW new \in Heads, new # old, ListReplaceInit(old, new)
    PROVE  /\ next' \in [Nodes -> Nodes] /\ prev' \in [Nodes -> Nodes]
           /\ next'[old] = old /\ prev'[old] = old
           /\ next'[new] \in Items /\ prev'[new] \in Items
           /\ \A h \in Heads \ {old, new} : next'[h] = next[h] /\ prev'[h] = prev[h]
<1>1. /\ next \in [Nodes -> Nodes] /\ prev \in [Nodes -> Nodes]
      /\ next[old] \in Items /\ prev[old] \in Items
  BY DEF TypeOK, HeadOK, Empty
<1>2. old \in Heads /\ old \in Nodes /\ new \in Nodes
  BY NodesApart
<1>3. next' \in [Nodes -> Nodes] /\ prev' \in [Nodes -> Nodes]
  BY <1>1, <1>2, NodesApart DEF ListReplaceInit
<1>4. next'[old] = old /\ prev'[old] = old
  BY <1>1, <1>2, NodesApart DEF ListReplaceInit
<1>5. next'[new] = next[old] /\ prev'[new] = prev[old]
  BY <1>1, <1>2, NodesApart DEF ListReplaceInit
<1>6. ASSUME NEW h \in Heads \ {old, new}
      PROVE  next'[h] = next[h] /\ prev'[h] = prev[h]
  BY <1>1, <1>2, NodesApart DEF ListReplaceInit
<1>7. QED  BY <1>1, <1>3, <1>4, <1>5, <1>6
-----------------------------------------------------------------------------
\* All lists are empty and nothing was added.
LEMMA InitHeads == Init => HeadInv
<1> SUFFICES ASSUME Init PROVE HeadInv
  OBVIOUS
<1>1. TypeOK
  <2>1. "static" \in Nodes /\ "local" \in Nodes
    BY NodesApart DEF Heads
  <2>2. next \in [Nodes -> Nodes] /\ prev \in [Nodes -> Nodes]
    BY DEF Init
  <2>3. /\ str \in [Items -> Strs \union {EmptyStr}]
        /\ shown \in [Items -> Strs \union {EmptyStr, "blank", "torn"}]
    BY DEF Init
  <2>4. QED  BY <2>1, <2>2, <2>3 DEF Init, TypeOK
<1>2. \A h \in Shared : HeadOK(h)
  BY NodesApart DEF Init, HeadOK
<1>3. Empty("static") /\ added = {} /\ emPc = "idle"
  <2>1. "static" \in Nodes
    BY NodesApart DEF Heads
  <2>2. QED  BY <2>1 DEF Init, Empty
<1>4. QED  BY <1>1, <1>2, <1>3 DEF HeadInv

\* The lists stay as they are and so does what the invariant says of them.
LEMMA HeadsKept ==
    ASSUME HeadInv, UNCHANGED <<next, prev, added>>, TypeOK',
           emPc' = "copy" => item' \in Items
    PROVE  HeadInv'
<1>1. \A h \in Shared : HeadOK(h)'
  BY DEF HeadInv, HeadOK
<1>2. Empty("static")' <=> added' = {}
  BY DEF HeadInv, Empty
<1>3. QED  BY <1>1, <1>2 DEF HeadInv

\* An item was changed and added.
LEMMA UpdateHeads ==
    ASSUME HeadInv, NEW i \in Items, UpdateAdd(i)
    PROVE  /\ next' \in [Nodes -> Nodes] /\ prev' \in [Nodes -> Nodes]
           /\ added' \subseteq Items /\ relinked' \in BOOLEAN
           /\ \A h \in Shared : HeadOK(h)'
           /\ Empty("static")' <=> added' = {}
<1>1. TypeOK /\ (\A h \in Shared : HeadOK(h)) /\ ListAddTail(i, "static")
  BY DEF HeadInv, UpdateAdd
<1>2. /\ next' \in [Nodes -> Nodes] /\ prev' \in [Nodes -> Nodes]
      /\ \A h \in Shared : HeadOK(h)'
      /\ ~Empty("static")'
  BY <1>1, AddTailHeads
<1>3. added' = added \union {i} /\ added \subseteq Items
  BY <1>1 DEF UpdateAdd, TypeOK
<1>4. relinked' \in BOOLEAN
  BY <1>1, Zenon DEF UpdateAdd
<1>5. QED  BY <1>2, <1>3, <1>4
-----------------------------------------------------------------------------
\* Every step of any thread keeps the heads sound.
LEMMA HeadStep == HeadInv /\ [Next]_vars => HeadInv'
<1> SUFFICES ASSUME HeadInv, [Next]_vars PROVE HeadInv'
  OBVIOUS
<1>t. TypeOK /\ (emPc = "copy" => item \in Items)
  BY DEF HeadInv
<1>1. ASSUME NEW i \in Items, NEW s \in Strs, InitUpdate(i, s)
      PROVE  HeadInv'
  <2>1. /\ next' \in [Nodes -> Nodes] /\ prev' \in [Nodes -> Nodes]
        /\ added' \subseteq Items /\ relinked' \in BOOLEAN
        /\ \A h \in Shared : HeadOK(h)'
        /\ Empty("static")' <=> added' = {}
    BY <1>1, UpdateHeads DEF InitUpdate
  <2>2. TypeOK'
    BY <1>1, <1>t, <2>1 DEF InitUpdate, TypeOK, mainVars
  <2>3. emPc' = "copy" => item' \in Items
    BY <1>1, <1>t DEF InitUpdate
  <2>4. QED  BY <2>1, <2>2, <2>3 DEF HeadInv
<1>2. CASE InitDone
  <2>1. TypeOK' /\ UNCHANGED <<next, prev, added, emPc, item>>
    BY <1>2, <1>t DEF InitDone, TypeOK, listVars, emVars
  <2>2. QED  BY <2>1, <1>t, HeadsKept
<1>3. CASE EmTick
  <2>1. TypeOK' /\ UNCHANGED <<next, prev, added>> /\ emPc' # "copy"
    BY <1>3, <1>t DEF EmTick, TypeOK, listVars, mainVars
  <2>2. QED  BY <2>1, HeadsKept
<1>4. ASSUME NEW i \in Items, EmDiffers(i)  PROVE HeadInv'
  <2>1. TypeOK' /\ UNCHANGED <<next, prev, added>> /\ item' \in Items
    BY <1>4, <1>t, NodesApart DEF EmDiffers, TypeOK, listVars, mainVars
  <2>2. QED  BY <2>1, HeadsKept
<1>5. ASSUME NEW s \in Strs, EmCopied(s)  PROVE HeadInv'
  <2>1. item \in Items
    BY <1>5, <1>t DEF EmCopied
  <2>2. /\ next' \in [Nodes -> Nodes] /\ prev' \in [Nodes -> Nodes]
        /\ added' \subseteq Items /\ relinked' \in BOOLEAN
        /\ \A h \in Shared : HeadOK(h)'
        /\ Empty("static")' <=> added' = {}
    BY <1>5, <2>1, UpdateHeads DEF EmCopied
  <2>3. TypeOK' /\ emPc' # "copy"
    BY <1>5, <1>t, <2>1, <2>2 DEF EmCopied, TypeOK, mainVars
  <2>4. QED  BY <2>2, <2>3 DEF HeadInv
<1>6. CASE EmFails
  <2>1. TypeOK' /\ UNCHANGED <<next, prev, added>> /\ emPc' # "copy"
    BY <1>6, <1>t DEF EmFails, TypeOK, listVars, mainVars
  <2>2. QED  BY <2>1, HeadsKept
<1>7. CASE EmHandOff
  <2>1. CASE Empty("static")
    <3>1. TypeOK' /\ UNCHANGED <<next, prev, added>> /\ emPc' # "copy"
      BY <1>7, <2>1, <1>t DEF EmHandOff, TypeOK, listVars, mainVars
    <3>2. QED  BY <3>1, HeadsKept
  <2>2. CASE ~Empty("static")
    <3>1. HeadOK("static") /\ "static" \in Shared /\ "tc" \in Heads /\ "tc" # "static"
      BY NodesApart DEF HeadInv, Shared, Heads
    <3>2. ListReplaceInit("static", "tc") /\ added' = {} /\ emPc' # "copy"
      BY <1>7, <2>2 DEF EmHandOff
    <3>3. /\ next' \in [Nodes -> Nodes] /\ prev' \in [Nodes -> Nodes]
          /\ next'["static"] = "static" /\ prev'["static"] = "static"
          /\ next'["tc"] \in Items /\ prev'["tc"] \in Items
      BY <1>t, <2>2, <3>1, <3>2, ReplaceHeads
    <3>4. \A h \in Shared : HeadOK(h)'
      BY <3>3 DEF HeadOK, Shared
    <3>5. TypeOK'
      <4>1. overwritten' \in BOOLEAN
        BY <1>7, <2>2, Zenon DEF EmHandOff
      <4>2. QED  BY <1>7, <1>t, <3>2, <3>3, <4>1 DEF EmHandOff, TypeOK, mainVars
    <3>6. QED  BY <3>2, <3>3, <3>4, <3>5 DEF HeadInv, Empty
  <2>3. QED  BY <2>1, <2>2
<1>8. CASE XExpose
  <2>1. TypeOK' /\ UNCHANGED <<next, prev, added, emPc, item>>
    BY <1>8, <1>t DEF XExpose, TypeOK, listVars, emVars
  <2>2. QED  BY <2>1, <1>t, HeadsKept
<1>9. CASE MainTake
  <2>1. /\ UNCHANGED <<str, todo, emPc, item, ticks, shown, added, relinked,
                       overwritten>>
        /\ drawAll' = FALSE /\ pos' = next'["local"]
        /\ mainPc' \in {"all", "draw"} /\ left' \subseteq Items
    BY <1>9 DEF MainTake, emVars
  <2>2. CASE Empty("tc")
    <3>1. /\ next' = [next EXCEPT !["local"] = "local"]
          /\ prev' = [prev EXCEPT !["local"] = "local"]
      BY <1>9, <2>2 DEF MainTake
    <3>2. next' \in [Nodes -> Nodes] /\ prev' \in [Nodes -> Nodes]
      BY <1>t, <3>1, NodesApart DEF TypeOK
    <3>3. \A h \in Shared : next'[h] = next[h] /\ prev'[h] = prev[h]
      BY <1>t, <3>1, NodesApart DEF TypeOK, Shared
    <3>4. (\A h \in Shared : HeadOK(h)') /\ (Empty("static")' <=> added' = {})
      BY <2>1, <3>3 DEF HeadInv, HeadOK, Empty, Shared
    <3>5. pos' \in Nodes
      BY <2>1, <3>2, NodesApart
    <3>6. TypeOK'
      BY <1>t, <2>1, <3>2, <3>5 DEF TypeOK
    <3>7. QED  BY <1>t, <2>1, <3>4, <3>6 DEF HeadInv
  <2>3. CASE ~Empty("tc")
    <3>1. HeadOK("tc") /\ "tc" \in Shared /\ "local" \in Heads /\ "tc" # "local"
      BY NodesApart DEF HeadInv, Shared
    <3>2. ListReplaceInit("tc", "local")
      BY <1>9, <2>3 DEF MainTake
    <3>3. /\ next' \in [Nodes -> Nodes] /\ prev' \in [Nodes -> Nodes]
          /\ next'["tc"] = "tc" /\ prev'["tc"] = "tc"
          /\ next'["static"] = next["static"] /\ prev'["static"] = prev["static"]
      <4>1. "static" \in Heads \ {"tc", "local"}
        BY NodesApart DEF Heads
      <4>2. QED  BY <1>t, <2>3, <3>1, <3>2, <4>1, ReplaceHeads
    <3>4. (\A h \in Shared : HeadOK(h)') /\ (Empty("static")' <=> added' = {})
      BY <2>1, <3>3 DEF HeadInv, HeadOK, Empty, Shared
    <3>5. pos' \in Nodes
      BY <2>1, <3>3, NodesApart
    <3>6. TypeOK'
      BY <1>t, <2>1, <3>3, <3>5 DEF TypeOK
    <3>7. QED  BY <1>t, <2>1, <3>4, <3>6 DEF HeadInv
  <2>4. QED  BY <2>2, <2>3
<1>10. ASSUME NEW i \in Items, MainDrawAll(i)  PROVE HeadInv'
  <2>1. Drawn(i) \in Strs \union {EmptyStr, "blank", "torn"}
    BY <1>t DEF Drawn, TypeOK
  <2>2. TypeOK' /\ UNCHANGED <<next, prev, added, emPc, item>>
    BY <1>10, <1>t, <2>1 DEF MainDrawAll, TypeOK, listVars, emVars
  <2>3. QED  BY <2>2, <1>t, HeadsKept
<1>11. CASE MainDrawn
  <2>1. TypeOK' /\ UNCHANGED <<next, prev, added, emPc, item>>
    BY <1>11, <1>t DEF MainDrawn, TypeOK, listVars, emVars
  <2>2. QED  BY <2>1, <1>t, HeadsKept
<1>12. CASE MainDrawOne
  <2>1. \A i \in Items : Drawn(i) \in Strs \union {EmptyStr, "blank", "torn"}
    BY <1>t DEF Drawn, TypeOK
  <2>2. TypeOK' /\ UNCHANGED <<next, prev, added, emPc, item>>
    BY <1>12, <1>t, <2>1 DEF MainDrawOne, TypeOK, listVars, emVars
  <2>3. QED  BY <2>2, <1>t, HeadsKept
<1>13. CASE MainAdvance
  <2>1. TypeOK' /\ UNCHANGED <<next, prev, added, emPc, item>>
    BY <1>13, <1>t DEF MainAdvance, TypeOK, listVars, emVars
  <2>2. QED  BY <2>1, <1>t, HeadsKept
<1>14. CASE UNCHANGED vars
  <2>1. TypeOK' /\ UNCHANGED <<next, prev, added, emPc, item>>
    BY <1>14, <1>t DEF vars, TypeOK, listVars, emVars, mainVars
  <2>2. QED  BY <2>1, <1>t, HeadsKept
<1>15. QED
  BY <1>1, <1>2, <1>3, <1>4, <1>5, <1>6, <1>7, <1>8, <1>9, <1>10, <1>11, <1>12,
     <1>13, <1>14 DEF Next, EmStep, MainStep

\* Heads are sound in every reachable state, whatever happens to the items.
THEOREM HeadsAlwaysSound == Spec => []HeadInv
BY InitHeads, HeadStep, PTL DEF Spec

\* Types, for any instance.
THEOREM ItemTypes == Spec => []TypeOK
<1>1. HeadInv => TypeOK  BY DEF HeadInv
<1>2. QED  BY HeadsAlwaysSound, <1>1, PTL

\* A hand-off happens exactly when something was changed, and the main thread
\* is never told of an empty list, nor does it miss one that is not.
THEOREM EmptyTestsAlwaysExact == Spec => []EmptyTestsExact
<1>1. HeadInv => EmptyTestsExact
  <2>1. ASSUME HeadInv, NEW h \in Shared  PROVE next[h] = h <=> prev[h] = h
    BY <2>1, NodesApart DEF HeadInv, HeadOK
  <2>2. QED  BY <2>1 DEF HeadInv, EmptyTestsExact, Shared
<1>2. QED  BY HeadsAlwaysSound, <1>1, PTL
-----------------------------------------------------------------------------
(***************************************************************************)
(* The lists, as long as no linked item was added again.                   *)
(***************************************************************************)
Members(f, n) == {f[k] : k \in 1 .. n}

\* n different items from p on, and then the head h.
Path(p, h, f, n) ==
    /\ n \in Nat /\ f[1] = p /\ f[n + 1] = h
    /\ \A k \in 1 .. n : f[k] \in Items /\ next[f[k]] = f[k + 1]
    /\ \A j, k \in 1 .. n : f[j] = f[k] => j = k

\* All n items of the list h, between the head and the head, both ways.
Ring(h, f, n) ==
    /\ Path(next[h], h, f, n)
    /\ f[0] = h
    /\ \A k \in 0 .. n : prev[f[k + 1]] = f[k]

\* The members of a path are as many as it is long.
LEMMA MembersCount ==
    ASSUME NEW n \in Nat, NEW f, \A k \in 1 .. n : f[k] \in Items,
           \A j, k \in 1 .. n : f[j] = f[k] => j = k
    PROVE  Cardinality(Members(f, n)) = n /\ n <= NrItems
<1> DEFINE Counted == {m \in Nat : m <= n => /\ IsFiniteSet(Members(f, m))
                                             /\ Cardinality(Members(f, m)) = m}
<1>1. 0 \in Counted
  <2>1. Members(f, 0) = {}
    BY DEF Members
  <2>2. QED  BY <2>1, FS_EmptySet
<1>2. ASSUME NEW m \in Nat, m \in Counted PROVE m + 1 \in Counted
  <2> SUFFICES ASSUME m + 1 <= n
               PROVE  /\ IsFiniteSet(Members(f, m + 1))
                      /\ Cardinality(Members(f, m + 1)) = m + 1
    OBVIOUS
  <2>1. Members(f, m + 1) = Members(f, m) \cup {f[m + 1]}
    <3>1. \A k \in 1 .. m + 1 : k \in 1 .. m \/ k = m + 1
      OBVIOUS
    <3>2. \A k \in 1 .. m : k \in 1 .. m + 1
      OBVIOUS
    <3>3. QED  BY <3>1, <3>2 DEF Members
  <2>2. f[m + 1] \notin Members(f, m)
    <3>1. \A k \in 1 .. m : k \in 1 .. n /\ m + 1 \in 1 .. n /\ k # m + 1
      OBVIOUS
    <3>2. QED  BY <3>1 DEF Members
  <2>3. IsFiniteSet(Members(f, m)) /\ Cardinality(Members(f, m)) = m
    BY <1>2
  <2>4. QED  BY <2>1, <2>2, <2>3, FS_AddElement
<1> HIDE DEF Counted
<1>3. n \in Counted
  BY <1>1, <1>2, NatSetInduction
<1>4. Cardinality(Members(f, n)) = n
  BY <1>3 DEF Counted
<1>5. Members(f, n) \subseteq Items
  BY DEF Members
<1>6. QED  BY <1>4, <1>5, FS_Subset DEF NrItems

\* The walk along next is defined by its steps.
LEMMA WalkSteps ==
    ASSUME NEW p
    PROVE  \A k \in 0 .. NrItems : Walk(p)[k] = IF k = 0 THEN p ELSE next[Walk(p)[k - 1]]
<1> DEFINE Eq(f, m) == f = [k \in 0 .. m |-> IF k = 0 THEN p ELSE next[f[k - 1]]]
           Has == {m \in Nat : \E f : Eq(f, m)}
<1>1. 0 \in Has
  <2> DEFINE f == [k \in 0 .. 0 |-> p]
  <2>1. \A k \in 0 .. 0 : p = IF k = 0 THEN p ELSE next[f[k - 1]]
    OBVIOUS
  <2>2. Eq(f, 0)
    BY <2>1, Zenon
  <2> HIDE DEF f, Eq
  <2>3. QED  BY <2>2
<1>2. ASSUME NEW m \in Nat, m \in Has PROVE m + 1 \in Has
  <2>1. PICK f : Eq(f, m)
    BY <1>2
  <2> DEFINE g == [k \in 0 .. m + 1 |-> IF k = 0 THEN p ELSE next[f[k - 1]]]
  <2>2. ASSUME NEW k \in 0 .. m PROVE g[k] = f[k]
    <3>1. k \in 0 .. m + 1
      OBVIOUS
    <3>2. QED  BY <2>1, <3>1, Zenon
  <2>3. ASSUME NEW k \in 0 .. m + 1, k # 0 PROVE g[k - 1] = f[k - 1]
    <3>1. k - 1 \in 0 .. m
      BY <2>3
    <3> HIDE DEF g
    <3>2. QED  BY <2>2, <3>1
  <2>4. \A k \in 0 .. m + 1 : (IF k = 0 THEN p ELSE next[f[k - 1]])
                                = (IF k = 0 THEN p ELSE next[g[k - 1]])
    <3> HIDE DEF g
    <3>1. QED  BY <2>3
  <2>5. Eq(g, m + 1)
    BY <2>4, Zenon
  <2> HIDE DEF g, Eq
  <2>6. QED  BY <2>5
<1> HIDE DEF Has
<1>3. NrItems \in Nat
  BY FS_CardinalityType DEF NrItems
<1>4. NrItems \in Has
  BY <1>1, <1>2, <1>3, NatSetInduction
<1>5. Eq(Walk(p), NrItems)
  BY <1>4, Zenon DEF Walk, Has
<1>6. QED  BY <1>5, Zenon

\* The walk along a path visits its members and then meets the head.
LEMMA WalkPath ==
    ASSUME NEW p, NEW h, h \notin Items, NEW f, NEW n, Path(p, h, f, n)
    PROVE  /\ From(p, h) = Members(f, n)
           /\ Walk(p)[Cardinality(Members(f, n))] = h
<1>1. n \in Nat /\ Cardinality(Members(f, n)) = n /\ n <= NrItems /\ NrItems \in Nat
  <2>1. NrItems \in Nat
    BY FS_CardinalityType DEF NrItems
  <2>2. QED  BY <2>1, MembersCount DEF Path
<1> DEFINE Met == {k \in Nat : k <= n => Walk(p)[k] = f[k + 1]}
<1>2. 0 \in Met
  BY <1>1, WalkSteps DEF Path
<1>3. ASSUME NEW k \in Nat, k \in Met PROVE k + 1 \in Met
  <2> SUFFICES ASSUME k + 1 <= n PROVE Walk(p)[k + 1] = f[(k + 1) + 1]
    OBVIOUS
  <2>1. k + 1 \in 0 .. NrItems /\ k + 1 # 0 /\ (k + 1) - 1 = k /\ k + 1 \in 1 .. n
    BY <1>1
  <2>2. Walk(p)[k + 1] = next[Walk(p)[k]]
    <3>1. PICK m \in 0 .. NrItems : m = k + 1
      BY <2>1
    <3>2. Walk(p)[m] = IF m = 0 THEN p ELSE next[Walk(p)[m - 1]]
      BY WalkSteps, Zenon
    <3>3. QED  BY <2>1, <3>1, <3>2
  <2>3. Walk(p)[k] = f[k + 1]
    BY <1>3, <1>1, <2>1
  <2>4. QED  BY <2>1, <2>2, <2>3 DEF Path
<1> HIDE DEF Met
<1>4. \A k \in 0 .. n : Walk(p)[k] = f[k + 1]
  <2>1. Nat \subseteq Met
    BY <1>2, <1>3, NatSetInduction
  <2>2. QED  BY <1>1, <2>1 DEF Met
<1>5. \A k \in 0 .. n - 1 : k + 1 \in 1 .. n /\ Walk(p)[k] = f[k + 1] /\ Walk(p)[k] # h
  BY <1>1, <1>4 DEF Path
<1>6. Walk(p)[n] = h
  BY <1>1, <1>4 DEF Path
<1>7. {k \in 0 .. NrItems : \A j \in 0 .. k : Walk(p)[j] # h} = 0 .. n - 1
  <2>1. ASSUME NEW k \in 0 .. NrItems, \A j \in 0 .. k : Walk(p)[j] # h PROVE k \in 0 .. n - 1
    BY <1>1, <1>6, <2>1
  <2>2. ASSUME NEW k \in 0 .. n - 1 PROVE k \in 0 .. NrItems /\ \A j \in 0 .. k : Walk(p)[j] # h
    BY <1>1, <1>5
  <2>3. QED  BY <2>1, <2>2
<1>8. {Walk(p)[k] : k \in 0 .. n - 1} = {f[k] : k \in 1 .. n}
  <2>1. \A k \in 1 .. n : k - 1 \in 0 .. n - 1 /\ (k - 1) + 1 = k
    BY <1>1
  <2>2. \A k \in 1 .. n : Walk(p)[k - 1] = f[k]
    BY <1>5, <2>1
  <2>3. QED  BY <1>5, <2>1, <2>2
<1>9. QED  BY <1>1, <1>6, <1>7, <1>8 DEF From, Members
\* list_add_tail of an item that is not on the list: it is its last one.
LEMMA AddedRing ==
    ASSUME TypeOK, NEW f, NEW n, Ring("static", f, n),
           NEW i \in Items, i \notin Members(f, n), ListAddTail(i, "static")
    PROVE  \E g : Ring("static", g, n + 1)' /\ Members(g, n + 1) = Members(f, n) \union {i}
<1>1. /\ n \in Nat /\ f[0] = "static" /\ f[1] = next["static"] /\ f[n + 1] = "static"
      /\ \A k \in 1 .. n : f[k] \in Items /\ next[f[k]] = f[k + 1]
      /\ \A j, k \in 1 .. n : f[j] = f[k] => j = k
      /\ \A k \in 0 .. n : prev[f[k + 1]] = f[k]
  BY DEF Ring, Path
<1>2. "static" \in Nodes /\ "static" \notin Items /\ Items \subseteq Nodes
  BY NodesApart DEF Heads
<1>3. f[n] = prev["static"] /\ f[n] \in Nodes /\ f[n] # i /\ i # "static"
  <2>1. f[n] = prev["static"] /\ i # "static"
    <3>1. n \in 0 .. n
      BY <1>1
    <3>2. QED  BY <1>1, <1>2, <3>1
  <2>2. CASE n = 0
    BY <1>1, <1>2, <2>1, <2>2
  <2>3. CASE n # 0
    <3>1. n \in 1 .. n
      BY <1>1, <2>3
    <3>2. QED  BY <1>1, <1>2, <2>1, <3>1 DEF Members
  <2>4. QED  BY <2>2, <2>3, <2>1
<1>4. /\ next' = [[next EXCEPT ![i] = "static"] EXCEPT ![f[n]] = i]
      /\ prev' = [[prev EXCEPT !["static"] = i] EXCEPT ![i] = f[n]]
  BY <1>3 DEF ListAddTail
<1>5. next \in [Nodes -> Nodes] /\ prev \in [Nodes -> Nodes]
  BY DEF TypeOK
<1>6. /\ next'[i] = "static" /\ next'[f[n]] = i
      /\ \A x \in Nodes : x # i /\ x # f[n] => next'[x] = next[x]
      /\ prev'["static"] = i /\ prev'[i] = f[n]
      /\ \A x \in Nodes : x # i /\ x # "static" => prev'[x] = prev[x]
  BY <1>2, <1>3, <1>4, <1>5
<1> DEFINE g == [k \in 0 .. n + 2 |-> IF k <= n THEN f[k] ELSE IF k = n + 1 THEN i ELSE "static"]
<1>7. g[n + 1] = i /\ g[(n + 1) + 1] = "static" /\ \A k \in 0 .. n : g[k] = f[k]
  BY <1>1
<1> HIDE DEF g
<1>8. \A k \in 1 .. n : f[k] # i
  BY DEF Members
<1>9. ASSUME NEW k \in 0 .. n PROVE next'[g[k]] = g[k + 1] /\ prev'[g[k + 1]] = g[k]
  <2>1. CASE k = n
    BY <1>1, <1>6, <1>7, <2>1
  <2>2. CASE k < n
    <3>1. k + 1 \in 1 .. n /\ k \in 0 .. n /\ g[k] = f[k] /\ g[k + 1] = f[k + 1]
      BY <1>1, <1>7, <2>2
    <3>2. f[k] \in Nodes /\ f[k] # f[n] /\ f[k] # i
      <4>1. CASE k = 0
        BY <1>1, <1>2, <1>3, <2>2, <4>1
      <4>2. CASE k # 0
        <5>1. k \in 1 .. n /\ n \in 1 .. n /\ k # n
          BY <1>1, <2>2, <4>2
        <5>2. QED  BY <1>1, <1>2, <1>8, <5>1
      <4>3. QED  BY <4>1, <4>2
    <3>3. next[f[k]] = f[k + 1]
      <4>1. CASE k = 0
        BY <1>1, <4>1
      <4>2. CASE k # 0
        BY <1>1, <4>2
      <4>3. QED  BY <4>1, <4>2
    <3>4. f[k + 1] \in Nodes /\ f[k + 1] # i /\ f[k + 1] # "static"
      BY <1>1, <1>2, <1>8, <3>1
    <3>5. QED  BY <1>1, <1>6, <3>1, <3>2, <3>3, <3>4
  <2>3. QED  BY <1>1, <2>1, <2>2
<1>10. \A k \in 1 .. n + 1 : g[k] \in Items
  <2>1. \A k \in 1 .. n + 1 : k \in 1 .. n \/ k = n + 1
    BY <1>1
  <2>2. QED  BY <1>1, <1>7, <2>1
<1>11. ASSUME NEW j \in 1 .. n + 1, NEW k \in 1 .. n + 1, g[j] = g[k] PROVE j = k
  <2>1. (j \in 1 .. n \/ j = n + 1) /\ (k \in 1 .. n \/ k = n + 1)
    BY <1>1
  <2>2. QED  BY <1>1, <1>7, <1>8, <1>11, <2>1
<1>12. Ring("static", g, n + 1)'
  <2>1. n + 1 \in Nat /\ 0 \in 0 .. n
    BY <1>1
  <2>2. g[0] = "static" /\ g[0 + 1] = next'["static"]
    BY <1>1, <1>7, <1>9, <2>1
  <2>3. ASSUME NEW k \in 1 .. n + 1 PROVE next'[g[k]] = g[k + 1]
    <3>1. k \in 0 .. n \/ k = n + 1
      BY <1>1
    <3>2. QED  BY <1>6, <1>7, <1>9, <3>1
  <2>4. ASSUME NEW k \in 0 .. n + 1 PROVE prev'[g[k + 1]] = g[k]
    <3>1. k \in 0 .. n \/ k = n + 1
      BY <1>1
    <3>2. QED  BY <1>6, <1>7, <1>9, <3>1
  <2>5. QED  BY <1>7, <1>10, <1>11, <2>1, <2>2, <2>3, <2>4 DEF Ring, Path
<1>13. Members(g, n + 1) = Members(f, n) \union {i}
  <2>1. \A k \in 1 .. n + 1 : k \in 1 .. n \/ k = n + 1
    BY <1>1
  <2>2. \A k \in 1 .. n : k \in 1 .. n + 1 /\ k \in 0 .. n
    BY <1>1
  <2>3. n + 1 \in 1 .. n + 1
    BY <1>1
  <2>4. QED  BY <1>7, <2>1, <2>2, <2>3 DEF Members
<1>14. QED  BY <1>12, <1>13

\* A path that is not written to stays one, and so does a ring.
LEMMA KeptPath ==
    ASSUME NEW p, NEW h, NEW f, NEW n, Path(p, h, f, n),
           \A x \in Members(f, n) : next'[x] = next[x]
    PROVE  /\ n \in Nat /\ f[1] = p /\ f[n + 1] = h
           /\ \A k \in 1 .. n : f[k] \in Items /\ next'[f[k]] = f[k + 1]
           /\ \A j, k \in 1 .. n : f[j] = f[k] => j = k
BY DEF Path, Members

LEMMA KeptRing ==
    ASSUME NEW h, NEW f, NEW n, Ring(h, f, n),
           \A x \in Members(f, n) \union {h} : next'[x] = next[x] /\ prev'[x] = prev[x]
    PROVE  Ring(h, f, n)'
<1>1. /\ n \in Nat /\ f[1] = next[h] /\ f[n + 1] = h
      /\ \A k \in 1 .. n : f[k] \in Items /\ next'[f[k]] = f[k + 1]
      /\ \A j, k \in 1 .. n : f[j] = f[k] => j = k
  BY KeptPath DEF Ring
<1>2. \A k \in 0 .. n : prev[f[k + 1]] = f[k] /\ f[k + 1] \in Members(f, n) \union {h}
  <2>1. \A k \in 0 .. n : k + 1 \in 1 .. n \/ k + 1 = n + 1
    BY <1>1
  <2>2. QED  BY <1>1, <2>1 DEF Ring, Members
<1>3. next'[h] = next[h] /\ f[0] = h
  BY DEF Ring
<1>4. QED  BY <1>1, <1>2, <1>3 DEF Ring, Path

\* list_replace_init: the new head has the list, the old one is empty, and
\* nothing else is written but the ends of the list.
LEMMA ReplacedRing ==
    ASSUME TypeOK, NEW old \in Shared, NEW new \in Heads, new # old,
           NEW f, NEW n, Ring(old, f, n), n # 0, ListReplaceInit(old, new)
    PROVE  /\ \E g : Ring(new, g, n)' /\ Members(g, n) = Members(f, n)
           /\ next'[old] = old /\ prev'[old] = old
           /\ \A x \in Nodes \ (Members(f, n) \union {old, new}) : next'[x] = next[x] /\ prev'[x] = prev[x]
<1>1. /\ n \in Nat /\ f[0] = old /\ f[1] = next[old] /\ f[n + 1] = old
      /\ \A k \in 1 .. n : f[k] \in Items /\ next[f[k]] = f[k + 1]
      /\ \A j, k \in 1 .. n : f[j] = f[k] => j = k
      /\ \A k \in 0 .. n : prev[f[k + 1]] = f[k]
  BY DEF Ring, Path
<1>2. /\ old \in Nodes /\ new \in Nodes /\ old \notin Items /\ new \notin Items
      /\ Items \subseteq Nodes
  BY NodesApart DEF Shared, Heads
<1>3. 1 \in 1 .. n /\ n \in 1 .. n
  BY <1>1
<1>4. f[1] \in Items /\ f[n] \in Items /\ f[n] = prev[old] /\ f[1] = next[old]
  BY <1>1, <1>3
<1>5. /\ next' = [next EXCEPT ![new] = f[1], ![f[n]] = new, ![old] = old]
      /\ prev' = [prev EXCEPT ![f[1]] = new, ![new] = f[n], ![old] = old]
  BY <1>4 DEF ListReplaceInit
<1>6. next \in [Nodes -> Nodes] /\ prev \in [Nodes -> Nodes]
  BY DEF TypeOK
<1>7. /\ next'[new] = f[1] /\ next'[f[n]] = new /\ next'[old] = old
      /\ \A x \in Nodes : x # new /\ x # f[n] /\ x # old => next'[x] = next[x]
  BY <1>2, <1>4, <1>5, <1>6
<1>8. /\ prev'[f[1]] = new /\ prev'[new] = f[n] /\ prev'[old] = old
      /\ \A x \in Nodes : x # new /\ x # f[1] /\ x # old => prev'[x] = prev[x]
  BY <1>2, <1>4, <1>5, <1>6
<1> DEFINE g == [k \in 0 .. n + 1 |-> IF k \in 1 .. n THEN f[k] ELSE new]
<1>9. g[0] = new /\ g[n + 1] = new /\ \A k \in 1 .. n : g[k] = f[k]
  BY <1>1
<1> HIDE DEF g
<1>10. ASSUME NEW k \in 1 .. n PROVE next'[g[k]] = g[k + 1]
  <2>1. CASE k = n
    BY <1>3, <1>7, <1>9, <2>1
  <2>2. CASE k # n
    <3>1. k + 1 \in 1 .. n
      BY <1>1, <2>2
    <3>2. f[k] \in Nodes /\ f[k] # new /\ f[k] # f[n] /\ f[k] # old
      BY <1>1, <1>2, <1>3, <2>2
    <3>3. QED  BY <1>1, <1>7, <1>9, <3>1, <3>2
  <2>3. QED  BY <2>1, <2>2
<1>11. ASSUME NEW k \in 0 .. n PROVE prev'[g[k + 1]] = g[k]
  <2>1. CASE k = 0
    BY <1>3, <1>8, <1>9, <2>1
  <2>2. CASE k = n
    BY <1>1, <1>3, <1>8, <1>9, <2>2
  <2>3. CASE k # 0 /\ k # n
    <3>1. k \in 1 .. n /\ k + 1 \in 1 .. n /\ k + 1 # 1
      BY <1>1, <2>3
    <3>2. f[k + 1] \in Nodes /\ f[k + 1] # new /\ f[k + 1] # f[1] /\ f[k + 1] # old
      BY <1>1, <1>2, <1>3, <3>1
    <3>3. QED  BY <1>1, <1>8, <1>9, <3>1, <3>2
  <2>4. QED  BY <2>1, <2>2, <2>3
<1>12. Ring(new, g, n)'
  <2>1. g[1] = next'[new]
    BY <1>3, <1>7, <1>9
  <2>2. QED  BY <1>1, <1>9, <1>10, <1>11, <2>1 DEF Ring, Path
<1>13. Members(g, n) = Members(f, n)
  BY <1>9 DEF Members
<1>14. f[1] \in Members(f, n) /\ f[n] \in Members(f, n)
  BY <1>3 DEF Members
<1>15. QED  BY <1>7, <1>8, <1>12, <1>13, <1>14
-----------------------------------------------------------------------------
(***************************************************************************)
(* The three lists of a state: static, handed off, and still to be drawn.  *)
(***************************************************************************)
Walking == mainPc \in {"draw", "advance"}

Lists(s, m, t, n, u, l) ==
    /\ Ring("static", s, m) /\ Ring("tc", t, n)
    /\ IF Walking THEN Path(pos, "local", u, l) ELSE l = 0
    /\ mainPc = "advance" => l # 0
    /\ Members(s, m) \intersect Members(t, n) = {}
    /\ Members(u, l) \intersect (Members(s, m) \union Members(t, n)) = {}

LinkInv == ~relinked => \E s, m, t, n, u, l : Lists(s, m, t, n, u, l)

LEMMA ListsAre ==
    ASSUME NEW s, NEW m, NEW t, NEW n, NEW u, NEW l, Lists(s, m, t, n, u, l)
    PROVE  /\ OnList("static") = Members(s, m) /\ OnList("tc") = Members(t, n)
           /\ Undrawn = Members(u, l) /\ l \in Nat
           /\ Members(s, m) \subseteq Items /\ Members(t, n) \subseteq Items
           /\ Members(u, l) \subseteq Items
<1>1. Path(next["static"], "static", s, m) /\ Path(next["tc"], "tc", t, n)
  BY DEF Lists, Ring
<1>2. "static" \notin Items /\ "tc" \notin Items /\ "local" \notin Items
  BY NodesApart DEF Heads
<1>3. OnList("static") = Members(s, m) /\ OnList("tc") = Members(t, n)
  BY <1>1, <1>2, WalkPath DEF OnList
<1>4. Members(s, m) \subseteq Items /\ Members(t, n) \subseteq Items
  BY <1>1 DEF Path, Members
<1>5. CASE Walking
  <2>1. Path(pos, "local", u, l)
    BY <1>5 DEF Lists
  <2>2. Undrawn = Members(u, l)
    BY <1>2, <1>5, <2>1, WalkPath DEF Undrawn, Walking
  <2>3. QED  BY <1>3, <1>4, <2>1, <2>2 DEF Path, Members
<1>6. CASE ~Walking
  <2>1. l = 0 /\ Undrawn = {}
    BY <1>6 DEF Lists, Undrawn, Walking
  <2>2. Members(u, l) = {}
    BY <2>1 DEF Members
  <2>3. QED  BY <1>3, <1>4, <2>1, <2>2
<1>7. QED  BY <1>5, <1>6

\* The same of the next state.
ListsTell ==
    \A s, m, t, n, u, l : Lists(s, m, t, n, u, l) =>
        /\ OnList("static") = Members(s, m) /\ OnList("tc") = Members(t, n)
        /\ Undrawn = Members(u, l) /\ l \in Nat
        /\ Members(s, m) \subseteq Items /\ Members(t, n) \subseteq Items
        /\ Members(u, l) \subseteq Items

LEMMA ListsNext == ListsTell /\ ListsTell'
<1>1. ListsTell
  BY ListsAre DEF ListsTell
<1>2. QED  BY <1>1, PTL

\* Nothing of the lists has changed.
LEMMA ListsKept ==
    ASSUME LinkInv, UNCHANGED <<next, prev, relinked, pos, mainPc>>
    PROVE  /\ LinkInv'
           /\ OnList("static")' = OnList("static") /\ OnList("tc")' = OnList("tc")
           /\ Undrawn' = Undrawn
<1>1. ASSUME NEW p PROVE Walk(p)' = Walk(p)
  BY Zenon DEF Walk
<1>2. ASSUME NEW p, NEW h PROVE From(p, h)' = From(p, h)
  BY <1>1, Zenon DEF From
<1>3. LinkInv'
  BY DEF LinkInv, Lists, Ring, Path, Walking
<1>4. QED  BY <1>2, <1>3, Zenon DEF OnList, Undrawn

\* An item is added that was on no list.
LEMMA UpdateLists ==
    ASSUME TypeOK, LinkInv, NEW i \in Items, UpdateAdd(i), UNCHANGED pos,
           UNCHANGED mainPc
    PROVE  /\ LinkInv'
           /\ ~relinked' => /\ ~relinked /\ i \notin Linked
                            /\ OnList("static")' = OnList("static") \union {i}
                            /\ OnList("tc")' = OnList("tc") /\ Undrawn' = Undrawn
<1> SUFFICES ASSUME ~relinked'
             PROVE  /\ \E s, m, t, n, u, l : Lists(s, m, t, n, u, l)'
                    /\ ~relinked /\ i \notin Linked
                    /\ OnList("static")' = OnList("static") \union {i}
                    /\ OnList("tc")' = OnList("tc") /\ Undrawn' = Undrawn
  BY DEF LinkInv
<1>1. ~relinked /\ i \notin Linked /\ ListAddTail(i, "static")
  BY DEF UpdateAdd
<1>2. PICK s, m, t, n, u, l : Lists(s, m, t, n, u, l)
  BY <1>1 DEF LinkInv
<1>3. /\ OnList("static") = Members(s, m) /\ OnList("tc") = Members(t, n)
      /\ Undrawn = Members(u, l) /\ l \in Nat
      /\ Members(s, m) \subseteq Items /\ Members(t, n) \subseteq Items
      /\ Members(u, l) \subseteq Items
  BY <1>2, ListsAre
<1>4. i \notin Members(s, m) /\ i \notin Members(t, n) /\ i \notin Members(u, l)
  BY <1>1, <1>3 DEF Linked
<1>5. Ring("static", s, m) /\ Ring("tc", t, n)
  BY <1>2 DEF Lists
<1>6. PICK g : Ring("static", g, m + 1)' /\ Members(g, m + 1) = Members(s, m) \union {i}
  BY <1>1, <1>4, <1>5, AddedRing
<1>7. /\ "static" \in Nodes /\ "tc" \in Nodes /\ "static" # "tc" /\ Items \subseteq Nodes
      /\ "static" \notin Items /\ "tc" \notin Items
  BY NodesApart DEF Heads
<1>8. prev["static"] \in Members(s, m) \union {"static"}
  <2>1. m \in Nat /\ prev[s[m + 1]] = s[m] /\ s[m + 1] = "static" /\ s[0] = "static"
    <3>1. m \in 0 .. m
      BY <1>5 DEF Ring, Path
    <3>2. QED  BY <1>5, <3>1 DEF Ring, Path
  <2>2. m = 0 \/ m \in 1 .. m
    BY <2>1
  <2>3. QED  BY <2>1, <2>2 DEF Members
<1>9. ASSUME NEW x \in Nodes, x # i, x # "static", x \notin Members(s, m)
      PROVE  next'[x] = next[x] /\ prev'[x] = prev[x]
  <2>1. x # prev["static"]
    BY <1>8, <1>9
  <2>2. next \in [Nodes -> Nodes] /\ prev \in [Nodes -> Nodes]
    BY DEF TypeOK
  <2>3. QED  BY <1>1, <1>9, <2>1, <2>2 DEF ListAddTail
<1>10. Ring("tc", t, n)'
  <2>1. \A x \in Members(t, n) \union {"tc"} : next'[x] = next[x] /\ prev'[x] = prev[x]
    BY <1>2, <1>3, <1>4, <1>7, <1>9 DEF Lists
  <2>2. QED  BY <1>5, <2>1, KeptRing
<1>11. Walking => Path(pos, "local", u, l)'
  <2> SUFFICES ASSUME Walking PROVE Path(pos, "local", u, l)'
    OBVIOUS
  <2>1. Path(pos, "local", u, l)
    BY <1>2 DEF Lists
  <2>2. \A x \in Members(u, l) : next'[x] = next[x]
    BY <1>2, <1>3, <1>4, <1>7, <1>9 DEF Lists
  <2>3. QED  BY <2>1, <2>2, KeptPath DEF Path
<1>12. Lists(g, m + 1, t, n, u, l)'
  <2>1. Walking' <=> Walking
    BY DEF Walking
  <2>2. /\ Members(g, m + 1) \intersect Members(t, n) = {}
        /\ Members(u, l) \intersect (Members(g, m + 1) \union Members(t, n)) = {}
    BY <1>2, <1>4, <1>6 DEF Lists
  <2>3. /\ (~Walking => l = 0) /\ (mainPc' = "advance" => l # 0)
    BY <1>2 DEF Lists
  <2>4. QED  BY <1>6, <1>10, <1>11, <2>1, <2>2, <2>3 DEF Lists
<1>13. /\ OnList("static")' = Members(g, m + 1) /\ OnList("tc")' = Members(t, n)
       /\ Undrawn' = Members(u, l)
  BY <1>12, ListsNext DEF ListsTell
<1>14. QED  BY <1>1, <1>3, <1>6, <1>12, <1>13
-----------------------------------------------------------------------------
\* A list has no items exactly if its head is its own successor.
LEMMA EmptyRing ==
    ASSUME NEW h \in Shared, NEW f, NEW n, Ring(h, f, n)
    PROVE  Empty(h) <=> n = 0
<1>1. n \in Nat /\ f[1] = next[h] /\ f[n + 1] = h /\ \A k \in 1 .. n : f[k] \in Items
  BY DEF Ring, Path
<1>2. h \notin Items
  BY NodesApart
<1>3. n # 0 => 1 \in 1 .. n
  BY <1>1
<1>4. n = 0 => f[1] = h
  BY <1>1
<1>5. QED  BY <1>1, <1>2, <1>3, <1>4 DEF Empty

LEMMA EmptiedRing ==
    ASSUME NEW h, next'[h] = h, prev'[h] = h
    PROVE  \E e : Ring(h, e, 0)' /\ Members(e, 0) = {}
<1> DEFINE e == [k \in 0 .. 1 |-> h]
<1>1. e[0] = h /\ e[1] = h /\ e[0 + 1] = h
  OBVIOUS
<1> HIDE DEF e
<1>2. \A k \in 0 .. 0 : k = 0
  OBVIOUS
<1>3. 1 .. 0 = {} /\ 0 \in Nat
  OBVIOUS
<1>4. Ring(h, e, 0)'
  BY <1>1, <1>2, <1>3 DEF Ring, Path
<1>5. QED  BY <1>3, <1>4 DEF Members

LEMMA EmptyOnList ==
    ASSUME LinkInv, ~relinked, NEW h \in Shared, Empty(h)
    PROVE  OnList(h) = {}
<1>1. PICK s, m, t, n, u, l : Lists(s, m, t, n, u, l)
  BY DEF LinkInv
<1>2. Ring("static", s, m) /\ Ring("tc", t, n)
  BY <1>1 DEF Lists
<1>3. OnList("static") = Members(s, m) /\ OnList("tc") = Members(t, n)
  BY <1>1, ListsAre
<1>4. CASE h = "static"
  BY <1>2, <1>3, <1>4, EmptyRing DEF Members
<1>5. CASE h = "tc"
  BY <1>2, <1>3, <1>5, EmptyRing DEF Members
<1>6. QED  BY <1>4, <1>5 DEF Shared

\* The hand-off: the static list is the shared one now.
LEMMA HandOffLists ==
    ASSUME TypeOK, LinkInv, ~Empty("static"), ListReplaceInit("static", "tc"),
           UNCHANGED <<relinked, pos, mainPc>>
    PROVE  /\ LinkInv'
           /\ ~relinked => /\ OnList("static")' = {} /\ OnList("tc")' = OnList("static")
                           /\ Undrawn' = Undrawn
<1> SUFFICES ASSUME ~relinked
             PROVE  /\ \E s, m, t, n, u, l : Lists(s, m, t, n, u, l)'
                    /\ OnList("static")' = {} /\ OnList("tc")' = OnList("static")
                    /\ Undrawn' = Undrawn
  BY DEF LinkInv
<1>1. PICK s, m, t, n, u, l : Lists(s, m, t, n, u, l)
  BY DEF LinkInv
<1>2. /\ OnList("static") = Members(s, m) /\ OnList("tc") = Members(t, n)
      /\ Undrawn = Members(u, l) /\ l \in Nat
      /\ Members(s, m) \subseteq Items /\ Members(t, n) \subseteq Items
      /\ Members(u, l) \subseteq Items
  BY <1>1, ListsAre
<1>3. Ring("static", s, m)
  BY <1>1 DEF Lists
<1>4. /\ "static" \in Shared /\ "tc" \in Heads /\ "tc" # "static" /\ Items \subseteq Nodes
      /\ "static" \notin Items /\ "tc" \notin Items
  BY NodesApart DEF Heads, Shared
<1>5. m # 0
  BY <1>3, <1>4, EmptyRing
<1>6. /\ \E g : Ring("tc", g, m)' /\ Members(g, m) = Members(s, m)
      /\ next'["static"] = "static" /\ prev'["static"] = "static"
      /\ \A x \in Nodes \ (Members(s, m) \union {"static", "tc"}) :
             next'[x] = next[x] /\ prev'[x] = prev[x]
  BY <1>3, <1>4, <1>5, ReplacedRing
<1>7. PICK g : Ring("tc", g, m)' /\ Members(g, m) = Members(s, m)
  BY <1>6
<1>8. PICK e : Ring("static", e, 0)' /\ Members(e, 0) = {}
  BY <1>6, EmptiedRing
<1>9. Members(u, l) \intersect Members(s, m) = {}
  BY <1>1 DEF Lists
<1>10. Walking => Path(pos, "local", u, l)'
  <2> SUFFICES ASSUME Walking PROVE Path(pos, "local", u, l)'
    OBVIOUS
  <2>1. Path(pos, "local", u, l)
    BY <1>1 DEF Lists
  <2>2. \A x \in Members(u, l) : next'[x] = next[x]
    BY <1>2, <1>4, <1>6, <1>9
  <2>3. QED  BY <2>1, <2>2, KeptPath DEF Path
<1>11. Lists(e, 0, g, m, u, l)'
  <2>1. (~Walking => l = 0) /\ (mainPc = "advance" => l # 0)
    BY <1>1 DEF Lists
  <2>2. Walking' <=> Walking
    BY DEF Walking
  <2>3. QED  BY <1>7, <1>8, <1>9, <1>10, <2>1, <2>2 DEF Lists
<1>12. /\ OnList("static")' = Members(e, 0) /\ OnList("tc")' = Members(g, m)
       /\ Undrawn' = Members(u, l)
  BY <1>11, ListsNext DEF ListsTell
<1>13. QED  BY <1>2, <1>7, <1>8, <1>11, <1>12

\* The main thread takes the shared list, and begins to walk along it or
\* draws everything.
LEMMA TakeLists ==
    ASSUME TypeOK, LinkInv, MainTake
    PROVE  /\ LinkInv'
           /\ ~relinked => /\ OnList("static")' = OnList("static") /\ OnList("tc")' = {}
                           /\ ~drawAll => Undrawn' = OnList("tc")
<1>r. relinked' = relinked
  BY DEF MainTake
<1> SUFFICES ASSUME ~relinked
             PROVE  /\ \E s, m, t, n, u, l : Lists(s, m, t, n, u, l)'
                    /\ OnList("static")' = OnList("static") /\ OnList("tc")' = {}
                    /\ ~drawAll => Undrawn' = OnList("tc")
  BY <1>r DEF LinkInv
<1>1. PICK s, m, t, n, u, l : Lists(s, m, t, n, u, l)
  BY DEF LinkInv
<1>2. /\ OnList("static") = Members(s, m) /\ OnList("tc") = Members(t, n)
      /\ Members(s, m) \subseteq Items /\ Members(t, n) \subseteq Items
  BY <1>1, ListsAre
<1>3. Ring("static", s, m) /\ Ring("tc", t, n) /\ Members(s, m) \intersect Members(t, n) = {}
  BY <1>1 DEF Lists
<1>4. /\ "tc" \in Shared /\ "local" \in Heads /\ "tc" # "local" /\ Items \subseteq Nodes
      /\ "static" \in Nodes /\ "static" # "tc" /\ "static" # "local"
      /\ "tc" \notin Items /\ "local" \notin Items /\ "static" \notin Items /\ "tc" \in Nodes
  BY NodesApart DEF Heads, Shared
<1>5. /\ pos' = next'["local"]
      /\ mainPc' = (IF drawAll THEN "all" ELSE "draw")
      /\ drawAll \/ ~Empty("tc")
  BY DEF MainTake
<1>6. Walking' <=> ~drawAll
  BY <1>5 DEF Walking
<1>7. CASE Empty("tc")
  <2>1. /\ next' = [next EXCEPT !["local"] = "local"]
        /\ prev' = [prev EXCEPT !["local"] = "local"]
    BY <1>7 DEF MainTake
  <2>2. \A x \in Nodes : x # "local" => next'[x] = next[x] /\ prev'[x] = prev[x]
    BY <2>1 DEF TypeOK
  <2>3. Ring("static", s, m)'
    <3>1. \A x \in Members(s, m) \union {"static"} : next'[x] = next[x] /\ prev'[x] = prev[x]
      BY <1>2, <1>4, <2>2
    <3>2. QED  BY <1>3, <3>1, KeptRing
  <2>4. Ring("tc", t, n)'
    <3>1. \A x \in Members(t, n) \union {"tc"} : next'[x] = next[x] /\ prev'[x] = prev[x]
      BY <1>2, <1>4, <2>2
    <3>2. QED  BY <1>3, <3>1, KeptRing
  <2>5. n = 0
    BY <1>3, <1>4, <1>7, EmptyRing
  <2>6. Members(t, n) = {} /\ Members(u, 0) = {}
    BY <2>5 DEF Members
  <2>7. ~Walking' /\ mainPc' # "advance"
    BY <1>5, <1>6, <1>7
  <2>8. Lists(s, m, t, n, u, 0)'
    BY <2>3, <2>4, <2>6, <2>7 DEF Lists
  <2>9. OnList("static")' = Members(s, m) /\ OnList("tc")' = Members(t, n)
    BY <2>8, ListsNext DEF ListsTell
  <2>10. QED  BY <1>2, <1>5, <1>7, <2>6, <2>8, <2>9
<1>8. CASE ~Empty("tc")
  <2>1. n # 0
    BY <1>3, <1>4, <1>8, EmptyRing
  <2>2. ListReplaceInit("tc", "local")
    BY <1>8 DEF MainTake
  <2>3. /\ \E g : Ring("local", g, n)' /\ Members(g, n) = Members(t, n)
        /\ next'["tc"] = "tc" /\ prev'["tc"] = "tc"
        /\ \A x \in Nodes \ (Members(t, n) \union {"tc", "local"}) :
               next'[x] = next[x] /\ prev'[x] = prev[x]
    BY <1>3, <1>4, <2>1, <2>2, ReplacedRing
  <2>4. PICK g : Ring("local", g, n)' /\ Members(g, n) = Members(t, n)
    BY <2>3
  <2>5. PICK e : Ring("tc", e, 0)' /\ Members(e, 0) = {}
    BY <2>3, EmptiedRing
  <2>6. Ring("static", s, m)'
    <3>1. \A x \in Members(s, m) \union {"static"} : next'[x] = next[x] /\ prev'[x] = prev[x]
      BY <1>2, <1>3, <1>4, <2>3
    <3>2. QED  BY <1>3, <3>1, KeptRing
  <2>7. CASE drawAll
    <3>1. ~Walking' /\ mainPc' # "advance"
      BY <1>5, <1>6, <2>7
    <3>2. Members(g, 0) = {}
      BY DEF Members
    <3>3. Lists(s, m, e, 0, g, 0)'
      BY <2>5, <2>6, <3>1, <3>2 DEF Lists
    <3>4. OnList("static")' = Members(s, m) /\ OnList("tc")' = Members(e, 0)
      BY <3>3, ListsNext DEF ListsTell
    <3>5. QED  BY <1>2, <2>5, <2>7, <3>3, <3>4
  <2>8. CASE ~drawAll
    <3>1. Walking' /\ mainPc' # "advance"
      BY <1>5, <1>6, <2>8
    <3>2. Path(pos, "local", g, n)'
      BY <1>5, <2>4 DEF Ring, Path
    <3>3. Lists(s, m, e, 0, g, n)'
      BY <1>3, <2>4, <2>5, <2>6, <3>1, <3>2 DEF Lists
    <3>4. /\ OnList("static")' = Members(s, m) /\ OnList("tc")' = Members(e, 0)
          /\ Undrawn' = Members(g, n)
      BY <3>3, ListsNext DEF ListsTell
    <3>5. QED  BY <1>2, <2>4, <2>5, <3>3, <3>4
  <2>9. QED  BY <2>7, <2>8
<1>9. QED  BY <1>7, <1>8

\* The walk goes on, from an item to its drawing and to the next one: only
\* what was drawn is left behind.
LEMMA AdvanceLists ==
    ASSUME TypeOK, LinkInv, MainAdvance
    PROVE  /\ LinkInv'
           /\ ~relinked => /\ OnList("static")' = OnList("static")
                           /\ OnList("tc")' = OnList("tc")
                           /\ Undrawn' = Undrawn \ {pos}
<1>1. /\ UNCHANGED <<next, prev, relinked>> /\ pos' = next[pos]
      /\ mainPc = "advance" /\ mainPc' = "draw"
  BY DEF MainAdvance, listVars
<1> SUFFICES ASSUME ~relinked
             PROVE  /\ \E s, m, t, n, u, l : Lists(s, m, t, n, u, l)'
                    /\ OnList("static")' = OnList("static") /\ OnList("tc")' = OnList("tc")
                    /\ Undrawn' = Undrawn \ {pos}
  BY <1>1 DEF LinkInv
<1>2. PICK s, m, t, n, u, l : Lists(s, m, t, n, u, l)
  BY DEF LinkInv
<1>3. /\ OnList("static") = Members(s, m) /\ OnList("tc") = Members(t, n)
      /\ Undrawn = Members(u, l)
  BY <1>2, ListsAre
<1>4. Path(pos, "local", u, l) /\ l # 0 /\ Walking /\ Walking'
  BY <1>1, <1>2 DEF Lists, Walking
<1>5. l \in Nat /\ l - 1 \in Nat /\ 1 \in 1 .. l /\ u[1] = pos /\ u[l + 1] = "local"
  BY <1>4 DEF Path
<1>6. /\ \A k \in 1 .. l : u[k] \in Items /\ next[u[k]] = u[k + 1]
      /\ \A j, k \in 1 .. l : u[j] = u[k] => j = k
  BY <1>4 DEF Path
<1> DEFINE v == [k \in 1 .. l |-> u[k + 1]]
<1>7. \A k \in 1 .. l - 1 : k \in 1 .. l /\ k + 1 \in 1 .. l /\ v[k] = u[k + 1]
                            /\ v[k + 1] = u[(k + 1) + 1]
  BY <1>5
<1>8. v[(l - 1) + 1] = "local" /\ v[1] = next[pos]
  BY <1>5, <1>6
<1> HIDE DEF v
<1>9. Path(pos, "local", v, l - 1)'
  <2>1. \A k \in 1 .. l - 1 : v[k] \in Items /\ next'[v[k]] = v[k + 1]
    BY <1>1, <1>6, <1>7
  <2>2. ASSUME NEW j \in 1 .. l - 1, NEW k \in 1 .. l - 1, v[j] = v[k] PROVE j = k
    <3>1. j + 1 = k + 1
      BY <1>6, <1>7, <2>2
    <3>2. QED  BY <3>1
  <2>3. QED  BY <1>1, <1>5, <1>8, <2>1, <2>2 DEF Path
<1>10. Members(v, l - 1) = Members(u, l) \ {pos}
  <2>1. ASSUME NEW k \in 1 .. l - 1 PROVE v[k] \in Members(u, l) \ {pos}
    <3>1. k + 1 \in 1 .. l /\ k + 1 # 1 /\ v[k] = u[k + 1]
      BY <1>7
    <3>2. QED  BY <1>5, <1>6, <3>1 DEF Members
  <2>2. ASSUME NEW k \in 1 .. l, u[k] # pos PROVE u[k] \in Members(v, l - 1)
    <3>1. k # 1 /\ k - 1 \in 1 .. l - 1 /\ (k - 1) + 1 = k
      BY <1>5, <2>2
    <3>2. v[k - 1] = u[k]
      BY <1>7, <3>1
    <3>3. QED  BY <3>1, <3>2 DEF Members
  <2>3. QED  BY <2>1, <2>2 DEF Members
<1>11. Lists(s, m, t, n, v, l - 1)'
  <2>1. Ring("static", s, m)' /\ Ring("tc", t, n)'
    BY <1>1, <1>2 DEF Lists, Ring, Path
  <2>2. /\ Members(s, m) \intersect Members(t, n) = {}
        /\ Members(v, l - 1) \intersect (Members(s, m) \union Members(t, n)) = {}
    BY <1>2, <1>10 DEF Lists
  <2>3. QED  BY <1>1, <1>4, <1>9, <2>1, <2>2 DEF Lists
<1>12. /\ OnList("static")' = Members(s, m) /\ OnList("tc")' = Members(t, n)
       /\ Undrawn' = Members(v, l - 1)
  BY <1>11, ListsNext DEF ListsTell
<1>13. QED  BY <1>3, <1>10, <1>11, <1>12

\* Other steps of the main thread between two walks, and from the cursor to
\* the drawing of its item.
LEMMA PcLists ==
    ASSUME LinkInv, UNCHANGED <<next, prev, relinked, pos>>,
           InitDone \/ MainDrawn \/ MainDrawOne
    PROVE  /\ LinkInv'
           /\ ~relinked => /\ OnList("static")' = OnList("static")
                           /\ OnList("tc")' = OnList("tc")
                           /\ Undrawn' = Undrawn
<1> SUFFICES ASSUME ~relinked
             PROVE  /\ \E s, m, t, n, u, l : Lists(s, m, t, n, u, l)'
                    /\ OnList("static")' = OnList("static") /\ OnList("tc")' = OnList("tc")
                    /\ Undrawn' = Undrawn
  BY DEF LinkInv
<1>1. PICK s, m, t, n, u, l : Lists(s, m, t, n, u, l)
  BY DEF LinkInv
<1>2. /\ OnList("static") = Members(s, m) /\ OnList("tc") = Members(t, n)
      /\ Undrawn = Members(u, l)
  BY <1>1, ListsAre
<1>3. Lists(s, m, t, n, u, l)'
  <2>1. Ring("static", s, m)' /\ Ring("tc", t, n)'
    BY <1>1 DEF Lists, Ring, Path
  <2>2. CASE InitDone
    <3>1. ~Walking /\ ~Walking' /\ mainPc' # "advance"
      BY <2>2 DEF InitDone, Walking
    <3>2. QED  BY <1>1, <2>1, <3>1 DEF Lists
  <2>3. CASE MainDrawn
    <3>1. ~Walking' /\ mainPc' # "advance"
      BY <2>3 DEF MainDrawn, Walking
    <3>2. l = 0
      <4>1. CASE ~Walking
        BY <1>1, <4>1 DEF Lists
      <4>2. CASE Walking
        <5>1. Path("local", "local", u, l)
          BY <1>1, <2>3, <4>2 DEF Lists, Walking, MainDrawn
        <5>2. QED  BY <5>1, NodesApart DEF Path
      <4>3. QED  BY <4>1, <4>2
    <3>3. QED  BY <1>1, <2>1, <3>1, <3>2 DEF Lists
  <2>4. CASE MainDrawOne
    <3>1. Walking /\ Walking' /\ pos # "local"
      BY <2>4 DEF MainDrawOne, Walking
    <3>2. Path(pos, "local", u, l) /\ Path(pos, "local", u, l)'
      BY <1>1, <3>1 DEF Lists, Path
    <3>3. l # 0
      BY <3>1, <3>2 DEF Path
    <3>4. QED  BY <1>1, <2>1, <3>1, <3>2, <3>3 DEF Lists
  <2>5. QED  BY <2>2, <2>3, <2>4
<1>4. /\ OnList("static")' = Members(s, m) /\ OnList("tc")' = Members(t, n)
      /\ Undrawn' = Members(u, l)
  BY <1>3, ListsNext DEF ListsTell
<1>5. QED  BY <1>2, <1>3, <1>4
-----------------------------------------------------------------------------
LEMMA InitLists == Init => LinkInv
<1> SUFFICES ASSUME Init PROVE \E s, m, t, n, u, l : Lists(s, m, t, n, u, l)
  BY DEF LinkInv
<1> DEFINE e(h) == [k \in 0 .. 1 |-> h]
<1>1. \A k \in 0 .. 0 : k = 0
  OBVIOUS
<1>2. 1 .. 0 = {} /\ 0 \in Nat
  OBVIOUS
<1>3. ASSUME NEW h \in Shared PROVE Ring(h, e(h), 0)
  <2>1. next[h] = h /\ prev[h] = h
    BY <1>3, NodesApart DEF Init
  <2>2. e(h)[0] = h /\ e(h)[1] = h /\ e(h)[0 + 1] = h
    OBVIOUS
  <2> HIDE DEF e
  <2>3. QED  BY <1>1, <1>2, <2>1, <2>2 DEF Ring, Path
<1> HIDE DEF e
<1>4. \A f : Members(f, 0) = {}
  BY <1>2 DEF Members
<1>5. ~Walking /\ mainPc # "advance"
  BY DEF Init, Walking
<1>6. Lists(e("static"), 0, e("tc"), 0, e("static"), 0)
  BY <1>3, <1>4, <1>5 DEF Lists, Shared
<1>7. QED  BY <1>6

\* The lists stay lists in every step of any thread.
LEMMA ListStep == HeadInv /\ LinkInv /\ [Next]_vars => LinkInv'
<1> SUFFICES ASSUME HeadInv, LinkInv, [Next]_vars PROVE LinkInv'
  OBVIOUS
<1>t. TypeOK /\ (emPc = "copy" => item \in Items)
  BY DEF HeadInv
<1>1. ASSUME NEW i \in Items, NEW s \in Strs, InitUpdate(i, s)  PROVE LinkInv'
  <2>1. UpdateAdd(i) /\ UNCHANGED pos /\ UNCHANGED mainPc
    BY <1>1 DEF InitUpdate, mainVars
  <2>2. QED  BY <1>t, <2>1, UpdateLists
<1>2. CASE InitDone
  <2>1. UNCHANGED <<next, prev, relinked, pos>>
    BY <1>2 DEF InitDone, listVars
  <2>2. QED  BY <1>2, <2>1, PcLists
<1>3. CASE EmTick
  <2>1. UNCHANGED <<next, prev, relinked, pos, mainPc>>
    BY <1>3 DEF EmTick, listVars, mainVars
  <2>2. QED  BY <2>1, ListsKept
<1>4. ASSUME NEW i \in Items, EmDiffers(i)  PROVE LinkInv'
  <2>1. UNCHANGED <<next, prev, relinked, pos, mainPc>>
    BY <1>4 DEF EmDiffers, listVars, mainVars
  <2>2. QED  BY <2>1, ListsKept
<1>5. ASSUME NEW s \in Strs, EmCopied(s)  PROVE LinkInv'
  <2>1. item \in Items /\ UpdateAdd(item) /\ UNCHANGED pos /\ UNCHANGED mainPc
    BY <1>t, <1>5 DEF EmCopied, mainVars
  <2>2. QED  BY <1>t, <2>1, UpdateLists
<1>6. CASE EmFails
  <2>1. UNCHANGED <<next, prev, relinked, pos, mainPc>>
    BY <1>6 DEF EmFails, listVars, mainVars
  <2>2. QED  BY <2>1, ListsKept
<1>7. CASE EmHandOff
  <2>1. UNCHANGED <<relinked, pos, mainPc>>
    BY <1>7 DEF EmHandOff, mainVars
  <2>2. CASE Empty("static")
    <3>1. UNCHANGED <<next, prev, relinked, pos, mainPc>>
      BY <1>7, <2>1, <2>2 DEF EmHandOff, listVars
    <3>2. QED  BY <3>1, ListsKept
  <2>3. CASE ~Empty("static")
    <3>1. ListReplaceInit("static", "tc")
      BY <1>7, <2>3 DEF EmHandOff
    <3>2. QED  BY <1>t, <2>1, <2>3, <3>1, HandOffLists
  <2>4. QED  BY <2>2, <2>3
<1>8. CASE XExpose
  <2>1. UNCHANGED <<next, prev, relinked, pos, mainPc>>
    BY <1>8 DEF XExpose, listVars
  <2>2. QED  BY <2>1, ListsKept
<1>9. CASE MainTake
  BY <1>t, <1>9, TakeLists
<1>10. ASSUME NEW i \in Items, MainDrawAll(i)  PROVE LinkInv'
  <2>1. UNCHANGED <<next, prev, relinked, pos, mainPc>>
    BY <1>10 DEF MainDrawAll, listVars
  <2>2. QED  BY <2>1, ListsKept
<1>11. CASE MainDrawn
  <2>1. UNCHANGED <<next, prev, relinked, pos>>
    BY <1>11 DEF MainDrawn, listVars
  <2>2. QED  BY <1>11, <2>1, PcLists
<1>12. CASE MainDrawOne
  <2>1. UNCHANGED <<next, prev, relinked, pos>>
    BY <1>12 DEF MainDrawOne, listVars
  <2>2. QED  BY <1>12, <2>1, PcLists
<1>13. CASE MainAdvance
  BY <1>t, <1>13, AdvanceLists
<1>14. CASE UNCHANGED vars
  <2>1. UNCHANGED <<next, prev, relinked, pos, mainPc>>
    BY <1>14 DEF vars, listVars, mainVars
  <2>2. QED  BY <2>1, ListsKept
<1>15. QED
  BY <1>1, <1>2, <1>3, <1>4, <1>5, <1>6, <1>7, <1>8, <1>9, <1>10, <1>11, <1>12,
     <1>13, <1>14 DEF Next, EmStep, MainStep

\* What the lists are, in the words of the run's property.
LEMMA ListsShape == LinkInv => ListsIntact
<1> SUFFICES ASSUME LinkInv, ~relinked
             PROVE  /\ \A h \in Shared :
                           /\ OnList(h) \subseteq Items
                           /\ Walk(next[h])[Cardinality(OnList(h))] = h
                           /\ \A x \in OnList(h) \union {h} : prev[next[x]] = x
                    /\ Undrawn \subseteq Items
                    /\ OnList("static") \intersect OnList("tc") = {}
                    /\ Undrawn \intersect (OnList("static") \union OnList("tc")) = {}
  BY DEF ListsIntact, Shared
<1>1. PICK s, m, t, n, u, l : Lists(s, m, t, n, u, l)
  BY DEF LinkInv
<1>2. /\ OnList("static") = Members(s, m) /\ OnList("tc") = Members(t, n)
      /\ Undrawn = Members(u, l)
      /\ Members(s, m) \subseteq Items /\ Members(t, n) \subseteq Items
      /\ Members(u, l) \subseteq Items
  BY <1>1, ListsAre
<1>3. ASSUME NEW h \in Shared, NEW f, NEW c, Ring(h, f, c), OnList(h) = Members(f, c)
      PROVE  /\ Walk(next[h])[Cardinality(OnList(h))] = h
             /\ \A x \in OnList(h) \union {h} : prev[next[x]] = x
  <2>1. h \notin Items /\ Path(next[h], h, f, c)
    BY <1>3, NodesApart DEF Ring
  <2>2. Walk(next[h])[Cardinality(OnList(h))] = h
    <3>1. PICK p : p = next[h]
      OBVIOUS
    <3>2. Path(p, h, f, c)
      BY <2>1, <3>1
    <3>3. Walk(p)[Cardinality(Members(f, c))] = h
      BY <2>1, <3>2, WalkPath
    <3>4. QED  BY <1>3, <3>1, <3>3
  <2>3. /\ c \in Nat /\ f[0] = h /\ f[1] = next[h]
        /\ \A k \in 1 .. c : next[f[k]] = f[k + 1]
        /\ \A k \in 0 .. c : prev[f[k + 1]] = f[k]
    BY <1>3 DEF Ring, Path
  <2>4. \A k \in 0 .. c : next[f[k]] = f[k + 1]
    <3>1. \A k \in 0 .. c : k = 0 \/ k \in 1 .. c
      BY <2>3
    <3>2. QED  BY <2>3, <3>1
  <2>5. \A x \in OnList(h) \union {h} : \E k \in 0 .. c : x = f[k]
    <3>1. 0 \in 0 .. c /\ 1 .. c \subseteq 0 .. c
      BY <2>3
    <3>2. QED  BY <1>3, <2>3, <3>1 DEF Members
  <2>6. QED  BY <2>2, <2>3, <2>4, <2>5
<1>4. Ring("static", s, m) /\ Ring("tc", t, n)
  BY <1>1 DEF Lists
<1>5. /\ OnList("static") \intersect OnList("tc") = {}
      /\ Undrawn \intersect (OnList("static") \union OnList("tc")) = {}
  BY <1>1, <1>2 DEF Lists
<1>6. QED  BY <1>2, <1>3, <1>4, <1>5 DEF Shared

\* As long as no linked item was added again the walk along every list comes
\* back to its head, prev is the inverse of next, and no item is on two lists.
THEOREM ListsAlwaysIntact == Spec => []ListsIntact
<1>1. Init => HeadInv /\ LinkInv
  BY InitHeads, InitLists
<1>2. HeadInv /\ LinkInv /\ [Next]_vars => HeadInv' /\ LinkInv'
  BY HeadStep, ListStep
<1>3. QED  BY <1>1, <1>2, ListsShape, PTL DEF Spec
-----------------------------------------------------------------------------
(***************************************************************************)
(* What a list still holds will be drawn.                                  *)
(***************************************************************************)
LossInv ==
    /\ mainPc # "all" => left = {}
    /\ OnlyTwoLosses

\* A step that changes neither a text nor what is shown of it, and leaves no
\* item out that was still to be drawn.
LEMMA LossKept ==
    ASSUME LossInv, UNCHANGED <<str, shown>>,
           ~relinked' /\ ~overwritten' => ~relinked /\ ~overwritten,
           ~relinked' /\ ~overwritten' => \A i \in Items : Pending(i) => Pending(i)',
           mainPc' # "all" => left' = {}
    PROVE  LossInv'
<1> SUFFICES ASSUME ~relinked', ~overwritten', NEW i \in Items,
                    shown'[i] \notin {"blank", str'[i]}
             PROVE  Pending(i)'
  BY DEF LossInv, OnlyTwoLosses, NothingLost
<1>1. Pending(i)
  BY DEF LossInv, OnlyTwoLosses, NothingLost
<1>2. QED  BY <1>1

\* A text has changed, and its item was added.
LEMMA LossUpdate ==
    ASSUME TypeOK, LinkInv, LossInv, NEW i \in Items, NEW s, UpdateAdd(i),
           str' = [str EXCEPT ![i] = s],
           UNCHANGED <<drawAll, mainPc, pos, left, shown, overwritten>>,
           emPc = "copy" /\ item # i => UNCHANGED <<emPc, item>>
    PROVE  LossInv'
<1> SUFFICES ASSUME ~relinked', ~overwritten', NEW j \in Items,
                    shown'[j] \notin {"blank", str'[j]}
             PROVE  Pending(j)'
  BY DEF LossInv, OnlyTwoLosses, NothingLost
<1>1. /\ ~relinked /\ ~overwritten
      /\ OnList("static")' = OnList("static") \union {i}
      /\ OnList("tc")' = OnList("tc") /\ Undrawn' = Undrawn
  BY UpdateLists
<1>2. CASE j = i
  BY <1>1, <1>2 DEF Pending
<1>3. CASE j # i
  <2>1. str'[j] = str[j]
    BY <1>3 DEF TypeOK
  <2>2. Pending(j)
    BY <1>1, <2>1 DEF LossInv, OnlyTwoLosses, NothingLost
  <2>3. QED  BY <1>1, <1>3, <2>2 DEF Pending
<1>4. QED  BY <1>2, <1>3

\* An item is drawn as it is, or while it is being copied.
LEMMA LossDraw ==
    ASSUME TypeOK, LossInv, NEW p, UNCHANGED <<str, relinked, overwritten, emPc, item>>,
           \A i \in Items : shown'[i] = IF i = p THEN Drawn(i) ELSE shown[i],
           ~relinked => \A i \in Items : i # p /\ Pending(i) => Pending(i)',
           mainPc' # "all" => left' = {}
    PROVE  LossInv'
<1> SUFFICES ASSUME ~relinked', ~overwritten', NEW i \in Items,
                    shown'[i] \notin {"blank", str'[i]}
             PROVE  Pending(i)'
  BY DEF LossInv, OnlyTwoLosses, NothingLost
<1>1. CASE i = p
  <2>1. emPc = "copy" /\ item = i
    BY <1>1 DEF Drawn
  <2>2. QED  BY <2>1 DEF Pending
<1>2. CASE i # p
  <2>1. Pending(i)
    BY <1>2 DEF LossInv, OnlyTwoLosses, NothingLost
  <2>2. QED  BY <1>2, <2>1
<1>3. QED  BY <1>1, <1>2

LEMMA LossStep == HeadInv /\ LinkInv /\ LossInv /\ [Next]_vars => LossInv'
<1> SUFFICES ASSUME HeadInv, LinkInv, LossInv, [Next]_vars PROVE LossInv'
  OBVIOUS
<1>t. TypeOK /\ (emPc = "copy" => item \in Items)
  BY DEF HeadInv
<1>l. mainPc # "all" => left = {}
  BY DEF LossInv
<1>1. ASSUME NEW i \in Items, NEW s \in Strs, InitUpdate(i, s)  PROVE LossInv'
  <2>1. /\ UpdateAdd(i) /\ str' = [str EXCEPT ![i] = s]
        /\ UNCHANGED <<drawAll, mainPc, pos, left, shown, overwritten, emPc, item>>
    BY <1>1 DEF InitUpdate, mainVars
  <2>2. QED
    BY <1>t, <2>1, LossUpdate
<1>2. CASE InitDone
  <2>1. /\ UNCHANGED <<next, prev, relinked, overwritten, pos, str, shown, left, drawAll, emPc, item>>
        /\ mainPc # "advance" /\ mainPc' # "advance" /\ mainPc # "all"
    BY <1>2 DEF InitDone, listVars, emVars
  <2>2. ~relinked => /\ OnList("static")' = OnList("static") /\ OnList("tc")' = OnList("tc")
                     /\ Undrawn' = Undrawn
    BY <1>2, <2>1, PcLists
  <2>3. ~relinked => \A i \in Items : Pending(i) => Pending(i)'
    BY <2>1, <2>2 DEF Pending
  <2>4. QED  BY <1>l, <2>1, <2>3, LossKept
<1>3. CASE EmTick
  <2>1. /\ UNCHANGED <<next, prev, relinked, overwritten, pos, str, shown, left, drawAll, mainPc>>
        /\ emPc # "copy"
    BY <1>3 DEF EmTick, listVars, mainVars
  <2>2. /\ OnList("static")' = OnList("static") /\ OnList("tc")' = OnList("tc")
        /\ Undrawn' = Undrawn
    BY <2>1, ListsKept
  <2>3. \A i \in Items : Pending(i) => Pending(i)'
    BY <2>1, <2>2 DEF Pending
  <2>4. QED  BY <1>l, <2>1, <2>3, LossKept
<1>4. ASSUME NEW k \in Items, EmDiffers(k)  PROVE LossInv'
  <2>1. /\ UNCHANGED <<next, prev, relinked, overwritten, pos, str, shown, left, drawAll, mainPc>>
        /\ emPc # "copy"
    BY <1>4 DEF EmDiffers, listVars, mainVars
  <2>2. /\ OnList("static")' = OnList("static") /\ OnList("tc")' = OnList("tc")
        /\ Undrawn' = Undrawn
    BY <2>1, ListsKept
  <2>3. \A i \in Items : Pending(i) => Pending(i)'
    BY <2>1, <2>2 DEF Pending
  <2>4. QED  BY <1>l, <2>1, <2>3, LossKept
<1>5. ASSUME NEW s \in Strs, EmCopied(s)  PROVE LossInv'
  <2>1. /\ item \in Items /\ UpdateAdd(item) /\ str' = [str EXCEPT ![item] = s]
        /\ UNCHANGED <<drawAll, mainPc, pos, left, shown, overwritten>>
    BY <1>t, <1>5 DEF EmCopied, mainVars
  <2>2. PICK i \in Items : i = item
    BY <2>1
  <2>3. UpdateAdd(i) /\ str' = [str EXCEPT ![i] = s]
    BY <2>1, <2>2
  <2>4. QED  BY <1>t, <2>1, <2>2, <2>3, LossUpdate
<1>6. CASE EmFails
  <2>1. /\ UNCHANGED <<next, prev, relinked, overwritten, pos, str, shown, left, drawAll, mainPc>>
        /\ emPc # "copy"
    BY <1>6 DEF EmFails, listVars, mainVars
  <2>2. /\ OnList("static")' = OnList("static") /\ OnList("tc")' = OnList("tc")
        /\ Undrawn' = Undrawn
    BY <2>1, ListsKept
  <2>3. \A i \in Items : Pending(i) => Pending(i)'
    BY <2>1, <2>2 DEF Pending
  <2>4. QED  BY <1>l, <2>1, <2>3, LossKept
<1>7. CASE EmHandOff
  <2>1. /\ UNCHANGED <<relinked, pos, str, shown, left, drawAll, mainPc>>
        /\ emPc # "copy"
    BY <1>7 DEF EmHandOff, mainVars
  <2>2. CASE Empty("static")
    <3>1. UNCHANGED <<next, prev, overwritten>>
      BY <1>7, <2>2 DEF EmHandOff, listVars
    <3>2. /\ OnList("static")' = OnList("static") /\ OnList("tc")' = OnList("tc")
          /\ Undrawn' = Undrawn
      BY <2>1, <3>1, ListsKept
    <3>3. \A i \in Items : Pending(i) => Pending(i)'
      BY <2>1, <3>2 DEF Pending
    <3>4. QED  BY <1>l, <2>1, <3>1, <3>3, LossKept
  <2>3. CASE ~Empty("static")
    <3>1. /\ ListReplaceInit("static", "tc")
          /\ ~overwritten' => ~overwritten /\ Empty("tc")
      BY <1>7, <2>3 DEF EmHandOff
    <3>2. ~relinked => /\ OnList("static")' = {} /\ OnList("tc")' = OnList("static")
                       /\ Undrawn' = Undrawn
      BY <1>t, <2>1, <2>3, <3>1, HandOffLists
    <3>3. ~relinked /\ Empty("tc") => OnList("tc") = {}
      BY EmptyOnList DEF Shared
    <3>4. ~relinked /\ ~overwritten' => \A i \in Items : Pending(i) => Pending(i)'
      BY <2>1, <3>1, <3>2, <3>3 DEF Pending
    <3>5. QED  BY <1>l, <2>1, <3>1, <3>4, LossKept
  <2>4. QED  BY <2>2, <2>3
<1>8. CASE XExpose
  <2>1. /\ UNCHANGED <<relinked, overwritten, str, shown, left, mainPc>>
        /\ drawAll'
    BY <1>8 DEF XExpose, listVars, emVars
  <2>2. \A i \in Items : Pending(i)'
    BY <2>1 DEF Pending
  <2>3. QED  BY <1>l, <2>1, <2>2, LossKept
<1>9. CASE MainTake
  <2>1. /\ UNCHANGED <<relinked, overwritten, str, shown, emPc, item>>
        /\ mainPc = "idle" /\ left' = (IF drawAll THEN Items ELSE {})
        /\ mainPc' = (IF drawAll THEN "all" ELSE "draw")
    BY <1>9 DEF MainTake, emVars
  <2>2. ~relinked => /\ OnList("static")' = OnList("static") /\ OnList("tc")' = {}
                     /\ ~drawAll => Undrawn' = OnList("tc")
    BY <1>t, <1>9, TakeLists
  <2>3. left = {} /\ Undrawn = {}
    BY <1>l, <2>1 DEF Undrawn
  <2>4. ~relinked => \A i \in Items : Pending(i) => Pending(i)'
    <3>1. CASE drawAll
      BY <2>1, <3>1 DEF Pending
    <3>2. CASE ~drawAll
      BY <2>1, <2>2, <2>3, <3>2 DEF Pending
    <3>3. QED  BY <3>1, <3>2
  <2>5. mainPc' # "all" => left' = {}
    BY <2>1
  <2>6. QED  BY <2>1, <2>4, <2>5, LossKept
<1>10. ASSUME NEW k \in Items, MainDrawAll(k)  PROVE LossInv'
  <2>1. /\ UNCHANGED <<next, prev, relinked, overwritten, pos, str, drawAll, mainPc, emPc, item>>
        /\ mainPc = "all" /\ left' = left \ {k} /\ shown' = [shown EXCEPT ![k] = Drawn(k)]
    BY <1>10 DEF MainDrawAll, listVars, emVars
  <2>2. /\ OnList("static")' = OnList("static") /\ OnList("tc")' = OnList("tc")
        /\ Undrawn' = Undrawn
    BY <2>1, ListsKept
  <2>3. \A i \in Items : shown'[i] = IF i = k THEN Drawn(i) ELSE shown[i]
    BY <1>t, <2>1 DEF TypeOK
  <2>4. \A i \in Items : i # k /\ Pending(i) => Pending(i)'
    BY <2>1, <2>2 DEF Pending
  <2>5. QED  BY <1>t, <2>1, <2>3, <2>4, LossDraw
<1>11. CASE MainDrawn
  <2>1. /\ UNCHANGED <<next, prev, relinked, overwritten, pos, str, shown, left, drawAll, emPc, item>>
        /\ mainPc' = "idle" /\ mainPc # "advance" /\ left = {}
    BY <1>l, <1>11 DEF MainDrawn, listVars, emVars
  <2>2. ~relinked => /\ OnList("static")' = OnList("static") /\ OnList("tc")' = OnList("tc")
                     /\ Undrawn' = Undrawn
    BY <1>11, <2>1, PcLists
  <2>3. ~relinked => \A i \in Items : Pending(i) => Pending(i)'
    BY <2>1, <2>2 DEF Pending
  <2>4. QED  BY <2>1, <2>3, LossKept
<1>12. CASE MainDrawOne
  <2>1. /\ UNCHANGED <<next, prev, relinked, overwritten, pos, str, left, drawAll, emPc, item>>
        /\ mainPc = "draw" /\ mainPc' = "advance"
        /\ shown' = [i \in Items |-> IF i = pos THEN Drawn(i) ELSE shown[i]]
    BY <1>12 DEF MainDrawOne, listVars, emVars
  <2>2. ~relinked => /\ OnList("static")' = OnList("static") /\ OnList("tc")' = OnList("tc")
                     /\ Undrawn' = Undrawn
    BY <1>12, <2>1, PcLists
  <2>3. \A i \in Items : shown'[i] = IF i = pos THEN Drawn(i) ELSE shown[i]
    BY <2>1
  <2>4. ~relinked => \A i \in Items : i # pos /\ Pending(i) => Pending(i)'
    BY <2>1, <2>2 DEF Pending
  <2>5. PICK p : p = pos
    OBVIOUS
  <2>6. /\ \A i \in Items : shown'[i] = IF i = p THEN Drawn(i) ELSE shown[i]
        /\ ~relinked => \A i \in Items : i # p /\ Pending(i) => Pending(i)'
    BY <2>3, <2>4, <2>5
  <2>7. left' = {}
    BY <1>l, <2>1
  <2>8. QED  BY <1>t, <2>1, <2>6, <2>7, LossDraw
<1>13. CASE MainAdvance
  <2>1. /\ UNCHANGED <<relinked, overwritten, str, shown, left, drawAll, emPc, item>>
        /\ mainPc = "advance" /\ mainPc' = "draw"
    BY <1>13 DEF MainAdvance, emVars
  <2>2. ~relinked => /\ OnList("static")' = OnList("static") /\ OnList("tc")' = OnList("tc")
                     /\ Undrawn' = Undrawn \ {pos}
    BY <1>t, <1>13, AdvanceLists
  <2>3. ~relinked => \A i \in Items : Pending(i) => Pending(i)'
    BY <2>1, <2>2 DEF Pending
  <2>4. QED  BY <1>l, <2>1, <2>3, LossKept
<1>14. CASE UNCHANGED vars
  <2>1. UNCHANGED <<next, prev, relinked, overwritten, pos, str, shown, left, drawAll, mainPc, emPc, item>>
    BY <1>14 DEF vars, listVars, emVars, mainVars
  <2>2. /\ OnList("static")' = OnList("static") /\ OnList("tc")' = OnList("tc")
        /\ Undrawn' = Undrawn
    BY <2>1, ListsKept
  <2>3. \A i \in Items : Pending(i) => Pending(i)'
    BY <2>1, <2>2 DEF Pending
  <2>4. QED  BY <1>l, <2>1, <2>3, LossKept
<1>15. QED
  BY <1>1, <1>2, <1>3, <1>4, <1>5, <1>6, <1>7, <1>8, <1>9, <1>10, <1>11, <1>12,
     <1>13, <1>14 DEF Next, EmStep, MainStep

LEMMA InitLoss == Init => LossInv
BY DEF Init, LossInv, OnlyTwoLosses, NothingLost

\* Adding a linked item and overwriting a list that was not taken are the
\* only two ways to lose a change, for any number of items.
THEOREM OnlyTwoLossesEver == Spec => []OnlyTwoLosses
<1>1. Init => HeadInv /\ LinkInv /\ LossInv
  BY InitHeads, InitLists, InitLoss
<1>2. HeadInv /\ LinkInv /\ LossInv /\ [Next]_vars => HeadInv' /\ LinkInv' /\ LossInv'
  BY HeadStep, ListStep, LossStep
<1>3. LossInv => OnlyTwoLosses
  BY DEF LossInv
<1>4. QED  BY <1>1, <1>2, <1>3, PTL DEF Spec
=============================================================================
