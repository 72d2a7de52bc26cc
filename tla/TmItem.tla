------------------------------- MODULE TmItem -------------------------------
(***************************************************************************)
(* The way of a changed text from a timer callback to the window, with the *)
(* linked lists (tm_list.h) as they are: struct tm_item has one list node, *)
(* and three heads take turns with it: the static list_update of tm_item.c,*)
(* tc->list_update, and the list_update on the stack of main().            *)
(*                                                                         *)
(* main_wake_lock makes EmHandOff, MainTake and XExpose single steps; what *)
(* the threads do to the items outside it interleaves.  list_add_tail is   *)
(* one step, too: its only write the other thread can meet first makes     *)
(* item.next point to the static head, as it does at the end of the step.  *)
(***************************************************************************)
EXTENDS Naturals, FiniteSets

CONSTANTS
    Items,      \* the struct tm_items whose text changes
    Strs,       \* the texts they may get
    EmptyStr,   \* the text tm_item_init gives them
    MaxTicks    \* bound: calls of tm_thread_sigalrm_handler

Heads == {"static", "tc", "local"}
Nodes == Items \union Heads
NrItems == Cardinality(Items)

ASSUME ItemAssumption == Items \intersect Heads = {} /\ IsFiniteSet(Items)
ASSUME StrAssumption  == EmptyStr \notin Strs \union {"torn", "blank"}

VARIABLES
    next, prev,  \* struct list_head of every node
    str,         \* str of every item
    todo,        \* items that differ and the callbacks have still to visit
    emPc,        \* "idle", "cb" (callbacks), "copy" (strncpy), "done"
    item,        \* the item being copied to
    ticks,
    drawAll,     \* tc->draw_all
    mainPc,      \* "init", "idle", "all", "draw", "advance"
    pos,         \* cursor of tm_draw_list
    left,        \* items tm_draw_all has not drawn
    shown,       \* the text the window shows of each item
    \* history
    added,       \* items added to the static list since it was last taken
    relinked,    \* a linked item was added to a list again
    overwritten  \* a hand-off replaced a list that was not taken

listVars == <<next, prev>>
emVars   == <<str, todo, emPc, item, ticks>>
mainVars == <<drawAll, mainPc, pos, left, shown>>
vars == <<listVars, emVars, mainVars, added, relinked, overwritten>>

TypeOK ==
    /\ next \in [Nodes -> Nodes] /\ prev \in [Nodes -> Nodes]
    /\ str \in [Items -> Strs \union {EmptyStr}]
    /\ todo \subseteq Items /\ left \subseteq Items
    /\ emPc \in {"idle", "cb", "copy", "done"}
    /\ item \in Nodes /\ pos \in Nodes
    /\ ticks \in Nat
    /\ drawAll \in BOOLEAN
    /\ mainPc \in {"init", "idle", "all", "draw", "advance"}
    /\ shown \in [Items -> Strs \union {EmptyStr, "blank", "torn"}]
    /\ added \subseteq Items
    /\ relinked \in BOOLEAN /\ overwritten \in BOOLEAN

Init ==
    /\ next = [n \in Nodes |-> n] /\ prev = [n \in Nodes |-> n]
    /\ str = [i \in Items |-> EmptyStr]
    /\ todo \in SUBSET Items
    /\ emPc = "idle" /\ item = "static" /\ ticks = 0
    /\ drawAll = FALSE /\ mainPc = "init" /\ pos = "local" /\ left = {}
    /\ shown = [i \in Items |-> "blank"]
    /\ added = {} /\ relinked = FALSE /\ overwritten = FALSE
-----------------------------------------------------------------------------
(***************************************************************************)
(* tm_list.h                                                               *)
(***************************************************************************)
Empty(head) == next[head] = head

\* Mutant: the new tail is not connected to the head.
ListAddTailOpen(new, head) ==
    /\ next' = [next EXCEPT ![new] = "NULL", ![prev[head]] = new]
    /\ prev' = [prev EXCEPT ![head] = new, ![new] = prev[head]]

\* The writes in the order of __list_add: if new is the tail already, the
\* last of them makes it its own successor.
ListAddTail(new, head) ==
    /\ next' = [next EXCEPT ![new] = head, ![prev[head]] = new]
    /\ prev' = [prev EXCEPT ![head] = new, ![new] = prev[head]]

\* Mutant: the last entry still points to the old head.
ListReplaceHalf(old, new) ==
    /\ next' = [next EXCEPT ![new] = next[old], ![old] = old]
    /\ prev' = [prev EXCEPT ![next[old]] = new, ![new] = prev[old],
                            ![old] = old]

\* Mutant: list_replace without INIT_LIST_HEAD(old).
ListReplaceNoInit(old, new) ==
    /\ next' = [next EXCEPT ![new] = next[old], ![prev[old]] = new]
    /\ prev' = [prev EXCEPT ![next[old]] = new, ![new] = prev[old]]

ListReplaceInit(old, new) ==
    /\ next' = [next EXCEPT ![new] = next[old], ![prev[old]] = new,
                            ![old] = old]
    /\ prev' = [prev EXCEPT ![next[old]] = new, ![new] = prev[old],
                            ![old] = old]

\* The nodes list_for_each_entry visits from node p on before it meets head.
Walk(p) ==
    LET node[k \in 0 .. NrItems] == IF k = 0 THEN p ELSE next[node[k - 1]]
    IN  node

From(p, head) ==
    {Walk(p)[k] : k \in {n \in 0 .. NrItems : \A j \in 0 .. n : Walk(p)[j] # head}}

\* What tm_draw_list is still going to visit; the cursor's own node as well,
\* because its next is read after it has been drawn.
Undrawn == IF mainPc \in {"draw", "advance"} THEN From(pos, "local") ELSE {}
OnList(head) == From(next[head], head)
Linked == OnList("static") \union OnList("tc") \union Undrawn
-----------------------------------------------------------------------------
(***************************************************************************)
(* Changing an item: tm_item_cmp_and_update.                               *)
(***************************************************************************)
UpdateAdd(i) ==
    /\ ListAddTail(i, "static")
    /\ added' = added \union {i}
    /\ relinked' = (relinked \/ i \in Linked)

\* The init of a widget calls its timer_cb once, on the main thread.
InitUpdate(i, s) ==
    /\ mainPc = "init" /\ i \in todo
    /\ todo' = todo \ {i}
    /\ str' = [str EXCEPT ![i] = s]
    /\ UpdateAdd(i)
    /\ UNCHANGED <<emPc, item, ticks, mainVars, overwritten>>

InitDone ==
    /\ mainPc = "init" /\ todo = {}
    /\ mainPc' = "idle"
    /\ UNCHANGED <<listVars, emVars, drawAll, pos, left, shown, added,
                   relinked, overwritten>>

\* A SIGALRM is handled: the callbacks that are due visit their items, timer
\* by timer; an item whose text is the same (strcmp) is left alone.
EmTick ==
    /\ emPc = "idle" /\ mainPc # "init" /\ ticks < MaxTicks
    /\ ticks' = ticks + 1
    /\ todo' \in SUBSET Items
    /\ emPc' = "cb"
    /\ UNCHANGED <<listVars, str, item, mainVars, added, relinked, overwritten>>

\* strcmp finds a difference: strncpy starts.
EmDiffers(i) ==
    /\ emPc = "cb" /\ i \in todo
    /\ todo' = todo \ {i}
    /\ emPc' = "copy" /\ item' = i
    /\ UNCHANGED <<listVars, str, ticks, mainVars, added, relinked, overwritten>>

\* Mutant: an item is put on the list only if the list is empty.
EmCopiedFirstOnly(s) ==
    /\ emPc = "copy" /\ s # str[item]
    /\ str' = [str EXCEPT ![item] = s]
    /\ IF Empty("static") THEN UpdateAdd(item)
                          ELSE UNCHANGED <<listVars, added, relinked>>
    /\ emPc' = "cb"
    /\ UNCHANGED <<todo, item, ticks, mainVars, overwritten>>

\* The new text is complete; tm_item_update_add.
EmCopied(s) ==
    /\ emPc = "copy" /\ s # str[item]
    /\ str' = [str EXCEPT ![item] = s]
    /\ UpdateAdd(item)
    /\ emPc' = "cb"
    /\ UNCHANGED <<todo, item, ticks, mainVars, overwritten>>

\* A callback fails: what was added stays on the static list, and the event
\* manager ends.
EmFails ==
    /\ emPc = "cb"
    /\ emPc' = "done"
    /\ UNCHANGED <<listVars, str, todo, item, ticks, mainVars, added, relinked,
                   overwritten>>

\* tm_item_update_needed, then tm_item_update_replace under main_wake_lock.
EmHandOff ==
    /\ emPc = "cb" /\ todo = {}
    /\ emPc' = "idle"
    /\ IF Empty("static")
         THEN UNCHANGED <<listVars, added, overwritten>>
         ELSE /\ ListReplaceInit("static", "tc")
              /\ added' = {}
              /\ overwritten' = (overwritten \/ ~Empty("tc"))
    /\ UNCHANGED <<str, todo, item, ticks, mainVars, relinked>>
-----------------------------------------------------------------------------
(***************************************************************************)
(* Drawing: main() and tm_draw_list, tm_draw_all.                          *)
(***************************************************************************)
\* The X thread asks for a redraw at any time.
XExpose ==
    /\ mainPc # "init"
    /\ drawAll' = TRUE
    /\ UNCHANGED <<listVars, emVars, mainPc, pos, left, shown, added, relinked,
                   overwritten>>

\* The main thread takes both kinds of work; a list that comes with a redraw
\* of everything is dropped.
MainTake ==
    /\ mainPc = "idle" /\ (drawAll \/ ~Empty("tc"))
    /\ IF Empty("tc")
         THEN /\ next' = [next EXCEPT !["local"] = "local"]
              /\ prev' = [prev EXCEPT !["local"] = "local"]
         ELSE ListReplaceInit("tc", "local")
    /\ pos' = next'["local"]
    /\ left' = IF drawAll THEN Items ELSE {}
    /\ mainPc' = IF drawAll THEN "all" ELSE "draw"
    /\ drawAll' = FALSE
    /\ UNCHANGED <<emVars, shown, added, relinked, overwritten>>

\* What tm_x_draw_text_one shows of an item: a mixture, if it is being copied.
Drawn(i) == IF emPc = "copy" /\ item = i THEN "torn" ELSE str[i]

MainDrawAll(i) ==
    /\ mainPc = "all" /\ i \in left
    /\ shown' = [shown EXCEPT ![i] = Drawn(i)]
    /\ left' = left \ {i}
    /\ UNCHANGED <<listVars, emVars, drawAll, mainPc, pos, added, relinked,
                   overwritten>>

\* Mutant: tc->list_update is emptied again after the redraw.
MainDrawnClears ==
    /\ \/ mainPc = "all" /\ left = {}
       \/ mainPc = "draw" /\ pos = "local"
    /\ mainPc' = "idle"
    /\ next' = [next EXCEPT !["tc"] = "tc"]
    /\ prev' = [prev EXCEPT !["tc"] = "tc"]
    /\ UNCHANGED <<emVars, drawAll, pos, left, shown, added, relinked,
                   overwritten>>

\* The end of either redraw, and tm_x_flush.
MainDrawn ==
    /\ \/ mainPc = "all" /\ left = {}
       \/ mainPc = "draw" /\ pos = "local"
    /\ mainPc' = "idle"
    /\ UNCHANGED <<listVars, emVars, drawAll, pos, left, shown, added, relinked,
                   overwritten>>

\* The body of list_for_each_entry.  If the cursor has come to another head,
\* what it draws is not an item; that is not modelled.
MainDrawOne ==
    /\ mainPc = "draw" /\ pos # "local"
    /\ shown' = [i \in Items |-> IF i = pos THEN Drawn(i) ELSE shown[i]]
    /\ mainPc' = "advance"
    /\ UNCHANGED <<listVars, emVars, drawAll, pos, left, added, relinked,
                   overwritten>>

MainAdvance ==
    /\ mainPc = "advance"
    /\ pos' = next[pos]
    /\ mainPc' = "draw"
    /\ UNCHANGED <<listVars, emVars, drawAll, left, shown, added, relinked,
                   overwritten>>
-----------------------------------------------------------------------------
EmStep ==
    \/ EmHandOff
    \/ \E i \in Items : EmDiffers(i)
    \/ \E s \in Strs : EmCopied(s)

MainStep ==
    \/ InitDone \/ MainTake \/ MainDrawn \/ MainDrawOne \/ MainAdvance
    \/ \E i \in Items : MainDrawAll(i) \/ (\E s \in Strs : InitUpdate(i, s))

Next == EmStep \/ MainStep \/ EmTick \/ EmFails \/ XExpose

Spec == Init /\ [][Next]_vars

\* Both threads run while they can.
FairSpec == Spec /\ WF_vars(EmStep) /\ WF_vars(MainStep)
-----------------------------------------------------------------------------
\* Adding an item that is still linked is the only way to damage the lists:
\* otherwise the walk along next comes back to its head, prev is the inverse
\* of next, and no item is on two lists.
ListsIntact ==
    ~relinked =>
        /\ \A h \in {"static", "tc"} :
               /\ OnList(h) \subseteq Items
               /\ Walk(next[h])[Cardinality(OnList(h))] = h
               /\ \A n \in OnList(h) \union {h} : prev[next[n]] = n
        /\ Undrawn \subseteq Items
        /\ OnList("static") \intersect OnList("tc") = {}
        /\ Undrawn \intersect (OnList("static") \union OnList("tc")) = {}

\* The item will be drawn: it is linked, or all are drawn, or it is being
\* changed and will be linked.
Pending(i) ==
    \/ i \in OnList("static") \union OnList("tc")
    \/ i \in Undrawn /\ ~(mainPc = "advance" /\ pos = i)
    \/ drawAll
    \/ i \in left
    \/ emPc = "copy" /\ item = i

NothingLost == \A i \in Items : shown[i] \notin {"blank", str[i]} => Pending(i)

\* Adding a linked item and overwriting a list that was not taken are the
\* only two ways to lose a change, half-drawn texts included.
OnlyTwoLosses == ~relinked /\ ~overwritten => NothingLost

\* tm_item_update_needed, the test before a hand-off, is exact even when the
\* lists are damaged, and so is the test of main (tm_main.c:331).
EmptyTestsExact ==
    /\ Empty("static") <=> added = {}
    /\ \A h \in {"static", "tc"} : next[h] = h <=> prev[h] = h

\* tm_draw_list ends, unless a linked item was added again.
DrawListEnds == mainPc = "draw" ~> (mainPc = "idle" \/ relinked)

\* When the texts stop changing the window shows them, unless a change was
\* lost in one of the two ways or a callback failed.
Converges ==
    <>[](\A i \in Items : shown[i] \in {"blank", str[i]})
    \/ <>(relinked \/ overwritten \/ emPc = "done")

\* "If changed, invoke redraw operation" (tm_clock.c:333): as long as the lists
\* are intact no change is lost.  The code violates it: the hand-off replaces
\* tc->list_update when the main thread has not taken the last list.
ChangeRedrawn == ~relinked => NothingLost

\* The redraw operation (tm_clock.c:333) always ends.  The code violates it:
\* an item that the list being drawn still links, or that is still on the
\* static list since the forced timer_cb of the init (tm_clock.c:337), is
\* added again, and the walk never comes back to its head.
RedrawEnds == mainPc = "draw" ~> mainPc = "idle"
=============================================================================
