------------------------------ MODULE TmWakeup ------------------------------
(***************************************************************************)
(* What the wakeup protocol of the main thread promises its callers        *)
(* (tm_main.c:330-347, tm_thread.c:147-151, tm_x.c:929-934): work that is  *)
(* posted is never slept over.  Kinds of work posted twice before they are *)
(* taken coalesce, the consumer takes everything at once, and after stop   *)
(* it may leave work behind.                                               *)
(***************************************************************************)
CONSTANT Work    \* the kinds of work

VARIABLES posted,   \* work waiting for the consumer
          asleep,   \* the consumer sleeps
          stopped   \* the consumer has been told to stop

vars == <<posted, asleep, stopped>>

Init == posted = {} /\ asleep = FALSE /\ stopped = FALSE

\* Posting work wakes the consumer.
Post(w) ==
    /\ posted' = posted \union {w}
    /\ asleep' = FALSE
    /\ UNCHANGED stopped

Take ==
    /\ ~asleep /\ ~stopped /\ posted # {}
    /\ posted' = {}
    /\ UNCHANGED <<asleep, stopped>>

\* The consumer goes to sleep only when nothing is posted.
Sleep ==
    /\ ~asleep /\ posted = {}
    /\ asleep' = TRUE
    /\ UNCHANGED <<posted, stopped>>

\* It may wake for another reason.
Wake ==
    /\ asleep
    /\ asleep' = FALSE
    /\ UNCHANGED <<posted, stopped>>

Stop ==
    /\ stopped' = TRUE
    /\ UNCHANGED <<posted, asleep>>

Next == (\E w \in Work : Post(w)) \/ Take \/ Sleep \/ Wake \/ Stop

Spec == Init /\ [][Next]_vars

\* An awake consumer takes the work.
FairSpec == Spec /\ WF_vars(Take)
=============================================================================
