--------------------------- MODULE TmThreadsWakeup ---------------------------
(***************************************************************************)
(* The refinement mapping from the threads to the wakeup protocol: the two *)
(* kinds of work are the redraw request and the handed-off list; the main  *)
(* thread sleeps from the moment it has decided to wait until it is taken  *)
(* out of the wait set.                                                    *)
(***************************************************************************)
EXTENDS TmThreads

WorkKinds == {"redraw", "list"}

Posted == {w \in WorkKinds : \/ w = "redraw" /\ drawAll
                             \/ w = "list" /\ listUpdate}

Wakeup == INSTANCE TmWakeup WITH
              Work <- WorkKinds, posted <- Posted, asleep <- Asleep,
              stopped <- shouldStop

\* The draw loop, tm_x_event_expose and the hand-off implement the wakeup
\* protocol: no posted work is slept over, and an awake main thread takes it.
WakeupSafe == Wakeup!Spec
WakeupImplemented == Wakeup!FairSpec
=============================================================================
