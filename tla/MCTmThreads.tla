----------------------------- MODULE MCTmThreads -----------------------------
(***************************************************************************)
(* Instance of the threads for TLC.  Small: MAIN, X, THREAD (the widgets   *)
(* matter to the order of teardown only); Wide: with widgets in between.   *)
(***************************************************************************)
EXTENDS TmThreadsWakeup

SmallObjects == 3
WideObjects  == 5
OneAlarm     == 1
TwoAlarms    == 2
=============================================================================
