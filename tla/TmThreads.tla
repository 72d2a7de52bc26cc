------------------------------ MODULE TmThreads ------------------------------
(***************************************************************************)
(* The three threads of toymon and what they share: the main thread (init, *)
(* draw loop, teardown: tm_main.c), the X event thread (tm_x.c) and the    *)
(* event manager with its SIGALRM handler (tm_thread.c).                   *)
(*                                                                         *)
(* One action is one step between two points where another thread (or the  *)
(* signal handler) can observe or change what the step reads.  A critical  *)
(* section whose accesses are all protected by its lock is one step; the   *)
(* main thread's hold of main_wake_lock spans several, because the flag    *)
(* should_stop it reads there is written without the lock.                 *)
(***************************************************************************)
EXTENDS Integers

CONSTANTS
    TM_OBJECT_MAX,  \* number of objects; 0 is MAIN, 1 is X, the last THREAD
    MaxAlarms       \* bound: alarms recorded before handle_events reads them

ASSUME ObjectAssumption == TM_OBJECT_MAX \in Nat /\ TM_OBJECT_MAX >= 3
ASSUME AlarmAssumption  == MaxAlarms \in Nat \ {0}

TM_OBJECT_X      == 1
TM_OBJECT_THREAD == TM_OBJECT_MAX - 1
Objects          == 0 .. TM_OBJECT_MAX - 1
Widgets          == Objects \ {0, TM_OBJECT_X, TM_OBJECT_THREAD}

VARIABLES
    \* main thread
    mainPc,      \* where the main thread is
    idx,         \* loop variable of tm_init_all, then of tm_exit_all
    live,        \* objects whose init succeeded and whose exit has not run
    tcFreed,     \* tm_tc_free has run
    drawing,     \* what this turn of the loop draws: "none", "all", "list"
    \* struct tm_context
    shouldStop,  \* should_stop: no lock protects it
    initDone,    \* init_done
    initWait,    \* workers in the wait set of init_cond
    wakeLock,    \* the main thread holds main_wake_lock
    wakeWait,    \* the main thread is in the wait set of main_wake_cond
    drawAll,     \* draw_all
    listUpdate,  \* tc->list_update is not empty
    \* X event thread
    xPc,
    xEvent,      \* the event xcb_wait_for_event returned last
    \* event manager
    emPc,
    emErr,       \* its err variable: "ok", "err", or "undef" (uninitialized)
    staged,      \* the static list_update of tm_item.c is not empty
    sigalrmCnt,  \* sigalrm_cnt of tm_thread_handle_events
    \* SIGALRM
    sigLock,     \* the event manager itself (not the handler) holds tm_sig_lock
    inHandler,   \* tm_thread_sig_record has interrupted the event manager
    sigPending,  \* a SIGALRM is pending for the process
    armed,       \* the interval timer runs
    nrSigalrm    \* nr_sigalrm

mainVars == <<mainPc, idx, live, tcFreed, drawing>>
initVars == <<initDone, initWait>>
wakeVars == <<wakeLock, wakeWait, drawAll, listUpdate>>
xVars    == <<xPc, xEvent>>
emVars   == <<emPc, emErr, staged, sigalrmCnt>>
sigVars  == <<sigLock, inHandler, sigPending, armed, nrSigalrm>>
contextVars == <<initVars, wakeVars, shouldStop>>
workerVars  == <<xVars, emVars, sigVars>>
vars == <<mainVars, contextVars, workerVars>>

MainPcs == {"init", "release", "lock", "check", "wait", "blocked", "act",
            "draw", "flush", "exit", "done"}
XPcs    == {"none", "init", "initwait", "map", "loop", "wait", "got",
            "expose", "fail", "signal", "done"}
EmPcs   == {"none", "init", "initwait", "setup", "loop", "topause", "pause",
            "woken", "hlock", "hread", "ticks", "handoff", "out", "signal",
            "done"}
XEvents == {"none", "esc", "expose", "other", "null"}

TypeOK ==
    /\ mainPc \in MainPcs /\ xPc \in XPcs /\ emPc \in EmPcs
    /\ idx \in -1 .. TM_OBJECT_MAX
    /\ live \subseteq Objects
    /\ drawing \in {"none", "all", "list"}
    /\ initWait \subseteq {"x", "em"}
    /\ xEvent \in XEvents
    /\ emErr \in {"ok", "err", "undef"}
    /\ sigalrmCnt \in 0 .. MaxAlarms + 1
    /\ nrSigalrm \in 0 .. MaxAlarms + 1
    /\ tcFreed \in BOOLEAN /\ shouldStop \in BOOLEAN /\ initDone \in BOOLEAN
    /\ wakeLock \in BOOLEAN /\ wakeWait \in BOOLEAN
    /\ drawAll \in BOOLEAN /\ listUpdate \in BOOLEAN
    /\ staged \in BOOLEAN /\ sigLock \in BOOLEAN /\ inHandler \in BOOLEAN
    /\ sigPending \in BOOLEAN /\ armed \in BOOLEAN

Init ==
    /\ mainPc = "init" /\ idx = 0 /\ live = {} /\ tcFreed = FALSE
    /\ drawing = "none"
    /\ shouldStop = FALSE /\ initDone = FALSE /\ initWait = {}
    /\ wakeLock = FALSE /\ wakeWait = FALSE
    /\ drawAll = FALSE /\ listUpdate = FALSE
    /\ xPc = "none" /\ xEvent = "none"
    /\ emPc = "none" /\ emErr = "ok" /\ staged = FALSE /\ sigalrmCnt = 0
    /\ sigLock = FALSE /\ inHandler = FALSE /\ sigPending = FALSE
    /\ armed = FALSE /\ nrSigalrm = 0
-----------------------------------------------------------------------------
(***************************************************************************)
(* Main thread: tm_init_all.  Object idx is initialized; the X object's    *)
(* init creates the X thread and the THREAD object's init the event        *)
(* manager, as their last, failing-or-not act.  The init of an object in   *)
(* between may put items on the static list (it calls its timer_cb).       *)
(***************************************************************************)
InitObject ==
    /\ mainPc = "init" /\ idx < TM_OBJECT_MAX
    /\ live' = live \union {idx}
    /\ idx' = idx + 1
    /\ xPc' = IF idx = TM_OBJECT_X THEN "init" ELSE xPc
    /\ emPc' = IF idx = TM_OBJECT_THREAD THEN "init" ELSE emPc
    /\ \/ staged' = staged
       \/ idx \in Widgets /\ staged' = TRUE
    /\ UNCHANGED <<mainPc, tcFreed, drawing, contextVars, xEvent, emErr,
                   sigalrmCnt, sigVars>>

\* Mutant: the failure is only remembered in err, should_stop is not set.
InitFailsSilently ==
    /\ mainPc = "init" /\ idx < TM_OBJECT_MAX
    /\ mainPc' = "release"
    /\ UNCHANGED <<idx, live, tcFreed, drawing, contextVars, workerVars>>

\* An init failed: no later object is initialized and should_stop is set.
InitFails ==
    /\ mainPc = "init" /\ idx < TM_OBJECT_MAX
    /\ shouldStop' = TRUE
    /\ mainPc' = "release"
    /\ \/ staged' = staged
       \/ idx \in Widgets /\ staged' = TRUE
    /\ UNCHANGED <<idx, live, tcFreed, drawing, initVars, wakeVars, xVars,
                   emPc, emErr, sigalrmCnt, sigVars>>

\* Every init succeeded: tm_generate_object_origin.
InitSucceeds ==
    /\ mainPc = "init" /\ idx = TM_OBJECT_MAX
    /\ mainPc' = "release"
    /\ UNCHANGED <<idx, live, tcFreed, drawing, contextVars, workerVars>>

\* Mutant: tm_exit_all starts at the object whose init failed.
ReleaseWorkersExitFailed ==
    /\ mainPc = "release"
    /\ initDone' = TRUE /\ initWait' = {}
    /\ mainPc' = IF idx = TM_OBJECT_MAX THEN "lock" ELSE "exit"
    /\ UNCHANGED <<idx, live, tcFreed, drawing, wakeVars, shouldStop,
                   workerVars>>

\* Mutant: init_done is set but nobody is woken.
ReleaseWorkersSilently ==
    /\ mainPc = "release"
    /\ initDone' = TRUE
    /\ IF idx = TM_OBJECT_MAX
         THEN mainPc' = "lock" /\ idx' = idx
         ELSE mainPc' = "exit" /\ idx' = idx - 1
    /\ UNCHANGED <<live, tcFreed, drawing, initWait, wakeVars, shouldStop,
                   workerVars>>

\* "Let other threads start working": set init_done and broadcast.  If the
\* init failed, the main thread tears down what is initialized.
ReleaseWorkers ==
    /\ mainPc = "release"
    /\ initDone' = TRUE
    /\ initWait' = {}
    /\ IF idx = TM_OBJECT_MAX
         THEN mainPc' = "lock" /\ idx' = idx
         ELSE mainPc' = "exit" /\ idx' = idx - 1
    /\ UNCHANGED <<live, tcFreed, drawing, wakeVars, shouldStop, workerVars>>
-----------------------------------------------------------------------------
(***************************************************************************)
(* Main thread: the draw loop.                                             *)
(***************************************************************************)
LockWake ==
    /\ mainPc = "lock"
    /\ wakeLock' = TRUE
    /\ mainPc' = "check"
    /\ UNCHANGED <<idx, live, tcFreed, drawing, initVars, wakeWait, drawAll,
                   listUpdate, shouldStop, workerVars>>

\* The condition of the while loop around pthread_cond_wait.
CheckWork ==
    /\ mainPc = "check"
    /\ mainPc' = IF shouldStop \/ listUpdate \/ drawAll THEN "act" ELSE "wait"
    /\ UNCHANGED <<idx, live, tcFreed, drawing, contextVars, workerVars>>

\* pthread_cond_wait: release the lock and join the wait set, in one step
\* for whoever takes the lock; between CheckWork and this step a signal sent
\* without the lock finds nobody waiting.
CondWait ==
    /\ mainPc = "wait"
    /\ wakeLock' = FALSE
    /\ wakeWait' = TRUE
    /\ mainPc' = "blocked"
    /\ UNCHANGED <<idx, live, tcFreed, drawing, initVars, drawAll,
                   listUpdate, shouldStop, workerVars>>

\* Woken: pthread_cond_wait takes the lock again and returns.
CondReturn ==
    /\ mainPc = "blocked" /\ ~wakeWait
    /\ wakeLock' = TRUE
    /\ mainPc' = "check"
    /\ UNCHANGED <<idx, live, tcFreed, drawing, initVars, wakeWait, drawAll,
                   listUpdate, shouldStop, workerVars>>

\* POSIX allows pthread_cond_wait to return without a signal.
SpuriousWakeup ==
    /\ mainPc = "blocked" /\ wakeWait
    /\ wakeWait' = FALSE
    /\ UNCHANGED <<mainVars, initVars, wakeLock, drawAll, listUpdate,
                   shouldStop, workerVars>>

\* Mutant: break without pthread_mutex_unlock.
LeaveLoopLocked ==
    /\ mainPc = "act" /\ shouldStop
    /\ mainPc' = "exit"
    /\ idx' = idx - 1
    /\ UNCHANGED <<live, tcFreed, drawing, contextVars, workerVars>>

\* should_stop is set: leave the loop and start tm_exit_all.
LeaveLoop ==
    /\ mainPc = "act" /\ shouldStop
    /\ wakeLock' = FALSE
    /\ mainPc' = "exit"
    /\ idx' = idx - 1
    /\ UNCHANGED <<live, tcFreed, drawing, initVars, wakeWait, drawAll,
                   listUpdate, shouldStop, workerVars>>

\* Mutant: draw_all is cleared before it is copied.
TakeWorkForgetsAll ==
    /\ mainPc = "act" /\ ~shouldStop
    /\ drawing' = IF listUpdate THEN "list" ELSE "none"
    /\ drawAll' = FALSE /\ listUpdate' = FALSE
    /\ wakeLock' = FALSE
    /\ mainPc' = "draw"
    /\ UNCHANGED <<idx, live, tcFreed, initVars, wakeWait, shouldStop,
                   workerVars>>

\* Take the whole hand-off: the list moves to a local head, draw_all is
\* cleared, the lock is released.  A full redraw makes the list superfluous.
TakeWork ==
    /\ mainPc = "act" /\ ~shouldStop
    /\ drawing' = CASE drawAll -> "all"
                    [] ~drawAll /\ listUpdate -> "list"
                    [] OTHER -> "none"
    /\ drawAll' = FALSE
    /\ listUpdate' = FALSE
    /\ wakeLock' = FALSE
    /\ mainPc' = "draw"
    /\ UNCHANGED <<idx, live, tcFreed, initVars, wakeWait, shouldStop,
                   workerVars>>

\* tm_draw_all or tm_draw_list.
Draw ==
    /\ mainPc = "draw"
    /\ mainPc' = "flush"
    /\ UNCHANGED <<idx, live, tcFreed, drawing, contextVars, workerVars>>

\* tm_x_flush on the main thread.
Flush ==
    /\ mainPc = "flush"
    /\ mainPc' = "lock"
    /\ drawing' = "none"
    /\ UNCHANGED <<idx, live, tcFreed, contextVars, workerVars>>
-----------------------------------------------------------------------------
(***************************************************************************)
(* Main thread: tm_exit_all, from exit_idx - 1 down to 0.  The exits of    *)
(* THREAD and X join their thread first.                                   *)
(***************************************************************************)
\* Mutant: tear down without pthread_join.
NotJoined(o) == TRUE

Joined(o) ==
    /\ o = TM_OBJECT_THREAD => emPc = "done"
    /\ o = TM_OBJECT_X => xPc = "done"

ExitObject ==
    /\ mainPc = "exit" /\ idx >= 0
    /\ Joined(idx)
    /\ live' = live \ {idx}
    /\ idx' = idx - 1
    /\ UNCHANGED <<mainPc, tcFreed, drawing, contextVars, workerVars>>

FreeContext ==
    /\ mainPc = "exit" /\ idx = -1
    /\ tcFreed' = TRUE
    /\ mainPc' = "done"
    /\ UNCHANGED <<idx, live, drawing, contextVars, workerVars>>
-----------------------------------------------------------------------------
(***************************************************************************)
(* X event thread: tm_x_wait_events.                                       *)
(***************************************************************************)

\* Mutant: the X thread starts at once.
XNoInitWait ==
    /\ xPc = "init"
    /\ xPc' = "map"
    /\ UNCHANGED <<mainVars, contextVars, xEvent, emVars, sigVars>>

\* The while loop on init_done, under init_lock; also entered from a wakeup.
XInitWait ==
    /\ xPc = "init" \/ (xPc = "initwait" /\ "x" \notin initWait)
    /\ IF initDone THEN xPc' = "map" /\ initWait' = initWait
                   ELSE xPc' = "initwait" /\ initWait' = initWait \union {"x"}
    /\ UNCHANGED <<mainVars, initDone, wakeVars, shouldStop, xEvent, emVars,
                   sigVars>>

\* xcb_map_window, tm_x_flush (on this thread), tm_x_move_window.
XMapWindow ==
    /\ xPc = "map"
    /\ xPc' = "loop"
    /\ UNCHANGED <<mainVars, contextVars, xEvent, emVars, sigVars>>

XLoop ==
    /\ xPc = "loop"
    /\ xPc' = IF shouldStop THEN "signal" ELSE "wait"
    /\ UNCHANGED <<mainVars, contextVars, xEvent, emVars, sigVars>>

\* xcb_wait_for_event returns: the X server decides when and with what.
XWaitForEvent(e) ==
    /\ xPc = "wait"
    /\ xEvent' = e
    /\ xPc' = "got"
    /\ UNCHANGED <<mainVars, contextVars, emVars, sigVars>>

\* should_stop was set while the thread was blocked: the event is dropped.
XDropEvent ==
    /\ xPc = "got" /\ shouldStop
    /\ xPc' = "signal"
    /\ UNCHANGED <<mainVars, contextVars, xEvent, emVars, sigVars>>

\* ESC: should_stop is set, without a lock.  An Expose with count 0 asks for
\* a redraw.  NULL: the connection is broken.  Anything else is ignored.
XHandleEvent ==
    /\ xPc = "got" /\ ~shouldStop
    /\ shouldStop' = IF xEvent = "esc" THEN TRUE ELSE shouldStop
    /\ xPc' = CASE xEvent = "expose" -> "expose"
                [] xEvent = "null"   -> "fail"
                [] OTHER             -> "loop"
    /\ UNCHANGED <<mainVars, initVars, wakeVars, xEvent, emVars, sigVars>>

\* Mutant: draw_all is set but the main thread is not signalled.
XExposeSilently ==
    /\ xPc = "expose" /\ ~wakeLock
    /\ drawAll' = TRUE
    /\ xPc' = "loop"
    /\ UNCHANGED <<mainVars, initVars, wakeLock, wakeWait, listUpdate,
                   shouldStop, xEvent, emVars, sigVars>>

\* tm_x_event_expose: under main_wake_lock set draw_all and signal.
XExpose ==
    /\ xPc = "expose" /\ ~wakeLock
    /\ drawAll' = TRUE
    /\ wakeWait' = FALSE
    /\ xPc' = "loop"
    /\ UNCHANGED <<mainVars, initVars, wakeLock, listUpdate, shouldStop,
                   xEvent, emVars, sigVars>>

XFail ==
    /\ xPc = "fail"
    /\ shouldStop' = TRUE
    /\ xPc' = "signal"
    /\ UNCHANGED <<mainVars, initVars, wakeVars, xEvent, emVars, sigVars>>

\* pthread_cond_signal without main_wake_lock, then the thread ends.
XSignalStop ==
    /\ xPc = "signal"
    /\ wakeWait' = IF shouldStop THEN FALSE ELSE wakeWait
    /\ xPc' = "done"
    /\ UNCHANGED <<mainVars, initVars, wakeLock, drawAll, listUpdate,
                   shouldStop, xEvent, emVars, sigVars>>
-----------------------------------------------------------------------------
(***************************************************************************)
(* Event manager: tm_thread_event_manager and what it calls.               *)
(***************************************************************************)
EmInitWait ==
    /\ ~inHandler
    /\ emPc = "init" \/ (emPc = "initwait" /\ "em" \notin initWait)
    /\ IF initDone THEN emPc' = "setup" /\ initWait' = initWait
                   ELSE emPc' = "initwait" /\ initWait' = initWait \union {"em"}
    /\ UNCHANGED <<mainVars, initDone, wakeVars, shouldStop, xVars, emErr,
                   staged, sigalrmCnt, sigVars>>

\* Install the handlers, unblock the signals and arm the interval timer; or
\* one of these calls fails.
EmSetup ==
    /\ emPc = "setup" /\ ~inHandler
    /\ \/ armed' = TRUE /\ emErr' = "ok" /\ emPc' = "loop"
       \/ armed' = FALSE /\ emErr' = "err" /\ emPc' = "out"
    /\ UNCHANGED <<mainVars, contextVars, xVars, staged, sigalrmCnt, sigLock,
                   inHandler, sigPending, nrSigalrm>>

\* while (!should_stop && !err); an uninitialized err may read as either.
EmLoop ==
    /\ emPc = "loop" /\ ~inHandler
    /\ \/ ~shouldStop /\ emErr # "err" /\ emPc' = "topause"
       \/ (shouldStop \/ emErr # "ok") /\ emPc' = "out"
    /\ UNCHANGED <<mainVars, contextVars, xVars, emErr, staged, sigalrmCnt,
                   sigVars>>

\* pause() starts: only a SIGALRM delivered from now on makes it return.
EmPause ==
    /\ emPc = "topause" /\ ~inHandler
    /\ emPc' = "pause"
    /\ UNCHANGED <<mainVars, contextVars, xVars, emErr, staged, sigalrmCnt,
                   sigVars>>

EmWoken ==
    /\ emPc = "woken" /\ ~inHandler
    /\ emPc' = IF shouldStop THEN "out" ELSE "hlock"
    /\ UNCHANGED <<mainVars, contextVars, xVars, emErr, staged, sigalrmCnt,
                   sigVars>>

\* tm_thread_handle_events takes tm_sig_lock; its err is uninitialized.
EmLockSig ==
    /\ emPc = "hlock" /\ ~inHandler
    /\ sigLock' = TRUE
    /\ emErr' = "undef"
    /\ emPc' = "hread"
    /\ UNCHANGED <<mainVars, contextVars, xVars, staged, sigalrmCnt,
                   inHandler, sigPending, armed, nrSigalrm>>

\* Mutant: nr_sigalrm is read but not cleared.
EmTakeCountKeeps ==
    /\ emPc = "hread" /\ ~inHandler
    /\ sigalrmCnt' = nrSigalrm
    /\ sigLock' = FALSE
    /\ emPc' = "ticks"
    /\ UNCHANGED <<mainVars, contextVars, xVars, emErr, staged, inHandler,
                   sigPending, armed, nrSigalrm>>

\* Take and clear the count, release tm_sig_lock.
EmTakeCount ==
    /\ emPc = "hread" /\ ~inHandler
    /\ sigalrmCnt' = nrSigalrm
    /\ nrSigalrm' = 0
    /\ sigLock' = FALSE
    /\ emPc' = "ticks"
    /\ UNCHANGED <<mainVars, contextVars, xVars, emErr, staged, inHandler,
                   sigPending, armed>>

\* One call of tm_thread_sigalrm_handler up to the hand-off: the callbacks of
\* the expired timers run; they may stage items, and one may fail.
EmTick ==
    /\ emPc = "ticks" /\ ~inHandler /\ sigalrmCnt > 0
    /\ sigalrmCnt' = sigalrmCnt - 1
    /\ staged' = staged \/ staged' = TRUE
    /\ \/ emErr' = "err" /\ emPc' = "loop"
       \/ emErr' = "ok" /\ emPc' = IF staged' THEN "handoff" ELSE "ticks"
    /\ UNCHANGED <<mainVars, contextVars, xVars, sigVars>>

EmTicksDone ==
    /\ emPc = "ticks" /\ ~inHandler /\ sigalrmCnt = 0
    /\ emPc' = "loop"
    /\ UNCHANGED <<mainVars, contextVars, xVars, emErr, staged, sigalrmCnt,
                   sigVars>>

\* Mutant: the hand-off does not take main_wake_lock.
EmHandOffUnlocked ==
    /\ emPc = "handoff" /\ ~inHandler
    /\ listUpdate' = TRUE
    /\ staged' = FALSE
    /\ wakeWait' = FALSE
    /\ emPc' = "ticks"
    /\ UNCHANGED <<mainVars, initVars, wakeLock, drawAll, shouldStop, xVars,
                   emErr, sigalrmCnt, sigVars>>

\* Under main_wake_lock the static list replaces tc->list_update; signal.
EmHandOff ==
    /\ emPc = "handoff" /\ ~inHandler /\ ~wakeLock
    /\ listUpdate' = TRUE
    /\ staged' = FALSE
    /\ wakeWait' = FALSE
    /\ emPc' = "ticks"
    /\ UNCHANGED <<mainVars, initVars, wakeLock, drawAll, shouldStop, xVars,
                   emErr, sigalrmCnt, sigVars>>

EmOut ==
    /\ emPc = "out" /\ ~inHandler
    /\ shouldStop' = IF emErr = "ok" THEN shouldStop ELSE TRUE
    /\ emPc' = "signal"
    /\ UNCHANGED <<mainVars, initVars, wakeVars, xVars, emErr, staged,
                   sigalrmCnt, sigVars>>

\* pthread_cond_signal without main_wake_lock, then the thread ends.
EmSignalStop ==
    /\ emPc = "signal" /\ ~inHandler
    /\ wakeWait' = IF shouldStop THEN FALSE ELSE wakeWait
    /\ emPc' = "done"
    /\ UNCHANGED <<mainVars, initVars, wakeLock, drawAll, listUpdate,
                   shouldStop, xVars, emErr, staged, sigalrmCnt, sigVars>>
-----------------------------------------------------------------------------
(***************************************************************************)
(* SIGALRM.  Every other thread blocks it, so the event manager takes it,  *)
(* wherever it is; during the handler it is blocked (sa_mask is full).     *)
(***************************************************************************)
HandlerInstalled == emPc \notin {"none", "init", "initwait", "setup", "done"}

\* Mutant: it_interval is not set, the timer expires once.
AlarmExpiresOnce ==
    /\ armed /\ ~sigPending
    /\ sigPending' = TRUE
    /\ armed' = FALSE
    /\ UNCHANGED <<mainVars, contextVars, xVars, emVars, sigLock, inHandler,
                   nrSigalrm>>

\* The interval timer expires; a SIGALRM already pending absorbs the new one.
AlarmExpires ==
    /\ armed /\ ~sigPending
    /\ sigPending' = TRUE
    /\ UNCHANGED <<mainVars, contextVars, xVars, emVars, sigLock, inHandler,
                   armed, nrSigalrm>>

\* The bound never keeps a signal from a sleeping event manager, nor from one
\* that holds tm_sig_lock (where it cannot be counted).
DeliverAlarm ==
    /\ sigPending /\ HandlerInstalled /\ ~inHandler
    /\ nrSigalrm < MaxAlarms \/ emPc = "pause" \/ sigLock
    /\ sigPending' = FALSE
    /\ inHandler' = TRUE
    /\ UNCHANGED <<mainVars, contextVars, xVars, emVars, sigLock, armed,
                   nrSigalrm>>

\* Mutant: the handler ends pause() without counting the signal.
RecordAlarmUncounted ==
    /\ inHandler /\ ~sigLock
    /\ inHandler' = FALSE
    /\ emPc' = IF emPc = "pause" THEN "woken" ELSE emPc
    /\ UNCHANGED <<mainVars, contextVars, xVars, emErr, staged, sigalrmCnt,
                   sigLock, sigPending, armed, nrSigalrm>>

\* tm_thread_sig_record: lock, count, unlock.  It cannot proceed if it
\* interrupted the holder of tm_sig_lock.  Its return ends a pause().
RecordAlarm ==
    /\ inHandler /\ ~sigLock
    /\ nrSigalrm' = nrSigalrm + 1
    /\ inHandler' = FALSE
    /\ emPc' = IF emPc = "pause" THEN "woken" ELSE emPc
    /\ UNCHANGED <<mainVars, contextVars, xVars, emErr, staged, sigalrmCnt,
                   sigLock, sigPending, armed>>
-----------------------------------------------------------------------------
MainStep ==
    \/ InitObject \/ InitFails \/ InitSucceeds \/ ReleaseWorkers
    \/ LockWake \/ CheckWork \/ CondWait \/ CondReturn \/ LeaveLoop \/ TakeWork
    \/ Draw \/ Flush \/ ExitObject \/ FreeContext

XStep ==
    \/ XInitWait \/ XMapWindow \/ XLoop \/ XDropEvent \/ XHandleEvent
    \/ XExpose \/ XFail \/ XSignalStop

EmStep ==
    \/ EmInitWait \/ EmSetup \/ EmLoop \/ EmPause \/ EmWoken \/ EmLockSig
    \/ EmTakeCount \/ EmTick \/ EmTicksDone \/ EmHandOff \/ EmOut
    \/ EmSignalStop \/ RecordAlarm

\* What the kernel and the X server do.
Environment ==
    \/ SpuriousWakeup \/ AlarmExpires \/ DeliverAlarm
    \/ \E e \in XEvents \ {"none"} : XWaitForEvent(e)

Next == MainStep \/ XStep \/ EmStep \/ Environment

Spec == Init /\ [][Next]_vars

(***************************************************************************)
(* Fairness: the scheduler runs every thread that can run, a mutex is not  *)
(* withheld from one thread forever, the interval timer keeps expiring and *)
(* its signal is delivered.  Nothing is assumed of the X server (it may    *)
(* never send an event) nor of spurious wakeups.                           *)
(***************************************************************************)
Fairness ==
    /\ WF_vars(MainStep) /\ WF_vars(XStep) /\ WF_vars(EmStep)
    /\ SF_vars(XExpose) /\ SF_vars(EmHandOff)
    /\ WF_vars(AlarmExpires) /\ WF_vars(DeliverAlarm)

FairSpec == Spec /\ Fairness
-----------------------------------------------------------------------------
(***************************************************************************)
(* Safety.                                                                 *)
(***************************************************************************)
XRunning  == xPc \notin {"none", "done"}
EmRunning == emPc \notin {"none", "done"}
Asleep    == mainPc = "wait" \/ wakeWait

\* No wakeup for work is lost: whenever the main thread has decided to wait
\* or waits (tm_main.c:331-334), there is neither a redraw request nor a
\* handed-off list; both are published under main_wake_lock.
NoLostWork == Asleep => ~drawAll /\ ~listUpdate

\* A running worker never outlives what it uses: the X thread its X object,
\* the event manager every object whose timers it runs, both the context.
\* It is what the joins in the exits and "Must be last" (tm.h:24) are for.
WorkersOutlived ==
    /\ XRunning => TM_OBJECT_X \in live /\ ~tcFreed
    /\ EmRunning => Objects \subseteq live /\ ~tcFreed

\* tm_exit_all runs the exit of exactly the objects whose init succeeded,
\* last one first, and nothing is left when the context is freed.
ExitExactlyInitialized ==
    /\ mainPc = "exit" => live = 0 .. idx
    /\ tcFreed => live = {} /\ ~XRunning /\ ~EmRunning

\* The workers start only after the initialization is over: timer_head and
\* the static list, which no lock protects, have one user at a time.
WorkersWaitForInit ==
    /\ xPc \notin {"none", "init", "initwait"} => mainPc \notin {"init", "release"}
    /\ emPc \notin {"none", "init", "initwait"} => mainPc \notin {"init", "release"}

\* When an init failed, the X thread, which may exist by then, never blocks
\* in xcb_wait_for_event: the join of the teardown cannot wait for a user.
FailedInitNeverBlocks ==
    mainPc # "init" /\ emPc = "none" => xPc \notin {"wait", "got", "expose"}

\* tm_thread_handle_events (tm_thread.c:171) returns an err it has assigned:
\* pause() returns only after a counted signal.
HandleEventsDefined ==
    emErr = "undef" => \/ emPc = "hread"
                       \/ emPc = "ticks" /\ sigalrmCnt > 0

\* "All drawing operations are done on main thread" (tm_main.c:325): the X
\* thread flushes the cairo surface (tm_x.c:959) only while main does not
\* draw.  The code violates it.
DrawsOnMainOnly == ~(xPc = "map" /\ mainPc \in {"draw", "flush"})

\* should_stop wakes the main thread (tm_main.c:331): it is not left waiting
\* when both threads that could still signal it are gone.  The code violates
\* it: both signal without main_wake_lock.
StopWakesMain ==
    ~(shouldStop /\ wakeWait /\ xPc = "done" /\ emPc = "done")
-----------------------------------------------------------------------------
(***************************************************************************)
(* Liveness, under FairSpec.                                               *)
(***************************************************************************)

\* The three ways in which the program may never finish stopping.
SelfDeadlocked == inHandler /\ sigLock
StopMissed     == ~StopWakesMain
XServerSilent  == xPc = "wait"

\* An exposed window is redrawn as a whole, or the program stops.
ExposeRedraws == (xPc = "expose") ~> (drawing = "all" \/ shouldStop)

\* A list handed off by the event manager is drawn, by itself or as part of a
\* full redraw, or the program stops.
UpdateDrawn == listUpdate ~> (drawing \in {"list", "all"} \/ shouldStop)

\* While the program runs, the timers tick for ever, unless the handler
\* deadlocks on tm_sig_lock.
TicksForever ==
    []<>(emPc = "ticks") \/ <>[](emPc = "none") \/ <>shouldStop
                         \/ <>[]SelfDeadlocked

\* A failed initialization always ends the process.
FailedInitExits == (mainPc # "init" /\ emPc = "none") ~> (mainPc = "done")

\* Stopping ends the process, except for the three known ways to hang.
StopOutcome ==
    <>shouldStop => \/ <>(mainPc = "done")
                    \/ <>[]SelfDeadlocked
                    \/ <>[]StopMissed
                    \/ <>[]XServerSilent

\* "Get i/f state and stats periodically" (tm_net.c:716): once the interval
\* timer is armed the callbacks run for ever or the program stops.  The code
\* violates it: a SIGALRM taken while handle_events holds tm_sig_lock.
TicksPeriodically == <>armed => []<>(emPc = "ticks") \/ <>shouldStop

\* Stopping ends the X thread, which tm_x_exit joins (tm_x.c:1099).  The code
\* violates it: nothing wakes a thread blocked in xcb_wait_for_event.
StopEndsXThread == shouldStop ~> ~XRunning
=============================================================================
