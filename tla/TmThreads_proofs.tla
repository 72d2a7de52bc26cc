--------------------------- MODULE TmThreads_proofs ---------------------------
(***************************************************************************)
(* Proofs about TmThreads, for every number of objects and every bound on  *)
(* the recorded alarms.  The inductive invariant is built in layers, each  *)
(* proved from the ones before it: types, the phases of the main thread,   *)
(* the wakeup lock, the workers, the signal counter.                       *)
(***************************************************************************)
EXTENDS TmThreadsWakeup, TLAPS

\* The types, the flags apart from the rest because they are proved by a
\* prover of their own; the bounds of the counters are part of SigInv.
Values ==
    /\ mainPc \in MainPcs /\ xPc \in XPcs /\ emPc \in EmPcs
    /\ drawing \in {"none", "all", "list"}
    /\ initWait \subseteq {"x", "em"}
    /\ xEvent \in XEvents
    /\ emErr \in {"ok", "err", "undef"}
    /\ sigalrmCnt \in Nat /\ nrSigalrm \in Nat

Flags ==
    /\ tcFreed \in BOOLEAN /\ shouldStop \in BOOLEAN /\ initDone \in BOOLEAN
    /\ wakeLock \in BOOLEAN /\ wakeWait \in BOOLEAN
    /\ drawAll \in BOOLEAN /\ listUpdate \in BOOLEAN
    /\ staged \in BOOLEAN /\ sigLock \in BOOLEAN /\ inHandler \in BOOLEAN
    /\ sigPending \in BOOLEAN /\ armed \in BOOLEAN

\* Where the main thread is tells how far initialization or teardown got.
LoopPcs == {"lock", "check", "wait", "blocked", "act", "draw", "flush"}

PhaseInv ==
    /\ idx \in -1 .. TM_OBJECT_MAX
    /\ live \subseteq Objects
    /\ mainPc \in {"init", "release"} =>
           ~initDone /\ idx \in 0 .. TM_OBJECT_MAX /\ live = 0 .. idx - 1
    /\ mainPc \in LoopPcs => initDone /\ idx = TM_OBJECT_MAX /\ live = Objects
    /\ mainPc = "exit" => initDone /\ idx < TM_OBJECT_MAX /\ live = 0 .. idx
    /\ mainPc = "done" => initDone /\ live = {}
    /\ tcFreed <=> mainPc = "done"

\* main_wake_lock is held from check to act, and work is published under it.
WakeInv ==
    /\ wakeLock <=> mainPc \in {"check", "wait", "act"}
    /\ wakeWait => mainPc = "blocked"
    /\ NoLostWork

\* The workers run between the barrier and their join.
WorkerInv ==
    /\ WorkersOutlived
    /\ xPc \notin {"none", "init", "initwait"} => initDone
    /\ emPc \notin {"none", "init", "initwait"} => initDone
    /\ mainPc = "init" => (emPc = "none" <=> idx < TM_OBJECT_MAX)
    /\ mainPc = "release" /\ idx = TM_OBJECT_MAX => emPc # "none"
    /\ mainPc # "init" /\ emPc = "none" => shouldStop
    /\ mainPc # "init" /\ xPc \in {"wait", "got", "expose"} => emPc # "none"

\* The counter: a woken event manager finds at least one recorded alarm, and
\* the handler has room for the one it is about to record.
SigInv ==
    /\ sigLock <=> emPc = "hread"
    /\ emPc \in {"woken", "hlock", "hread"} => nrSigalrm > 0
    /\ HandleEventsDefined
    /\ nrSigalrm \in 0 .. MaxAlarms + 1 /\ sigalrmCnt \in 0 .. MaxAlarms + 1
    /\ emPc \notin {"woken", "hlock", "hread", "out", "signal", "done"} =>
           nrSigalrm <= MaxAlarms
    /\ inHandler => \/ sigLock
                    \/ nrSigalrm < MaxAlarms
                    \/ emPc = "pause" /\ nrSigalrm <= MaxAlarms
    /\ emPc \in {"none", "init", "initwait", "setup", "done"} => ~inHandler

IInv == Values /\ Flags /\ PhaseInv /\ WakeInv /\ WorkerInv /\ SigInv

USE DEF mainVars, initVars, wakeVars, xVars, emVars, sigVars, contextVars,
        workerVars,
        TM_OBJECT_X, TM_OBJECT_THREAD, Objects, Widgets
-----------------------------------------------------------------------------
\* Every step keeps program counters, locals and counters in their sets.
LEMMA ValuesStep ==
    ASSUME Values, [Next]_vars
    PROVE  Values'
<1> USE DEF Values, MainPcs, XPcs, EmPcs, XEvents
<1>1. CASE MainStep
  <2>1. CASE InitObject  BY <2>1 DEF InitObject
  <2>2. CASE InitFails  BY <2>2 DEF InitFails
  <2>3. CASE InitSucceeds  BY <2>3 DEF InitSucceeds
  <2>4. CASE ReleaseWorkers  BY <2>4 DEF ReleaseWorkers
  <2>5. CASE LockWake  BY <2>5 DEF LockWake
  <2>6. CASE CheckWork  BY <2>6 DEF CheckWork
  <2>7. CASE CondWait  BY <2>7 DEF CondWait
  <2>8. CASE CondReturn  BY <2>8 DEF CondReturn
  <2>9. CASE LeaveLoop  BY <2>9 DEF LeaveLoop
  <2>10. CASE TakeWork  BY <2>10 DEF TakeWork
  <2>11. CASE Draw  BY <2>11 DEF Draw
  <2>12. CASE Flush  BY <2>12 DEF Flush
  <2>13. CASE ExitObject  BY <2>13 DEF ExitObject
  <2>14. CASE FreeContext  BY <2>14 DEF FreeContext
  <2>15. QED
    BY <1>1, <2>1, <2>2, <2>3, <2>4, <2>5, <2>6, <2>7, <2>8, <2>9, <2>10,
       <2>11, <2>12, <2>13, <2>14 DEF MainStep
<1>2. CASE XStep
  <2>1. CASE XInitWait
    <3>1. initWait' \subseteq initWait \union {"x"}  BY <2>1 DEF XInitWait
    <3>2. initWait' \subseteq {"x", "em"}  BY <3>1
    <3>3. QED  BY <2>1, <3>2 DEF XInitWait
  <2>2. CASE XMapWindow  BY <2>2 DEF XMapWindow
  <2>3. CASE XLoop  BY <2>3 DEF XLoop
  <2>4. CASE XDropEvent  BY <2>4 DEF XDropEvent
  <2>5. CASE XHandleEvent  BY <2>5 DEF XHandleEvent
  <2>6. CASE XExpose  BY <2>6 DEF XExpose
  <2>7. CASE XFail  BY <2>7 DEF XFail
  <2>8. CASE XSignalStop  BY <2>8 DEF XSignalStop
  <2>9. QED
    BY <1>2, <2>1, <2>2, <2>3, <2>4, <2>5, <2>6, <2>7, <2>8 DEF XStep
<1>3. CASE EmStep
  <2>1. CASE EmInitWait
    <3>1. initWait' \subseteq initWait \union {"em"}  BY <2>1 DEF EmInitWait
    <3>2. initWait' \subseteq {"x", "em"}  BY <3>1
    <3>3. QED  BY <2>1, <3>2 DEF EmInitWait
  <2>2. CASE EmSetup  BY <2>2 DEF EmSetup
  <2>3. CASE EmLoop  BY <2>3 DEF EmLoop
  <2>4. CASE EmPause  BY <2>4 DEF EmPause
  <2>5. CASE EmWoken  BY <2>5 DEF EmWoken
  <2>6. CASE EmLockSig  BY <2>6 DEF EmLockSig
  <2>7. CASE EmTakeCount  BY <2>7 DEF EmTakeCount
  <2>8. CASE EmTick  BY <2>8 DEF EmTick
  <2>9. CASE EmTicksDone  BY <2>9 DEF EmTicksDone
  <2>10. CASE EmHandOff  BY <2>10 DEF EmHandOff
  <2>11. CASE EmOut  BY <2>11 DEF EmOut
  <2>12. CASE EmSignalStop  BY <2>12 DEF EmSignalStop
  <2>13. CASE RecordAlarm  BY <2>13 DEF RecordAlarm
  <2>14. QED
    BY <1>3, <2>1, <2>2, <2>3, <2>4, <2>5, <2>6, <2>7, <2>8, <2>9, <2>10,
       <2>11, <2>12, <2>13 DEF EmStep
<1>4. CASE Environment
  <2>1. CASE SpuriousWakeup  BY <2>1 DEF SpuriousWakeup
  <2>2. CASE AlarmExpires  BY <2>2 DEF AlarmExpires
  <2>3. CASE DeliverAlarm  BY <2>3 DEF DeliverAlarm
  <2>4. ASSUME NEW e \in XEvents \ {"none"}, XWaitForEvent(e)
        PROVE  Values'
    BY <2>4 DEF XWaitForEvent
  <2>5. QED
    BY <1>4, <2>1, <2>2, <2>3, <2>4 DEF Environment
<1>5. CASE UNCHANGED vars  BY <1>5 DEF vars
<1>6. QED  BY <1>1, <1>2, <1>3, <1>4, <1>5 DEF Next

\* Every step keeps the flags Boolean.
LEMMA FlagsStep ==
    ASSUME Flags, [Next]_vars
    PROVE  Flags'
<1> USE DEF Flags
<1>1. CASE MainStep
  <2>1. CASE InitObject  BY Zenon, <2>1 DEF InitObject
  <2>2. CASE InitFails  BY Zenon, <2>2 DEF InitFails
  <2>3. CASE InitSucceeds  BY Zenon, <2>3 DEF InitSucceeds
  <2>4. CASE ReleaseWorkers  BY Zenon, <2>4 DEF ReleaseWorkers
  <2>5. CASE LockWake  BY Zenon, <2>5 DEF LockWake
  <2>6. CASE CheckWork  BY Zenon, <2>6 DEF CheckWork
  <2>7. CASE CondWait  BY Zenon, <2>7 DEF CondWait
  <2>8. CASE CondReturn  BY Zenon, <2>8 DEF CondReturn
  <2>9. CASE LeaveLoop  BY Zenon, <2>9 DEF LeaveLoop
  <2>10. CASE TakeWork  BY Zenon, <2>10 DEF TakeWork
  <2>11. CASE Draw  BY Zenon, <2>11 DEF Draw
  <2>12. CASE Flush  BY Zenon, <2>12 DEF Flush
  <2>13. CASE ExitObject  BY Zenon, <2>13 DEF ExitObject
  <2>14. CASE FreeContext  BY Zenon, <2>14 DEF FreeContext
  <2>15. QED
    BY <1>1, <2>1, <2>2, <2>3, <2>4, <2>5, <2>6, <2>7, <2>8, <2>9, <2>10,
       <2>11, <2>12, <2>13, <2>14 DEF MainStep
<1>2. CASE XStep
  <2>1. CASE XInitWait  BY Zenon, <2>1 DEF XInitWait
  <2>2. CASE XMapWindow  BY Zenon, <2>2 DEF XMapWindow
  <2>3. CASE XLoop  BY Zenon, <2>3 DEF XLoop
  <2>4. CASE XDropEvent  BY Zenon, <2>4 DEF XDropEvent
  <2>5. CASE XHandleEvent  BY Zenon, <2>5 DEF XHandleEvent
  <2>6. CASE XExpose  BY Zenon, <2>6 DEF XExpose
  <2>7. CASE XFail  BY Zenon, <2>7 DEF XFail
  <2>8. CASE XSignalStop  BY Zenon, <2>8 DEF XSignalStop
  <2>9. QED
    BY <1>2, <2>1, <2>2, <2>3, <2>4, <2>5, <2>6, <2>7, <2>8 DEF XStep
<1>3. CASE EmStep
  <2>1. CASE EmInitWait  BY Zenon, <2>1 DEF EmInitWait
  <2>2. CASE EmSetup  BY Zenon, <2>2 DEF EmSetup
  <2>3. CASE EmLoop  BY Zenon, <2>3 DEF EmLoop
  <2>4. CASE EmPause  BY Zenon, <2>4 DEF EmPause
  <2>5. CASE EmWoken  BY Zenon, <2>5 DEF EmWoken
  <2>6. CASE EmLockSig  BY Zenon, <2>6 DEF EmLockSig
  <2>7. CASE EmTakeCount  BY Zenon, <2>7 DEF EmTakeCount
  <2>8. CASE EmTick  BY Zenon, <2>8 DEF EmTick
  <2>9. CASE EmTicksDone  BY Zenon, <2>9 DEF EmTicksDone
  <2>10. CASE EmHandOff  BY Zenon, <2>10 DEF EmHandOff
  <2>11. CASE EmOut  BY Zenon, <2>11 DEF EmOut
  <2>12. CASE EmSignalStop  BY Zenon, <2>12 DEF EmSignalStop
  <2>13. CASE RecordAlarm  BY Zenon, <2>13 DEF RecordAlarm
  <2>14. QED
    BY <1>3, <2>1, <2>2, <2>3, <2>4, <2>5, <2>6, <2>7, <2>8, <2>9, <2>10,
       <2>11, <2>12, <2>13 DEF EmStep
<1>4. CASE Environment
  <2>1. CASE SpuriousWakeup  BY Zenon, <2>1 DEF SpuriousWakeup
  <2>2. CASE AlarmExpires  BY Zenon, <2>2 DEF AlarmExpires
  <2>3. CASE DeliverAlarm  BY Zenon, <2>3 DEF DeliverAlarm
  <2>4. ASSUME NEW e \in XEvents \ {"none"}, XWaitForEvent(e)
        PROVE  Flags'
    BY Zenon, <2>4 DEF XWaitForEvent
  <2>5. QED
    BY <1>4, <2>1, <2>2, <2>3, <2>4 DEF Environment
<1>5. CASE UNCHANGED vars  BY Zenon, <1>5 DEF vars
<1>6. QED  BY <1>1, <1>2, <1>3, <1>4, <1>5 DEF Next

\* Initialization counts up, teardown counts down, and the draw loop runs with
\* every object live.
LEMMA PhaseStep ==
    ASSUME Values, PhaseInv, [Next]_vars
    PROVE  PhaseInv'
<1> USE ObjectAssumption DEF PhaseInv, LoopPcs
<1>1. CASE MainStep
  <2>1. CASE InitObject  BY <2>1 DEF InitObject
  <2>2. CASE InitFails  BY <2>2 DEF InitFails
  <2>3. CASE InitSucceeds  BY <2>3 DEF InitSucceeds
  <2>4. CASE ReleaseWorkers  BY <2>4 DEF ReleaseWorkers
  <2>5. CASE LockWake  BY <2>5 DEF LockWake
  <2>6. CASE CheckWork  BY <2>6 DEF CheckWork
  <2>7. CASE CondWait  BY <2>7 DEF CondWait
  <2>8. CASE CondReturn  BY <2>8 DEF CondReturn
  <2>9. CASE LeaveLoop  BY <2>9 DEF LeaveLoop
  <2>10. CASE TakeWork  BY <2>10 DEF TakeWork
  <2>11. CASE Draw  BY <2>11 DEF Draw
  <2>12. CASE Flush  BY <2>12 DEF Flush
  <2>13. CASE ExitObject  BY <2>13 DEF ExitObject
  <2>14. CASE FreeContext  BY <2>14 DEF FreeContext
  <2>15. QED
    BY <1>1, <2>1, <2>2, <2>3, <2>4, <2>5, <2>6, <2>7, <2>8, <2>9, <2>10,
       <2>11, <2>12, <2>13, <2>14 DEF MainStep
<1>2. CASE XStep
  <2>1. CASE XInitWait  BY <2>1 DEF XInitWait
  <2>2. CASE XMapWindow  BY <2>2 DEF XMapWindow
  <2>3. CASE XLoop  BY <2>3 DEF XLoop
  <2>4. CASE XDropEvent  BY <2>4 DEF XDropEvent
  <2>5. CASE XHandleEvent  BY <2>5 DEF XHandleEvent
  <2>6. CASE XExpose  BY <2>6 DEF XExpose
  <2>7. CASE XFail  BY <2>7 DEF XFail
  <2>8. CASE XSignalStop  BY <2>8 DEF XSignalStop
  <2>9. QED
    BY <1>2, <2>1, <2>2, <2>3, <2>4, <2>5, <2>6, <2>7, <2>8 DEF XStep
<1>3. CASE EmStep
  <2>1. CASE EmInitWait  BY <2>1 DEF EmInitWait
  <2>2. CASE EmSetup  BY <2>2 DEF EmSetup
  <2>3. CASE EmLoop  BY <2>3 DEF EmLoop
  <2>4. CASE EmPause  BY <2>4 DEF EmPause
  <2>5. CASE EmWoken  BY <2>5 DEF EmWoken
  <2>6. CASE EmLockSig  BY <2>6 DEF EmLockSig
  <2>7. CASE EmTakeCount  BY <2>7 DEF EmTakeCount
  <2>8. CASE EmTick  BY <2>8 DEF EmTick
  <2>9. CASE EmTicksDone  BY <2>9 DEF EmTicksDone
  <2>10. CASE EmHandOff  BY <2>10 DEF EmHandOff
  <2>11. CASE EmOut  BY <2>11 DEF EmOut
  <2>12. CASE EmSignalStop  BY <2>12 DEF EmSignalStop
  <2>13. CASE RecordAlarm  BY <2>13 DEF RecordAlarm
  <2>14. QED
    BY <1>3, <2>1, <2>2, <2>3, <2>4, <2>5, <2>6, <2>7, <2>8, <2>9, <2>10,
       <2>11, <2>12, <2>13 DEF EmStep
<1>4. CASE Environment
  <2>1. CASE SpuriousWakeup  BY <2>1 DEF SpuriousWakeup
  <2>2. CASE AlarmExpires  BY <2>2 DEF AlarmExpires
  <2>3. CASE DeliverAlarm  BY <2>3 DEF DeliverAlarm
  <2>4. ASSUME NEW e \in XEvents \ {"none"}, XWaitForEvent(e)
        PROVE  PhaseInv'
    BY <2>4 DEF XWaitForEvent
  <2>5. QED
    BY <1>4, <2>1, <2>2, <2>3, <2>4 DEF Environment
<1>5. CASE UNCHANGED vars  BY <1>5 DEF vars
<1>6. QED  BY <1>1, <1>2, <1>3, <1>4, <1>5 DEF Next

\* Publishing work under the lock is what keeps a wakeup from being lost.
LEMMA WakeStep ==
    ASSUME Values, WakeInv, [Next]_vars
    PROVE  WakeInv'
<1> USE DEF WakeInv, NoLostWork, Asleep, Values
<1>1. CASE MainStep
  <2>1. CASE InitObject  BY <2>1 DEF InitObject
  <2>2. CASE InitFails  BY <2>2 DEF InitFails
  <2>3. CASE InitSucceeds  BY <2>3 DEF InitSucceeds
  <2>4. CASE ReleaseWorkers  BY <2>4 DEF ReleaseWorkers
  <2>5. CASE LockWake  BY <2>5 DEF LockWake
  <2>6. CASE CheckWork  BY <2>6 DEF CheckWork
  <2>7. CASE CondWait  BY <2>7 DEF CondWait
  <2>8. CASE CondReturn  BY <2>8 DEF CondReturn
  <2>9. CASE LeaveLoop  BY <2>9 DEF LeaveLoop
  <2>10. CASE TakeWork  BY <2>10 DEF TakeWork
  <2>11. CASE Draw  BY <2>11 DEF Draw
  <2>12. CASE Flush  BY <2>12 DEF Flush
  <2>13. CASE ExitObject  BY <2>13 DEF ExitObject
  <2>14. CASE FreeContext  BY <2>14 DEF FreeContext
  <2>15. QED
    BY <1>1, <2>1, <2>2, <2>3, <2>4, <2>5, <2>6, <2>7, <2>8, <2>9, <2>10,
       <2>11, <2>12, <2>13, <2>14 DEF MainStep
<1>2. CASE XStep
  <2>1. CASE XInitWait  BY <2>1 DEF XInitWait
  <2>2. CASE XMapWindow  BY <2>2 DEF XMapWindow
  <2>3. CASE XLoop  BY <2>3 DEF XLoop
  <2>4. CASE XDropEvent  BY <2>4 DEF XDropEvent
  <2>5. CASE XHandleEvent  BY <2>5 DEF XHandleEvent
  <2>6. CASE XExpose  BY <2>6 DEF XExpose
  <2>7. CASE XFail  BY <2>7 DEF XFail
  <2>8. CASE XSignalStop  BY <2>8 DEF XSignalStop
  <2>9. QED
    BY <1>2, <2>1, <2>2, <2>3, <2>4, <2>5, <2>6, <2>7, <2>8 DEF XStep
<1>3. CASE EmStep
  <2>1. CASE EmInitWait  BY <2>1 DEF EmInitWait
  <2>2. CASE EmSetup  BY <2>2 DEF EmSetup
  <2>3. CASE EmLoop  BY <2>3 DEF EmLoop
  <2>4. CASE EmPause  BY <2>4 DEF EmPause
  <2>5. CASE EmWoken  BY <2>5 DEF EmWoken
  <2>6. CASE EmLockSig  BY <2>6 DEF EmLockSig
  <2>7. CASE EmTakeCount  BY <2>7 DEF EmTakeCount
  <2>8. CASE EmTick  BY <2>8 DEF EmTick
  <2>9. CASE EmTicksDone  BY <2>9 DEF EmTicksDone
  <2>10. CASE EmHandOff  BY <2>10 DEF EmHandOff
  <2>11. CASE EmOut  BY <2>11 DEF EmOut
  <2>12. CASE EmSignalStop  BY <2>12 DEF EmSignalStop
  <2>13. CASE RecordAlarm  BY <2>13 DEF RecordAlarm
  <2>14. QED
    BY <1>3, <2>1, <2>2, <2>3, <2>4, <2>5, <2>6, <2>7, <2>8, <2>9, <2>10,
       <2>11, <2>12, <2>13 DEF EmStep
<1>4. CASE Environment
  <2>1. CASE SpuriousWakeup  BY <2>1 DEF SpuriousWakeup
  <2>2. CASE AlarmExpires  BY <2>2 DEF AlarmExpires
  <2>3. CASE DeliverAlarm  BY <2>3 DEF DeliverAlarm
  <2>4. ASSUME NEW e \in XEvents \ {"none"}, XWaitForEvent(e)
        PROVE  WakeInv'
    BY <2>4 DEF XWaitForEvent
  <2>5. QED
    BY <1>4, <2>1, <2>2, <2>3, <2>4 DEF Environment
<1>5. CASE UNCHANGED vars  BY <1>5 DEF vars
<1>6. QED  BY <1>1, <1>2, <1>3, <1>4, <1>5 DEF Next

\* A worker starts after the barrier and is joined before what it uses is
\* torn down.
LEMMA WorkerStep ==
    ASSUME Values, PhaseInv, WorkerInv, [Next]_vars
    PROVE  WorkerInv'
<1> USE ObjectAssumption DEF WorkerInv, WorkersOutlived, XRunning, EmRunning, PhaseInv, LoopPcs
<1>1. CASE MainStep
  <2>1. CASE InitObject  BY <2>1 DEF InitObject
  <2>2. CASE InitFails  BY <2>2 DEF InitFails
  <2>3. CASE InitSucceeds  BY <2>3 DEF InitSucceeds
  <2>4. CASE ReleaseWorkers  BY <2>4 DEF ReleaseWorkers
  <2>5. CASE LockWake  BY <2>5 DEF LockWake
  <2>6. CASE CheckWork  BY <2>6 DEF CheckWork
  <2>7. CASE CondWait  BY <2>7 DEF CondWait
  <2>8. CASE CondReturn  BY <2>8 DEF CondReturn
  <2>9. CASE LeaveLoop  BY <2>9 DEF LeaveLoop
  <2>10. CASE TakeWork  BY <2>10 DEF TakeWork
  <2>11. CASE Draw  BY <2>11 DEF Draw
  <2>12. CASE Flush  BY <2>12 DEF Flush
  <2>13. CASE ExitObject  BY <2>13 DEF ExitObject, Joined
  <2>14. CASE FreeContext  BY <2>14 DEF FreeContext
  <2>15. QED
    BY <1>1, <2>1, <2>2, <2>3, <2>4, <2>5, <2>6, <2>7, <2>8, <2>9, <2>10,
       <2>11, <2>12, <2>13, <2>14 DEF MainStep
<1>2. CASE XStep
  <2>1. CASE XInitWait  BY <2>1 DEF XInitWait
  <2>2. CASE XMapWindow  BY <2>2 DEF XMapWindow
  <2>3. CASE XLoop  BY <2>3 DEF XLoop
  <2>4. CASE XDropEvent  BY <2>4 DEF XDropEvent
  <2>5. CASE XHandleEvent  BY <2>5 DEF XHandleEvent
  <2>6. CASE XExpose  BY <2>6 DEF XExpose
  <2>7. CASE XFail  BY <2>7 DEF XFail
  <2>8. CASE XSignalStop  BY <2>8 DEF XSignalStop
  <2>9. QED
    BY <1>2, <2>1, <2>2, <2>3, <2>4, <2>5, <2>6, <2>7, <2>8 DEF XStep
<1>3. CASE EmStep
  <2>1. CASE EmInitWait  BY <2>1 DEF EmInitWait
  <2>2. CASE EmSetup  BY <2>2 DEF EmSetup
  <2>3. CASE EmLoop  BY <2>3 DEF EmLoop
  <2>4. CASE EmPause  BY <2>4 DEF EmPause
  <2>5. CASE EmWoken  BY <2>5 DEF EmWoken
  <2>6. CASE EmLockSig  BY <2>6 DEF EmLockSig
  <2>7. CASE EmTakeCount  BY <2>7 DEF EmTakeCount
  <2>8. CASE EmTick  BY <2>8 DEF EmTick
  <2>9. CASE EmTicksDone  BY <2>9 DEF EmTicksDone
  <2>10. CASE EmHandOff  BY <2>10 DEF EmHandOff
  <2>11. CASE EmOut  BY <2>11 DEF EmOut
  <2>12. CASE EmSignalStop  BY <2>12 DEF EmSignalStop
  <2>13. CASE RecordAlarm  BY <2>13 DEF RecordAlarm
  <2>14. QED
    BY <1>3, <2>1, <2>2, <2>3, <2>4, <2>5, <2>6, <2>7, <2>8, <2>9, <2>10,
       <2>11, <2>12, <2>13 DEF EmStep
<1>4. CASE Environment
  <2>1. CASE SpuriousWakeup  BY <2>1 DEF SpuriousWakeup
  <2>2. CASE AlarmExpires  BY <2>2 DEF AlarmExpires
  <2>3. CASE DeliverAlarm  BY <2>3 DEF DeliverAlarm
  <2>4. ASSUME NEW e \in XEvents \ {"none"}, XWaitForEvent(e)
        PROVE  WorkerInv'
    BY <2>4 DEF XWaitForEvent
  <2>5. QED
    BY <1>4, <2>1, <2>2, <2>3, <2>4 DEF Environment
<1>5. CASE UNCHANGED vars  BY <1>5 DEF vars
<1>6. QED  BY <1>1, <1>2, <1>3, <1>4, <1>5 DEF Next

\* The handler and the event manager share the counter; only the event manager
\* clears it.
LEMMA SigStep ==
    ASSUME Values, PhaseInv, WorkerInv, SigInv, [Next]_vars
    PROVE  SigInv'
<1> USE AlarmAssumption DEF SigInv, HandleEventsDefined, Values
<1>1. CASE MainStep
  <2>1. CASE InitObject  BY <2>1 DEF InitObject, PhaseInv, WorkerInv
  <2>2. CASE InitFails  BY <2>2 DEF InitFails
  <2>3. CASE InitSucceeds  BY <2>3 DEF InitSucceeds
  <2>4. CASE ReleaseWorkers  BY <2>4 DEF ReleaseWorkers
  <2>5. CASE LockWake  BY <2>5 DEF LockWake
  <2>6. CASE CheckWork  BY <2>6 DEF CheckWork
  <2>7. CASE CondWait  BY <2>7 DEF CondWait
  <2>8. CASE CondReturn  BY <2>8 DEF CondReturn
  <2>9. CASE LeaveLoop  BY <2>9 DEF LeaveLoop
  <2>10. CASE TakeWork  BY <2>10 DEF TakeWork
  <2>11. CASE Draw  BY <2>11 DEF Draw
  <2>12. CASE Flush  BY <2>12 DEF Flush
  <2>13. CASE ExitObject  BY <2>13 DEF ExitObject
  <2>14. CASE FreeContext  BY <2>14 DEF FreeContext
  <2>15. QED
    BY <1>1, <2>1, <2>2, <2>3, <2>4, <2>5, <2>6, <2>7, <2>8, <2>9, <2>10,
       <2>11, <2>12, <2>13, <2>14 DEF MainStep
<1>2. CASE XStep
  <2>1. CASE XInitWait  BY <2>1 DEF XInitWait
  <2>2. CASE XMapWindow  BY <2>2 DEF XMapWindow
  <2>3. CASE XLoop  BY <2>3 DEF XLoop
  <2>4. CASE XDropEvent  BY <2>4 DEF XDropEvent
  <2>5. CASE XHandleEvent  BY <2>5 DEF XHandleEvent
  <2>6. CASE XExpose  BY <2>6 DEF XExpose
  <2>7. CASE XFail  BY <2>7 DEF XFail
  <2>8. CASE XSignalStop  BY <2>8 DEF XSignalStop
  <2>9. QED
    BY <1>2, <2>1, <2>2, <2>3, <2>4, <2>5, <2>6, <2>7, <2>8 DEF XStep
<1>3. CASE EmStep
  <2>1. CASE EmInitWait  BY <2>1 DEF EmInitWait
  <2>2. CASE EmSetup  BY <2>2 DEF EmSetup
  <2>3. CASE EmLoop  BY <2>3 DEF EmLoop
  <2>4. CASE EmPause  BY <2>4 DEF EmPause
  <2>5. CASE EmWoken  BY <2>5 DEF EmWoken
  <2>6. CASE EmLockSig  BY <2>6 DEF EmLockSig
  <2>7. CASE EmTakeCount  BY <2>7 DEF EmTakeCount
  <2>8. CASE EmTick  BY <2>8 DEF EmTick
  <2>9. CASE EmTicksDone  BY <2>9 DEF EmTicksDone
  <2>10. CASE EmHandOff  BY <2>10 DEF EmHandOff
  <2>11. CASE EmOut  BY <2>11 DEF EmOut
  <2>12. CASE EmSignalStop  BY <2>12 DEF EmSignalStop
  <2>13. CASE RecordAlarm  BY <2>13 DEF RecordAlarm
  <2>14. QED
    BY <1>3, <2>1, <2>2, <2>3, <2>4, <2>5, <2>6, <2>7, <2>8, <2>9, <2>10,
       <2>11, <2>12, <2>13 DEF EmStep
<1>4. CASE Environment
  <2>1. CASE SpuriousWakeup  BY <2>1 DEF SpuriousWakeup
  <2>2. CASE AlarmExpires  BY <2>2 DEF AlarmExpires
  <2>3. CASE DeliverAlarm  BY <2>3 DEF DeliverAlarm, HandlerInstalled
  <2>4. ASSUME NEW e \in XEvents \ {"none"}, XWaitForEvent(e)
        PROVE  SigInv'
    BY <2>4 DEF XWaitForEvent
  <2>5. QED
    BY <1>4, <2>1, <2>2, <2>3, <2>4 DEF Environment
<1>5. CASE UNCHANGED vars  BY <1>5 DEF vars
<1>6. QED  BY <1>1, <1>2, <1>3, <1>4, <1>5 DEF Next

\* The initial states satisfy every layer.
LEMMA InitIInv == Init => IInv
<1> SUFFICES ASSUME Init PROVE IInv
  OBVIOUS
<1> USE ObjectAssumption, AlarmAssumption DEF Init
<1>1. Values /\ Flags
  BY DEF Values, Flags, MainPcs, XPcs, EmPcs, XEvents
<1>2. PhaseInv  BY DEF PhaseInv, LoopPcs
<1>3. WakeInv  BY DEF WakeInv, NoLostWork, Asleep
<1>4. WorkerInv  BY DEF WorkerInv, WorkersOutlived, XRunning, EmRunning
<1>5. SigInv  BY DEF SigInv, HandleEventsDefined
<1>6. QED  BY <1>1, <1>2, <1>3, <1>4, <1>5 DEF IInv

\* The inductive invariant holds of every state the three threads, the signal
\* handler and their environment can reach.
THEOREM Invariance == Spec => []IInv
<1>1. IInv /\ [Next]_vars => IInv'
  BY ValuesStep, FlagsStep, PhaseStep, WakeStep, WorkerStep, SigStep DEF IInv
<1>2. QED
  BY InitIInv, <1>1, PTL DEF Spec
-----------------------------------------------------------------------------
(***************************************************************************)
(* The properties TLC checks on small instances, for every instance.       *)
(***************************************************************************)

\* Every variable keeps its type, and the counters of SIGALRM their bound.
THEOREM TypeCorrectness == Spec => []TypeOK
<1>1. IInv => TypeOK
  BY DEF IInv, Values, Flags, PhaseInv, SigInv, TypeOK
<1>2. QED  BY Invariance, <1>1, PTL

\* No redraw request and no handed-off list is slept over (tm_main.c:331).
THEOREM WakeupNotLost == Spec => []NoLostWork
<1>1. IInv => NoLostWork  BY DEF IInv, WakeInv
<1>2. QED  BY Invariance, <1>1, PTL

\* The X thread and the event manager end before the teardown reaches what
\* they use (tm_x.c:1100, tm_thread.c:262, tm.h:24).
THEOREM WorkersEndInTime == Spec => []WorkersOutlived
<1>1. IInv => WorkersOutlived  BY DEF IInv, WorkerInv
<1>2. QED  BY Invariance, <1>1, PTL

\* The teardown exits exactly what was initialized, last first, whatever
\* object's init failed (tm_main.c:216-253, 357).
THEOREM TeardownExact == Spec => []ExitExactlyInitialized
<1>1. IInv => ExitExactlyInitialized
  BY ObjectAssumption
     DEF IInv, Values, PhaseInv, WorkerInv, WorkersOutlived,
         ExitExactlyInitialized
<1>2. QED  BY Invariance, <1>1, PTL

\* No worker passes the barrier before the initialization is over, which is
\* why timer_head and the static list need no lock (tm_thread.c:18, 33, 46).
THEOREM BarrierHolds == Spec => []WorkersWaitForInit
<1>1. IInv => WorkersWaitForInit
  BY DEF IInv, PhaseInv, WorkerInv, WorkersWaitForInit
<1>2. QED  BY Invariance, <1>1, PTL

\* A failed initialization never leaves the X thread waiting for an event.
THEOREM FailedInitProceeds == Spec => []FailedInitNeverBlocks
<1>1. IInv => FailedInitNeverBlocks
  BY DEF IInv, WorkerInv, FailedInitNeverBlocks
<1>2. QED  BY Invariance, <1>1, PTL

\* tm_thread_handle_events never returns an uninitialized err.
THEOREM ErrAssigned == Spec => []HandleEventsDefined
<1>1. IInv => HandleEventsDefined  BY DEF IInv, SigInv
<1>2. QED  BY Invariance, <1>1, PTL
-----------------------------------------------------------------------------
(***************************************************************************)
(* Refinement: the threads implement the wakeup protocol.                  *)
(***************************************************************************)
WakeupView == <<Posted, Asleep, shouldStop>>

\* What a change of the two flags does to the posted work.
LEMMA PostedFlags ==
    /\ drawAll' = TRUE /\ listUpdate' = listUpdate
           => Posted' = Posted \union {"redraw"}
    /\ listUpdate' = TRUE /\ drawAll' = drawAll
           => Posted' = Posted \union {"list"}
    /\ drawAll' = FALSE /\ listUpdate' = FALSE => Posted' = {}
    /\ UNCHANGED <<drawAll, listUpdate>> => Posted' = Posted
    /\ ~drawAll /\ ~listUpdate => Posted = {}
BY DEF Posted, WorkKinds

\* Initial states map to initial states.
LEMMA WakeupInit == Init => Wakeup!Init
BY PostedFlags DEF Init, Wakeup!Init, Asleep

\* Every step maps to a step of the protocol or to a stutter.
LEMMA WakeupStep ==
    ASSUME IInv, [Next]_vars
    PROVE  [Wakeup!Next]_(Wakeup!vars)
<1> DEFINE Goal == [Wakeup!Next]_(Wakeup!vars)
<1> USE DEF Wakeup!vars
<1>a. ASSUME UNCHANGED <<drawAll, listUpdate, shouldStop>>, Asleep' = Asleep
      PROVE  Goal
  BY <1>a, PostedFlags
<1>b. ASSUME UNCHANGED <<drawAll, listUpdate>>, Asleep' = Asleep,
             shouldStop' = TRUE
      PROVE  Goal
  BY <1>b, PostedFlags DEF Wakeup!Next, Wakeup!Stop
<1>c. ASSUME UNCHANGED <<drawAll, listUpdate, shouldStop>>, Asleep,
             Asleep' = FALSE
      PROVE  Goal
  BY <1>c, PostedFlags DEF Wakeup!Next, Wakeup!Wake
<1> SUFFICES Goal
  OBVIOUS
<1> HIDE DEF Goal
<1> USE DEF IInv, WakeInv
<1>1. CASE MainStep
  <2>1. CASE InitObject
    BY <2>1, <1>a DEF InitObject, Asleep
  <2>2. CASE InitSucceeds
    BY <2>2, <1>a DEF InitSucceeds, Asleep
  <2>3. CASE ReleaseWorkers
    BY <2>3, <1>a DEF ReleaseWorkers, Asleep
  <2>4. CASE LockWake
    BY <2>4, <1>a DEF LockWake, Asleep
  <2>5. CASE CondWait
    BY <2>5, <1>a DEF CondWait, Asleep
  <2>6. CASE CondReturn
    BY <2>6, <1>a DEF CondReturn, Asleep
  <2>7. CASE LeaveLoop
    BY <2>7, <1>a DEF LeaveLoop, Asleep
  <2>8. CASE Draw
    BY <2>8, <1>a DEF Draw, Asleep
  <2>9. CASE Flush
    BY <2>9, <1>a DEF Flush, Asleep
  <2>10. CASE ExitObject
    BY <2>10, <1>a DEF ExitObject, Asleep
  <2>11. CASE FreeContext
    BY <2>11, <1>a DEF FreeContext, Asleep
  <2>12. CASE InitFails
    BY <2>12, <1>b DEF InitFails, Asleep
  <2>13. CASE CheckWork
    <3>1. CASE shouldStop \/ listUpdate \/ drawAll
      BY <2>13, <3>1, <1>a DEF CheckWork, Asleep
    <3>2. CASE ~(shouldStop \/ listUpdate \/ drawAll)
      <4>1. Posted = {} /\ Posted' = Posted
        BY <2>13, <3>2, PostedFlags DEF CheckWork
      <4>2. ~Asleep /\ Asleep' = TRUE /\ shouldStop' = shouldStop
        BY <2>13, <3>2 DEF CheckWork, Asleep
      <4>3. QED  BY <4>1, <4>2 DEF Goal, Wakeup!Next, Wakeup!Sleep
    <3>3. QED  BY <3>1, <3>2
  <2>14. CASE TakeWork
    <3>1. ~Asleep /\ Asleep' = Asleep /\ ~shouldStop /\ shouldStop' = shouldStop
      BY <2>14 DEF TakeWork, Asleep
    <3>2. Posted' = {}
      BY <2>14, PostedFlags DEF TakeWork
    <3>3. QED  BY <3>1, <3>2 DEF Goal, Wakeup!Next, Wakeup!Take
  <2>15. QED
    BY <1>1, <2>1, <2>2, <2>3, <2>4, <2>5, <2>6, <2>7, <2>8, <2>9, <2>10,
       <2>11, <2>12, <2>13, <2>14 DEF MainStep
<1>2. CASE XStep
  <2>1. CASE XInitWait
    BY <2>1, <1>a DEF XInitWait, Asleep
  <2>2. CASE XMapWindow
    BY <2>2, <1>a DEF XMapWindow, Asleep
  <2>3. CASE XLoop
    BY <2>3, <1>a DEF XLoop, Asleep
  <2>4. CASE XDropEvent
    BY <2>4, <1>a DEF XDropEvent, Asleep
  <2>5. CASE XHandleEvent
    <3>1. CASE xEvent = "esc"
      BY <2>5, <3>1, <1>b DEF XHandleEvent, Asleep
    <3>2. CASE ~(xEvent = "esc")
      BY <2>5, <3>2, <1>a DEF XHandleEvent, Asleep
    <3>3. QED  BY <3>1, <3>2
  <2>6. CASE XExpose
    <3>1. Asleep' = FALSE /\ shouldStop' = shouldStop
      BY <2>6 DEF XExpose, Asleep
    <3>2. Posted' = Posted \union {"redraw"}
      BY <2>6, PostedFlags DEF XExpose
    <3>3. QED
      BY <3>1, <3>2 DEF Goal, Wakeup!Next, Wakeup!Post, WorkKinds
  <2>7. CASE XFail
    BY <2>7, <1>b DEF XFail, Asleep
  <2>8. CASE XSignalStop
    <3>1. CASE wakeWait /\ shouldStop
      BY <2>8, <3>1, <1>c DEF XSignalStop, Asleep
    <3>2. CASE ~(wakeWait /\ shouldStop)
      BY <2>8, <3>2, <1>a DEF XSignalStop, Asleep, Flags
    <3>3. QED  BY <3>1, <3>2
  <2>9. QED
    BY <1>2, <2>1, <2>2, <2>3, <2>4, <2>5, <2>6, <2>7, <2>8 DEF XStep
<1>3. CASE EmStep
  <2>1. CASE EmInitWait
    BY <2>1, <1>a DEF EmInitWait, Asleep
  <2>2. CASE EmSetup
    BY <2>2, <1>a DEF EmSetup, Asleep
  <2>3. CASE EmLoop
    BY <2>3, <1>a DEF EmLoop, Asleep
  <2>4. CASE EmPause
    BY <2>4, <1>a DEF EmPause, Asleep
  <2>5. CASE EmWoken
    BY <2>5, <1>a DEF EmWoken, Asleep
  <2>6. CASE EmLockSig
    BY <2>6, <1>a DEF EmLockSig, Asleep
  <2>7. CASE EmTakeCount
    BY <2>7, <1>a DEF EmTakeCount, Asleep
  <2>8. CASE EmTick
    BY <2>8, <1>a DEF EmTick, Asleep
  <2>9. CASE EmTicksDone
    BY <2>9, <1>a DEF EmTicksDone, Asleep
  <2>10. CASE RecordAlarm
    BY <2>10, <1>a DEF RecordAlarm, Asleep
  <2>11. CASE EmHandOff
    <3>1. Asleep' = FALSE /\ shouldStop' = shouldStop
      BY <2>11 DEF EmHandOff, Asleep
    <3>2. Posted' = Posted \union {"list"}
      BY <2>11, PostedFlags DEF EmHandOff
    <3>3. QED
      BY <3>1, <3>2 DEF Goal, Wakeup!Next, Wakeup!Post, WorkKinds
  <2>12. CASE EmOut
    <3>1. CASE emErr # "ok"
      BY <2>12, <3>1, <1>b DEF EmOut, Asleep
    <3>2. CASE ~(emErr # "ok")
      BY <2>12, <3>2, <1>a DEF EmOut, Asleep
    <3>3. QED  BY <3>1, <3>2
  <2>13. CASE EmSignalStop
    <3>1. CASE wakeWait /\ shouldStop
      BY <2>13, <3>1, <1>c DEF EmSignalStop, Asleep
    <3>2. CASE ~(wakeWait /\ shouldStop)
      BY <2>13, <3>2, <1>a DEF EmSignalStop, Asleep, Flags
    <3>3. QED  BY <3>1, <3>2
  <2>14. QED
    BY <1>3, <2>1, <2>2, <2>3, <2>4, <2>5, <2>6, <2>7, <2>8, <2>9, <2>10,
       <2>11, <2>12, <2>13 DEF EmStep
<1>4. CASE Environment
  <2>1. CASE SpuriousWakeup
    BY <2>1, <1>c DEF SpuriousWakeup, Asleep
  <2>2. CASE AlarmExpires
    BY <2>2, <1>a DEF AlarmExpires, Asleep
  <2>3. CASE DeliverAlarm
    BY <2>3, <1>a DEF DeliverAlarm, Asleep
  <2>4. ASSUME NEW e \in XEvents \ {"none"}, XWaitForEvent(e)
        PROVE  Goal
    BY <2>4, <1>a DEF XWaitForEvent, Asleep
  <2>5. QED
    BY <1>4, <2>1, <2>2, <2>3, <2>4 DEF Environment
<1>5. CASE UNCHANGED vars  BY <1>5, <1>a DEF vars, Asleep
<1>6. QED  BY <1>1, <1>2, <1>3, <1>4, <1>5 DEF Next

\* The draw loop with its two producers implements the wakeup protocol.
THEOREM WakeupRefinement == Spec => WakeupSafe
<1>1. QED
  BY Invariance, WakeupInit, WakeupStep, PTL DEF Spec, WakeupSafe, Wakeup!Spec
=============================================================================
