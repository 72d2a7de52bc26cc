------------------------------- MODULE TmTimer -------------------------------
(***************************************************************************)
(* The periodic timers of tm_thread.c: registration, the interval of the   *)
(* one SIGALRM that drives them all, and what each SIGALRM does to them.   *)
(* By the start barrier and the joins (TmThreads) timer_head has one user  *)
(* at a time: the main thread until initialization is over, then the event *)
(* manager, then the main thread again.                                    *)
(***************************************************************************)
EXTENDS Integers, Sequences, SequencesExt

CONSTANTS
    Timers,           \* the struct tm_thread_timer objects of the widgets
    Period,           \* their expires_msecs before tm_thread_timer_add
    INTERVAL_DEFAULT, \* initial interval_msecs
    MaxTicks          \* bound: SIGALRMs handled

ASSUME PeriodAssumption ==
    /\ Period \in [Timers -> Nat \ {0}]
    /\ INTERVAL_DEFAULT \in Nat \ {0}

VARIABLES
    phase,          \* "init", "run", "failed" (a callback failed), "exit"
    timerHead,      \* the list timer_head, first entry first
    intervalMsecs,  \* interval_msecs
    expires,        \* expires_msecs of each timer; orig_expires is Period
    itimer,         \* it_interval given to setitimer: sec and usec
    ticks,          \* SIGALRMs handled so far
    fired           \* how often each timer's callback was called by a tick

vars == <<phase, timerHead, intervalMsecs, expires, itimer, ticks, fired>>

Registered == ToSet(timerHead)

TypeOK ==
    /\ phase \in {"init", "run", "failed", "exit"}
    /\ timerHead \in Seq(Timers)
    /\ intervalMsecs \in Nat \ {0}
    /\ expires \in [Timers -> Int]
    /\ itimer \in [sec : Nat, usec : Nat]
    /\ ticks \in Nat
    /\ fired \in [Timers -> Nat]

\* Mutant: interval_msecs has no initializer.
InitNoInterval ==
    /\ phase = "init"
    /\ timerHead = <<>>
    /\ intervalMsecs = 0
    /\ expires = Period
    /\ itimer = [sec |-> 0, usec |-> 0]
    /\ ticks = 0
    /\ fired = [t \in Timers |-> 0]

Init ==
    /\ phase = "init"
    /\ timerHead = <<>>
    /\ intervalMsecs = INTERVAL_DEFAULT
    /\ expires = Period
    /\ itimer = [sec |-> 0, usec |-> 0]
    /\ ticks = 0
    /\ fired = [t \in Timers |-> 0]
-----------------------------------------------------------------------------
\* The walk stops at the first timer that expires later than the new one and
\* list_add puts the new one right after it; if there is none the walk ends
\* at the head (0), and the new one becomes the first.
Later(i, t) == expires[timerHead[i]] > Period[t]

WalkEndsAt(i, t) ==
    /\ \A j \in 1 .. (IF i = 0 THEN Len(timerHead) ELSE i - 1) : ~Later(j, t)
    /\ i # 0 => Later(i, t)

\* Mutant: interval_msecs keeps its initial value.
TimerAddKeepsInterval(t) ==
    /\ phase = "init" /\ t \notin Registered
    /\ \E i \in 0 .. Len(timerHead) :
           WalkEndsAt(i, t) /\ timerHead' = InsertAt(timerHead, i + 1, t)
    /\ UNCHANGED <<phase, intervalMsecs, expires, itimer, ticks, fired>>

\* tm_thread_timer_add, called from the init of a widget.
TimerAdd(t) ==
    /\ phase = "init" /\ t \notin Registered
    /\ intervalMsecs' = IF intervalMsecs > Period[t] THEN Period[t]
                                                     ELSE intervalMsecs
    /\ \E i \in 0 .. Len(timerHead) :
           WalkEndsAt(i, t) /\ timerHead' = InsertAt(timerHead, i + 1, t)
    /\ UNCHANGED <<phase, expires, itimer, ticks, fired>>

\* Mutant: the remainder is taken for microseconds.
SetItimerMillis ==
    /\ phase = "init"
    /\ phase' = "run"
    /\ itimer' = [sec |-> intervalMsecs \div 1000, usec |-> intervalMsecs % 1000]
    /\ UNCHANGED <<timerHead, intervalMsecs, expires, ticks, fired>>

\* The event manager could not install its handlers or arm the timer.
SetItimerFails ==
    /\ phase = "init"
    /\ phase' = "failed"
    /\ UNCHANGED <<timerHead, intervalMsecs, expires, itimer, ticks, fired>>

\* tm_thread_set_itimer, once, when the event manager passes the barrier.
SetItimer ==
    /\ phase = "init"
    /\ phase' = "run"
    /\ itimer' = [sec  |-> intervalMsecs \div 1000,
                  usec |-> (intervalMsecs % 1000) * 1000]
    /\ UNCHANGED <<timerHead, intervalMsecs, expires, ticks, fired>>
-----------------------------------------------------------------------------
(***************************************************************************)
(* tm_thread_sigalrm_handler.  Reached is the set of timers its walk       *)
(* reaches: all of them, or those up to the one whose callback fails.      *)
(***************************************************************************)
Due(t) == expires[t] - intervalMsecs <= 0

\* Mutant: an expired timer starts over instead of being moved on.
AdvanceRestarts(Reached) ==
    /\ expires' = [t \in Timers |->
                     IF t \notin Reached THEN expires[t]
                     ELSE IF Due(t) THEN Period[t] ELSE expires[t] - intervalMsecs]
    /\ fired' = [t \in Timers |-> IF t \in Reached /\ Due(t) THEN fired[t] + 1
                                                             ELSE fired[t]]

Advance(Reached) ==
    /\ expires' = [t \in Timers |->
                     IF t \notin Reached THEN expires[t]
                     ELSE expires[t] - intervalMsecs
                            + (IF Due(t) THEN Period[t] ELSE 0)]
    /\ fired' = [t \in Timers |-> IF t \in Reached /\ Due(t) THEN fired[t] + 1
                                                             ELSE fired[t]]

Tick ==
    /\ phase = "run" /\ ticks < MaxTicks
    /\ ticks' = ticks + 1
    /\ Advance(Registered)
    /\ UNCHANGED <<phase, timerHead, intervalMsecs, itimer>>

\* The callback of the i-th timer fails: the rest of the list is not reached,
\* and the event manager ends.
TickFails(i) ==
    /\ phase = "run" /\ ticks < MaxTicks
    /\ Due(timerHead[i])
    /\ ticks' = ticks + 1
    /\ Advance({timerHead[j] : j \in 1 .. i})
    /\ phase' = "failed"
    /\ UNCHANGED <<timerHead, intervalMsecs, itimer>>

\* tm_thread_timer_del, from the exit of a widget: after the join, or after
\* the init of a later object failed.
TimerDel(t) ==
    /\ phase' = "exit"
    /\ \E i \in 1 .. Len(timerHead) :
           timerHead[i] = t /\ timerHead' = RemoveAt(timerHead, i)
    /\ UNCHANGED <<intervalMsecs, expires, itimer, ticks, fired>>

Next ==
    \/ \E t \in Timers : TimerAdd(t) \/ TimerDel(t)
    \/ SetItimer \/ SetItimerFails \/ Tick
    \/ \E i \in 1 .. Len(timerHead) : TickFails(i)

Spec == Init /\ [][Next]_vars
-----------------------------------------------------------------------------
\* The time the SIGALRMs handled so far stand for.
Elapsed == ticks * intervalMsecs

\* While the program runs every timer has been called exactly once per period
\* of that time, however the periods and the interval relate: the handler's
\* single "expires_msecs += orig_expires" (tm_thread.c:139) neither skips a
\* call nor drifts.
Paced ==
    phase = "run" =>
        \A t \in Registered : fired[t] = Elapsed \div Period[t]

\* It suffices because the interval is at most every period
\* (tm_thread.c:29-31): between two ticks a timer never expires twice.
NeverBehind ==
    phase = "run" => \A t \in Registered : expires[t] \in 1 .. Period[t]

\* setitimer gets exactly interval_msecs, in a timeval it accepts
\* (tm_thread.c:113-122).
ItimerExact ==
    phase = "run" =>
        /\ itimer.usec < 1000000
        /\ itimer.sec * 1000000 + itimer.usec = intervalMsecs * 1000
=============================================================================
