---------------------------- MODULE TmTimer_proofs ----------------------------
(***************************************************************************)
(* Proofs about TmTimer, for every set of timers, all periods, every       *)
(* initial interval and any number of ticks.                               *)
(***************************************************************************)
EXTENDS TmTimer, TLAPS

\* After ticks SIGALRMs a timer that was called f times expires when its
\* (f+1)-st period is over: what is left of it is expires_msecs.
OnSchedule(t) ==
    /\ intervalMsecs <= Period[t]
    /\ expires[t] = Period[t] * (fired[t] + 1) - Elapsed
    /\ expires[t] \in 1 .. Period[t]

PaceInv ==
    /\ TypeOK
    /\ phase = "init" =>
           /\ ticks = 0
           /\ \A t \in Timers : expires[t] = Period[t] /\ fired[t] = 0
           /\ \A t \in Registered : intervalMsecs <= Period[t]
    /\ phase = "run" =>
           /\ \A t \in Registered : OnSchedule(t)
           /\ itimer = [sec  |-> intervalMsecs \div 1000,
                        usec |-> (intervalMsecs % 1000) * 1000]

USE PeriodAssumption
-----------------------------------------------------------------------------
\* list_add puts one more element on the list and keeps the others.
LEMMA InsertLemma ==
    ASSUME NEW S, NEW s \in Seq(S), NEW i \in 0 .. Len(s), NEW t \in S
    PROVE  /\ InsertAt(s, i + 1, t) \in Seq(S)
           /\ ToSet(InsertAt(s, i + 1, t)) \subseteq ToSet(s) \union {t}
<1> DEFINE a == SubSeq(s, 1, i)
           b == SubSeq(s, i + 1, Len(s))
           r == InsertAt(s, i + 1, t)
<1>1. a \in Seq(S) /\ Len(a) = i /\ \A j \in 1 .. i : a[j] = s[j]
  OBVIOUS
<1>2. /\ b \in Seq(S) /\ Len(b) = Len(s) - i
      /\ \A j \in 1 .. Len(s) - i : b[j] = s[i + j]
  OBVIOUS
<1>3. r = (a \o <<t>>) \o b
  <2>1. SubSeq(s, 1, (i + 1) - 1) = a
    OBVIOUS
  <2>2. QED  BY <2>1 DEF InsertAt
<1> HIDE DEF a, b, r
<1>4. /\ a \o <<t>> \in Seq(S) /\ Len(a \o <<t>>) = i + 1
      /\ \A j \in 1 .. i : (a \o <<t>>)[j] = s[j]
      /\ (a \o <<t>>)[i + 1] = t
  BY <1>1
<1>5. r \in Seq(S) /\ Len(r) = Len(s) + 1
  BY <1>2, <1>3, <1>4
<1>6. ASSUME NEW j \in 1 .. Len(r)  PROVE r[j] \in ToSet(s) \union {t}
  <2>1. CASE j <= i + 1
    <3>1. r[j] = (a \o <<t>>)[j]  BY <1>2, <1>3, <1>4, <1>5, <2>1
    <3>2. CASE j <= i      BY <3>1, <3>2, <1>4, <1>5 DEF ToSet
    <3>3. CASE j = i + 1   BY <3>1, <3>3, <1>4
    <3>4. QED  BY <3>2, <3>3, <2>1, <1>5
  <2>2. CASE j > i + 1
    <3>1. j - (i + 1) \in 1 .. Len(s) - i
      BY <1>5, <2>2
    <3>2. r[j] = b[j - (i + 1)]
      BY <1>2, <1>3, <1>4, <1>5, <2>2
    <3>3. b[j - (i + 1)] = s[i + (j - (i + 1))]
      BY <1>2, <3>1
    <3>4. i + (j - (i + 1)) \in 1 .. Len(s)
      BY <1>5, <2>2
    <3>5. QED  BY <3>2, <3>3, <3>4 DEF ToSet
  <2>3. QED  BY <2>1, <2>2, <1>5
<1>7. QED  BY <1>5, <1>6 DEF r, ToSet

\* list_del leaves a list of the same elements.
LEMMA RemoveLemma ==
    ASSUME NEW S, NEW s \in Seq(S), NEW i \in 1 .. Len(s)
    PROVE  RemoveAt(s, i) \in Seq(S)
BY DEF RemoveAt

\* The number of whole periods in an elapsed time.
LEMMA WholePeriods ==
    ASSUME NEW p \in Nat \ {0}, NEW f \in Nat, NEW e \in Nat,
           p * (f + 1) - e \in 1 .. p
    PROVE  f = e \div p
<1>1. p * (f + 1) = p * f + p
  OBVIOUS
<1> DEFINE r == e - p * f
<1>2. r \in 0 .. p - 1 /\ e = p * f + r
  BY <1>1
<1> DEFINE q == e \div p
<1>3. q \in Int /\ p * q <= e /\ e < p * q + p
  OBVIOUS
<1>4. ~(q < f)
  <2>1. ASSUME q < f PROVE FALSE
    <3>1. f - q - 1 \in Nat /\ f = q + 1 + (f - q - 1)
      BY <1>3, <2>1
    <3>2. p * f = p * q + p + p * (f - q - 1)
      BY <3>1, <1>3
    <3>3. p * (f - q - 1) >= 0
      BY <3>1
    <3>4. QED  BY <3>2, <3>3, <1>2, <1>3
  <2>2. QED  BY <2>1
<1>5. ~(f < q)
  <2>1. ASSUME f < q PROVE FALSE
    <3>1. q - f - 1 \in Nat /\ q = f + 1 + (q - f - 1)
      BY <1>3, <2>1
    <3>2. p * q = p * f + p + p * (q - f - 1)
      BY <3>1, <1>3
    <3>3. p * (q - f - 1) >= 0
      BY <3>1
    <3>4. QED  BY <3>2, <3>3, <1>2, <1>3
  <2>2. QED  BY <2>1
<1>6. QED  BY <1>3, <1>4, <1>5
-----------------------------------------------------------------------------
\* Before the first timer is registered nothing is off schedule.
LEMMA InitPace == Init => PaceInv
BY DEF Init, PaceInv, TypeOK, Registered, ToSet

\* Whatever part of the list a walk reaches, the times keep their types.
LEMMA AdvanceTypes ==
    ASSUME TypeOK, NEW R, Advance(R)
    PROVE  expires' \in [Timers -> Int] /\ fired' \in [Timers -> Nat]
<1>1. /\ intervalMsecs \in Int /\ expires \in [Timers -> Int]
      /\ fired \in [Timers -> Nat] /\ Period \in [Timers -> Int]
  BY DEF TypeOK
<1>2. expires' \in [Timers -> Int]
  BY <1>1 DEF Advance, Due
<1>3. fired' \in [Timers -> Nat]
  BY <1>1 DEF Advance
<1>4. QED  BY <1>2, <1>3

\* One SIGALRM keeps a registered timer on schedule: it moves on by one period
\* if it is due, and one period is enough.
LEMMA TickOnSchedule ==
    ASSUME TypeOK, NEW t \in Timers, OnSchedule(t), Tick, t \in Registered
    PROVE  OnSchedule(t)'
<1> DEFINE P == Period[t]
           I == intervalMsecs
<1>1. /\ P \in Nat \ {0} /\ I \in Nat \ {0} /\ ticks \in Nat
      /\ fired[t] \in Nat /\ expires[t] \in 1 .. P /\ I <= P
  BY DEF TypeOK, OnSchedule
<1>2. Elapsed' = Elapsed + I /\ Elapsed \in Nat /\ intervalMsecs' = I
  BY <1>1 DEF Tick, Elapsed
<1>3. expires[t] = P * (fired[t] + 1) - Elapsed
  BY DEF OnSchedule
<1>4. CASE Due(t)
  <2>1. expires'[t] = expires[t] - I + P /\ fired'[t] = fired[t] + 1
    BY <1>4 DEF Tick, Advance
  <2>2. P * (fired[t] + 1 + 1) = P * (fired[t] + 1) + P
    BY <1>1
  <2>3. expires'[t] = P * (fired'[t] + 1) - Elapsed'
    BY <1>1, <1>2, <1>3, <2>1, <2>2
  <2>4. expires'[t] \in 1 .. P
    BY <1>1, <1>4, <2>1 DEF Due
  <2>5. QED  BY <1>1, <1>2, <2>3, <2>4 DEF OnSchedule
<1>5. CASE ~Due(t)
  <2>1. expires'[t] = expires[t] - I /\ fired'[t] = fired[t]
    BY <1>1, <1>5 DEF Tick, Advance
  <2>2. expires'[t] \in 1 .. P
    BY <1>1, <1>5, <2>1 DEF Due
  <2>3. expires'[t] = P * (fired'[t] + 1) - Elapsed'
    BY <1>1, <1>2, <1>3, <2>1
  <2>4. QED  BY <1>1, <1>2, <2>2, <2>3 DEF OnSchedule
<1>6. QED  BY <1>4, <1>5

\* Every action keeps the schedule; only Tick moves the timers that count.
LEMMA PaceStep ==
    ASSUME PaceInv, [Next]_vars
    PROVE  PaceInv'
<1> USE DEF PaceInv, TypeOK
<1>1. ASSUME NEW t \in Timers, TimerAdd(t)  PROVE PaceInv'
  <2>1. PICK i \in 0 .. Len(timerHead) : timerHead' = InsertAt(timerHead, i + 1, t)
    BY <1>1 DEF TimerAdd
  <2>2. timerHead' \in Seq(Timers) /\ Registered' \subseteq Registered \union {t}
    BY <2>1, InsertLemma DEF Registered
  <2>3. /\ intervalMsecs' \in Nat \ {0} /\ intervalMsecs' <= intervalMsecs
        /\ intervalMsecs' <= Period[t]
    BY <1>1 DEF TimerAdd
  <2>4. \A u \in Registered : u \in Timers
    BY DEF Registered, ToSet
  <2>5. \A u \in Registered' : intervalMsecs' <= Period[u]
    <3>1. \A u \in Registered : intervalMsecs <= Period[u]
      BY <1>1 DEF TimerAdd
    <3>2. ASSUME NEW u \in Registered  PROVE intervalMsecs' <= Period[u]
      <4>1. intervalMsecs <= Period[u] /\ Period[u] \in Nat
        BY <2>4, <3>1
      <4>2. intervalMsecs \in Nat
        OBVIOUS
      <4>3. QED  BY <2>3, <4>1, <4>2
    <3>3. QED  BY <2>2, <2>3, <3>2
  <2>6. TypeOK'
    BY <1>1, <2>2, <2>3 DEF TimerAdd
  <2>7. phase' = "init" /\ UNCHANGED <<ticks, expires, fired>>
    BY <1>1 DEF TimerAdd
  <2>8. phase = "init"
    BY <1>1 DEF TimerAdd
  <2>9. QED  BY <2>5, <2>6, <2>7, <2>8
<1>2. ASSUME NEW t \in Timers, TimerDel(t)  PROVE PaceInv'
  BY <1>2, RemoveLemma DEF TimerDel
<1>3. CASE SetItimer
  <2>1. \A t \in Registered : t \in Timers
    BY DEF Registered, ToSet
  <2>2. ASSUME NEW t \in Registered'  PROVE OnSchedule(t)'
    <3>a. ticks = 0 /\ ticks' = 0 /\ Registered' = Registered
      BY <1>3 DEF SetItimer, Registered
    <3>b. 0 * intervalMsecs = 0 /\ 0 * intervalMsecs' = 0
      BY <1>3 DEF SetItimer
    <3>1. /\ t \in Timers /\ t \in Registered /\ Elapsed = 0 /\ Elapsed' = 0
          /\ Period[t] \in Nat \ {0}
      BY <3>a, <3>b, <2>1 DEF Elapsed
    <3>2. Period[t] * (0 + 1) = Period[t]
      BY <3>1
    <3>3. QED  BY <1>3, <3>1, <3>2 DEF SetItimer, OnSchedule
  <2>3. TypeOK'
    BY <1>3 DEF SetItimer
  <2>4. QED  BY <1>3, <2>2, <2>3 DEF SetItimer
<1>4. CASE SetItimerFails
  BY <1>4 DEF SetItimerFails
<1>5. CASE Tick
  <2>1. TypeOK'
    BY <1>5, AdvanceTypes DEF Tick
  <2>2. \A t \in Registered : t \in Timers
    BY DEF Registered, ToSet
  <2>3. Registered' = Registered
    BY <1>5 DEF Tick, Registered
  <2>4. \A t \in Registered : OnSchedule(t)'
    BY <1>5, <2>2, TickOnSchedule DEF Tick
  <2>5. QED  BY <1>5, <2>1, <2>3, <2>4 DEF Tick
<1>6. ASSUME NEW i \in 1 .. Len(timerHead), TickFails(i)  PROVE PaceInv'
  <2>1. phase' = "failed"
    BY <1>6 DEF TickFails
  <2>2. TypeOK'
    <3> DEFINE Walked == {timerHead[j] : j \in 1 .. i}
    <3>a. Advance(Walked)
      BY <1>6 DEF TickFails
    <3>b. TypeOK
      OBVIOUS
    <3>1. expires' \in [Timers -> Int] /\ fired' \in [Timers -> Nat]
      <4> HIDE DEF Walked, TypeOK, PaceInv
      <4>1. QED  BY <3>a, <3>b, AdvanceTypes
    <3>2. /\ timerHead' = timerHead /\ intervalMsecs' = intervalMsecs
          /\ itimer' = itimer /\ ticks' = ticks + 1
      BY <1>6 DEF TickFails
    <3>3. QED  BY <2>1, <3>1, <3>2
  <2> HIDE DEF TypeOK
  <2>3. QED  BY <2>1, <2>2
<1>7. CASE UNCHANGED vars
  BY <1>7 DEF vars, Registered, OnSchedule, Elapsed
<1> HIDE DEF PaceInv, TypeOK
<1>8. QED  BY <1>1, <1>2, <1>3, <1>4, <1>5, <1>6, <1>7 DEF Next

\* The timers stay on schedule in every reachable state.
THEOREM OnScheduleAlways == Spec => []PaceInv
BY InitPace, PaceStep, PTL DEF Spec

\* Types, for any instance.
THEOREM TimerTypes == Spec => []TypeOK
<1>1. PaceInv => TypeOK  BY DEF PaceInv
<1>2. QED  BY OnScheduleAlways, <1>1, PTL

\* No timer is ever overdue after a tick: one period added is enough.
THEOREM TimersNeverBehind == Spec => []NeverBehind
<1>1. PaceInv => NeverBehind  BY DEF PaceInv, OnSchedule, NeverBehind
<1>2. QED  BY OnScheduleAlways, <1>1, PTL

\* Every timer is called exactly once per period of the time the ticks stand
\* for: no call is skipped and none drifts, whatever the periods.
THEOREM TimersPaced == Spec => []Paced
<1>1. ASSUME PaceInv, phase = "run", NEW t \in Registered
      PROVE  fired[t] = Elapsed \div Period[t]
  <2>1. t \in Timers /\ OnSchedule(t) /\ TypeOK
    BY <1>1 DEF PaceInv, TypeOK, Registered, ToSet
  <2>2. Elapsed \in Nat /\ fired[t] \in Nat /\ Period[t] \in Nat \ {0}
    BY <2>1 DEF TypeOK, Elapsed
  <2>3. QED  BY <2>1, <2>2, WholePeriods DEF OnSchedule
<1>2. PaceInv => Paced  BY <1>1 DEF Paced
<1>3. QED  BY OnScheduleAlways, <1>2, PTL

\* setitimer is called with exactly the interval, in a valid timeval.
THEOREM ItimerExactAlways == Spec => []ItimerExact
<1>1. ASSUME PaceInv, phase = "run"
      PROVE  /\ itimer.usec < 1000000
             /\ itimer.sec * 1000000 + itimer.usec = intervalMsecs * 1000
  <2> DEFINE sec == intervalMsecs \div 1000
             rest == intervalMsecs % 1000
  <2>1. itimer.sec = sec /\ itimer.usec = rest * 1000
    BY <1>1, SMT DEF PaceInv
  <2>2. intervalMsecs \in Nat
    BY <1>1, SMT DEF PaceInv, TypeOK
  <2>3. sec \in Int /\ rest \in 0 .. 999 /\ intervalMsecs = sec * 1000 + rest
    BY <2>2, SMT
  <2> HIDE DEF sec, rest
  <2>4. QED  BY <2>1, <2>3, SMT
<1>2. PaceInv => ItimerExact  BY <1>1, SMT DEF ItimerExact
<1>3. QED  BY OnScheduleAlways, <1>2, PTL
=============================================================================
