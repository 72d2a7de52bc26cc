# Verification of toymon

toymon is a small system monitor for X: it shows clock, CPU, memory, disk and
network data in a window.  It is about 4,800 lines of C in
`src/src`; three threads and one signal handler share a `struct tm_context`.
This directory holds TLA+ models of it, the TLC configurations that check them
on small instances, and proofs, checked by TLAPS, of what holds for every
instance.

Paths below are relative to the repository's `src/` directory, so `tm_main.c:331`
is line 331 of `src/tm_main.c`.

- [The system](#the-system)
- [The modules](#the-modules)
- [What the runs check](#what-the-runs-check)
- [What is proved](#what-is-proved)
- [Disagreements between the code and its comments](#disagreements)
- [What is not modelled](#what-is-not-modelled)
- [Plan](#plan)

## The system

### Components

| component | source | state | operations |
|---|---|---|---|
| main loop and lifecycle | `tm_main.c`, `tm.h` | `should_stop`, `init_done`, `draw_all`, `main_wake_lock/cond`, `init_lock/cond` in `tm_context` | `tm_init_all`, the draw loop of `main`, `tm_exit_all`, `tm_tc_free` |
| X event thread | `tm_x.c` | the X connection, the window; the thread itself | `tm_x_wait_events` with the key press and expose handlers, its join in `tm_x_exit` |
| event manager and SIGALRM | `tm_thread.c` | `nr_sigalrm`, `tm_sig_lock`, the interval timer | `tm_thread_event_manager`, `tm_thread_handle_events`, `tm_thread_sig_record` |
| timers | `tm_thread.c` | `timer_head`, `interval_msecs`, `expires_msecs` of each timer | `tm_thread_timer_add/del`, `tm_thread_set_itimer`, `tm_thread_sigalrm_handler` |
| changed items and their lists | `tm_item.c`, `tm_list.h`, `tm_main.c` | `str` and the list node of each `tm_item`, three list heads | `tm_item_cmp_and_update`, `tm_item_update_replace`, `tm_draw_list`, `tm_draw_all` |
| object registration | `tm_main.c`, `tm.h` | the table of objects and the layout of the context | `tm_object_register`, `tm_tc_alloc` |
| X resources | `tm_x.c` | connection, window, cairo surface, pango layout, icons | `tm_x_init`, `tm_x_exit`, loading and destroying of icons |
| widgets' init and exit | `tm_clock.c`, `tm_cpu.c`, `tm_mem.c`, `tm_disk.c`, `tm_net.c` | icons, timers, open files and sockets | one `init` and one `exit` each |
| network data | `tm_net.c` | addresses, counters, the netlink socket | request and response loop, statistics |
| CPU, memory, disk data | `tm_cpu.c`, `tm_mem.c`, `tm_disk.c` | the last counters | parsing `/proc`, differences, percentages |
| text conversions | `tm_item.c`, `tm_clock.c`, `tm_net.c` | - | units, rates, uptime |
| drawing and geometry | `tm_x.c`, `tm_main.c` and the widgets | `x`, `y`, `width` of each item, the origins of the objects | `tm_item_init`, `get_area`, `tm_generate_object_origin`, `tm_x_draw_text_one`, `draw` of the widgets |
| options | `tm_main.c` and the widgets | - | parsing of `argv` |

### How they interact

`tm_init_all` initializes the objects in the order of `enum tm_object_id`
(`tm.h`).  The X object's init creates the X event thread, the THREAD object's
init, the last one, the event manager; both wait at a barrier (`init_done`,
`init_cond`) until the main thread has finished, or given up, the
initialization.  From then on

- the **event manager** sleeps in `pause()`.  A SIGALRM, which only this thread
  does not block, runs `tm_thread_sig_record` on it; the handler counts, and the
  thread then runs the timers, whose callbacks compare the texts of items and
  put changed items on the static list of `tm_item.c`.  If that list is not empty
  it is moved to `tc->list_update` under `main_wake_lock` and the main thread is
  signalled;
- the **X event thread** turns an Expose event into `draw_all = 1` and a signal,
  under the same lock, and ESC into `should_stop = 1`, without it;
- the **main thread** waits for `should_stop`, `draw_all` or a non-empty
  `tc->list_update`, takes what there is, releases the lock and draws;
- whoever ends because of a failure or `should_stop` signals the main thread,
  without the lock; the main thread runs the exits in reverse order, two of
  which join a thread.

### What is hard

- **Lost wakeups.**  Work is posted from two threads while a third decides to
  sleep.  `draw_all` and the list are published under the lock, `should_stop` is
  not.
- **A signal handler that locks a mutex.**  It may interrupt its holder.
- **Teardown.**  An init may fail anywhere in the order of objects, with zero, one
  or two of the threads running.
- **A list node per item.**  An item's only node moves between three heads, two of
  them used by different threads, and its text is written while it may be drawn.
- **One signal for all timers.**  Periods that do not divide each other are driven
  by an interval that is the smallest of them.
- **Unprotected data** (`timer_head`, the static list) which is safe only because
  of the barrier and the joins.
- **Error labels.**  Some thirty calls of the inits can fail, each with a label
  behind which exactly the right things must be given back.
- **A kernel that answers in pieces**, while SIGALRM interrupts the waiting, the
  interface comes and goes and its counters wrap.
- **Numbers at a boundary.**  999.995 of a unit, the 100th day, a total of zero, a
  counter that goes backwards, memory labels that are missing.
- **Partial redraws.**  A text is drawn over the old one, whose width is all that is
  remembered of it.
- **Seven parsers of one command line**, each with its own idea of what is an option.

`PROJECT.json` lists every such hazard at its line, with the properties about it.

### What makes each component correct

| component | correct means |
|---|---|
| main loop | no posted work is slept over; every redraw request and every handed-off list is eventually drawn; a stop ends the process |
| lifecycle | exactly the initialized objects are torn down, last one first; no thread outlives what it uses; a failing init always ends the process |
| event manager | timers tick for ever; the count it reads is defined; no two users of the static list |
| timers | each callback is called once per period, without drift and without a skipped call |
| items and lists | the lists stay well formed; a text that changed is drawn; drawing a list ends |
| object registration | private parts are aligned, disjoint and inside the one block, in whatever order the constructors run |
| X resources, widgets | wherever an init fails everything taken is given back once; nothing is used that is not held; when drawing starts exactly what is needed is held |
| options | the parsers of the objects agree about what belongs to whom |
| network data | each request is answered or fails, with its socket closed; what is shown is what the interface was; rates count each byte once |
| CPU, memory, disk data, texts | what is shown reads as what the kernel said, across wrap-around and at the boundaries of units; a text fits its place |
| drawing and geometry | drawing what has changed gives what drawing everything would; rows and areas do not overlap |

## The modules

```
TmWakeup            abstract: a mailbox whose consumer may sleep
   ^ INSTANCE ... WITH (refinement mapping)
TmThreadsWakeup  -> TmThreads          main thread, X thread, event manager, SIGALRM
   ^                   ^
MCTmThreads         (TmThreads_proofs extends TmThreadsWakeup)

TmTimer    <- MCTmTimer, TmTimer_proofs     the timers, what one "tick" does
TmItem     <- MCTmItem,  TmItem_proofs      the lists, what a "hand-off" moves

TmObject   <- TmObject_proofs               registration, layout of the context
TmOptions                                   the parsers of argv
TmStartup  <- MCTmStartup,                  extends both: inits, exits, resources
              TmStartup_proofs

TmNet      <- TmNet_proofs                  the callback of the net widget
TmStat                                      numbers and the texts made of them
TmLayout                                    extends TmStat: items, areas, drawing
TmWidgets  <- TmWidgets_proofs              extends TmLayout: callbacks and redraws
   ^                                        (the proofs are about TmStat and TmLayout, too)
MCTmWidgets                                 extends TmWidgets and TmNet

TmInduction                                 lemmas: induction for sets of numbers;
                                            the item, start-up and widget proofs extend it
```

`TmThreads` is the system; `TmTimer` and `TmItem` open up two of its steps.  A
"tick" (`EmTick`) of `TmThreads` is `Tick` or `TickFails` of `TmTimer`; the flag
`listUpdate` of `TmThreads` stands for "the head `tc` is not empty" of `TmItem`,
and `staged` for the head `static`.  What one takes from the other is checked: that
`timer_head` and the static list have one user at a time is `WorkersWaitForInit`
and `WorkersOutlived` of `TmThreads`; that the emptiness of the lists, all that
`TmThreads` knows of them, is what the code's tests see is `EmptyTestsExact` of
`TmItem`.  `TmStartup` opens up `InitObject`, `InitFails` and `ExitObject` of `TmThreads`;
`TmWidgets` and `TmNet` open up what the callback of a timer does.

### TmThreads

One action is one step between two points at which another thread, or the signal
handler, can observe or change what it reads.  A critical section all of whose
data are protected by its lock is one step (`XExpose`, `EmHandOff`, `XInitWait`,
`ReleaseWorkers`).  The main thread's section around `pthread_cond_wait` is not:
`should_stop` is written without the lock, so `LockWake`, `CheckWork`, `CondWait`,
`CondReturn`, `TakeWork` are steps of their own.

| code | model |
|---|---|
| `tm_init_all`, `tm_generate_object_origin` | `InitObject`, `InitFails`, `InitSucceeds`; `idx` is the loop variable |
| "Let other threads start working" | `ReleaseWorkers` |
| the draw loop of `main` | `LockWake` ... `Flush`; `drawing` is which of the two branches is taken |
| `tm_exit_all`, `tm_tc_free` | `ExitObject` (with `Joined` for the two joins), `FreeContext` |
| `tm_x_wait_events`, `tm_x_event_*` | the `X...` actions, one per statement that matters to others |
| `tm_thread_event_manager`, `tm_thread_handle_events` | the `Em...` actions |
| `tm_thread_sig_record` | `DeliverAlarm` (the interruption) and `RecordAlarm`; while `inHandler` no `Em` step is enabled |
| a condition variable | the set of its waiters: `wakeWait`, `initWait`; a signal empties it, a spurious wakeup may too |
| a mutex | a Boolean where its hold spans steps (`wakeLock`, `sigLock`) |
| `err` of `tm_thread_handle_events`, not initialized | the value "undef", which a test may take for either |

The X server is external: `XWaitForEvent(e)` may happen at any time with any
event, or never.  Init functions fail or succeed nondeterministically.

Bounds: `TM_OBJECT_MAX` is the number of objects; `MaxAlarms` bounds the SIGALRMs
counted before `tm_thread_handle_events` reads the count.  `DeliverAlarm` ignores
the bound when the event manager is in `pause()` or holds `tm_sig_lock`, so the
bound never hides the wakeup of a sleeping thread or the handler's deadlock.

### TmWakeup and TmThreadsWakeup

`TmWakeup` states what the wakeup protocol promises to those who post work: a set
`posted`, a consumer that sleeps only while it is empty, and that takes everything
at once.  `TmThreadsWakeup` maps the threads to it: posted work is `draw_all` and
the list, asleep is from the moment `CheckWork` has found nothing until a signal.
That `CheckWork` maps to `Sleep` although the lock is released only two steps later
is the point of the protocol: nobody can post in between.

### TmTimer

`timer_head` is a sequence.  `TimerAdd` finds the place as the code does, by walking
to the first timer that expires later and inserting *behind* it (`list_add` to that
entry), or in front of all if there is none: the list is not sorted, and the proofs
show that nothing depends on it.  `Advance(Reached)` is the walk of
`tm_thread_sigalrm_handler` over the timers it reaches, all of them in a `Tick`, and
those up to the failing callback in a `TickFails`.  `SetItimer` is the conversion to a
`struct timeval`.  `fired` and `ticks` are history.  Periods are assumed to be at
least 1 ms (`PeriodAssumption`); `--net_interval` can break that (see below).

### TmItem

The doubly linked lists of `tm_list.h` are modelled as they are: functions `next` and
`prev` over the nodes, which are the items and three heads; `ListAddTail` and
`ListReplaceInit` are the pointer writes in the order of the source, so that what
happens to a node that is already linked is what the C code does to it.  The event
manager visits the items whose text differs (`EmTick`, `EmDiffers`, `EmCopied`),
hands off (`EmHandOff`), or fails (`EmFails`); the main thread takes (`MainTake`) and
draws node by node (`MainDrawOne`, `MainAdvance`) or everything (`MainDrawAll`).  A
text read while `strncpy` writes it is the value "torn".  `added`, `relinked` and
`overwritten` are history: they say which items went to the static list, whether a
linked item was linked again, and whether a hand-off replaced a list that had not been
taken.

### TmObject, TmOptions and TmStartup

`TmObject` has one action per registration, in any order, then the allocation and the
loop of `tm_tc_init`; `below` is history, the bytes registered for smaller ids.

`TmOptions` is pure: `Visited` are the words at which a parser that knows only its own
options stops, `Argument` what it ends up with; `Meant` is the reference, one parser that
knows all options.

In `TmStartup` an init is a table of steps (`InitX`, `InitClock` ...), one for each call that
takes or gives back something or can fail, in the order of the source, and what the code
behind the label of a failing step gives back (`undo`).  The loader of icons and the
labels of a widget are operators, so the two icons of each of five widgets are one
definition.  The actions run such a table: a step succeeds or fails as its kind allows
(`InitCalls`, `InitProceeds`, `InitParses`, `InitTemp`, `InitTimerCb` ...), the releases of the
failing step are followed by the exits of the objects before it (`Release`,
`ExitNext`).  To use or give back something that is not held, or that something held still
depends on, leads to the phase "undefined".  `Phases` lists the other outcomes without a next step:
an init that waits for the X server, a file system or netlink and gets no answer (`InitWaits`; for
netlink a single `NLMSG_ERROR` is enough), divides an infinite rate for ever (`InitRateEndless`)
or prints past a buffer (`InitOverflows`), and, once the program has run, a main that sleeps
through the stop (`ThreadEnds`) or joins a thread that does not end (`JoinWaits`).

| code | model |
|---|---|
| `tm_object_register`, `tm_tc_alloc`, `tm_tc_init` | `Register`, `Allocate`, `AllocFails`, `StartLayout`, `Place` |
| `tm_x_create_window`, `tm_x_cairo_init`, `tm_x_shape`, `tm_x_init`, `tm_x_exit` | `CreateWindow`, `CairoInit`, `Shape`, `InitX`, `ExitX` |
| `__tm_x_load_icon`, `init` and `exit` of the widgets | `LoadIcon`, `BothIcons`, `InitClock` ..., `ExitWidget` |
| `err` of `tm_cpu_item_temp_init` and `tm_cpu_item_temp_update`, not initialized without a configured temperature | both outcomes |
| `xcb_generate_id` fails with `err` at 0 | `InitGenerateIdFails` |
| `tm_thread_set_itimer` on an interval that is not positive | `SetItimer`, `SetItimerFails` |
| `recvmsg` after an `NLMSG_ERROR`, replies of the X server, `statfs`: may not return | `AnswerNeeded`, `InitWaits` |
| `sprintf` of a negative rate, of a mount point or an interface name that is too long | `InitOverflows` |
| a thread ends and signals without the lock; `pthread_join` in `tm_x_exit`, `tm_thread_exit` | `ThreadEnds`, `JoinWaits` |

### TmNet

One callback of the net widget: request of the addresses, request of the link, then the
texts.  A dump is received in datagrams, message by message (`Receive`, `NewAddr`, `NewLink`,
`SkipMessage`, `Done`, `NextDatagram`); every call may fail; SIGALRM interrupts `recvmsg`
(`Interrupt`).  The kernel is external: it answers a request with one of `Answers`, and a
message about the interface tells a state the interface had at some time since the request
(`window`); the interface goes up and down, changes and loses its address, counts, and
vanishes at any time (`LinkChanges`).  One address and one counter stand for two of each, which
the code treats alike.  The arithmetic of lengths in `nla_parse` is left out.

### TmStat, TmLayout and TmWidgets

`TmStat` has the conversions as operators on exact numbers: `Rounded` is what `printf` does,
`FourChars` the cutting after the third or fourth character, `UnitOf` the loop of divisions
(`Divided`, what is left of an amount after each).
A text is how many digits and dots it has, which gives its width, and the number it reads as.

`TmLayout` has the items of each row as `tm_item_init` is called for them, the area of
each widget, `Origin` (`tm_generate_object_origin`), and what `tm_x_draw_text_one` does to the
cells of a row: each cell is blank, icon, or belongs to a text.

`TmWidgets` follows one row from the numbers its callback reads to the screen: the ticks make
texts, `Update` is `tm_item_cmp_and_update`, `DrawOne` draws a changed item, `DrawAll` the row.
The rows share nothing but the vertical geometry, which `AreasDisjoint` is about.

## What the runs check

`PROJECT.json` names every run, its configuration and properties, and for every
property a mutant of the code's model that breaks it.

| run | instance | shows |
|---|---|---|
| `threads_safety` | 5 objects, 2 alarms | no lost wakeup for work, exact teardown, joins, barrier, no blocking after a failed init, `err` defined |
| `threads_liveness` | 3 objects, 1 alarm, fair | redraws and updates happen, ticks go on, a failed init exits, a stop ends the process but for three named hangs; `TmWakeup` implemented with its fairness |
| `timer` | 4 timers, 30 ticks | once per period, never behind, exact `setitimer` |
| `item` | 2 items, 2 texts, 2 ticks, fair | the only two ways to damage a list or lose a change; exact emptiness tests; drawing ends; the window converges |
| `startup` | 8 objects, every command line of up to two words and ten others | parts disjoint; each path through the labels and exits gives back all but two named leftovers; nothing is used that is not held; parsers agree; the program runs with its timer armed, or ends, or comes to a named outcome of an init or a stop |
| `widgets` | netlink: 2 addresses, 2 changes, 1 signal; rows: boundary values of every number | sockets, staleness and end of a dump, exact rates; numbers true, texts that fit, partial redraw equals full redraw, rows apart |
| `surface`, `stop`, `periodic`, `xjoin` | 3 objects, 1 alarm | violated, see [below](#disagreements) |
| `item_lost`, `item_redraw` | 2 items, 2 texts, 2 ticks | violated, see [below](#disagreements) |

**Bounds.**  Objects matter to the threads only as first (MAIN), X, last (THREAD) and
something in between, so three objects have every interaction of threads and five add
widgets whose init fails, with some before and some after them.  Two counted alarms are
enough for "one more arrives while one is being handled"; a third differs in nothing,
and the proofs cover any number.  Four timers with periods 3000, 10000, 3000 and 2300
have an interval that divides none of the others, and 30 ticks are 69 s, past several
periods of the slowest.  Two items are the fewest for a list with a first and a
different last entry; two ticks, after the items of the init, are three lists in flight:
one being drawn, one handed off, one being built.

In `startup` the eight objects are those of the program, with sizes that need rounding; the
constructors run in all 40320 orders (as sets: what matters is who has registered), and every
call of every init fails or not.  Two words are the fewest with an option whose argument is
spelled like an option; the other lines have repeated and mixed options, empty arguments, and a word
too long for its buffer.  In `widgets` the
32-bit counter wraps at 2 and the 64-bit one at 8, so that two counted bytes pass one and not
the other; two changes let an interface lose its address and vanish, or count twice, between
any two messages.  The integers of TLC have 32 bits: the word of `/proc/stat` is 2^29, which
any counter reaches by starting just below it, and amounts are divided by a unit at most
twice; the proofs are for 2^64 and all units as well.  The numbers are those around each boundary of a conversion: 999.995 of a unit, 124 and
125 bytes (992 and 1000 bits), 10 days, just below and above 100 days, -10 and 100 degrees.  Geometries have
even and odd fonts, icons from lower to many times higher than them, zero to two temperatures.
`/proc/stat` is read twice: once understood or not, once more to see what was kept.

**Fairness** (`FairSpec` of `TmThreads`): each of the three threads runs when it can
(weak fairness per thread); a mutex is not withheld from one thread for ever (strong
fairness of the two steps that take `main_wake_lock` against the main thread, whose loop
releases it again and again); the interval timer keeps expiring and its signal gets
delivered.  The X server owes nothing: it may never send an event.  Spurious wakeups may
happen, but are never needed.  In `TmItem` both threads run while they can; ticks, failures
and exposures need not happen.  In `TmStartup` main, and the event manager up to `setitimer`, go on
as long as they can (`StartGoesOn`).  That does not promise that a call returns which waits for
somebody else: where one can wait for ever there is a step for just that next to the one on which
it returns, and either satisfies the fairness.  So it is for the forced netlink callback, the X
server's replies and `statfs`, the wakeup that main may miss, and the joins of a program that had
been running.  What is taken to return are allocations, local files, `/proc`, `/sys` and writes to
the X server; and, after a failed init, the join of the X thread, which `FailedInitNeverBlocks` and
`FailedInitExits` of `TmThreads` are about.  The stop of the running program need not come.  In `TmNet` the event manager goes on with the callback it is
in (`Progress`), and the kernel sends what it has answered; that a call fails is never promised, and
neither is an answer to a request that was refused.

**`CHECK_DEADLOCK FALSE`**: the program may end, and it may hang in the ways that
`StopOutcome`, `TicksForever`, `StartupSettles` and `CallbackEnds` name; both are states without
successor.

**Exceptions are named in the property.**  What the code gets wrong at the edge is an exception
of the property, as narrow as it can be stated, so that anything else is a violation:

- `NothingElseForgotten`: the icons and timers of a widget whose forced callback fails
  (`tm_clock.c:340` and its siblings), and the connection object of a failed `xcb_connect`
  (`tm_x.c:528`);
- `UsesHeldOnly`: after a failed `xcb_generate_id` `tm_x_init` goes on with a closed connection
  (`tm_x.c:538`);
- `StartupSettles`: `InitHangs` and `StopHangs`.  An init waits for an answer that does not come
  (`tm_x.c:527`, `tm_x.c:583`, `tm_disk.c:85`, `tm_net.c:416`).  `--net_interval 0`, or not a number, makes
  the first callback loop for ever on an infinite rate (`tm_net.c:624`), or disarms the timer.  With a
  negative interval the rate since boot is negative and overflows its text from 10^11 on
  (`tm_net.c:629`); so do a long mount point and a long interface name theirs (`tm_disk.c:91`,
  `tm_net.c:149`).  If a negative interval gets as far as `setitimer`, that fails, and so may the
  handlers of the signals: main may then sleep through the stop (`tm_thread.c:234`), or wait for an
  X thread that a silent X server leaves blocked (`tm_x.c:1100`);
- `ParsesAgree`: an argument spelled like an option;
- `CallbackEnds`: an `NLMSG_ERROR` is skipped and `recvmsg` waits for ever (`tm_net.c:435`);
- `StateShown`: texts of an interface that has gone stay, and a dump cut off after its first datagram
  counts as complete (`tm_net.c:449`);
- `RateExact`: a 32-bit counter that wraps (`tm_net.c:560`); the first rate counts from zero, as the
  property says;
- `UsageTrue`: a counter that goes backwards makes a share with more characters than its buffer has
  (`tm_cpu.c:299`); without any gain the text is not a number;
- `AmountsTrue`: memory in use when labels of `/proc/meminfo` are missing or do not add up;
- `TextsFit`: the 100th day, a load of 1000, temperatures from 100 or below -9 degrees, an amount that
  rounds up to 1000; `RedrawComplete` holds as long as no text was too wide;
- `AreasDisjoint`: icons less than twice as high as the font.

**The hangs are named, not excluded.**  `StopOutcome` says `<>shouldStop` leads to the
end of the process *or* to one of `SelfDeadlocked`, `StopMissed`, `XServerSilent` for
ever.  The three are real, each has a violated run of its own; a fourth would be a
violation of `StopOutcome`.  In the same way `ListsIntact`, `OnlyTwoLosses`,
`DrawListEnds` and `Converges` name `relinked` and `overwritten`, each with a violated
run.

## What is proved

Every invariant and action property that a passing run checks is a theorem, for every value of the
constants.  TLAPS checks all proofs; nothing is assumed but the named assumptions on constants, which
TLC evaluates on the runs of the modules that state them:

| assumption | says | because |
|---|---|---|
| `ObjectAssumption` (`TmThreads`) | at least three objects | MAIN, X and THREAD are there always |
| `AlarmAssumption` | the bound of counted signals is not 0 | a bound of the model |
| `PeriodAssumption` | periods are positive | the literals of the widgets; `--net_interval` can break it (`StartupSettles`) |
| `ItemAssumption`, `StrAssumption` | finitely many items, which are no heads; a text is none of the marks of the model | distinct objects in memory |
| `ObjectAssumption` (`TmObject`) | sizes are natural numbers | `sizeof` |
| `StartAssumption` | the objects are the eight of the program; command lines are sequences of words, each with an `atoi` | `enum tm_object_id`, `argv` |
| `NetAssumption` | an address is not the empty text; a 32-bit counter is not wider than a 64-bit one | |
| `AnswerAssumption` | no dump says done before the kernel has come to the interface | the kernel dumps all interfaces; "mine" is where ours is, or would be |
| `WordAssumption` | the word of the machine is a multiple of 1024 | 2^64 |
| `UnitAssumption` | a word divided six times is below 1000 | 2^64 bytes are 16 E or 18 E |
| `LayoutAssumption`, `GeometryAssumption` | sizes are natural numbers, a digit has a width, a font more than one pixel, the side icon is inside the row | a font of one pixel has no margins |
| `UptimeAssumption`, `LengthAssumption`, `LoadAssumption`, `TemperatureAssumption` | types of what is read | |
| `MemAssumption`, `FileSystemAssumption` | what there is of memory and of a file system is below 2^64 bytes, and not more is free than there is | the kernel counts in these words |
| `CountAssumption` | counters are words; no interface is faster than 1000 E bits per second | there are no more letters |
| `StepAssumption` | the CPU gains little against 2^64 in `MaxSteps` readings | jiffies |

**`TmThreads_proofs`**, for any number of objects and alarms.  The safety invariants are
not inductive: for instance, that a thread is alive while its object is depends on how far
the initialization got and on where in the teardown the join is.  The inductive invariant
`IInv` has one part per concern, and every part has a step lemma with one step per action:

- `Values`, `Flags`: the types (split because the provers handle numbers and Booleans
  with different back ends);
- `PhaseInv`: what is initialized as a function of the main thread's program counter and
  `idx`, which gives `ExitExactlyInitialized`;
- `WakeInv`: who holds `main_wake_lock`, and that nothing is posted when the main thread
  is about to wait or waits; it gives `NoLostWork`;
- `WorkerInv`: that a thread exists only if its object was initialized, and that it is past
  the barrier only after `init_done`; it gives `WorkersOutlived`, `WorkersWaitForInit` and
  `FailedInitNeverBlocks`;
- `SigInv`: between the return of `pause()` and the reading of the count a signal has been
  counted, so that `err` is assigned (`HandleEventsDefined`).

`WakeupRefinement` proves from `IInv` that every step of the threads is a step of `TmWakeup`
or a stutter.  Its fairness part is only model-checked.

**`TmTimer_proofs`**, for any set of timers, any periods and any number of ticks.  `PaceInv`
says that `expires_msecs = Period * (fired + 1) - Elapsed` and lies in `1 .. Period` for every
registered timer.  From it `NeverBehind` is immediate and `Paced` follows by a lemma on
division (`WholePeriods`).  The step uses that the interval is at most every registered period,
the reason one `orig_expires` per expiry suffices.  `ItimerExactAlways` does not depend on it.

**`TmItem_proofs`**, for any number of items and any texts.  `HeadInv` says of each shared head that
it is either its own neighbour on both sides or that its two neighbours are items; this survives the
damage that re-linking does to the lists, and gives `EmptyTestsExact`: the program may draw too
little, but it never sleeps on a non-empty list or hands off an empty one.  Of the lists themselves
`LinkInv` says that, as long as no linked item was added again, there are three functions from `1 .. n`
to the items, one for each list, injective and with disjoint ranges, such that `next` leads along them
and, on the shared heads, `prev` back (`Path`, `Ring`).  `AddedRing` and `ReplacedRing` are what the
pointer writes of `list_add_tail` and `list_replace_init` do to such a function; `WalkPath` connects it,
by induction, with the recursive walk in which the properties are stated.  `ListsIntact` follows.
`OnlyTwoLosses` is inductive with it: a text differs from what is shown only while its item is on a
list, is being drawn or is about to be added.

**`TmObject_proofs`**, for any number and sizes of objects and any order of the constructors.
The loop of `tm_tc_init` computes the offsets long after the constructors have added up the size;
what connects them is `below`, the bytes registered for smaller ids.  `BelowInv` says that it
grows by exactly the part of each id, `LayoutInv` that the loop reproduces it and that the block has
its last value.  `PartsDisjoint` follows with two lemmas on the rounding to eight.

**`TmNet_proofs`**, for any addresses, answers, widths of the counters, changes and signals.
`CallbackHonest` is inductive together with the types of what it tells about.  For `RateExact`
the inductive `RateInv` says that bytes only grow, that every state the kernel may still tell about has
counted at least as much as the last one that was read, that `st_cur` is the reading of that
one and `st_dif` zero until a link message has come.  That the difference modulo 2^64 of two
readings is the true one is a lemma on `%` (`SameRound`), for counters that are in the same round.
`StateShown` rests on `ShownInv`: where the callback is decides what it knows.  While a dump is in work
either what it has stored agrees with a state the interface had since the request, or the message about the
interface is still to come in the datagrams that are left (`MineFirst`), before any "done"; at the end of the
dump it is the former.  `LengthInv` and `AddressInv` follow the text through the cut at 32 characters.

**`TmStartup_proofs`**, for any command lines, any `atoi`, any sizes of the objects and wherever a call
fails.  Three parts.  The parsers: that of an object stops at a word exactly if the word is not the argument of
one of its own options (`StopsAtOthers`, by induction along the words), so that all agree where no
argument is spelled like an option.  The tables: `Goes(n, t, A, B, o)` says that the steps `t` of the init of
`o` lead from the resources `A` to `B`, that each finds what it depends on, and that the label of each, from
what is then held, gives back everything down to what was held before the init, but for what is named as
lost; it is shown for each kind of step, composed along sequences, and so for every init of the program;
`Undoes` says the same of exits.  The invariant `StartInv`: an init that has not failed holds what its
table says at that step, and on the way out what is still to be given back leads from what is held to the
resources of the objects below and what was lost.  `RunHoldsExactly`, `NothingElseForgotten` and
`UsesHeldOnly` are then one case each; a change of a table is a change of one lemma.

**`TmWidgets_proofs`** is about `TmStat` and `TmLayout` as well.

- `UptimeAlwaysTrue` holds for every uptime.  `UsageAlwaysTrue` holds for any modulus that the counters
  wrap at, and any gains that are small against it (`StepAssumption`): `UsageInv` says that the kernel's
  counters and `cpu->stat` differ by what was gained since, up to whole rounds; hence the differences are the
  gains (`ModOf`, `StatFollows`), also after a file of an unknown format, their sum does not wrap, and the
  rounding of each share is to the nearest (`RoundedShare`).
- `AmountsAlwaysTrue`, for every amount.  `UnitCuts` says, by induction along the units, that what the repeated
  divisions leave is the amount cut to the unit, once, although each of them cuts; so the loop of
  divisions stops exactly at the unit the property asks for (`UnitIs`).  `RoundedUp` bounds what `printf` rounds,
  `FourCharsReads` what the cut of the text loses.  Memory needs that the first line with a number is the
  first line with the label (`MemTold`) and that nothing wraps (`MemUsedIs`, `KiloIs`).
- `TextsAlwaysFit`: `TextsFit` is nearly inductive; what it lacks is that the other items keep
  their text (`LabelsKept`).  Both are parts of `AmountInv`, with one step lemma per callback.
- `AreasAlwaysDisjoint`, for any geometry, by induction along the origins (`OriginIs`).
- `RedrawAlwaysComplete`, for any fonts, widths and texts: `RowInv` says cell by cell what the screen shows of
  the items that are not on the list, `DrawTextIs` what the drawing of one text changes, and `DrawRowIs`, by
  induction along the items, what a drawing of all of them leaves.

**`TmInduction`** derives the induction all of these use, for sets of numbers, from `<` being
well-founded (`NatSetInduction`, `SmallestOf`, `LargestOf`); the induction theorems of the library take a
predicate, which the provers at hand cannot instantiate.

**Only model-checked**: all liveness (`ExposeRedraws`, `UpdateDrawn`, `TicksForever`, `FailedInitExits`,
`StopOutcome`, `DrawListEnds`, `Converges`, `StartupSettles`, `CallbackEnds`) and the fairness part of the
refinement `WakeupImplemented`: it needs `ENABLED`, which the provers do not handle.

<a id="disagreements"></a>
## Disagreements between the code and its comments

Each has a run whose one property is violated, with a counterexample from TLC.

- `surface`: "All drawing operations are done on main thread" (`tm_main.c:325`), but the X
  event thread flushes the cairo surface after mapping the window (`tm_x.c:959`), while the main
  thread may be drawing.
- `stop`: `should_stop` is set and signalled without `main_wake_lock` (`tm_x.c:908,996`,
  `tm_thread.c:231,234`).  Both threads may do so between the main thread's test and its wait;
  it then sleeps for ever.
- `periodic`: a SIGALRM that arrives while `tm_thread_handle_events` holds `tm_sig_lock`
  (`tm_thread.c:175`) runs a handler that locks it again (`tm_thread.c:100`): no timer ever ticks
  again.
- `xjoin`: when a failing callback stops the program, nothing wakes the X event thread out of
  `xcb_wait_for_event`, and `tm_x_exit` joins it (`tm_x.c:1099`; an XXX at `tm_thread.c:163` names
  the missing event).
- `item_lost`: a hand-off writes over a `tc->list_update` that the main thread has not taken
  (`tm_thread.c:149`); the texts of its items are in `str` already, `strcmp` finds no difference,
  and they stay undrawn until they change again or all is redrawn.
- `item_redraw`: an item is added without a look at whether it is still linked (`tm_item.c:11`):
  on the list being drawn, or on the static list since the init's forced callback
  (`tm_clock.c:337`).  The walk of `tm_draw_list` then does not come back to its head.

## What is not modelled

- **SIGINT**: its disposition is the default one (`tm_thread.c:214`); the recording handler for
  it never runs.
- **What is drawn, beyond where**: colours, fonts, the rounded shape of the window, dashes, the
  horizontal place of icons.  `TmLayout` has rows, areas, origins, lines and the cells of texts.
- **Values of options**: a word is a word; only the number of `--net_interval` is interpreted,
  because it decides whether the timers run.
- **`should_stop` in `TmItem`**: the module is about the running program; `TmThreads` has the stop.
- **Where `list_add_tail` is interrupted** in `TmItem`: it is one step; its comment says why.
- **What is drawn when a walk reaches a foreign head** (`MainDrawOne`): the memory around a
  head is interpreted as an item; the model only shows that the walk gets there.
- **Over-long texts** in `TmItem`: a text of 32 characters or more is cut and always differs;
  `TmNet` has the cut (`StateShown`).
- **Panics of the constructors**: a second or out-of-range registration does not happen with the
  ids of `enum tm_object_id`.
- **Lengths inside a netlink message** (`nla_parse`): the kernel's messages are well formed.
- **Doubles**: numbers are exact; what does not fit into the 53 bits of a double is not modelled.
- **Guest time** (`tm_cpu.c:343`): Linux counts it in user time as well, so the code counts it twice in
  the total; the three groups of `TmStat` are the sums as the code makes them.
- **Data files and build description**: nothing to model.

## Plan

In order of importance; each with its runs and theorems.

1. *(done)* `TmThreads`, `TmWakeup`, `TmThreadsWakeup`: threads, wakeup, lifecycle.  Theorems: all
   safety invariants, the safety part of the refinement.
2. *(done)* `TmTimer`.  Theorems: `Paced`, `NeverBehind`, `ItimerExact`.
3. *(done)* `TmItem`.  Theorems: `EmptyTestsExact`, `ListsIntact`, `OnlyTwoLosses`.
4. *(done)* `TmObject`, `TmOptions`, `TmStartup`: layout, command line, resources on every error path.
   Theorems: `PartsDisjoint`, `ParsesAgree`, `RunHoldsExactly`, `NothingElseForgotten`, `UsesHeldOnly`.
5. *(done)* `TmNet`: the netlink dumps with an interface that changes.  Theorems: `CallbackHonest`,
   `RateExact`, `StateShown`.
6. *(done)* `TmStat`, `TmLayout`, `TmWidgets`: numbers, texts, drawing.  Theorems: `UptimeTrue`, `UsageTrue`,
   `AmountsTrue`, `TextsFit`, `AreasDisjoint`, `RedrawComplete`.
7. Left: the lists of `TmItem` as an implementation of an abstract, set-valued mailbox of changes, while
   no item is relinked (`LinkInv` already has the mapping); the tick of `TmThreads` as an abstraction of the
   `Tick` of `TmTimer`.
