----------------------------- MODULE TmStartup ------------------------------
(***************************************************************************)
(* The life of the process seen from the main thread: constructors, the    *)
(* context, the init of every object with every call that can fail, the    *)
(* exits, and the resources each of them holds.  What an init does is a    *)
(* table of steps, one per call that takes or gives back a resource or can *)
(* fail; a failing step gives back what the code behind its label does.    *)
(* The threads themselves are the subject of TmThreads; here they are two  *)
(* resources, taken by pthread_create and given back by pthread_join.      *)
(***************************************************************************)
EXTENDS TmObject, TmOptions, SequencesExt

CONSTANTS
    Argvs,          \* the command lines considered, argv[0] first
    Atoi,           \* what atoi makes of a word
    TooLong         \* the words that the buffers of an init cannot hold

MAIN == 0
X == 1
CLOCK == 2
CPU == 3
MEM == 4
DISK == 5
NET == 6
THREAD == 7

Widgets == CLOCK .. NET

ASSUME StartAssumption ==
    /\ TM_OBJECT_MAX = THREAD + 1
    /\ Argvs \subseteq Seq(DOMAIN Atoi)
    /\ Atoi \in [DOMAIN Atoi -> Int]

VARIABLES
    phase,      \* where main is, or what keeps it from going on: see Phases
    argv,
    obj,        \* the object whose init or exit is running
    step,       \* the next step of its init
    releases,   \* what is still to be given back on this path, in order
    held,       \* the resources held, the timers on timer_head among them
    msecs,      \* interval_msecs
    itimer,     \* the interval timer: "unset", "armed", "disarmed"
    idFailed,   \* history: xcb_generate_id failed in tm_x_create_window
    failed      \* history: where the first failure was and why, or who
                \* stopped the running program

startVars == <<phase, argv, obj, step, releases, held, msecs, itimer, idFailed,
               failed>>
vars == <<objVars, startVars>>

\* What main does; then the outcomes without a next step: it uses what is not
\* there ("undefined"), writes past a buffer ("overflow"), waits for an answer
\* that does not come ("waiting"), divides without end ("endless"), was not
\* woken to stop ("asleep"), joins a thread that does not end ("joining").
Phases == {"ctor", "alloc", "layout", "init", "run", "exit", "end",
           "undefined", "overflow", "waiting", "endless", "asleep", "joining"}

-----------------------------------------------------------------------------
(* Options as the objects see them.                                        *)

Own == [o \in Objects |->
        CASE o = X -> XOptions     [] o = CLOCK -> ClockOptions
          [] o = CPU -> CpuOptions [] o = MEM -> MemOptions
          [] o = DISK -> DiskOptions [] o = NET -> NetOptions
          [] OTHER -> {}]

HelpWanted == FlagSet({}, argv, "--help")

\* The option was met with a word behind it, be it an empty one.
Given(o, option) == \E n \in Visited(Own[o], argv) :
                       argv[n] = option /\ n < Len(argv)

\* The word given is longer than the buffer it is printed into.
GivenTooLong(o, option) == /\ Given(o, option)
                           /\ Argument(Own[o], argv, option, "") \in TooLong

\* a temperature is shown only with both its label and its input
TempConfigured == \/ Given(CPU, "--temp_label1") /\ Given(CPU, "--temp_input1")
                  \/ Given(CPU, "--temp_label2") /\ Given(CPU, "--temp_input2")

\* net->interval, and with it timer_net.expires_msecs
NetInterval == IF Given(NET, "--net_interval")
               THEN Atoi[Argument(Own[NET], argv, "--net_interval", "")] ELSE 1000

Timer(o) == <<o, "timer">>
FreqTimer == <<CPU, "freq timer">>

Period(timer) == CASE timer[1] = NET -> NetInterval [] timer[1] = DISK -> 10000
                   [] timer = FreqTimer -> 60000   [] OTHER -> 3000

-----------------------------------------------------------------------------
(* The steps of an init.  do: what the step is; takes and frees: what it   *)
(* acquires and gives back when it succeeds; undo: what is given back, in  *)
(* order, when it fails.                                                   *)

Step(do, takes, frees, undo) ==
    <<[do |-> do, takes |-> takes, frees |-> frees, undo |-> undo]>>
Call(undo) == Step("call", {}, {}, undo)
Take(r, undo) == Step("call", {r}, {}, undo)
Always(takes, frees) == Step("always", takes, frees, <<>>)
ParseOpts == Step("parse", {}, {}, <<>>)
TimerAdd(timer) == Step("timer", {timer}, {}, <<>>)
TimerCb == Step("timer_cb", {}, {}, <<>>)

IconMain(o) == <<o, "icon main">>
IconSide(o) == <<o, "icon side">>
Icons(o) == {IconMain(o), IconSide(o)}

InitMain == ParseOpts \o Call(<<>>) \o Call(<<>>)

Conn == <<X, "connection">>
Win == <<X, "window">>
Cr == <<X, "cr">>
Layout == <<X, "layout">>
XThread == <<X, "thread">>

DestroyWindow == <<Win, Conn>>
DestroyAll == <<Layout, Cr>> \o DestroyWindow

\* xcb_connect always returns a connection; has_error then tells; the
\* "hidden" failure gives the connection back and leaves err at 0.
CreateWindow == Always({Conn}, {}) \o Call(<<>>)
                \o Step("hidden", {}, {}, <<Conn>>) \o Always({Win}, {})

\* a surface, a cr that keeps it, and the surface's own reference dropped
CairoInit == Take(<<X, "surface">>, DestroyWindow)
             \o Take(Cr, <<<<X, "surface">>>> \o DestroyWindow)
             \o Always({}, {<<X, "surface">>})

ShapeCr == <<X, "shape cr">>
Shape == Take(<<X, "surface">>, DestroyAll)
         \o Take(ShapeCr, <<<<X, "surface">>>> \o DestroyAll)
         \o Always({}, {<<X, "surface">>})
         \o Call(<<ShapeCr>> \o DestroyAll)
         \o Always({<<X, "pixmap">>}, {}) \o Always({<<X, "gc">>}, {})
         \o Always({}, {<<X, "gc">>, <<X, "pixmap">>, ShapeCr})

InitX == ParseOpts \o CreateWindow \o Step("wm", {}, {}, <<>>) \o CairoInit
         \o Always({Layout}, {}) \o Shape \o Take(XThread, DestroyAll)

\* Mutant: the handle of the picture is kept.
LoadIconKeepsHandle(o, icon, undo) ==
    Take(<<o, "rsvg">>, undo) \o Take(<<o, "surface">>, <<<<o, "rsvg">>>> \o undo)
    \o Take(icon, <<<<o, "surface">>, <<o, "rsvg">>>> \o undo)
    \o Always({}, {<<o, "surface">>}) \o Call(<<icon, <<o, "rsvg">>>> \o undo)

\* __tm_x_load_icon; undo: what the caller gives back when it fails
LoadIcon(o, icon, undo) ==
    Take(<<o, "rsvg">>, undo) \o Take(<<o, "surface">>, <<<<o, "rsvg">>>> \o undo)
    \o Take(icon, <<<<o, "surface">>, <<o, "rsvg">>>> \o undo)
    \o Always({}, {<<o, "surface">>})
    \o Call(<<icon, <<o, "rsvg">>>> \o undo) \o Always({}, {<<o, "rsvg">>})

\* Mutant: the second icon fails without going through the label.
BothIconsNoLabel(o) == LoadIcon(o, IconMain(o), <<>>) \o LoadIcon(o, IconSide(o), <<>>)

BothIcons(o) == LoadIcon(o, IconMain(o), <<>>)
                \o LoadIcon(o, IconSide(o), <<IconMain(o)>>)

UnloadBoth(o) == <<IconSide(o), IconMain(o)>>

InitClock == ParseOpts \o BothIcons(CLOCK) \o TimerAdd(Timer(CLOCK)) \o TimerCb

\* tm_cpu_item_temp_init reads the labels; its err is not initialized.
InitCpu == ParseOpts \o BothIcons(CPU) \o Step("temp", {}, {}, UnloadBoth(CPU))
           \o TimerAdd(Timer(CPU)) \o TimerAdd(FreqTimer) \o TimerCb

InitMem == ParseOpts \o BothIcons(MEM) \o TimerAdd(Timer(MEM)) \o TimerCb

InitDisk == ParseOpts \o BothIcons(DISK) \o Call(UnloadBoth(DISK))
            \o TimerAdd(Timer(DISK)) \o TimerCb

GetIfindex == Take(<<NET, "socket">>, <<>>) \o Call(<<<<NET, "socket">>>>)
              \o Always({}, {<<NET, "socket">>})

InitNet == ParseOpts \o GetIfindex \o BothIcons(NET) \o TimerAdd(Timer(NET))
           \o TimerCb

EventManager == <<THREAD, "thread">>

InitOf == [o \in Objects |->
    CASE o = MAIN -> InitMain [] o = X -> InitX     [] o = CLOCK -> InitClock
      [] o = CPU -> InitCpu   [] o = MEM -> InitMem [] o = DISK -> InitDisk
      [] o = NET -> InitNet   [] OTHER -> Take(EventManager, <<>>)]

ExitX == <<XThread>> \o DestroyAll

\* the exit of a widget, its timers first
ExitWidget(o) == (IF o = CPU THEN <<FreqTimer>> ELSE <<>>) \o <<Timer(o)>>
                 \o UnloadBoth(o)

ExitOf == [o \in Objects |->
    CASE o = MAIN -> <<>> [] o = X -> ExitX [] o = THREAD -> <<EventManager>>
      [] OTHER -> ExitWidget(o)]

AllTimers == {Timer(o) : o \in Widgets} \cup {FreqTimer}

\* Resources that must be there as long as r is, and while r is taken.
DependsOn(r) ==
    CASE r = Win -> {Conn}       [] r = Cr -> {Conn, Win}
      [] r = Layout -> {Cr}      [] r = XThread -> {Conn, Win, Cr}
      [] r = <<X, "pixmap">> -> {Conn, Win}
      [] r = <<X, "gc">> -> {Conn, <<X, "pixmap">>}
      [] r = EventManager -> AllTimers
      [] OTHER -> {}

\* What the drawing functions of the main loop use.
DrawUses == {Conn, Win, Cr, Layout} \cup UNION {Icons(o) : o \in Widgets}

-----------------------------------------------------------------------------
NotFailed == [obj |-> -1, step |-> 0, why |-> "nothing"]

StartInit ==
    /\ ObjInit
    /\ phase = "ctor"
    /\ argv = <<>>
    /\ obj = MAIN
    /\ step = 1
    /\ releases = <<>>
    /\ held = {}
    /\ msecs = 3000
    /\ itimer = "unset"
    /\ idFailed = FALSE
    /\ failed = NotFailed

\* a constructor, before main
Constructor(id) ==
    /\ phase = "ctor"
    /\ Register(id)
    /\ UNCHANGED startVars

\* main: tm_tc_alloc's calloc
MainStarts(words) ==
    /\ phase = "ctor"
    /\ tmObjs = Objects
    /\ argv' = words
    /\ Allocate
    /\ phase' = "alloc"
    /\ held' = {<<MAIN, "tc">>}
    /\ UNCHANGED <<obj, step, releases, msecs, itimer, idFailed, failed>>

\* calloc, or one of the pthread inits of tm_tc_init, fails: main returns 1
AllocFails ==
    /\ phase = "alloc"
    /\ phase' = "end"
    /\ held' = {}
    /\ failed' = [obj |-> MAIN, step |-> 0, why |-> "call"]
    /\ UNCHANGED <<objVars, argv, obj, step, releases, msecs, itimer, idFailed>>

\* the pthread inits succeed; the offsets
LayoutStarts ==
    /\ phase = "alloc"
    /\ StartLayout
    /\ phase' = "layout"
    /\ UNCHANGED <<argv, obj, step, releases, held, msecs, itimer, idFailed, failed>>

LayoutStep ==
    /\ phase = "layout"
    /\ Place
    /\ phase' = IF next' = TM_OBJECT_MAX THEN "init" ELSE "layout"
    /\ UNCHANGED <<argv, obj, step, releases, held, msecs, itimer, idFailed, failed>>

-----------------------------------------------------------------------------
InInit == phase = "init" /\ step <= Len(InitOf[obj])

Current == InitOf[obj][step]

Misused(rs) == rs \ held # {}

\* The step succeeds; tm_thread_timer_add also lowers interval_msecs.
StepDone ==
    /\ IF \E r \in Current.takes : Misused(DependsOn(r))
       THEN phase' = "undefined" ELSE UNCHANGED phase
    /\ held' = (held \cup Current.takes) \ Current.frees
    /\ msecs' = IF Current.do = "timer"
                THEN Min({msecs} \cup {Period(t) : t \in Current.takes})
                ELSE msecs
    /\ step' = step + 1
    /\ UNCHANGED <<objVars, argv, obj, releases, itimer, idFailed, failed>>

\* Mutant: a failing init is torn down like the others.
StepFailsExits(why) ==
    /\ releases' = Current.undo \o ExitOf[obj]
    /\ phase' = "exit"
    /\ failed' = [obj |-> obj, step |-> step, why |-> why]
    /\ UNCHANGED <<objVars, argv, obj, step, held, msecs, itimer, idFailed>>

\* The step fails: tm_init_all leaves its loop, main goes to the exits of
\* the objects before this one.
StepFails(why) ==
    /\ releases' = Current.undo
    /\ phase' = "exit"
    /\ failed' = [obj |-> obj, step |-> step, why |-> why]
    /\ UNCHANGED <<objVars, argv, obj, step, held, msecs, itimer, idFailed>>

\* tm_main_parse_opts: --help prints the help of all objects and fails with
\* 2; the parser of any other object fails for a missing argument only.
InitParses ==
    /\ InInit
    /\ Current.do = "parse"
    /\ IF \/ obj = MAIN /\ HelpWanted
          \/ obj # MAIN /\ MissingArgument(Own[obj], argv)
       THEN StepFails("option") ELSE StepDone

\* a library or system call
InitCalls ==
    /\ InInit
    /\ Current.do = "call"
    /\ StepDone \/ StepFails("call")

\* what cannot fail
InitProceeds ==
    /\ InInit
    /\ Current.do \in {"always", "timer"}
    /\ StepDone

\* tm_x_wm_init uses the members that tm_x_create_window has set, or not
InitWm ==
    /\ InInit
    /\ Current.do = "wm"
    /\ IF Misused({Conn, Win})
       THEN phase' = "undefined" /\ UNCHANGED <<objVars, argv, obj, step, releases,
                        held, msecs, itimer, idFailed, failed>>
       ELSE StepDone

\* xcb_generate_id fails: disconnected, the rest of tm_x_create_window is
\* jumped over, 0 is returned
InitGenerateIdFails ==
    /\ InInit
    /\ Current.do = "hidden"
    /\ held' = held \ ToSet(Current.undo)
    /\ idFailed' = TRUE
    /\ step' = step + 2
    /\ UNCHANGED <<objVars, phase, argv, obj, releases, msecs, itimer, failed>>

InitGenerateId ==
    /\ InInit
    /\ Current.do = "hidden"
    /\ StepDone

\* tm_cpu_item_temp_init: with a label the file may be unreadable; with none
\* its result is whatever was on the stack
InitTemp ==
    /\ InInit
    /\ Current.do = "temp"
    /\ StepDone \/ StepFails(IF TempConfigured THEN "call" ELSE "undefined err")

\* The forced callback: it succeeds, or a file, sysinfo, statfs or netlink
\* fails, or err of tm_cpu_item_temp_update is not initialized.  See InitWaits,
\* InitOverflows and InitRateEndless for the callbacks that do neither.
InitTimerCb ==
    /\ InInit
    /\ Current.do = "timer_cb"
    /\ \/ StepDone
       \/ StepFails("call")
       \/ obj = CPU /\ ~TempConfigured /\ StepFails("undefined err")

InitStuck(outcome) ==
    /\ phase' = outcome
    /\ UNCHANGED <<objVars, argv, obj, step, releases, held, msecs, itimer,
                   idFailed, failed>>

\* The steps that wait for an answer from outside the process: xcb_connect, the
\* replies to tm_x_wm_init, what cairo asks the X server about the window;
\* statfs on the mount point; the loop of recvmsg, which goes on waiting after
\* an NLMSG_ERROR.
AnswerNeeded ==
    \/ obj = X /\ (Current.do = "wm" \/ Conn \in Current.takes
                   \/ Current.undo = DestroyWindow)
    \/ obj = DISK /\ (Current.do = "timer_cb" \/ Current.undo = UnloadBoth(DISK))
    \/ obj = NET /\ Current.do = "timer_cb"

InitWaits == InInit /\ AnswerNeeded /\ InitStuck("waiting")

\* tm_net_ip_stat_update divides by an interval of 0: the rate is infinite
\* as soon as a byte was counted, and dividing it by 1000 does not end
InitRateEndless ==
    /\ InInit
    /\ obj = NET /\ NetInterval = 0
    /\ Current.do = "timer_cb"
    /\ InitStuck("endless")

\* An sprintf past the end of its buffer: a mount point into mtpt_str, the name
\* of the interface into if_str, and into the 16 characters of
\* tm_net_stat_update a rate that is negative, so that no unit makes it shorter.
InitOverflows ==
    /\ InInit
    /\ \/ /\ obj = DISK /\ Current.undo = UnloadBoth(DISK)
          /\ GivenTooLong(DISK, "--mount_point")
       \/ obj = NET /\ Current.do = "timer" /\ GivenTooLong(NET, "--if_name")
       \/ obj = NET /\ Current.do = "timer_cb" /\ NetInterval < 0
    /\ InitStuck("overflow")

\* Mutant: one index too far.
InitNextTooFar ==
    /\ phase = "init"
    /\ step > Len(InitOf[obj])
    /\ step' = 1
    /\ obj' = obj + 1
    /\ phase' = IF obj > THREAD THEN "run" ELSE "init"
    /\ UNCHANGED <<objVars, argv, releases, held, msecs, itimer, idFailed, failed>>

\* tm_init_all goes on to the next object; after the last one main draws
InitNext ==
    /\ phase = "init"
    /\ step > Len(InitOf[obj])
    /\ step' = 1
    /\ obj' = obj + 1
    /\ phase' = IF obj = THREAD THEN "run" ELSE "init"
    /\ UNCHANGED <<objVars, argv, releases, held, msecs, itimer, idFailed, failed>>

-----------------------------------------------------------------------------
\* tm_thread_set_itimer: an interval of 0 disarms, a negative one is EINVAL
SetItimer ==
    /\ phase = "run"
    /\ itimer = "unset"
    /\ msecs >= 0
    /\ itimer' = IF msecs > 0 THEN "armed" ELSE "disarmed"
    /\ UNCHANGED <<objVars, phase, argv, obj, step, releases, held, msecs,
                   idFailed, failed>>

\* Mutant: the result of setitimer is not looked at.
SetItimerIgnored ==
    /\ phase = "run"
    /\ itimer = "unset"
    /\ msecs < 0
    /\ itimer' = "disarmed"
    /\ UNCHANGED <<objVars, phase, argv, obj, step, releases, held, msecs,
                   idFailed, failed>>

\* A thread ends, sets should_stop and signals without main_wake_lock: main
\* leaves its loop, or the signal falls between its test and its wait.
ThreadEnds(thread) ==
    /\ phase = "run"
    /\ phase' \in {"exit", "asleep"}
    /\ failed' = [obj |-> TM_OBJECT_MAX, step |-> 0, why |-> thread]
    /\ UNCHANGED <<objVars, argv, obj, step, releases, held, msecs, itimer, idFailed>>

SetItimerFails ==
    /\ itimer = "unset"
    /\ msecs < 0
    /\ ThreadEnds("event manager")

\* The event manager: a signal handler that cannot be set, a failing callback.
\* The X thread: a broken connection or ESC.
Stop == \E thread \in {"event manager", "X thread"} : ThreadEnds(thread)

\* a redraw of everything
Draw ==
    /\ phase = "run"
    /\ phase' = IF Misused(DrawUses) THEN "undefined" ELSE phase
    /\ UNCHANGED <<objVars, argv, obj, step, releases, held, msecs, itimer,
                   idFailed, failed>>

\* The program ran and was stopped by the other thread: pthread_join waits for
\* the X thread, which waits for an event of the X server, or for the event
\* manager, which has set its timer and is in pause, a callback or its handler.
\* After a failed init neither of the two comes to wait for anything.
JoinWaits ==
    /\ phase = "exit"
    /\ releases # <<>>
    /\ \/ Head(releases) = XThread /\ failed.why = "event manager"
       \/ /\ Head(releases) = EventManager /\ failed.why = "X thread"
          /\ itimer # "unset"
    /\ phase' = "joining"
    /\ UNCHANGED <<objVars, argv, obj, step, releases, held, msecs, itimer,
                   idFailed, failed>>

\* Give back one resource; a timer that is not on the list is not deleted.
Release ==
    /\ phase = "exit"
    /\ releases # <<>>
    /\ LET r == Head(releases) IN
       /\ IF \/ r \notin held /\ r \notin AllTimers
             \/ \E d \in held : r \in DependsOn(d)
          THEN phase' = "undefined" ELSE UNCHANGED phase
       /\ held' = held \ {r}
    /\ releases' = Tail(releases)
    /\ UNCHANGED <<objVars, argv, obj, step, msecs, itimer, idFailed, failed>>

\* tm_exit_all from exit_idx - 1 down to 0
ExitNext ==
    /\ phase = "exit"
    /\ releases = <<>>
    /\ obj > MAIN
    /\ obj' = obj - 1
    /\ releases' = ExitOf[obj - 1]
    /\ UNCHANGED <<objVars, phase, argv, step, held, msecs, itimer, idFailed, failed>>

\* tm_tc_free, and main returns
Free ==
    /\ phase = "exit"
    /\ releases = <<>>
    /\ obj = MAIN
    /\ phase' = "end"
    /\ held' = held \ {<<MAIN, "tc">>}
    /\ UNCHANGED <<objVars, argv, obj, step, releases, msecs, itimer, idFailed, failed>>

StartGoesOn ==
    \/ \E id \in Objects : Constructor(id)
    \/ \E words \in Argvs : MainStarts(words)
    \/ AllocFails \/ LayoutStarts \/ LayoutStep
    \/ InitParses \/ InitCalls \/ InitProceeds \/ InitWm \/ InitGenerateId
    \/ InitGenerateIdFails \/ InitTemp \/ InitTimerCb \/ InitWaits
    \/ InitRateEndless \/ InitOverflows \/ InitNext
    \/ SetItimer \/ SetItimerFails \/ Draw
    \/ JoinWaits \/ Release \/ ExitNext \/ Free

StartNext == StartGoesOn \/ Stop

\* Main, and the event manager up to setitimer, go on as long as they can.  That
\* a call returns which waits for somebody else is not promised: where it does
\* not, InitWaits, JoinWaits or the "asleep" of ThreadEnds is the step.  The
\* other calls (allocation, local files, /proc, /sys) are taken to return.
\* Stop is the user's, or a failure's, and may never come.
StartSpec == StartInit /\ [][StartNext]_vars /\ WF_vars(StartGoesOn)

-----------------------------------------------------------------------------
StartTypeOK ==
    /\ ObjTypeOK
    /\ phase \in Phases
    /\ obj \in 0 .. TM_OBJECT_MAX
    /\ phase = "init" => obj \in Objects /\ step \in 1 .. Len(InitOf[obj]) + 1
    /\ msecs \in Int
    /\ itimer \in {"unset", "armed", "disarmed"}

\* Everything that lives as long as the main loop.
LongLived == DrawUses \cup AllTimers \cup {<<MAIN, "tc">>, XThread, EventManager}

\* When main starts to draw, all inits have left exactly what the program
\* needs: nothing that is drawn or called is missing, and no file handle,
\* temporary surface or socket of an init is still there.
RunHoldsExactly == phase = "run" => held = LongLived

\* What is lost when the process ends after its first failure: the icons and
\* timers of a widget whose forced callback failed (its init returns without
\* giving them back, and its exit is not run), and the connection object when
\* xcb_connect failed.
Forgotten ==
    IF /\ failed.obj \in Widgets
       /\ InitOf[failed.obj][failed.step].do = "timer_cb"
    THEN Icons(failed.obj) \cup {t \in AllTimers : t[1] = failed.obj}
    ELSE IF failed.obj = X /\ failed.step = 3 THEN {Conn} ELSE {}

\* Wherever an init fails, the labels of that init and the exits of the
\* objects before it together give back everything else.
NothingElseForgotten == phase = "end" => held = Forgotten

\* Nothing is used, given back or left depending on something that is not
\* held any more (or not yet): not on any path through the error labels, the
\* exits and the drawing - but for the failure of xcb_generate_id, after
\* which tm_x_init goes on with a connection that was closed.
UsesHeldOnly == phase = "undefined" => idFailed

\* Each object parses argv on its own; the arguments it ends up with are
\* those a single parser of all options would have given it, unless some
\* argument is spelled like an option.  (So the option itself can stand for
\* "none given", which an empty argument is not.)
Parsed(o) ==
    /\ phase = "init"
    /\ o < obj \/ (o = obj /\ step > 1)
    /\ ~MissingArgument(Own[o], argv)

ParsesAgree == \A o \in Objects : \A option \in Own[o] :
    Parsed(o) /\ ~ArgumentIsOption(argv) =>
        Argument(Own[o], argv, option, option) = Meant(argv, option, option)

\* A process that was running, its timer not set, and cannot come to its end:
\* main sleeps through the stop (tm_x.c:995, tm_thread.c:234), or the event
\* manager stopped it and tm_x_exit joins the X thread while the X server is
\* silent (tm_x.c:1100).
StopHangs ==
    /\ failed.obj = TM_OBJECT_MAX /\ itimer = "unset"
    /\ \/ phase = "asleep"
       \/ /\ phase = "joining" /\ Head(releases) = XThread
          /\ failed.why = "event manager"

\* What an init leads to that neither succeeds nor fails: it waits for the X
\* server, a file system or netlink; an interval of zero makes an infinite rate;
\* a negative one, or a word that is too long, overflows a buffer.
InitHangs ==
    \/ phase = "waiting" /\ obj \in {X, DISK, NET}
    \/ phase = "endless" /\ NetInterval = 0
    \/ phase = "overflow" /\ \/ NetInterval < 0
                              \/ GivenTooLong(DISK, "--mount_point")
                              \/ GivenTooLong(NET, "--if_name")

\* Liveness: the process comes to run with its timer armed (disarmed for an
\* interval of zero, or one that is not a number), or it ends; or it gets to one
\* of the named outcomes of an init or of a stop before the timer was set, or to
\* what the failure of xcb_generate_id leads to.  A failed init always ends.
StartupSettles ==
    <>(\/ phase = "run" /\ itimer = "armed"
       \/ phase = "run" /\ itimer = "disarmed" /\ NetInterval = 0
       \/ phase = "end"
       \/ phase = "undefined" /\ idFailed
       \/ InitHangs
       \/ StopHangs)
=============================================================================
