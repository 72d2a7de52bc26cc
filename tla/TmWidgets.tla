------------------------------ MODULE TmWidgets ------------------------------
(***************************************************************************)
(* What the widgets show: their timer callbacks read numbers, make texts   *)
(* of them (TmStat) and put the items whose text has changed on the list;  *)
(* the main loop draws the items of the list, or everything (TmLayout).    *)
(* The rows do not touch each other, so one is followed at a time.  How a  *)
(* change gets from the callback to the main loop, and what can be lost on *)
(* the way, is the subject of TmItem; how net gets its numbers, of TmNet.  *)
(***************************************************************************)
EXTENDS TmLayout

CONSTANTS
    Lengths,        \* of a date, a frequency governor, a state or an address
    Uptimes, Loads, \* what sysinfo tells
    CpuSteps,       \* what the counters of /proc/stat may gain in between
    MaxSteps,       \* bound: how often /proc/stat is read
    Temperatures, MemInfos, FileSystems,
    Counts,         \* bytes of the interface: in an interval, and in all
    Interval,       \* net->interval
    Geometries

ASSUME UptimeAssumption == Uptimes \subseteq Nat
ASSUME LengthAssumption == Lengths \subseteq Nat
ASSUME LoadAssumption == \A l \in Loads : l \in [1 .. 3 -> Nat]
ASSUME TemperatureAssumption == Temperatures \subseteq Int

\* What there is of memory and of a file system has at most 2^64 bytes.
ASSUME MemAssumption ==
    \A lines \in MemInfos :
        /\ DOMAIN lines \subseteq Nat
        /\ \A i \in DOMAIN lines : lines[i].number \in Int /\ 1024 * lines[i].number < Word

ASSUME FileSystemAssumption ==
    \A fs \in FileSystems : /\ fs.blocks \in Nat /\ fs.bfree \in 0 .. fs.blocks
                            /\ fs.bsize \in Nat /\ fs.blocks * fs.bsize < Word

\* No interface is faster than 1000 E bits in a second.
ASSUME CountAssumption ==
    /\ Interval \in Nat \ {0}
    /\ \A c \in Counts : /\ c \in [1 .. 2 -> 0 .. Word - 1]
                         /\ Divided(8000 * c[1], 1000)[6] < 1000 * Interval

\* A font of one pixel has no margin.
ASSUME GeometryAssumption ==
    /\ Geometries # {}
    /\ \A g \in Geometries : g.font \in Nat \ {0, 1} /\ g.icon \in Nat /\ g.temps \in Nat

\* In all MaxSteps readings the three groups together gain at most Word / 2.
ASSUME StepAssumption ==
    /\ MaxSteps \in Nat
    /\ \A s \in CpuSteps : \A g \in {"us", "sy", "id"} :
          s[g] \in Int /\ 6 * (MaxSteps * s[g]) <= Word

VARIABLES
    row,
    geo,
    phase,      \* "run", "stopped" and "undefined": what C does not define
    seen,       \* history: what the last callback that went well has read
    cpu,        \* cpu->stat, by group
    stat,       \* kernel: the counters of /proc/stat
    gained,     \* history: what they have gained since cpu->stat, not modulo
    steps,      \* how often it was read
    texts, widths,  \* item->str, item->width
    dirty,      \* the items on the list
    screen,
    drawn,      \* history: was everything drawn once
    wide        \* history: was some text ever too wide

widgetVars == <<row, geo, phase, seen, cpu, stat, gained, steps, texts, widths, dirty,
                screen, drawn, wide>>

WidgetInit ==
    /\ row \in RowNames
    /\ geo \in Geometries
    /\ row # "date" => geo = CHOOSE g \in Geometries : TRUE
    /\ phase = "run"
    /\ seen = <<>>
    /\ \E n \in {0, Word - 2} :   \* after boot, and later
         /\ row # "usage" => n = 0
         /\ cpu = [g \in Groups |-> n]
         /\ stat = [g \in Groups |-> n]
    /\ gained = [g \in Groups |-> 0]
    /\ steps = 0
    /\ texts = [i \in DOMAIN Items(row) |-> Items(row)[i].text]
    /\ widths = [i \in DOMAIN Items(row) |-> Items(row)[i].width]
    /\ dirty = {}
    /\ screen = Emptied
    /\ drawn = FALSE
    /\ wide = FALSE

\* tm_item_cmp_and_update, called for the items of "new"
Update(new) ==
    /\ texts' = [i \in DOMAIN texts |-> IF i \in DOMAIN new THEN new[i] ELSE texts[i]]
    /\ dirty' = dirty \cup {i \in DOMAIN texts : texts'[i] # texts[i]}
    /\ wide' = (wide \/ \E i \in DOMAIN texts : TooWide(row, i, texts'[i]))
    /\ UNCHANGED <<row, geo, widths, screen, drawn>>

\* the new texts of the items at these places
At(places, new) ==
    [i \in {places[n] : n \in DOMAIN places} |->
        new[CHOOSE n \in DOMAIN places : places[n] = i]]

NotCpu == UNCHANGED <<phase, cpu, stat, gained, steps>>

\* sysinfo, strftime, fopen, sscanf, statfs or netlink fails; or err of
\* tm_cpu_item_temp_update is not initialized.
CallbackFails ==
    /\ phase = "run"
    /\ phase' = "stopped"
    /\ UNCHANGED <<row, geo, seen, cpu, stat, gained, steps, texts, widths, dirty, screen,
                   drawn, wide>>

-----------------------------------------------------------------------------
(* The callbacks, as far as the row is concerned.                          *)

DateTick(length) ==
    /\ phase = "run" /\ row = "date"
    /\ Update(At(<<1>>, <<Text(length, 0, 0)>>))
    /\ NotCpu /\ UNCHANGED seen

UptimeTick(uptime) ==
    /\ phase = "run" /\ row = "uptime"
    /\ LET u == Uptime(uptime)
       IN  Update(At(<<2, 4, 6>>, <<Decimal(u.days), Decimal(u.hours), Decimal(u.minutes)>>))
    /\ seen' = <<uptime>>
    /\ NotCpu

LoadTick(loads) ==
    /\ phase = "run" /\ row = "load"
    /\ Update(At(<<2, 4, 6>>, [n \in 1 .. 3 |-> LoadText(loads[n])]))
    /\ seen' = loads
    /\ NotCpu

\* Mutant: the counters are not kept.
CpuKeepsOld(now) == UNCHANGED cpu

CpuKeeps(now) == cpu' = now

\* A counter went backwards: its difference is close to 2^64, and its share
\* of the total has more digits than buf has room for.
ShareOverflows(dif) == \E g \in Groups : 2 * dif[g] > Word /\ CpuTotal(dif) # 0

\* tm_cpu_item_usage_update
UsageTick(step) ==
    /\ phase = "run" /\ row = "usage"
    /\ steps < MaxSteps
    /\ steps' = steps + 1
    /\ stat' = [g \in Groups |-> (stat[g] + step[g]) % Word]
    /\ LET dif == CpuDif(cpu, stat')
       IN  /\ CpuKeeps(stat')
           /\ seen' = [g \in Groups |-> gained[g] + step[g]]
           /\ gained' = [g \in Groups |-> 0]
           /\ IF ShareOverflows(dif)
              THEN phase' = "undefined" /\ UNCHANGED <<row, geo, texts, widths, dirty, screen,
                                                       drawn, wide>>
              ELSE /\ UNCHANGED phase
                   /\ Update(At(<<2, 4, 6>>, <<UsageText("us", dif), UsageText("sy", dif),
                                               UsageText("id", dif)>>))

\* "unknown format": reported as a success, cpu->stat stays
UsageUnknown(step) ==
    /\ phase = "run" /\ row = "usage"
    /\ steps < MaxSteps
    /\ steps' = steps + 1
    /\ stat' = [g \in Groups |-> (stat[g] + step[g]) % Word]
    /\ gained' = [g \in Groups |-> gained[g] + step[g]]
    /\ UNCHANGED <<row, geo, phase, seen, cpu, texts, widths, dirty, screen, drawn, wide>>

\* tm_cpu_item_freq_update: the file names of the driver and the governor
FreqTick(length) ==
    /\ phase = "run" /\ row = "freq"
    /\ Update(At(<<1>>, <<Text(length, 0, 0)>>))
    /\ NotCpu /\ UNCHANGED seen

TempTick(millis) ==
    /\ phase = "run" /\ row = "temp"
    /\ Update(At(<<2>>, <<Decimal(Celsius(millis))>>))
    /\ seen' = <<millis>>
    /\ NotCpu

\* tm_mem_timer_cb: a label that is not found counts as 0
MemTick(lines) ==
    /\ phase = "run" /\ row = "ram"
    /\ LET used == Kilo(MemUsed(lines))
           total == Kilo(MemTotal(lines))
       IN  Update(At(<<1, 2, 4, 5>>, <<AmountText(used, 1, 1024), UnitText(used, 1, 1024),
                                       AmountText(total, 1, 1024), UnitText(total, 1, 1024)>>))
    /\ seen' = lines
    /\ NotCpu

DiskTick(fs) ==
    /\ phase = "run" /\ row = "disk"
    /\ Update(At(<<2, 3, 5, 6>>,
                 <<AmountText(DiskUsed(fs), 1, 1024), UnitText(DiskUsed(fs), 1, 1024),
                   AmountText(DiskTotal(fs), 1, 1024), UnitText(DiskTotal(fs), 1, 1024)>>))
    /\ seen' = <<fs>>
    /\ NotCpu

\* tm_net_ip_state_update: an address that is gone is an empty text
StateTick(length) ==
    /\ phase = "run"
    /\ \/ row = "state" /\ length \in {2, 4} /\ Update(At(<<2>>, <<Text(length, 0, 0)>>))
       \/ row = "addr" /\ Update(At(<<1>>, <<Text(length, 0, 0)>>))
       \/ row = "addr" /\ Update(At(<<1>>, <<NoText>>))
    /\ NotCpu /\ UNCHANGED seen

\* tm_net_ip_stat_update
NetTick(count) ==
    /\ phase = "run" /\ row = "net"
    /\ Update(At(<<2, 3, 5, 6>>,
                 <<RateText(count[1], Interval), UnitText(8000 * count[1], Interval, 1000),
                   AmountText(count[2], 1, 1000), UnitText(count[2], 1, 1000)>>))
    /\ seen' = count
    /\ NotCpu

-----------------------------------------------------------------------------
(* The main loop.                                                          *)

\* the next item of a list that tm_draw_list goes through
DrawOne(i) ==
    /\ phase = "run"
    /\ i \in dirty
    /\ dirty' = dirty \ {i}
    /\ screen' = DrawText(row, screen, i, texts[i], widths[i])
    /\ widths' = [widths EXCEPT ![i] = WidthDrawn(row, i, texts[i], @)]
    /\ UNCHANGED <<row, geo, phase, seen, cpu, stat, gained, steps, texts, drawn, wide>>

\* an Expose: tm_draw_all instead of the list
DrawAll ==
    /\ phase = "run"
    /\ dirty' = {}
    /\ screen' = DrawRow(row, texts, widths)
    /\ widths' = [i \in DOMAIN widths |-> WidthDrawn(row, i, texts[i], widths[i])]
    /\ drawn' = TRUE
    /\ UNCHANGED <<row, geo, phase, seen, cpu, stat, gained, steps, texts, wide>>

WidgetNext ==
    \/ CallbackFails
    \/ (\E n \in Lengths : DateTick(n) \/ FreqTick(n) \/ StateTick(n))
    \/ (\E u \in Uptimes : UptimeTick(u)) \/ (\E l \in Loads : LoadTick(l))
    \/ (\E s \in CpuSteps : UsageTick(s) \/ UsageUnknown(s))
    \/ (\E t \in Temperatures : TempTick(t)) \/ (\E m \in MemInfos : MemTick(m))
    \/ (\E fs \in FileSystems : DiskTick(fs))
    \/ (\E n \in Counts : NetTick(n))
    \/ (\E i \in DOMAIN texts : DrawOne(i)) \/ DrawAll

WidgetSpec == WidgetInit /\ [][WidgetNext]_widgetVars

-----------------------------------------------------------------------------
\* Drawing item by item only what has changed leaves the screen as drawing
\* everything would: nothing of an older text is left, nothing else of the
\* row is wiped out.  It holds as long as no text was too wide.
RedrawComplete ==
    drawn /\ dirty = {} /\ phase = "run" /\ ~wide => screen = DrawRow(row, texts, widths)

Abs(n) == IF n < 0 THEN -n ELSE n

\* The amount n / d in the unit that makes it less than 1000 and no smaller
\* unit does; in hundredths, rounded down.
Whole(n, d, base) ==
    CHOOSE k \in Units : /\ n \div UnitSize(base)[k] < 1000 * d
                         /\ k > 0 => n \div UnitSize(base)[k - 1] >= 1000 * d
Hundredths(n, d, base) ==
    LET unit == d * UnitSize(base)[Whole(n, d, base)]
    IN  100 * (n \div unit) + (100 * (n % unit)) \div unit

\* A text of such an amount reads as it up to its last digit, in that unit.
Reads(amount, unit, n, d, base) ==
    LET h == Hundredths(n, d, base)
        last == IF h < 999 THEN 1 ELSE IF h < 9999 THEN 10 ELSE 100
    IN  /\ unit.value = Whole(n, d, base)
        /\ amount.value <= h + 1 /\ h - last <= amount.value

\* what the kernel says first of a label
Told(lines, label) == lines[Min({i \in DOMAIN lines : lines[i].label = label})].number

NotUsed(lines) == Told(lines, "MemFree") + Told(lines, "Buffers") + Told(lines, "Cached")
                  + Told(lines, "SReclaimable")

\* The kernel told everything, and it makes sense.
Complete(lines) ==
    /\ \A l \in MemLabels : \E i \in DOMAIN lines : lines[i].label = l
    /\ \A i \in DOMAIN lines : lines[i].number >= 0
    /\ NotUsed(lines) <= Told(lines, "MemTotal")

\* Loads, memory, disk and network read as what the kernel said, whatever
\* the unit: the scaling and the cutting of the text agree at every boundary.
\* Memory in use is not, when a label is missing or the labels do not add up.
AmountsTrue ==
    seen # <<>> =>
      /\ row = "load" => \A n \in 1 .. 3 :
            seen[n] < 1000 * 65536 => Reads(texts[2 * n], Text(0, 0, 0), seen[n], 65536, 1024)
      /\ row = "ram" /\ Complete(seen) =>
            LET total == Told(seen, "MemTotal")
            IN  /\ Reads(texts[1], texts[2], 1024 * (total - NotUsed(seen)), 1, 1024)
                /\ Reads(texts[4], texts[5], 1024 * total, 1, 1024)
      /\ row = "disk" =>
            /\ Reads(texts[2], texts[3], (seen[1].blocks - seen[1].bfree) * seen[1].bsize, 1, 1024)
            /\ Reads(texts[5], texts[6], seen[1].blocks * seen[1].bsize, 1, 1024)
      /\ row = "net" =>
            /\ Reads(texts[2], texts[3], 8000 * seen[1], Interval, 1000)
            /\ Reads(texts[5], texts[6], seen[2], 1, 1000)

\* Days, hours and minutes together are the uptime in minutes.
UptimeTrue ==
    row = "uptime" /\ seen # <<>> =>
        /\ 1440 * texts[2].value + 60 * texts[4].value + texts[6].value = seen[1] \div 60
        /\ texts[4].value \in 0 .. 23 /\ texts[6].value \in 0 .. 59

\* Each share reads as what its group has gained of the total since the last
\* file that was understood - the ones of an unknown format in between are
\* not lost - though the counters wrap.  When nothing was gained there is no
\* number; when a counter went backwards there may be a wrong one, and what
\* C does not define.
UsageTrue ==
    row = "usage" /\ seen # <<>> =>
        LET total == seen["us"] + seen["sy"] + seen["id"]
            share == [us |-> 2, sy |-> 4, id |-> 6]
        IN  \/ \E g \in Groups : seen[g] < 0
            \/ phase # "undefined"
               /\ \A g \in Groups :
                    LET text == texts[share[g]] IN
                    IF total = 0 THEN text.value = NaN
                    ELSE 2 * Abs(text.value * total - 1000 * seen[g]) <= total

\* The texts are made for their places; the ones that are not are those of
\* the 100th day, of a load of 1000, of temperatures from 100 or below -9
\* degrees, of an amount that rounds up to 1000 of its unit, and of a
\* changeable text that is long.
TextsFit ==
    \A i \in DOMAIN texts : TooWide(row, i, texts[i]) =>
        \/ row = "uptime" /\ i = 2 /\ seen[1] >= 100 * 86400
        \/ row = "load" /\ seen[i \div 2] >= 1000 * 65536 - 327
        \/ row = "temp" /\ (seen[1] >= 100000 \/ seen[1] <= -10000)
        \/ row \in {"ram", "disk", "net"} /\ texts[i].value = 100000
        \/ Items(row)[i].kind = "changeable"

\* The rows of an object lie one below the other inside its area, areas are
\* disjoint, and the line between two of them touches neither; for this the
\* icon has to be twice as high as the font (--icon_scale, 2.2 by default).
AreasDisjoint ==
    drawn /\ geo.icon >= 2 * geo.font =>
        /\ \A o \in Drawn : \A y \in RowTops(o, geo) :
             /\ 0 <= y /\ y + Font(geo) <= AreaHeight(o, geo)
             /\ \A z \in RowTops(o, geo) : y < z => y + Font(geo) <= z
        /\ \A o \in Drawn \ {Clock} :
             /\ Origin(o - 1, geo) + AreaHeight(o - 1, geo) < LineAbove(o, geo)
             /\ LineAbove(o, geo) < Origin(o, geo)
=============================================================================
