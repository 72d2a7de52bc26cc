-------------------------------- MODULE TmStat -------------------------------
(***************************************************************************)
(* The numbers of the widgets and the texts made of them (tm_clock.c,      *)
(* tm_cpu.c, tm_mem.c, tm_disk.c, tm_net.c, tm_item.c).  A text is how     *)
(* many digits and dots it has and the number it reads as; a printed       *)
(* fraction is rounded to the nearest, ties to even.  Numbers that C keeps *)
(* in a double are exact here.                                             *)
(***************************************************************************)
EXTENDS Integers, Sequences, FiniteSets, FiniteSetsExt

CONSTANT
    Word        \* 2^64: the modulus of unsigned long and u64

ASSUME WordAssumption == Word \in Nat \ {0} /\ Word % 1024 = 0

Text(digits, dots, value) == [digits |-> digits, dots |-> dots, value |-> value]

NoText == Text(0, 0, -1)

\* printf's rounding of scale * n / d to a whole number
Rounded(n, d, scale) ==
    LET q == scale * (n \div d) + (scale * (n % d)) \div d
        r == (scale * (n % d)) % d
    IN  IF 2 * r > d \/ (2 * r = d /\ q % 2 = 1) THEN q + 1 ELSE q

-----------------------------------------------------------------------------
(* Clock.                                                                  *)

\* Mutant: the hours of the whole uptime.
UptimeAllHours(uptime) ==
    LET minutes == uptime \div 60
    IN  [days |-> uptime \div 86400, hours |-> minutes \div 60,
         minutes |-> minutes % 60]

\* tm_clock_uptime_update
Uptime(uptime) ==
    LET minutes == uptime \div 60
    IN  [days |-> uptime \div 86400, hours |-> (minutes \div 60) % 24,
         minutes |-> minutes % 60]

Tens == {10, 100, 1000, 10000, 100000, 1000000, 10000000, 100000000}

\* "%d" of a number that is not too large
Decimal(n) ==
    LET abs == IF n < 0 THEN -n ELSE n
    IN  Text((IF n < 0 THEN 2 ELSE 1) + Cardinality({p \in Tens : p <= abs}), 0, n)

\* Mutant: "%.2f" is not cut.
FourCharsUncut(h) == Text((IF h < 1000 THEN 0 ELSE Decimal(h \div 1000).digits) + 3, 1, h)

\* The text of a number of hundredths, cut after its third character when the
\* fourth is the dot and after the fourth otherwise; its value in hundredths.
FourChars(h) ==
    IF h < 1000 THEN Text(3, 1, h)
    ELSE IF h < 10000 THEN Text(3, 1, h - (h % 10))
    ELSE IF h < 100000 THEN Text(3, 0, h - (h % 100))
    ELSE IF h < 1000000 THEN Text(4, 0, h - (h % 100))
    ELSE Text(4, 0, 100 * (h \div (10 ^ (Decimal(h).digits - 4))))

\* tm_clock_loadavg_str: a load has 16 bits of fraction
LoadText(load) == FourChars(Rounded(load, 65536, 100))

-----------------------------------------------------------------------------
(* Amounts with a unit: bytes by 1024, bits and bytes of the net by 1000.  *)
(* An amount is n / d.                                                     *)

Units == 0 .. 6     \* " kMGTPE"

\* "data /= base", as often as there are units: the whole parts of what is left
Divided(n, base) ==
    LET data[k \in Units] == IF k = 0 THEN n ELSE data[k - 1] \div base IN data

\* An unsigned long is not beyond the last unit: 2^64 is 16 E.
ASSUME UnitAssumption == \A base \in {1000, 1024} : Divided(Word, base)[6] < 1000

\* how much a unit is
UnitSize(base) ==
    LET size[k \in Units] == IF k = 0 THEN 1 ELSE base * size[k - 1] IN size

\* Mutant: the largest amount of a unit is base, not 1000.
UnitOfBase(n, d, base) == Min({k \in Units : Divided(n, base)[k] < base * d} \cup {7})

\* "while (data >= 1000)": how often the amount is divided; 7 is past the letters.
UnitOf(n, d, base) == Min({k \in Units : Divided(n, base)[k] < 1000 * d} \cup {7})

\* tm_item_data_unit_update, tm_net_stat_update
AmountText(n, d, base) ==
    FourChars(Rounded(n, d * UnitSize(base)[UnitOf(n, d, base)], 100))

\* the bytes counted in an interval of so many milliseconds, in bits per second
RateText(bytes, msecs) == AmountText(bytes * 8000, msecs, 1000)

\* The unit is empty for bytes; otherwise it is a letter.
UnitText(n, d, base) == Text(IF UnitOf(n, d, base) = 0 THEN 0 ELSE 1, 0, UnitOf(n, d, base))

\* tm_disk_timer_cb
DiskUsed(fs) == ((fs.blocks - fs.bfree) * fs.bsize) % Word
DiskTotal(fs) == (fs.blocks * fs.bsize) % Word

-----------------------------------------------------------------------------
(* Memory: /proc/meminfo is a sequence of lines with a label and a number. *)

MemLabels == {"MemTotal", "MemFree", "Buffers", "Cached", "SReclaimable"}

\* What is stored for a label: the number of its first line that has one.
MemValue(lines, label) ==
    LET hits == {i \in DOMAIN lines : lines[i].label = label /\ lines[i].number >= 0}
    IN  IF hits = {} THEN 0 ELSE lines[Min(hits)].number

MemTotal(lines) == MemValue(lines, "MemTotal")

MemUsed(lines) ==
    (MemTotal(lines) - MemValue(lines, "MemFree") - MemValue(lines, "Buffers")
     - MemValue(lines, "Cached") - MemValue(lines, "SReclaimable")) % Word

\* "*= 1024", modulo Word
Kilo(n) == 1024 * (n % (Word \div 1024))

-----------------------------------------------------------------------------
(* CPU.  The ten counters of /proc/stat go into three groups; the sum of   *)
(* differences of a group is the difference of its sums, modulo Word.      *)

Groups == {"us", "sy", "id"}

CpuDif(old, now) == [g \in Groups |-> (now[g] - old[g]) % Word]

CpuTotal(dif) == (dif["us"] + dif["sy"] + dif["id"]) % Word

\* tm_cpu_usage_update: the text of a number of tenths, cut after its fourth
\* character when the third is the dot and after the third otherwise; 0 / 0
\* prints as "-nan" and is cut to "-na", other quotients by 0 print as "inf".
NaN == -1
Infinite == -2
UsageText(g, dif) ==
    IF CpuTotal(dif) = 0 THEN Text(3, 0, IF dif[g] = 0 THEN NaN ELSE Infinite)
    ELSE LET tenths == Rounded(dif[g], CpuTotal(dif), 1000)
         IN  IF tenths < 100 THEN Text(2, 1, tenths)
             ELSE IF tenths < 1000 THEN Text(3, 1, tenths)
             ELSE Text(3, 0, tenths - (tenths % 10))

\* tm_cpu_temp_celcius_update: C divides towards zero
Celsius(millis) == IF millis < 0 THEN -((-millis) \div 1000) ELSE millis \div 1000
=============================================================================
